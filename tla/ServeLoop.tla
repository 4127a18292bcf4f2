------------------------------ MODULE ServeLoop ------------------------------
(***************************************************************************)
(* The daemon process between its start and its end, and the calls made to *)
(* it: the socket path, the loop over the two listeners, a request read    *)
(* and answered on its connection, stop signals, and the client's attempts *)
(* (mem_service_run_unix_daemon_with_runtime, mem_service_handle_client,   *)
(* mem_service_handle_metrics_http_client in mem_service_daemon.c;         *)
(* mem_service_wire_client.c).                                             *)
(*                                                                         *)
(* The daemon reads and writes without a deadline, one connection at a     *)
(* time.  A stop signal sets a flag that only the loop looks at.  What a   *)
(* request does to the tables is the subject of DurableDaemon: here it is  *)
(* executed, as a whole, when it has been read.                            *)
(***************************************************************************)
EXTENDS Integers, Sequences, FiniteSets

CONSTANTS
    Calls,         \* the calls made to the daemon
    Kind,          \* call -> "op", "over" (beyond max_payload_bytes), "alien" (header not
                   \* compatible), "scrape" (metrics over HTTP, in one segment) or
                   \* "split" (the same in two segments)
    MaxAttempts,   \* options->max_attempts
    RetryTimeouts, \* options->retry_on_timeout
    Impatient,     \* calls whose timeout_ms may pass
    Stalling,      \* calls that may stop in the middle of a request
    PipeIgnored,   \* whether the daemon runs with SIGPIPE ignored
    MayFail,       \* whether opening or accepting may fail
    MaxStarts,     \* bound: starts of the daemon
    MaxSignals     \* bound: stop signals

Attempts == Calls \X (1 .. MaxAttempts)
Nobody == <<>>

\* What the constants must satisfy.
ASSUME ServeAssumption ==
    /\ \A c \in Calls : Kind[c] \in {"op", "over", "alien", "scrape", "split"}
    /\ MaxAttempts \in Nat \ {0} /\ Stalling \subseteq Calls /\ Impatient \subseteq Calls
    /\ {RetryTimeouts, PipeIgnored, MayFail} \subseteq BOOLEAN
    /\ MaxStarts \in Nat /\ MaxSignals \in Nat

VARIABLES
    proc,      \* the process: where it is, the stop flag, the ready listeners, its client
    path,      \* what the socket path names: "none", "stale", "bound" or "live"
    queues,    \* the connections made and not accepted, on the two listeners
    conn,      \* attempt -> its connection
    calls,     \* call -> where the client is
    executed,  \* history: attempts whose request was executed
    starts,    \* starts so far
    signals    \* signals so far

vars == <<proc, path, queues, conn, calls, executed, starts, signals>>
daemonVars == <<proc, path, executed, starts>>
clientVars == <<calls, signals>>

\* sent: 1 for the header, 2 for all.  open: the daemon's end is.
NoConn == [sent |-> 0, hungUp |-> FALSE, open |-> FALSE, reply |-> "none"]
Down == [pc |-> "down", stop |-> FALSE, fds |-> {}, cur |-> Nobody, answer |-> "none"]
NoQueues == [unix |-> <<>>, metrics |-> <<>>]

\* Before the first start, or with a daemon that serves.
Init ==
    /\ \/ proc = Down /\ path = "none" /\ MaxStarts > 0
       \/ proc = [Down EXCEPT !.pc = "check"] /\ path = "live" /\ MaxStarts = 0
    /\ queues = NoQueues
    /\ conn = [a \in Attempts |-> NoConn]
    /\ calls = [c \in Calls |-> [pc |-> "ready", try |-> 1, late |-> 0]]
    /\ executed = {} /\ starts = 0 /\ signals = 0

-----------------------------------------------------------------------------
(* The client: one connection for each attempt.                            *)

Http(c) == Kind[c] \in {"scrape", "split"}
Listener(c) == IF Http(c) THEN "metrics" ELSE "unix"
Mine(c) == <<c, calls[c].try>>
Listening(c) == IF Listener(c) = "unix" THEN path = "live"
                ELSE proc.pc \notin {"down", "bound", "listening"}

\* Mutant: whatever did not succeed is tried again.
ShouldRetryAll(delivered, timedOut, try) == try < MaxAttempts

\* mem_service_client_should_retry.
ShouldRetry(delivered, timedOut, try) ==
    try < MaxAttempts /\ (~delivered \/ (timedOut /\ RetryTimeouts))

\* The attempt has failed; the loop of mem_service_send_unix_request_with_options.
\* Timeouts that the caller wants retried are counted.
Failed(c, delivered, timedOut) ==
    LET me == calls[c]
        asked == delivered /\ timedOut /\ RetryTimeouts
    IN  IF ~Http(c) /\ ShouldRetry(delivered, timedOut, me.try)
        THEN [pc |-> "ready", try |-> me.try + 1, late |-> me.late + (IF asked THEN 1 ELSE 0)]
        ELSE [me EXCEPT !.pc = "failed"]

Connect(c) ==
    /\ calls[c].pc = "ready" /\ Listening(c)
    /\ queues' = [queues EXCEPT ![Listener(c)] = Append(@, Mine(c))]
    /\ conn' = [conn EXCEPT ![Mine(c)] = [NoConn EXCEPT !.open = TRUE]]
    /\ calls' = [calls EXCEPT ![c].pc = "header"]
    /\ UNCHANGED <<daemonVars, signals>>

\* Nobody listens on the path.
ConnectFails(c) ==
    /\ calls[c].pc = "ready" /\ ~Listening(c)
    /\ calls' = [calls EXCEPT ![c] = Failed(c, FALSE, FALSE)]
    /\ UNCHANGED <<daemonVars, queues, conn, signals>>

\* mem_service_client_write_full of the header, then of the payload.  A write
\* to a connection that the daemon has closed kills the client.
Write(c) ==
    LET me == calls[c]
    IN  /\ me.pc \in {"header", "payload"}
        /\ \/ /\ conn[Mine(c)].open
              /\ conn' = [conn EXCEPT ![Mine(c)].sent = IF Kind[c] = "scrape" THEN 2 ELSE @ + 1]
              /\ calls' = [calls EXCEPT ![c].pc =
                     IF me.pc = "header" /\ Kind[c] # "scrape" THEN "payload" ELSE "wait"]
           \/ /\ ~conn[Mine(c)].open
              /\ conn' = [conn EXCEPT ![Mine(c)].hungUp = TRUE]
              /\ calls' = [calls EXCEPT ![c].pc = "killed"]
        /\ UNCHANGED <<daemonVars, queues, signals>>

\* The response, or the end of the connection, is read.
Read(c) ==
    /\ calls[c].pc = "wait" /\ ~conn[Mine(c)].open
    /\ conn' = [conn EXCEPT ![Mine(c)].hungUp = TRUE]
    /\ calls' = [calls EXCEPT ![c] =
           IF conn[Mine(c)].reply = "none" THEN Failed(c, TRUE, FALSE)
           ELSE [@ EXCEPT !.pc = IF conn[Mine(c)].reply = "ok" THEN "ok" ELSE "refused"]]
    /\ UNCHANGED <<daemonVars, queues, signals>>

\* SO_SNDTIMEO or SO_RCVTIMEO passes: the client closes its end.
Timeout(c) ==
    /\ c \in Impatient /\ calls[c].pc \in {"header", "payload", "wait"} /\ conn[Mine(c)].open
    /\ conn' = [conn EXCEPT ![Mine(c)].hungUp = TRUE]
    /\ calls' = [calls EXCEPT ![c] = Failed(c, calls[c].pc = "wait", TRUE)]
    /\ UNCHANGED <<daemonVars, queues, signals>>

\* The client stops and keeps its connection.
Stall(c) ==
    /\ c \in Stalling /\ calls[c].pc \in {"header", "payload"}
    /\ calls' = [calls EXCEPT ![c].pc = "stalled"]
    /\ UNCHANGED <<daemonVars, queues, conn, signals>>

-----------------------------------------------------------------------------
(* Start and end of the process.                                           *)

At(pc) == [proc EXCEPT !.pc = pc]

\* The connections as they are when the process has gone: those accepted or
\* queued are closed.
AllClosed == [a \in Attempts |-> [conn[a] EXCEPT !.open = FALSE]]

Gone(p) == proc' = Down /\ path' = p /\ queues' = NoQueues /\ conn' = AllClosed

Cur == conn[proc.cur]
Close(reply) == conn' = [conn EXCEPT ![proc.cur].open = FALSE, ![proc.cur].reply = reply]

\* Mutant: a client whose request failed ends the loop.
ServedOrGone(l, ok) ==
    IF ok THEN [proc EXCEPT !.pc = "dispatch", !.fds = @ \ {l}, !.cur = Nobody, !.answer = "none"]
    ELSE [proc EXCEPT !.pc = "leave", !.cur = Nobody, !.answer = "none"]

\* Where the process goes on when the client of listener l has been dealt with:
\* a failure is only logged.
Served(l, ok) == [proc EXCEPT !.pc = "dispatch", !.fds = @ \ {l}, !.cur = Nobody, !.answer = "none"]

\* After load and retention: unlink and bind.
Bind ==
    /\ proc.pc = "down" /\ starts < MaxStarts
    /\ starts' = starts + 1 /\ proc' = At("bound") /\ path' = "bound"
    /\ UNCHANGED <<queues, conn, executed, clientVars>>

Listen ==
    /\ proc.pc = "bound"
    /\ proc' = At("listening") /\ path' = "live"
    /\ UNCHANGED <<queues, conn, executed, starts, clientVars>>

\* The metrics listener is open, the flag is reset, the handlers are installed.
Ready ==
    /\ proc.pc = "listening"
    /\ proc' = [At("check") EXCEPT !.stop = FALSE]
    /\ UNCHANGED <<path, queues, conn, executed, starts, clientVars>>

\* listen, the metrics listener or sigaction fails.
StartFails ==
    /\ MayFail /\ proc.pc \in {"bound", "listening"}
    /\ Gone("none")
    /\ UNCHANGED <<executed, starts, clientVars>>

\* A signal before the handlers are installed ends the process.  A select that
\* waits returns EINTR, and so does the recv of a metrics request, which is then
\* not answered; read, write and send go on, with the flag set.
Signal ==
    /\ signals < MaxSignals /\ proc.pc # "down"
    /\ signals' = signals + 1
    /\ IF proc.pc \in {"bound", "listening"} THEN Gone("stale")
       ELSE IF proc.pc = "http" /\ Cur.sent = 0
       THEN /\ proc' = [Served("metrics", TRUE) EXCEPT !.stop = TRUE] /\ Close("none")
            /\ UNCHANGED <<path, queues>>
       ELSE /\ proc' = [proc EXCEPT !.stop = TRUE, !.pc = IF @ = "select" THEN "check" ELSE @]
            /\ UNCHANGED <<path, queues, conn>>
    /\ UNCHANGED <<executed, starts, calls>>

-----------------------------------------------------------------------------
(* The loop.                                                               *)

CheckStop ==
    /\ proc.pc = "check"
    /\ proc' = At(IF proc.stop THEN "leave" ELSE "select")
    /\ UNCHANGED <<path, queues, conn, executed, starts, clientVars>>

\* The listeners are closed and the path removed.
Leave ==
    /\ proc.pc = "leave"
    /\ Gone("none")
    /\ UNCHANGED <<executed, starts, clientVars>>

Select ==
    LET ready == {l \in DOMAIN queues : queues[l] # <<>>}
    IN  /\ proc.pc = "select" /\ ready # {}
        /\ proc' = [At("dispatch") EXCEPT !.fds = ready]
        /\ UNCHANGED <<path, queues, conn, executed, starts, clientVars>>

\* The unix listener first, the metrics listener second, then round again.
Accept ==
    LET l == IF "unix" \in proc.fds THEN "unix" ELSE "metrics"
    IN  /\ proc.pc = "dispatch"
        /\ \/ /\ proc.fds = {} /\ proc' = At("check")
              /\ UNCHANGED queues
           \/ /\ proc.fds # {}
              /\ proc' = [At(IF l = "unix" THEN "header" ELSE "http") EXCEPT !.cur = Head(queues[l])]
              /\ queues' = [queues EXCEPT ![l] = Tail(@)]
        /\ UNCHANGED <<path, conn, executed, starts, clientVars>>

AcceptFails ==
    /\ MayFail /\ proc.pc = "dispatch" /\ proc.fds # {}
    /\ proc' = At("leave")
    /\ UNCHANGED <<path, queues, conn, executed, starts, clientVars>>

\* The header of a request.  One that is not compatible is not answered; one
\* that announces too much is answered before its payload is read.
ReadHeader ==
    /\ proc.pc = "header"
    /\ \/ Cur.sent = 0 /\ Cur.hungUp /\ proc' = Served("unix", FALSE) /\ Close("none")
       \/ /\ Cur.sent > 0 /\ Kind[proc.cur[1]] = "alien"
          /\ proc' = Served("unix", FALSE) /\ Close("none")
       \/ /\ Cur.sent > 0 /\ Kind[proc.cur[1]] = "over"
          /\ proc' = [At("answer") EXCEPT !.answer = "capacity_exceeded"] /\ UNCHANGED conn
       \/ /\ Cur.sent > 0 /\ Kind[proc.cur[1]] = "op"
          /\ proc' = At("payload") /\ UNCHANGED conn
    /\ UNCHANGED <<path, queues, executed, starts, clientVars>>

\* The payload, and mem_service_handle_operation_with_limits on it.  A payload
\* that ends early is answered as one with a wrong checksum.
ReadPayload ==
    /\ proc.pc = "payload"
    /\ \/ /\ Cur.sent = 2
          /\ executed' = executed \cup {proc.cur}
          /\ proc' = [At("answer") EXCEPT !.answer = "ok"]
       \/ /\ Cur.sent < 2 /\ Cur.hungUp
          /\ proc' = [At("answer") EXCEPT !.answer = "checksum_mismatch"]
          /\ UNCHANGED executed
    /\ UNCHANGED <<path, queues, conn, starts, clientVars>>

\* mem_service_send_response writes header and payload; the client may hang up
\* between the two.  To write to a closed connection ends the process, or
\* fails with SIGPIPE ignored.
Answer ==
    /\ proc.pc \in {"answer", "answerBody"}
    /\ \/ /\ ~Cur.hungUp /\ proc.pc = "answer" /\ proc' = At("answerBody")
          /\ UNCHANGED <<path, queues, conn>>
       \/ /\ ~Cur.hungUp /\ proc.pc = "answerBody"
          /\ Close(proc.answer) /\ proc' = Served("unix", TRUE)
          /\ UNCHANGED <<path, queues>>
       \/ /\ Cur.hungUp /\ PipeIgnored
          /\ Close("none") /\ proc' = Served("unix", FALSE)
          /\ UNCHANGED <<path, queues>>
       \/ /\ Cur.hungUp /\ ~PipeIgnored
          /\ Gone("stale")
    /\ UNCHANGED <<executed, starts, clientVars>>

\* One recv: whatever it returns is the request, and a part of one is answered as
\* not allowed.  The response is sent whether or not the client is there; over TCP
\* a send to a client that has closed may succeed.
Scrape ==
    /\ proc.pc = "http"
    /\ \/ /\ Cur.sent = 0 /\ Cur.hungUp /\ Close("none") /\ proc' = Served("metrics", TRUE)
          /\ UNCHANGED <<path, queues>>
       \/ /\ Cur.sent > 0
          /\ Close(IF Cur.sent = 2 THEN "ok" ELSE "method_not_allowed")
          /\ proc' = Served("metrics", TRUE)
          /\ UNCHANGED <<path, queues>>
       \/ Cur.sent > 0 /\ Cur.hungUp /\ ~PipeIgnored /\ Gone("stale")
    /\ UNCHANGED <<executed, starts, clientVars>>

-----------------------------------------------------------------------------
Client(c) == Connect(c) \/ ConnectFails(c) \/ Write(c) \/ Read(c)
Daemon ==
    \/ Bind \/ Listen \/ Ready \/ CheckStop \/ Leave
    \/ Select \/ Accept \/ ReadHeader \/ ReadPayload \/ Answer \/ Scrape

Next ==
    \/ \E c \in Calls : Client(c) \/ Timeout(c) \/ Stall(c)
    \/ Daemon \/ StartFails \/ AcceptFails \/ Signal

Spec == Init /\ [][Next]_vars

\* The process runs on, and so does a client that does not stall.
FairSpec == Spec /\ WF_vars(Daemon) /\ \A c \in Calls : WF_vars(Client(c))

-----------------------------------------------------------------------------
(* Properties.                                                             *)

Loop == {"check", "select", "dispatch", "header", "payload", "answer", "answerBody", "http", "leave"}

\* The types of the variables; a process in its loop is the one the path names.
TypeOK ==
    /\ proc.pc \in Loop \cup {"down", "bound", "listening"} /\ proc.stop \in BOOLEAN
    /\ proc.fds \subseteq {"unix", "metrics"} /\ proc.cur \in Attempts \cup {Nobody}
    /\ path \in {"none", "stale", "bound", "live"}
    /\ proc.pc \in Loop => path = "live"
    /\ proc.pc = "down" => path \in {"none", "stale"} /\ \A a \in Attempts : ~conn[a].open
    /\ executed \subseteq Attempts

Executions(c) == {a \in executed : a[1] = c}

\* A call is executed once, and once more for each timeout that its caller asked
\* to have retried; a call that reports success has been executed; and a request
\* that was executed is answered unless its client hung up, also by a daemon
\* that is told to stop meanwhile (mem_service_client_should_retry,
\* mem_service_handle_client).
ExecutedAsReported ==
    \A c \in DOMAIN calls :
        /\ Cardinality(Executions(c)) <= 1 + calls[c].late
        /\ calls[c].pc = "ok" /\ Kind[c] = "op" => Mine(c) \in executed
        /\ \A a \in Executions(c) : ~conn[a].open /\ ~conn[a].hungUp => conn[a].reply = "ok"

\* A call of a client that waits and writes its request succeeds: clients that
\* hang up, send what is refused or scrape metrics do not keep the daemon from it.
AllServed ==
    \A c \in Calls \ (Impatient \cup Stalling) :
        Kind[c] \in {"op", "scrape"} => <>(calls[c].pc = "ok")

\* A process that has been told to stop does so, at the latest when the next
\* connection wakes it: the flag may be set after the loop has looked at it
\* and before select waits.
Stopping == proc.stop /\ proc.pc \in Loop
AtRest == proc.pc = "down" \/ (proc.pc = "select" /\ queues = NoQueues)
StopIsHonoured == Stopping ~> AtRest
=============================================================================
