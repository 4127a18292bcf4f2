-------------------------- MODULE SnapshotTransfer --------------------------
(***************************************************************************)
(* Snapshots leaving and entering a running daemon page by page.           *)
(*                                                                         *)
(* The command line client exports a snapshot with one request per page    *)
(* (run_export_snapshot_to) and restores a large one through the daemon's  *)
(* restore stage: begin, append page after page, commit, or cancel         *)
(* (run_restore_snapshot_paged).  Every request is a connection of its     *)
(* own: the daemon serves connections one at a time in the order they were *)
(* made, and a client that has stopped waiting does not take its request   *)
(* back (mem_service_send_unix_request_with_options).                      *)
(*                                                                         *)
(* There is one stage in the daemon, whoever its pages come from.  A       *)
(* record is its key and its version; a page holds a number of records.    *)
(***************************************************************************)
EXTENDS Integers, FiniteSets, FiniteSetsExt, SequencesExt

CONSTANTS
    Keys,            \* the record keys
    MaxRecords,      \* MEM_SERVICE_MAX_RECORDS, the slots of a table
    MaxRetained,     \* limits->max_retained_records, 0 for none
    ExportPage,      \* max_records of an export request, or what fits in one
    RestorePage,     \* records that fit in an append request
    FullLimit,       \* records in a file that fits in one restore request
    FirstTable,      \* the records in the table at the start, in slot order
    Commands,        \* client -> the commands it runs, in order
    MaxAttempts,     \* options->max_attempts
    RetryTimeouts,   \* options->retry_on_timeout
    MayTimeout,      \* whether connections fail and replies come too late
    PipeIgnored,     \* whether the daemon runs with SIGPIPE ignored, as systemd starts it
    PutBound,        \* bound: objects put by other clients
    RestartBound     \* bound: restarts of the daemon

Clients == DOMAIN Commands
Slots == 0 .. MaxRecords - 1
NoCount == -1
Empty == [key |-> "", ver |-> 0]
Records == [key : Keys, ver : Nat]

\* What the constants must satisfy.
TransferAssumption ==
    /\ MaxRecords \in Nat \ {0} /\ MaxRetained \in Nat /\ Empty.key \notin Keys
    /\ ExportPage \in Nat \ {0} /\ RestorePage \in Nat \ {0} /\ FullLimit \in Nat
    /\ Len(FirstTable) <= MaxRecords /\ Range(FirstTable) \subseteq Records
    /\ MaxAttempts \in Nat \ {0} /\ RetryTimeouts \in BOOLEAN
    /\ MayTimeout \in BOOLEAN /\ PipeIgnored \in BOOLEAN
    /\ PutBound \in Nat /\ RestartBound \in Nat

VARIABLES
    live,       \* svc->records: slot -> record, Empty when not in use
    stage,      \* mem_service_restore_snapshot_stage
    backlog,    \* the connections the daemon has not served yet
    cl,         \* client -> the command it is running
    disk,       \* the file the last completed export has renamed into place
    puts,       \* objects put so far
    restarts,   \* restarts so far
    stable      \* history: exporter -> records live all along since its first page

vars == <<live, stage, backlog, cl, disk, puts, restarts, stable>>

-----------------------------------------------------------------------------
(* Tables.                                                                 *)

InUse(t) == {s \in Slots : t[s] # Empty}
LiveSet(t) == {t[s] : s \in InUse(t)}
Count(t) == Cardinality(InUse(t))
EmptyTable == [s \in Slots |-> Empty]

\* mem_service_find_record, then mem_service_alloc_record: the slot a key is
\* stored in, MaxRecords when the table is full.
SlotFor(t, k) ==
    IF \E s \in InUse(t) : t[s].key = k THEN CHOOSE s \in InUse(t) : t[s].key = k
    ELSE Min((Slots \ InUse(t)) \cup {MaxRecords})

\* mem_service_store_import_record for each record of a text, in order; the
\* result is <<>> when one of them finds the table full.
Import(t, recs) ==
    FoldLeft(LAMBDA acc, r :
                 IF acc = <<>> \/ SlotFor(acc, r.key) = MaxRecords THEN <<>>
                 ELSE [acc EXCEPT ![SlotFor(acc, r.key)] = r],
             t, recs)

\* mem_service_apply_record_retention: the lowest versions go first, the lower
\* slot first among equals.
Older(t, a, b) == t[a].ver < t[b].ver \/ (t[a].ver = t[b].ver /\ a < b)
Retain(t) ==
    [s \in Slots |->
        IF MaxRetained > 0 /\ Cardinality({x \in InUse(t) : Older(t, s, x)}) >= MaxRetained
        THEN Empty ELSE t[s]]

-----------------------------------------------------------------------------
(* A snapshot file: the record count of its header, NoCount without one,   *)
(* and its records in order.                                               *)

Slice(recs, n, i) == SubSeq(recs, (i * n) + 1, Min({(i + 1) * n, Len(recs)}))
PageCount(recs) == (Len(recs) + RestorePage - 1) \div RestorePage

\* What restoring a file as a whole leaves in the table.
Restored(file) == LiveSet(Retain(Import(EmptyTable, file.recs)))

NoStage == [active |-> FALSE, recs |-> EmptyTable, next |-> 0, expected |-> NoCount, complete |-> FALSE]
NoFile == [count |-> NoCount, recs |-> <<>>]
NoOp == [type |-> "none"]

\* The file a restore command reads: a given one, or the last one exported.
FileOf(cmd) == IF cmd.type = "restore" THEN cmd.file ELSE disk

-----------------------------------------------------------------------------
(* The requests of a client.                                               *)

PageOp(start) == [type |-> "page", start |-> start]
BeginOp(file) == [type |-> "begin", expected |-> file.count]
AppendOp(file, i, complete) ==
    [type |-> "append", index |-> i, complete |-> complete, recs |-> Slice(file.recs, RestorePage, i)]
CommitOp == [type |-> "commit"]
CancelOp == [type |-> "cancel"]
FullOp(file) == [type |-> "full", recs |-> file.recs]

\* What is sent once i pages have been appended.  The last page of records
\* carries complete=1; a file without a count is closed by an empty page.
NextPage(file, i) ==
    IF i < PageCount(file.recs) THEN AppendOp(file, i, i + 1 = PageCount(file.recs))
    ELSE IF i = PageCount(file.recs) /\ file.count = NoCount THEN AppendOp(file, i, TRUE)
    ELSE CommitOp

\* A client between two commands, and one about to send a request.
Resting(c, i, rc) == [cmd |-> i, pc |-> "rest", op |-> NoOp, try |-> 0, file |-> NoFile, rc |-> rc]
Ready(me, op) == [me EXCEPT !.pc = "ready", !.op = op, !.try = 1]
Ended(c, rc) == Resting(c, cl[c].cmd, rc)

Failed == [status |-> "failed"]

\* run_export_snapshot_to after the reply to a page request.
AfterPage(c, me, r) ==
    LET file == [count |-> IF me.op.start = 0 THEN r.count ELSE me.file.count,
                 recs  |-> me.file.recs \o r.recs]
    IN  IF r.status # "ok" \/ (~r.complete /\ r.next <= me.op.start) THEN Ended(c, 1)
        ELSE IF r.complete THEN [Ended(c, 0) EXCEPT !.file = file]
        ELSE [Ready(me, PageOp(r.next)) EXCEPT !.file = file]

\* run_restore_snapshot_paged after the reply to a request: a failed begin and
\* a failed commit end the command, a failed append is followed by a cancel.
AfterRestore(c, me, r) ==
    LET ok == r.status = "ok"
        type == me.op.type
    IN  IF type = "begin" /\ ok THEN Ready(me, NextPage(me.file, 0))
        ELSE IF type = "append" /\ ok THEN Ready(me, NextPage(me.file, me.op.index + 1))
        ELSE IF type = "append" THEN Ready(me, CancelOp)
        ELSE Ended(c, IF ok /\ type # "cancel" THEN 0 ELSE 1)

After(c, r) ==
    IF cl[c].op.type = "page" THEN AfterPage(c, cl[c], r) ELSE AfterRestore(c, cl[c], r)

IsExported(c, r) == cl[c].op.type = "page" /\ AfterPage(c, cl[c], r).rc = 0 /\ r.status = "ok" /\ r.complete

-----------------------------------------------------------------------------
(* Clients.                                                                *)

Init ==
    /\ live = [s \in Slots |-> IF s < Len(FirstTable) THEN FirstTable[s + 1] ELSE Empty]
    /\ stage = NoStage /\ backlog = <<>> /\ disk = NoFile
    /\ cl = [c \in Clients |-> Resting(c, 0, 0)]
    /\ puts = 0 /\ restarts = 0
    /\ stable = [c \in Clients |-> {}]

\* run_export_snapshot_to, run_restore_snapshot: a file that fits in a request
\* is restored by one request, another one page by page.
Start(c) ==
    LET cmd == Commands[c][cl[c].cmd + 1]
        me == Resting(c, cl[c].cmd + 1, 0)
    IN  /\ cl[c].pc = "rest" /\ cl[c].cmd < Len(Commands[c])
        /\ cl' = [cl EXCEPT ![c] =
               IF cmd.type = "export" THEN Ready(me, PageOp(0))
               ELSE IF FileOf(cmd) = NoFile THEN [me EXCEPT !.rc = 1]
               ELSE [Ready(me, IF Len(FileOf(cmd).recs) <= FullLimit THEN FullOp(FileOf(cmd))
                               ELSE BeginOp(FileOf(cmd)))
                     EXCEPT !.file = FileOf(cmd)]]
        /\ UNCHANGED <<live, stage, backlog, disk, puts, restarts, stable>>

\* A request in the backlog; the file tells which command it belongs to.
Request(c, try) == [from |-> c, cmd |-> cl[c].cmd, try |-> try, op |-> cl[c].op, file |-> cl[c].file]

\* mem_service_send_unix_request_once: connect and write the request.
Send(c) ==
    /\ cl[c].pc = "ready"
    /\ cl' = [cl EXCEPT ![c].pc = "wait"]
    /\ backlog' = Append(backlog, Request(c, cl[c].try))
    /\ UNCHANGED <<live, stage, disk, puts, restarts, stable>>

\* The request cannot be delivered: it is tried again while attempts remain.
Undelivered(c) ==
    /\ MayTimeout /\ cl[c].pc = "ready"
    /\ cl' = [cl EXCEPT ![c] = IF @.try < MaxAttempts THEN [@ EXCEPT !.try = @ + 1]
                               ELSE After(c, Failed)]
    /\ UNCHANGED <<live, stage, backlog, disk, puts, restarts, stable>>

\* The reply does not come in time.  The request stays where it is.
Timeout(c) ==
    /\ MayTimeout /\ cl[c].pc = "wait"
    /\ cl' = [cl EXCEPT ![c] = IF RetryTimeouts /\ @.try < MaxAttempts
                               THEN [@ EXCEPT !.pc = "ready", !.try = @ + 1]
                               ELSE After(c, Failed)]
    /\ UNCHANGED <<live, stage, backlog, disk, puts, restarts, stable>>

-----------------------------------------------------------------------------
(* The daemon.                                                             *)

Asked(type) == backlog # <<>> /\ Head(backlog).op.type = type

Awaited(q) == LET me == cl[q.from] IN me.pc = "wait" /\ me.cmd = q.cmd /\ me.try = q.try /\ me.op = q.op

\* mem_service_write_full to a socket its client has closed raises SIGPIPE,
\* which the daemon does not handle.
Killed == ~PipeIgnored /\ ~Awaited(Head(backlog))

\* The records come back from the store, where they were written in slot
\* order, into the first slots (mem_service_load_store).
Reloaded(t) == Import(EmptyTable, [i \in 1 .. Count(t) |-> t[SetToSortSeq(InUse(t), <)[i]]])

\* Who waits for a daemon that stops sees its connection closed.
HangUp(clients) == [c \in Clients |-> IF clients[c].pc = "wait" THEN After(c, Failed) ELSE clients[c]]

\* The oldest connection has been served: t and st are the table and the stage
\* after the request, r the reply, which reaches the client if that still waits.
Answer(t, st, r) ==
    LET q == Head(backlog)
    IN  /\ backlog' = IF Killed THEN <<>> ELSE Tail(backlog)
        /\ live' = IF Killed THEN Reloaded(t) ELSE t
        /\ stage' = IF Killed THEN NoStage ELSE st
        /\ cl' = IF Awaited(q) THEN [cl EXCEPT ![q.from] = After(q.from, r)]
                 ELSE IF Killed THEN HangUp(cl) ELSE cl
        /\ disk' = IF Awaited(q) /\ IsExported(q.from, r) THEN After(q.from, r).file ELSE disk
        /\ UNCHANGED <<puts, restarts>>

Reply(status) == [status |-> status]

\* Records that are not in the table any more are not stable.
Survive == stable' = [c \in Clients |-> stable[c] \cap LiveSet(live')]

FirstSlots(S, n) == {s \in S : Cardinality({x \in S : x < s}) < n}

\* Mutant: the next page starts one slot too far.
PageSkips(start) ==
    LET todo == {s \in InUse(live) : s >= start}
        page == FirstSlots(todo, ExportPage)
        rest == todo \ page
    IN  [status |-> "ok", count |-> Count(live), complete |-> rest = {},
         next |-> IF rest = {} THEN MaxRecords ELSE Min(rest) + 1,
         recs |-> [i \in 1 .. Cardinality(page) |-> live[SetToSortSeq(page, <)[i]]]]

\* mem_service_export_snapshot_page.
Page(start) ==
    LET todo == {s \in InUse(live) : s >= start}
        page == FirstSlots(todo, ExportPage)
        rest == todo \ page
    IN  [status |-> "ok", count |-> Count(live), complete |-> rest = {},
         next |-> IF rest = {} THEN MaxRecords ELSE Min(rest),
         recs |-> [i \in 1 .. Cardinality(page) |-> live[SetToSortSeq(page, <)[i]]]]

ServePage ==
    LET q == Head(backlog)
    IN  /\ Asked("page")
        /\ Answer(live, stage, Page(q.op.start))
        /\ stable' = IF Awaited(q) /\ q.op.start = 0
                     THEN [stable EXCEPT ![q.from] = LiveSet(live)] ELSE stable

\* Mutant: begin keeps the pages of a restore that was given up.
BeginKeeps ==
    /\ Asked("begin")
    /\ Answer(live, [stage EXCEPT !.active = TRUE, !.next = 0, !.expected = Head(backlog).op.expected],
              Reply("ok"))
    /\ UNCHANGED stable

\* mem_service_restore_snapshot_page_begin.
Begin ==
    LET n == Head(backlog).op.expected
    IN  /\ Asked("begin")
        /\ Answer(live, [NoStage EXCEPT !.active = TRUE, !.expected = n, !.complete = (n = 0)],
                  Reply("ok"))
        /\ UNCHANGED stable

\* mem_service_restore_snapshot_page_append.
AppendPage ==
    LET op == Head(backlog).op
        t == Import(stage.recs, op.recs)
        turn == stage.active /\ op.index = stage.next
        over == stage.expected # NoCount /\ Count(t) > stage.expected
    IN  /\ Asked("append")
        /\ \/ ~stage.active /\ Answer(live, stage, Reply("invalid_session"))
           \/ stage.active /\ ~turn /\ Answer(live, stage, Reply("version_conflict"))
           \/ turn /\ t = <<>> /\ Answer(live, NoStage, Reply("invalid_session"))
           \/ turn /\ t # <<>> /\ over /\ Answer(live, NoStage, Reply("version_conflict"))
           \/ /\ turn /\ t # <<>> /\ ~over
              /\ Answer(live,
                        [stage EXCEPT !.recs = t, !.next = @ + 1, !.complete = @ \/ op.complete],
                        Reply("ok"))
        /\ UNCHANGED stable

\* mem_service_restore_snapshot_page_commit: the staged table must hold the
\* announced number of records, or have seen its last page.
CommitStatus ==
    IF ~stage.active THEN "invalid_session"
    ELSE IF stage.expected # NoCount /\ Count(stage.recs) # stage.expected THEN "version_conflict"
    ELSE IF stage.expected = NoCount /\ ~stage.complete THEN "invalid_session"
    ELSE "ok"

Commit ==
    /\ Asked("commit")
    /\ IF CommitStatus = "ok" THEN Answer(Retain(stage.recs), NoStage, Reply("ok"))
       ELSE Answer(live, stage, Reply(CommitStatus))
    /\ Survive

Cancel ==
    /\ Asked("cancel")
    /\ Answer(live, NoStage, Reply("ok"))
    /\ UNCHANGED stable

\* mem_service_restore_snapshot: the whole file in one request.
FullStatus == IF Import(EmptyTable, Head(backlog).op.recs) = <<>> THEN "invalid_session" ELSE "ok"

Full ==
    /\ Asked("full")
    /\ IF FullStatus = "ok"
       THEN Answer(Retain(Import(EmptyTable, Head(backlog).op.recs)), stage, Reply("ok"))
       ELSE Answer(live, stage, Reply(FullStatus))
    /\ Survive

\* mem_service_put_object by some other client, with its retention.
Put(k) ==
    /\ puts < PutBound /\ SlotFor(live, k) < MaxRecords
    /\ puts' = puts + 1
    /\ live' = Retain([live EXCEPT ![SlotFor(live, k)] = [key |-> k, ver |-> 10 + puts]])
    /\ Survive
    /\ UNCHANGED <<stage, backlog, cl, disk, restarts>>

\* The daemon stops and is started again: the stage and the connections are lost.
Restart ==
    /\ restarts < RestartBound
    /\ restarts' = restarts + 1
    /\ stage' = NoStage /\ backlog' = <<>>
    /\ live' = Reloaded(live)
    /\ cl' = HangUp(cl)
    /\ Survive
    /\ UNCHANGED <<disk, puts>>

Serve == ServePage \/ Begin \/ AppendPage \/ Commit \/ Cancel \/ Full
Client(c) == Start(c) \/ Send(c)

Next ==
    \/ \E c \in Clients : Start(c) \/ Send(c) \/ Undelivered(c) \/ Timeout(c)
    \/ ServePage \/ Begin \/ AppendPage \/ Commit \/ Cancel \/ Full
    \/ \E k \in Keys : Put(k)
    \/ Restart

Spec == Init /\ [][Next]_vars

\* The daemon serves the connections it accepts, and a command goes on by
\* itself; nobody has to put objects, and faults need not happen.
FairSpec == Spec /\ WF_vars(Serve) /\ \A c \in Clients : WF_vars(Client(c))

-----------------------------------------------------------------------------
(* Properties.                                                             *)

\* The types of the variables; no key is in two slots of a table.
TypeOK ==
    /\ \A t \in {live, stage.recs} :
           /\ \A s \in InUse(t) : t[s] \in Records
           /\ \A s, x \in InUse(t) : t[s].key = t[x].key => s = x
    /\ stage.next \in Nat /\ stage.expected \in Nat \cup {NoCount}
    /\ stage.active \in BOOLEAN /\ stage.complete \in BOOLEAN
    /\ \A i \in 1 .. Len(backlog) : backlog[i].from \in Clients
    /\ \A c \in Clients : /\ cl[c].pc \in {"rest", "ready", "wait"} /\ cl[c].rc \in {0, 1}
                          /\ cl[c].cmd \in 0 .. Len(Commands[c])

\* An export that succeeds has every record that was in the table, unchanged,
\* from its first page to its last, whatever was put and pruned meanwhile
\* (run_export_snapshot_to over mem_service_export_snapshot_page).
StableExported ==
    \A c \in Clients :
        cl[c].cmd > 0 /\ cl[c].pc = "rest" /\ cl[c].rc = 0 /\ Commands[c][cl[c].cmd].type = "export"
            => stable[c] \subseteq Range(cl[c].file.recs)

\* A step: a restore the daemon acknowledges leaves exactly the records of the file of
\* the command that asked for it, less what retention prunes: pages of another
\* command or of an earlier attempt never get in, and none is missing
\* (mem_service_restore_snapshot_page_commit, mem_service_restore_snapshot).
RestoresWholly ==
    restarts' = restarts /\ Len(backlog') < Len(backlog)
        /\ ((Asked("commit") /\ CommitStatus = "ok") \/ (Asked("full") /\ FullStatus = "ok"))
    => LiveSet(live') = Restored(Head(backlog).file)

\* The i-th command of a client has succeeded.
Succeeded(c, i) == cl[c].cmd = i /\ cl[c].pc = "rest" /\ cl[c].rc = 0

\* Without lost replies and restarts, an export, and a restore of what was
\* exported, succeed while other clients update objects.
TransfersSucceed == \A c \in Clients : \A i \in 1 .. Len(Commands[c]) : <>Succeeded(c, i)
=============================================================================
