------------------------------ MODULE BotRuns ------------------------------
(***************************************************************************)
(* The runs of the Cursor Bot: their rows in the bot store                 *)
(* (cursor-bot/store.ts) and those who write them.  A request with tools   *)
(* drives its run inline (service.ts, tool-loop.ts) and may delegate to a  *)
(* child run (subagent-scheduler.ts); the background worker takes runs     *)
(* that are queued and running ones whose lease has lapsed                 *)
(* (background-worker.ts); the HTTP routes cancel, resume and submit tool  *)
(* results (routes.ts), and replay the events of a run to a client that    *)
(* reconnects with the last event it has seen.                             *)
(*                                                                         *)
(* One process serves all of it and SQLite is called synchronously, so an  *)
(* append with its publish, a subscription with its backfill, and a route  *)
(* are each one step; ReplayBridge's buffer is then always empty.  What    *)
(* the worker executes is a parameter of it: here it may take long, throw, *)
(* and end in any way RunExecution allows.  Leases lapse at any moment.    *)
(***************************************************************************)
EXTENDS Integers, Sequences, FiniteSets, SequencesExt

CONSTANTS Parent,       \* runs driven inline
          Followed,     \* the one whose events the client reads
          NoRun,
          Outcome,      \* what RunExecution may say
          PageSize,     \* limit of eventsAfter
          MaxFrames,    \* bound: frames of one run
          MaxTurns,     \* maxIterations of the tool loop
          MaxResumes,   \* bound: resume calls
          MaxStarts     \* bound: starts of the process

ASSUME RunAssumption == /\ Followed \in Parent
                        /\ NoRun \notin Parent
                        /\ NoRun \notin {<<"child", p>> : p \in Parent}
ASSUME OutcomeAssumption ==
  Outcome \subseteq {"completed", "failed", "cancelled", "awaiting_tool", "awaiting_child"}
ASSUME BoundAssumption == /\ {PageSize, MaxTurns, MaxStarts} \subseteq Nat \ {0}
                          /\ {MaxFrames, MaxResumes} \subseteq Nat

VARIABLES rows,      \* ids of bot_runs, in the order of rowid
          status,
          lease,     \* "none" for NULL, "live", "lapsed"
          lastSeq,   \* last_event_seq; the events are 1..lastSeq
          delivery,  \* delivery_state
          call,      \* the run's tool call: "none", "complete", "submitted"
          inline,    \* where the request that drives a run is
          turn,      \* its iteration
          frames,    \* frames its upstream has sent
          aborted,   \* the signal of that request
          worker,    \* the run the worker executes
          cancelled, \* the worker's note that it was cancelled
          process,   \* "up", "stopping", "down"
          starts, resumes,
          conn,      \* whether a client follows a run's events
          seen,      \* the last event it had when it connected
          wire,      \* events sent to it since
          accepted   \* history: results accepted for the run's call

vars == <<rows, status, lease, lastSeq, delivery, call, inline, turn, frames, aborted, worker,
          cancelled, process, starts, resumes, conn, seen, wire, accepted>>

row == <<status, lease>>
request == <<inline, turn, frames, aborted>>
work == <<worker, cancelled>>
system == <<process, starts, resumes>>
client == <<conn, seen>>

ChildOf(p) == <<"child", p>>
Run == Parent \cup {ChildOf(p) : p \in Parent}
Terminal == {"completed", "failed", "cancelled"}

Init == /\ rows = <<>>
        /\ status = [r \in Run |-> "absent"]
        /\ lease = [r \in Run |-> "none"]
        /\ lastSeq = [r \in Run |-> 0]
        /\ delivery = [r \in Run |-> "none"]
        /\ call = [r \in Run |-> "none"]
        /\ inline = [p \in Parent |-> "idle"]
        /\ turn = [p \in Parent |-> 0]
        /\ frames = [p \in Parent |-> 0]
        /\ aborted = [p \in Parent |-> FALSE]
        /\ worker = NoRun
        /\ cancelled = FALSE
        /\ process = "up"
        /\ starts = 1
        /\ resumes = 0
        /\ conn = FALSE
        /\ seen = 0
        /\ wire = <<>>
        /\ accepted = [r \in Run |-> 0]

----------------------------------------------------------------------------
(* The store.                                                              *)

(* Mutant: the release does not look at the status. *)
ReleaseAnyway(r, s) ==
  /\ status' = [status EXCEPT ![r] = s]
  /\ lease' = [lease EXCEPT ![r] = "none"]

(* releaseRunLease: a terminal run is left alone. *)
Release(r, s) ==
  IF status[r] \in Terminal
  THEN UNCHANGED row
  ELSE /\ status' = [status EXCEPT ![r] = s]
       /\ lease' = [lease EXCEPT ![r] = "none"]

(* The runs acquireRunLease may take. *)
Takeable == {r \in Range(rows) : \/ status[r] \in {"queued", "paused"} /\ lease[r] # "live"
                                 \/ status[r] = "running" /\ lease[r] = "lapsed"}

(* Mutant: a running run is never taken over. *)
TakeQueued(r) ==
  /\ r \in Takeable /\ status[r] # "running"
  /\ \A i, j \in DOMAIN rows : rows[i] \in Takeable /\ rows[j] = r => j <= i
  /\ status' = [status EXCEPT ![r] = "running"]
  /\ lease' = [lease EXCEPT ![r] = "live"]

(* acquireRunLease: the first of them. *)
TakeFirst(r) ==
  /\ r \in Takeable
  /\ \A i, j \in DOMAIN rows : rows[i] \in Takeable /\ rows[j] = r => j <= i
  /\ status' = [status EXCEPT ![r] = "running"]
  /\ lease' = [lease EXCEPT ![r] = "live"]

(* appendEvents with one event, and its publish to the client that follows *)
(* the run.                                                                *)
Publish(r) ==
  /\ lastSeq' = [lastSeq EXCEPT ![r] = @ + 1]
  /\ wire' = IF conn /\ r = Followed THEN Append(wire, lastSeq[r] + 1) ELSE wire

Advance(d, type) == IF d = "complete" THEN d
                    ELSE IF type = "run.completed" THEN "complete"
                    ELSE IF type = "text.delta" THEN "partial_delivered" ELSE d

(* Mutant: a call is recorded anew though its result is there. *)
RecordAgain(p) == [call EXCEPT ![p] = "complete"]

(* recordToolCall *)
Record(p) == [call EXCEPT ![p] = IF @ = "submitted" THEN @ ELSE "complete"]

(* submitToolResult *)
Submit(r) == /\ call' = [call EXCEPT ![r] = "submitted"]
             /\ accepted' = [accepted EXCEPT ![r] = @ + IF call[r] = "submitted" THEN 0 ELSE 1]

----------------------------------------------------------------------------
(* A request that drives its run.                                          *)

(* The event stream is closed; the client may come again with what it had. *)
Closed == conn' = FALSE /\ seen' = 0 /\ wire' = <<>>

Create(p) == /\ process = "up"
             /\ status[p] = "absent"
             /\ rows' = Append(rows, p)
             /\ UNCHANGED <<lastSeq, delivery, call, turn, frames, aborted, work, starts, resumes,
                            accepted>>

(* createRun as running, then leaseRun. *)
Request(p) == /\ Create(p)
              /\ status' = [status EXCEPT ![p] = "running"]
              /\ lease' = [lease EXCEPT ![p] = "live"]
              /\ inline' = [inline EXCEPT ![p] = "stream"]
              /\ UNCHANGED <<process, client, wire>>

(* The process is killed between the two. *)
RequestCut(p) == /\ Create(p)
                 /\ status' = [status EXCEPT ![p] = "running"]
                 /\ UNCHANGED <<lease, inline>>
                 /\ process' = "down"
                 /\ Closed

(* A frame of the upstream is appended and passed on. *)
Frame(p, type) ==
  /\ inline[p] = "stream" /\ frames[p] < MaxFrames
  /\ frames' = [frames EXCEPT ![p] = @ + 1]
  /\ Publish(p)
  /\ delivery' = [delivery EXCEPT ![p] = Advance(@, type)]
  /\ UNCHANGED <<rows, row, call, inline, turn, aborted, work, system, client, accepted>>

(* The request's signal fires. *)
Abort(p) == /\ inline[p] \in {"stream", "tool", "child"}
            /\ ~aborted[p]
            /\ aborted' = [aborted EXCEPT ![p] = TRUE]
            /\ UNCHANGED <<rows, row, lastSeq, delivery, call, inline, turn, frames, work, system,
                           client, wire, accepted>>

(* The generator is gone, and its locals with it. *)
Gone(P) == /\ inline' = [p \in Parent |-> IF p \in P THEN "over" ELSE inline[p]]
           /\ turn' = [p \in Parent |-> IF p \in P THEN 0 ELSE turn[p]]
           /\ frames' = [p \in Parent |-> IF p \in P THEN 0 ELSE frames[p]]
           /\ aborted' = [p \in Parent |-> aborted[p] /\ p \notin P]

(* The loop returns, or throws: releaseRunLease. *)
End(p, s) == Gone({p}) /\ Release(p, s)

Unmoved == UNCHANGED <<rows, lastSeq, delivery, work, system, client, wire>>

(* The upstream's answer has no call. *)
Answer(p) == /\ inline[p] = "stream"
             /\ End(p, "completed")
             /\ Unmoved
             /\ UNCHANGED <<call, accepted>>

(* The upstream fails, and does when the signal has fired. *)
Fail(p) == /\ inline[p] = "stream"
           /\ End(p, "failed")
           /\ Unmoved
           /\ UNCHANGED <<call, accepted>>

(* The consumer returns the generator: neither end is reached. *)
Abandon(p) == /\ inline[p] = "stream"
              /\ Gone({p})
              /\ Unmoved
              /\ UNCHANGED <<row, call, accepted>>

(* The next iteration, unless it was the last or the signal has fired. *)
Continue(p) ==
  IF turn[p] + 1 >= MaxTurns THEN End(p, "completed")
  ELSE IF aborted[p] THEN End(p, "failed")
  ELSE /\ inline' = [inline EXCEPT ![p] = "stream"]
       /\ turn' = [turn EXCEPT ![p] = @ + 1]
       /\ UNCHANGED <<row, frames, aborted>>

(* The answer has a call whose result is there: the stored one is sent. *)
Repeat(p) == /\ inline[p] = "stream" /\ Record(p)[p] = "submitted"
             /\ Continue(p)
             /\ Unmoved
             /\ UNCHANGED <<call, accepted>>

(* The call is the caller's. *)
HandBack(p) == /\ inline[p] = "stream" /\ Record(p)[p] # "submitted"
               /\ call' = Record(p)
               /\ End(p, "awaiting_tool")
               /\ Unmoved
               /\ UNCHANGED accepted

(* The call is a local tool's. *)
Execute(p) == /\ inline[p] = "stream" /\ Record(p)[p] # "submitted"
              /\ call' = Record(p)
              /\ inline' = [inline EXCEPT ![p] = "tool"]
              /\ Unmoved
              /\ UNCHANGED <<row, turn, frames, aborted, accepted>>

(* The call spawns a child: createRun as queued, then leaseRun. *)
Spawn(p) == LET c == ChildOf(p) IN
  /\ inline[p] = "stream" /\ Record(p)[p] # "submitted"
  /\ status[c] = "absent"
  /\ call' = Record(p)
  /\ rows' = Append(rows, c)
  /\ status' = [status EXCEPT ![c] = "running"]
  /\ lease' = [lease EXCEPT ![c] = "live"]
  /\ inline' = [inline EXCEPT ![p] = "child"]
  /\ UNCHANGED <<lastSeq, delivery, turn, frames, aborted, work, system, client, wire, accepted>>

(* The local tool, or a child that was refused, gives its result. *)
Executed(p) == /\ inline[p] = "tool"
               /\ Submit(p)
               /\ Continue(p)
               /\ Unmoved

(* The child ends: its own run is released first, then the call is         *)
(* answered.                                                               *)
ChildEnds(p, s) == LET c == ChildOf(p) IN
  /\ inline[p] = "child"
  /\ Release(c, s)
  /\ inline' = [inline EXCEPT ![p] = "tool"]
  /\ Unmoved
  /\ UNCHANGED <<turn, frames, aborted, call, accepted>>

----------------------------------------------------------------------------
(* The worker.                                                             *)

(* tick: acquireRunLease, and the start of runOne. *)
Take(r) == /\ process = "up" /\ worker = NoRun
           /\ TakeFirst(r)
           /\ worker' = r
           /\ Publish(r)
           /\ UNCHANGED <<rows, delivery, call, request, cancelled, system, client, accepted>>

Leave == worker' = NoRun /\ cancelled' = FALSE

(* The executor returns an outcome; nothing is written if it was           *)
(* cancelled.                                                              *)
WorkerEnds(r, s) ==
  /\ worker = r
  /\ Leave
  /\ IF cancelled THEN UNCHANGED <<row, lastSeq, wire>> ELSE Release(r, s) /\ Publish(r)
  /\ UNCHANGED <<rows, delivery, call, request, system, client, accepted>>

(* It throws: a run in hand at the stop is queued again. *)
WorkerThrows(r) ==
  /\ worker = r
  /\ Leave
  /\ Release(r, IF process = "stopping" THEN "queued" ELSE "failed")
  /\ Publish(r)
  /\ UNCHANGED <<rows, delivery, call, request, system, client, accepted>>

(* BackgroundWorker.cancel *)
WorkerCancels(r) ==
  /\ worker = r /\ ~cancelled
  /\ cancelled' = TRUE
  /\ Release(r, "cancelled")
  /\ Publish(r)
  /\ UNCHANGED <<rows, delivery, call, request, worker, system, client, accepted>>

----------------------------------------------------------------------------
(* The routes.                                                             *)

CancelRun(r) ==
  /\ process = "up" /\ status[r] \notin Terminal \cup {"absent"}
  /\ Release(r, "cancelled")
  /\ UNCHANGED <<rows, lastSeq, delivery, call, request, work, system, client, wire, accepted>>

ResumeRun(r) ==
  /\ process = "up" /\ status[r] \notin Terminal \cup {"absent"}
  /\ resumes < MaxResumes
  /\ call[r] # "complete" /\ delivery[r] = "none"
  /\ Release(r, "queued")
  /\ resumes' = resumes + 1
  /\ UNCHANGED <<rows, lastSeq, delivery, call, request, work, process, starts, client, wire,
                 accepted>>

ToolResult(r) ==
  /\ process = "up" /\ call[r] = "complete"
  /\ Submit(r)
  /\ Release(r, "queued")
  /\ UNCHANGED <<rows, lastSeq, delivery, request, work, system, client, wire>>

----------------------------------------------------------------------------
(* The event stream.                                                       *)

(* eventsAfter *)
Page(r, after) == LET n == IF lastSeq[r] - after > PageSize THEN PageSize ELSE lastSeq[r] - after
                  IN [i \in 1..n |-> after + i]

(* Mutant: one page is taken for all. *)
FirstPage(r, after) == Page(r, after)

(* ReplayBridge.backfill: page by page, until one is empty. *)
Backfill(r, after) ==
  LET rest[cursor \in 0..lastSeq[r]] ==
        IF Page(r, cursor) = <<>> THEN <<>>
        ELSE Page(r, cursor) \o rest[cursor + Len(Page(r, cursor))]
  IN rest[after]

(* GET events, by a client that has the events up to n; a terminal run's   *)
(* stream ends at once.                                                    *)
Connect(n) ==
  /\ process = "up" /\ ~conn /\ status[Followed] \notin Terminal \cup {"absent"}
  /\ n \in 0..lastSeq[Followed]
  /\ conn' = TRUE /\ seen' = n
  /\ wire' = Backfill(Followed, n)
  /\ UNCHANGED <<rows, row, lastSeq, delivery, call, request, work, system, accepted>>

(* The connection breaks. *)
Disconnect == /\ conn /\ Closed
              /\ UNCHANGED <<rows, row, lastSeq, delivery, call, request, work, system, accepted>>

----------------------------------------------------------------------------
(* Time and the process.                                                   *)

Lapse(r) == /\ lease[r] = "live"
            /\ lease' = [lease EXCEPT ![r] = "lapsed"]
            /\ UNCHANGED <<rows, status, lastSeq, delivery, call, request, work, system, client, wire,
                           accepted>>

(* Shutdown: once the requests are over, event streams included, the       *)
(* worker is stopped.                                                      *)
Stop == /\ process = "up"
        /\ \A p \in Parent : inline[p] \in {"idle", "over"}
        /\ ~conn
        /\ process' = "stopping"
        /\ UNCHANGED <<rows, row, lastSeq, delivery, call, request, work, starts, resumes, client,
                       wire, accepted>>

Exit == /\ process' = "down"
        /\ worker' = NoRun /\ cancelled' = FALSE
        /\ Gone({p \in Parent : inline[p] # "idle"})
        /\ Closed
        /\ UNCHANGED <<rows, row, lastSeq, delivery, call, starts, resumes, accepted>>

Stopped == process = "stopping" /\ worker = NoRun /\ Exit
Crash == process # "down" /\ Exit

Restart == /\ process = "down" /\ starts < MaxStarts
           /\ process' = "up"
           /\ starts' = starts + 1
           /\ UNCHANGED <<rows, row, lastSeq, delivery, call, request, work, resumes, client, wire,
                          accepted>>

Next == \/ \E p \in Parent :
             \/ Request(p) \/ RequestCut(p)
             \/ \E type \in {"text.delta", "run.completed", "other"} : Frame(p, type)
             \/ Abort(p) \/ Answer(p) \/ Fail(p) \/ Abandon(p)
             \/ Repeat(p) \/ HandBack(p) \/ Execute(p) \/ Spawn(p) \/ Executed(p)
             \/ \E s \in {"completed", "failed"} : ChildEnds(p, s)
        \/ \E r \in Run :
             \/ Take(r) \/ WorkerThrows(r) \/ WorkerCancels(r)
             \/ \E s \in Outcome : WorkerEnds(r, s)
             \/ CancelRun(r) \/ ResumeRun(r) \/ ToolResult(r) \/ Lapse(r)
        \/ \E n \in 0..lastSeq[Followed] : Connect(n)
        \/ Disconnect
        \/ Stop \/ Stopped \/ Crash \/ Restart

WorkerReturns(r) == WorkerThrows(r) \/ \E s \in Outcome : WorkerEnds(r, s)

(* The pump polls, an executor returns, time passes, and the process is    *)
(* started again; nothing is assumed of requests, upstream or clients.     *)
Fairness == /\ \A r \in Run : WF_vars(Take(r)) /\ WF_vars(WorkerReturns(r)) /\ WF_vars(Lapse(r))
            /\ WF_vars(Stopped)
            /\ WF_vars(Restart)

Spec == Init /\ [][Next]_vars /\ Fairness

----------------------------------------------------------------------------
(* A terminal status is never rewritten, by whom it may: a worker whose    *)
(* run was cancelled or taken over, a request that ends late, a route, a   *)
(* restart (releaseInternal, acquireRunLease).                             *)
TerminalIsFinal ==
  [][\A r \in Run : status[r] \in Terminal => status'[r] = status[r]]_vars

(* A client that had the events up to some point and connects again is     *)
(* sent each later one, once and in order, and none is held back: so over  *)
(* any number of broken connections and restarts it has the events of the  *)
(* run without gap or repetition (ReplayBridge, appendEvents).             *)
ReplayExact == conn => wire = [i \in 1..(lastSeq[Followed] - seen) |-> seen + i]

(* A call's result is accepted once, whether the tool loop and the route   *)
(* both have one, or the upstream repeats the call (submitToolResult,      *)
(* recordToolCall).                                                        *)
ResultOnce == \A r \in Run : accepted[r] <= 1

Attended(r) == worker = r \/ IF r \in Parent THEN inline[r] \notin {"idle", "over"}
                             ELSE inline[r[2]] = "child"
Waits(r) == /\ ~Attended(r)
            /\ \/ status[r] = "queued"
               \/ status[r] = "running" /\ lease[r] # "none"

(* A run that is queued, or was left running with a lease by a crash or by *)
(* a request that was abandoned, is taken by the worker (acquireRunLease), *)
(* as long as the process is started again.                                *)
LeftRunTaken == \A r \in Run : Waits(r) ~> (~Waits(r) \/ process = "down")
=============================================================================
