--------------------------- MODULE UsageBooking ---------------------------
(***************************************************************************)
(* UsageReconciler (usage-reconciler.ts) with the rows of the store that   *)
(* it writes (store.ts).  What a request has cost is known to Cursor some  *)
(* time after the request: a task asks for it after a delay, a bounded     *)
(* number of times.  Cursor tells the total of the agent.  A durable agent *)
(* serves many requests, so the store keeps per agent the highest total    *)
(* that was booked, and a request is given the growth only; a stateless    *)
(* request has an agent of its own and is given the total.                 *)
(*                                                                         *)
(* The two components of an amount are handled alike and are one here.     *)
(* An answer and the statements it leads to are one step: SQLite is called *)
(* synchronously, in one transaction.  Time is left out: a delay, a        *)
(* timeout and the drain's deadline pass at any moment.                    *)
(***************************************************************************)
EXTENDS Integers, Sequences, FiniteSets, FiniteSetsExt, Functions, SequencesExt

CONSTANTS Log,          \* requests, each with its row of request_logs
          Session,      \* durable agents, shared by the requests of a session
          NoAgent,
          MaxTotal,     \* bound: what one agent costs
          MaxAttempts,  \* maxAttempts
          Concurrency,  \* CONCURRENCY
          MaxSwitches   \* bound: how often the mode is switched

ASSUME AgentAssumption == /\ IsFiniteSet(Log)
                          /\ Log \cap Session = {}
                          /\ NoAgent \notin Log \cup Session
ASSUME LimitAssumption == /\ MaxTotal \in Nat
                          /\ MaxAttempts \in Nat \ {0}
                          /\ Concurrency \in Nat \ {0}
                          /\ MaxSwitches \in Nat

VARIABLES row,        \* row[l]: cost columns; Absent, or Unknown for NULL
          baseline,   \* baseline[a]: agent_usage_baselines
          total,      \* total[a]: what Cursor has charged for agent a
          agentOf,    \* agentOf[l]: telemetryRef.agentId
          task,       \* task[l]: where the pending task of l is
          attempt,    \* attempt[l]: of that task
          queue,      \* the tasks whose delay is over
          durable,    \* useDurableHub()
          switches,   \* how often it was switched
          shutdown,   \* "no", "closing" the app, "draining", "drained"
          expired,    \* drainExpired
          cleared,    \* history: cleared[a]: amounts in rows since deleted
          strays      \* history: durable agents booked while stateless

vars == <<row, baseline, total, agentOf, task, attempt, queue, durable, switches,
          shutdown, expired, cleared, strays>>

Agent == Log \cup Session
Absent == -2
Unknown == -1
Amount(l) == IF row[l] > 0 THEN row[l] ELSE 0

Init == /\ row = [l \in Log |-> Absent]
        /\ baseline = [a \in Agent |-> 0]
        /\ total = [a \in Agent |-> 0]
        /\ agentOf = [l \in Log |-> NoAgent]
        /\ task = [l \in Log |-> "none"]
        /\ attempt = [l \in Log |-> 0]
        /\ queue = <<>>
        /\ durable \in BOOLEAN
        /\ switches = 0
        /\ shutdown = "no"
        /\ expired = FALSE
        /\ cleared = [a \in Agent |-> 0]
        /\ strays = {}

----------------------------------------------------------------------------
(* pending(): timers, queue and calls under way. *)
Pending(T) == {l \in Log : T[l] \in {"delayed", "queued", "active"}}

(* pump and settleDrain, with tasks T and queue q. *)
Pump(T, q) ==
  LET free == Concurrency - Cardinality({l \in Log : T[l] = "active"})
      n == Min({free, Len(q)})
      begun == ToSet(SubSeq(q, 1, n))
  IN /\ task' = [l \in Log |-> IF l \in begun THEN "active" ELSE T[l]]
     /\ queue' = SubSeq(q, n + 1, Len(q))
     /\ shutdown' = IF shutdown = "draining" /\ Pending(T) = {} THEN "drained" ELSE shutdown

(* enqueueAfter: nothing is taken in once the drain was given up. *)
Later == IF expired THEN "over" ELSE "delayed"

(* A request ends: its row is inserted, and unless its key was removed     *)
(* meanwhile a backfill is scheduled.  A durable request ran on the agent  *)
(* of its session, a stateless one on a new agent.                         *)
FinishLog(l, keyGone) ==
  /\ task[l] = "none"
  /\ shutdown \in {"no", "closing"}
  /\ \E a \in IF durable THEN Session ELSE {l} : agentOf' = [agentOf EXCEPT ![l] = a]
  /\ row' = [row EXCEPT ![l] = Unknown]
  /\ task' = [task EXCEPT ![l] = IF keyGone THEN "over" ELSE Later]
  /\ attempt' = [attempt EXCEPT ![l] = 1]
  /\ UNCHANGED <<baseline, total, queue, durable, switches, shutdown, expired, cleared, strays>>

(* Cursor charges for what an agent has run. *)
Charge(a) == /\ a \in {agentOf[l] : l \in Log}
             /\ total[a] < MaxTotal
             /\ total' = [total EXCEPT ![a] = @ + 1]
             /\ UNCHANGED <<row, baseline, agentOf, task, attempt, queue, durable, switches,
                            shutdown, expired, cleared, strays>>

(* The timer of a task. *)
Due(l) == /\ task[l] = "delayed"
          /\ Pump([task EXCEPT ![l] = "queued"], Append(queue, l))
          /\ UNCHANGED <<row, baseline, total, agentOf, attempt, durable, switches, expired,
                         cleared, strays>>

(* Mutant: a task that ends does not start the next one. *)
SettleAlone(l, again) ==
  LET retry == again /\ attempt[l] < MaxAttempts
  IN /\ task' = [task EXCEPT ![l] = IF retry THEN Later ELSE "over"]
     /\ attempt' = [attempt EXCEPT ![l] = IF retry THEN @ + 1 ELSE @]
     /\ UNCHANGED <<total, agentOf, queue, durable, switches, shutdown, expired, cleared>>

(* The task of l has run; it comes again, or is over. *)
Settle(l, again) ==
  LET retry == again /\ attempt[l] < MaxAttempts
  IN /\ Pump([task EXCEPT ![l] = IF retry THEN Later ELSE "over"], queue)
     /\ attempt' = [attempt EXCEPT ![l] = IF retry THEN @ + 1 ELSE @]
     /\ UNCHANGED <<total, agentOf, durable, switches, expired, cleared>>

(* Mutant: the baseline advances although the row is gone. *)
BookGrowthAnyway(l, sum) ==
  LET a == agentOf[l]
      growth == sum - baseline[a]
  IN IF growth <= 0 THEN UNCHANGED <<row, baseline>>
     ELSE /\ baseline' = [baseline EXCEPT ![a] = sum]
          /\ row' = [row EXCEPT ![l] = IF @ = Absent THEN @ ELSE Amount(l) + growth]

(* bookAgentUsageDeltaForRequest: the growth over the highest total, in    *)
(* the row and in the baseline at once; without the row, in neither.       *)
BookGrowth(l, sum) ==
  LET a == agentOf[l]
      growth == sum - baseline[a]
  IN IF row[l] = Absent \/ growth <= 0
     THEN UNCHANGED <<row, baseline>>
     ELSE /\ baseline' = [baseline EXCEPT ![a] = sum]
          /\ row' = [row EXCEPT ![l] = Amount(l) + growth]

Grows(l, sum) == row[l] # Absent /\ sum > baseline[agentOf[l]]

(* updateRequestLogUsage with a cost: the row, if it is there. *)
WriteCost(l, cost) == row' = [row EXCEPT ![l] = IF @ = Absent THEN Absent ELSE cost]

(* Mutant: any total ends the task, one that has not grown, too. *)
TrackedOnce(l, sum) ==
  /\ durable
  /\ IF Grows(l, sum) \/ attempt[l] < MaxAttempts
     THEN BookGrowth(l, sum)
     ELSE WriteCost(l, 0) /\ UNCHANGED baseline
  /\ Settle(l, FALSE)
  /\ UNCHANGED strays

(* Cursor answers with a total, which an old replica may have read.  The   *)
(* mode is asked now, not when the request ran.                            *)
Tracked(l, sum) ==
  /\ durable
  /\ IF Grows(l, sum) \/ attempt[l] < MaxAttempts
     THEN BookGrowth(l, sum)
     ELSE WriteCost(l, 0) /\ UNCHANGED baseline
  /\ Settle(l, ~Grows(l, sum))
  /\ UNCHANGED strays

Untracked(l, sum) == /\ ~durable
                     /\ WriteCost(l, sum)
                     /\ UNCHANGED baseline
                     /\ Settle(l, FALSE)
                     /\ strays' = strays \cup ({agentOf[l]} \cap Session)

Answer(l, sum) == /\ task[l] = "active"
                  /\ sum <= total[agentOf[l]]
                  /\ Tracked(l, sum) \/ Untracked(l, sum)

(* No cost yet, an error, or no answer in time. *)
NoAnswer(l) == /\ task[l] = "active"
               /\ Settle(l, TRUE)
               /\ UNCHANGED <<row, baseline, strays>>

----------------------------------------------------------------------------
(* What was booked for agent a: in rows that are there and in deleted ones. *)
Amounts == [l \in Log |-> Amount(l)]
Sum(L) == SumFunctionOnSet(Amounts, L)
LogsOf(a) == {l \in Log : agentOf[l] = a}
Booked(a) == cleared[a] + Sum(LogsOf(a))

(* Logs are cleared by an administrator, or the oldest trimmed. *)
DeleteLogs(gone) ==
  /\ gone # {}
  /\ \A l \in gone : row[l] # Absent
  /\ cleared' = [a \in Agent |-> cleared[a] + Sum(LogsOf(a) \cap gone)]
  /\ row' = [l \in Log |-> IF l \in gone THEN Absent ELSE row[l]]
  /\ UNCHANGED <<baseline, total, agentOf, task, attempt, queue, durable, switches, shutdown,
                 expired, strays>>

(* An administrator switches between durable and stateless sessions. *)
SwitchMode == /\ switches < MaxSwitches
              /\ switches' = switches + 1
              /\ durable' = ~durable
              /\ UNCHANGED <<row, baseline, total, agentOf, task, attempt, queue, shutdown,
                             expired, cleared, strays>>

----------------------------------------------------------------------------
(* closeAppThenDrainUsage: requests that are under way still end. *)
CloseApp == /\ shutdown = "no"
            /\ shutdown' = "closing"
            /\ UNCHANGED <<row, baseline, total, agentOf, task, attempt, queue, durable,
                           switches, expired, cleared, strays>>

Drain == /\ shutdown = "closing"
         /\ shutdown' = IF Pending(task) = {} THEN "drained" ELSE "draining"
         /\ UNCHANGED <<row, baseline, total, agentOf, task, attempt, queue, durable,
                        switches, expired, cleared, strays>>

(* expireDrain: tasks that are not under way are given up. *)
ExpireDrain ==
  /\ shutdown = "draining"
  /\ shutdown' = "drained"
  /\ expired' = TRUE
  /\ task' = [l \in Log |-> IF task[l] \in {"delayed", "queued"} THEN "over" ELSE task[l]]
  /\ queue' = <<>>
  /\ UNCHANGED <<row, baseline, total, agentOf, attempt, durable, switches, cleared, strays>>

(* The process dies, or exits after the drain, and is started again: the   *)
(* tasks were in memory only.                                              *)
Restart == /\ task' = [l \in Log |-> IF task[l] = "none" THEN "none" ELSE "over"]
           /\ queue' = <<>>
           /\ shutdown' = "no"
           /\ expired' = FALSE
           /\ task' # task \/ shutdown = "drained"
           /\ UNCHANGED <<row, baseline, total, agentOf, attempt, durable, switches, cleared, strays>>

----------------------------------------------------------------------------
Next == \/ \E l \in Log : \/ \E keyGone \in BOOLEAN : FinishLog(l, keyGone)
                          \/ Due(l)
                          \/ \E sum \in 0..MaxTotal : Answer(l, sum)
                          \/ NoAnswer(l)
        \/ \E a \in Agent : Charge(a)
        \/ \E gone \in SUBSET Log : DeleteLogs(gone)
        \/ SwitchMode
        \/ CloseApp
        \/ Drain
        \/ ExpireDrain
        \/ Restart

Spec == Init /\ [][Next]_vars

(* Timers fire, and a call to Cursor is given up after a while. *)
Fairness == /\ \A l \in Log : WF_vars(Due(l)) /\ WF_vars(NoAnswer(l))
            /\ WF_vars(ExpireDrain)

FairSpec == Spec /\ Fairness

----------------------------------------------------------------------------
(* Cursor's totals of a durable agent include what earlier requests were   *)
(* given; nothing is booked a second time (usage-reconciler.ts:216-224):   *)
(* what an agent's requests were given is never more than it cost.         *)
NeverTooMuch == \A a \in Agent : Booked(a) <= total[a]

(* Also, nothing is lost: all that the baseline says was booked is in a    *)
(* row or was in one, although logs are deleted while tasks are under way, *)
(* the process dies between any two steps, and totals are read out of      *)
(* order.  Excepted are durable agents that were booked while the mode was *)
(* stateless, which UsageBookingSwitch shows to be booked twice.           *)
BookedOnce == /\ \A a \in Agent \ strays : Booked(a) <= total[a]
              /\ \A s \in Session \ strays : Booked(s) = baseline[s]

(* A total that has not grown may be an old one: a task that was accepted  *)
(* is over only when the row was given an amount, when it has asked as     *)
(* often as it may, or when the drain or the process gave it up.           *)
AskedUntilBooked ==
  [][Restart \/ expired'
     \/ \A l \in Pending(task) \ Pending(task') :
          \/ attempt[l] = MaxAttempts
          \/ durable /\ row'[l] > Amount(l)
          \/ ~durable /\ row'[l] \in {Absent} \cup Nat]_vars

(* Every accepted task comes to its end, through the queue and its limit,  *)
(* and a drain that was begun ends, whether Cursor answers or not.         *)
EveryTaskEnds == /\ \A l \in Log : l \in Pending(task) ~> l \notin Pending(task)
                 /\ shutdown = "draining" ~> shutdown # "draining"
===========================================================================
