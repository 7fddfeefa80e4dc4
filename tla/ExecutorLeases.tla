-------------------------- MODULE ExecutorLeases --------------------------
(***************************************************************************)
(* ExecutorWarmPool (executor-warmup.ts): the gateway holds the release    *)
(* handle of every executor it has warmed up, since an executor whose      *)
(* handle is lost is never disposed by the SDK.  A workspace is warmed,    *)
(* recycled after an authentication failure, or all are released.          *)
(*                                                                         *)
(* A settle task gives one lease back: it waits for the warm-up, calls     *)
(* the handle, and waits for that call, all before one deadline.  Several  *)
(* tasks may work on one lease.  A step is a call up to its first wait, or *)
(* the end of a wait with the promise reactions that follow it at once.    *)
(* A caller with nothing left to do (recycle, a warm that joins another's  *)
(* warm-up) is its task only.  The gateway itself warms once, at start;    *)
(* the module allows what the class allows, any number of calls at once.   *)
(* Times are left out: a cooldown ends and a deadline passes at any        *)
(* moment, and any lease but the new one may be the least recently used.   *)
(***************************************************************************)
EXTENDS Naturals, FiniteSets, Functions

CONSTANTS Id,         \* leaseId: key and directory
          NoId,       \* undefined, of an orphan
          Home,       \* the id that the gateway warms at its start
          Admin,      \* administrators and the shutdown: releaseAll
          MaxSize,    \* maxLeases
          MaxMade,    \* bound: leases made
          Budget      \* bounds: b[i] calls for i, b[NoId] of releaseAll, b \in Budget

ASSUME IdAssumption == NoId \notin Id /\ Home \in Id
ASSUME BoundAssumption == {MaxSize, MaxMade} \subseteq Nat \ {0}
ASSUME BudgetAssumption == Budget \subseteq [Id \cup {NoId} -> Nat]

(* Every call for an id makes one lease at the most, the start one: the    *)
(* bound on leases is above what the calls can make.                       *)
ASSUME MadeAssumption == \A b \in Budget : FoldFunctionOnSet(+, 0, b, Id) < MaxMade

VARIABLES table,      \* table[i]: leases, 0 for no entry
          orphans,    \* leases kept without an entry
          lease,      \* lease[n]: the n-th lease
          tasks,      \* settling, and warms about to go on after their task
          cooling,    \* ids whose cooldownUntil lies ahead
          admin,      \* admin[a]: the locals of a's releaseAll
          left,       \* left[i]: calls that may still be made
          overwritten \* history: leases that warm's set has overwritten

vars == <<table, orphans, lease, tasks, cooling, admin, left, overwritten>>

Lease == 1..MaxMade

Unused == [id |-> NoId, warmup |-> "none", retiring |-> FALSE, retained |-> FALSE,
           releasing |-> FALSE, running |-> 0, released |-> FALSE]
Warming(i) == [Unused EXCEPT !.id = i, !.warmup = "running"]

Idle == [busy |-> FALSE, waits |-> {}, failed |-> FALSE, took |-> {}]

Entries == {table[i] : i \in Id} \ {0}

(* The lease keeps its executor alive in the SDK's cache. *)
Held(n) == lease[n].warmup = "landed" /\ ~lease[n].released

(* The gateway has started: it warms the home id. *)
Init == /\ table = [i \in Id |-> IF i = Home THEN 1 ELSE 0]
        /\ orphans = {}
        /\ lease = [n \in Lease |-> IF n = 1 THEN Warming(Home) ELSE Unused]
        /\ tasks = {}
        /\ cooling = {}
        /\ admin = [a \in Admin |-> Idle]
        /\ left \in Budget
        /\ overwritten = {}

Called(i) == left[i] > 0 /\ left' = [left EXCEPT ![i] = @ - 1]

----------------------------------------------------------------------------
(* trackSettle: a task has its lease and a number of its own; "warms" says *)
(* that a warm waits for it.                                               *)
Settling == {t \in tasks : t.at # "cleared"}
Number(n) == CHOOSE k \in 1..(Cardinality(tasks) + 1) :
               \A t \in tasks : t.name # <<n, k>>
Task(n, i) == [name |-> <<n, Number(n)>>, lease |-> n, id |-> i, warms |-> FALSE,
               at |-> IF lease[n].warmup = "running" THEN "warmup" ELSE "release"]
Names(T) == {t.name : t \in T}

(* A path that takes a lease out of its place marks it first. *)
Retire(l) == [l EXCEPT !.retiring = TRUE, !.retained = FALSE]

(* releaseSettled: the handle is called unless a call of it is kept. *)
Begin(l) == IF l.warmup = "landed" /\ ~l.releasing
            THEN [l EXCEPT !.releasing = TRUE, !.running = @ + 1] ELSE l

(* Mutant: a lease whose id is taken is not kept. *)
RetainIfFree(n, i) == /\ IF ~lease[n].retained /\ i # NoId /\ table[i] = 0
                         THEN table' = [table EXCEPT ![i] = n] ELSE UNCHANGED table
                      /\ UNCHANGED orphans

(* retain: back into the table if the id is free, else among the orphans. *)
Retain(n, i) ==
  IF lease[n].retained THEN UNCHANGED <<table, orphans>>
  ELSE IF i # NoId /\ table[i] = 0
       THEN table' = [table EXCEPT ![i] = n] /\ UNCHANGED orphans
       ELSE orphans' = orphans \cup {n} /\ UNCHANGED table

(* The tasks T are over: who waits for them hears how it went. *)
Over(T, failed) ==
  /\ tasks' = (tasks \ T) \cup {[t EXCEPT !.at = "cleared"] : t \in
                                  {u \in T : u.warms /\ ~failed}}
  /\ admin' = [a \in Admin |->
                 [admin[a] EXCEPT !.waits = @ \ Names(T),
                                  !.failed = @ \/ (failed /\ admin[a].waits \cap Names(T) # {})]]

----------------------------------------------------------------------------
(* evictOverflow: who goes when the table with the new lease is too large. *)
Overflow(tab, i) ==
  LET size == Cardinality({j \in Id : tab[j] # 0})
  IN {E \in SUBSET ({tab[j] : j \in Id \ {i}} \ {0}) :
        Cardinality(E) = IF size > MaxSize THEN size - MaxSize ELSE 0}

(* The first of the leases not made yet. *)
Fresh == {n \in Lease : /\ lease[n].warmup = "none"
                        /\ \A m \in Lease : m < n => lease[m].warmup # "none"}

(* warm registers a lease of its own and lets the ones over the limit go;  *)
(* T: the tasks that go on beside the new ones.                            *)
Register(i, tab, T) ==
  \E n \in Fresh : LET new == [tab EXCEPT ![i] = n] IN \E E \in Overflow(new, i) :
     /\ table' = [j \in Id |-> IF new[j] \in E THEN 0 ELSE new[j]]
     /\ lease' = [m \in Lease |-> IF m \in E THEN Begin(Retire(lease[m]))
                                  ELSE IF m = n THEN Warming(i) ELSE lease[m]]
     /\ tasks' = T \cup {Task(m, CHOOSE j \in Id : tab[j] = m) : m \in E}
     /\ overwritten' = overwritten \cup ({tab[i]} \ {0})

Warm(i) == /\ i \notin cooling
           /\ table[i] = 0
           /\ Called(i)
           /\ Register(i, table, tasks)
           /\ UNCHANGED <<orphans, cooling, admin>>

(* The entry is left over from a release that failed: settle it first. *)
Clear(i) == /\ i \notin cooling
            /\ table[i] # 0
            /\ lease[table[i]].retiring
            /\ Called(i)
            /\ tasks' = tasks \cup {[Task(table[i], i) EXCEPT !.warms = TRUE]}
            /\ lease' = [lease EXCEPT ![table[i]] = Begin(@)]
            /\ UNCHANGED <<table, orphans, cooling, admin, overwritten>>

(* warm goes on, with whatever is in the table by now. *)
Cleared(t) == /\ t.at = "cleared"
              /\ Register(t.id, IF table[t.id] = t.lease THEN [table EXCEPT ![t.id] = 0]
                                ELSE table, tasks \ {t})
              /\ UNCHANGED <<orphans, cooling, admin, left>>

(* The SDK answers a warm-up: with a handle, with none, or with an error.  *)
(* A lease that is no longer in the table is released at once; one that    *)
(* failed is taken out of it.  The tasks that waited call the handle.      *)
Land(n, how) ==
  LET i == lease[n].id
      lost == table[i] # n /\ how # "failed"
      late == IF lost THEN {[Task(n, i) EXCEPT !.at = "release"]} ELSE {}
      waited == {t \in tasks : t.lease = n /\ t.at = "warmup"}
      l == [lease[n] EXCEPT !.warmup = how, !.retiring = @ \/ lost]
  IN /\ lease[n].warmup = "running"
     /\ lease' = [lease EXCEPT ![n] = IF late \cup waited # {} THEN Begin(l) ELSE l]
     /\ tasks' = (tasks \ waited) \cup {[t EXCEPT !.at = "release"] : t \in waited} \cup late
     /\ table' = IF how = "failed" /\ table[i] = n THEN [table EXCEPT ![i] = 0] ELSE table
     /\ UNCHANGED <<orphans, cooling, admin, left, overwritten>>

----------------------------------------------------------------------------
Recycle(i) ==
  /\ Called(i)
  /\ cooling' = cooling \cup {i}
  /\ IF table[i] = 0
     THEN UNCHANGED <<table, lease, tasks>>
     ELSE /\ lease' = [lease EXCEPT ![table[i]] = Begin(Retire(@))]
          /\ table' = [table EXCEPT ![i] = 0]
          /\ tasks' = tasks \cup {Task(table[i], i)}
  /\ UNCHANGED <<orphans, admin, overwritten>>

CoolDown(i) == /\ i \in cooling
               /\ cooling' = cooling \ {i}
               /\ UNCHANGED <<table, orphans, lease, tasks, admin, left, overwritten>>

(* Mutant: only the tasks that releaseAll itself has started. *)
OwnOnly(mine) == mine

(* releaseAll waits for what is settling already, too. *)
Awaited(mine) == Settling \cup mine

(* Every lease in the table and every orphan gets a task; the tasks that   *)
(* were already under way are waited for too.                              *)
ReleaseAll(a) ==
  LET mine == {Task(table[i], i) : i \in {j \in Id : table[j] # 0}}
                \cup {Task(n, NoId) : n \in orphans}
  IN /\ ~admin[a].busy
     /\ Called(NoId)
     /\ lease' = [n \in Lease |-> IF n \in Entries \cup orphans
                                  THEN Begin(Retire(lease[n])) ELSE lease[n]]
     /\ tasks' = tasks \cup mine
     /\ admin' = [admin EXCEPT ![a] =
                    [busy |-> TRUE, waits |-> Names(Awaited(mine)), failed |-> FALSE,
                     took |-> {t.lease : t \in Settling \cup mine}]]
     /\ table' = [i \in Id |-> 0]
     /\ orphans' = {}
     /\ UNCHANGED <<cooling, overwritten>>

Return(a) == /\ admin[a].busy
             /\ admin[a].waits = {}
             /\ admin' = [admin EXCEPT ![a] = Idle]
             /\ UNCHANGED <<table, orphans, lease, tasks, cooling, left, overwritten>>

----------------------------------------------------------------------------
(* The tasks that wait for the release of lease n. *)
Waiting(n) == {t \in tasks : t.lease = n /\ t.at = "release"}

(* The SDK's release call ends, well or badly (a call that throws at once  *)
(* is one that fails): the tasks that wait for it end with it.             *)
Released(n) == /\ lease[n].running > 0
               /\ lease' = [lease EXCEPT ![n].running = @ - 1, ![n].released = TRUE]
               /\ Over(Waiting(n), FALSE)
               /\ UNCHANGED <<table, orphans, cooling, left, overwritten>>

ReleaseFails(n) ==
  /\ lease[n].running > 0
  /\ IF Waiting(n) = {}
     THEN /\ lease' = [lease EXCEPT ![n].running = @ - 1]
          /\ UNCHANGED <<table, orphans, tasks, admin>>
     ELSE \E t \in Waiting(n) :
            /\ Retain(n, t.id)
            /\ lease' = [lease EXCEPT ![n].running = @ - 1, ![n].releasing = FALSE,
                                      ![n].retained = TRUE]
            /\ Over(Waiting(n), TRUE)
  /\ UNCHANGED <<cooling, left, overwritten>>

(* The task came when there was nothing left to release. *)
NothingToRelease(t) ==
  /\ t.at = "release"
  /\ lease[t.lease].released \/ lease[t.lease].warmup # "landed"
  /\ Over({t}, FALSE)
  /\ UNCHANGED <<table, orphans, lease, cooling, left, overwritten>>

(* A release that failed while nobody waited is kept as rejected: the next *)
(* task meets the rejection and clears it.                                 *)
FailedBefore(t) ==
  LET n == t.lease
  IN /\ t.at = "release"
     /\ lease[n].releasing /\ lease[n].running = 0 /\ ~lease[n].released
     /\ Retain(n, t.id)
     /\ lease' = [lease EXCEPT ![n].releasing = FALSE, ![n].retained = TRUE]
     /\ Over({t}, TRUE)
     /\ UNCHANGED <<cooling, left, overwritten>>

(* Mutant: a call that timed out is forgotten. *)
TimeoutForgets(t) ==
  /\ t.at \in {"warmup", "release"}
  /\ Retain(t.lease, t.id)
  /\ lease' = [lease EXCEPT ![t.lease].retained = TRUE, ![t.lease].releasing = FALSE]
  /\ Over({t}, TRUE)
  /\ UNCHANGED <<cooling, left, overwritten>>

(* Mutant: a warm-up is waited for without a deadline. *)
TimeoutOfCall(t) == /\ t.at = "release"
                    /\ Retain(t.lease, t.id)
                    /\ lease' = [lease EXCEPT ![t.lease].retained = TRUE]
                    /\ Over({t}, TRUE)
                    /\ UNCHANGED <<cooling, left, overwritten>>

(* The task's deadline: the lease is kept for a later release, a release   *)
(* call that is under way stays its lease's.                               *)
Timeout(t) == /\ t.at \in {"warmup", "release"}
              /\ Retain(t.lease, t.id)
              /\ lease' = [lease EXCEPT ![t.lease].retained = TRUE]
              /\ Over({t}, TRUE)
              /\ UNCHANGED <<cooling, left, overwritten>>

----------------------------------------------------------------------------
Next == \/ \E i \in Id : Warm(i) \/ Clear(i) \/ Recycle(i) \/ CoolDown(i)
        \/ \E a \in Admin : ReleaseAll(a) \/ Return(a)
        \/ \E n \in Lease :
             \/ \E how \in {"landed", "empty", "failed"} : Land(n, how)
             \/ Released(n)
             \/ ReleaseFails(n)
        \/ \E t \in tasks : \/ Cleared(t)
                            \/ NothingToRelease(t)
                            \/ FailedBefore(t)
                            \/ Timeout(t)

Spec == Init /\ [][Next]_vars

(* Deadlines pass and promise reactions run; the SDK need not answer.      *)
Fairness == /\ WF_vars(\E t \in tasks : Cleared(t) \/ NothingToRelease(t) \/ FailedBefore(t))
            /\ WF_vars(\E t \in tasks : Timeout(t))
            /\ \A a \in Admin : WF_vars(Return(a))

FairSpec == Spec /\ Fairness

----------------------------------------------------------------------------
(* The SDK counts references: a second release of one lease would take     *)
(* somebody else's away (executor-warmup.ts:50-53).  No lease has two      *)
(* calls under way, or one after its handle was given back, however many   *)
(* tasks work on it and however often they time out and start over.        *)
ReleasedOnce == \A n \in Lease : /\ lease[n].running <= 1
                                 /\ lease[n].released => lease[n].running = 0

(* A handle is never lost: while the executor is held, the lease is in the *)
(* table, among the orphans, or a task has it.  Excepted are leases that   *)
(* a warm has overwritten: it had waited for a release of the entry while  *)
(* the entry was taken away and a newer warm had put another there.        *)
HandleKept == \A n \in Lease \ overwritten :
                 Held(n) => n \in Entries \cup orphans \cup {t.lease : t \in tasks}

(* The report of releaseAll is what the operator is told: when it says ok, *)
(* no lease that the pool had when it was called holds an executor still,  *)
(* those included that an eviction or a recycle was already working on.    *)
ReportIsTrue ==
  [][\A a \in Admin :
       admin[a].busy /\ ~admin'[a].busy /\ ~admin[a].failed =>
         \A n \in admin[a].took : ~Held(n) /\ lease[n].warmup # "running"]_vars

(* recycle runs on a request's error path and releaseAll in a shutdown or  *)
(* an administrator's request: both end although the SDK never answers.    *)
ReleaseEnds ==
  /\ \A a \in Admin : admin[a].busy ~> ~admin[a].busy
  /\ \A n \in Lease : n \in {t.lease : t \in Settling} ~> n \notin {t.lease : t \in Settling}
============================================================================
