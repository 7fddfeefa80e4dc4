----------------------------- MODULE SessionHub ----------------------------
(***************************************************************************)
(* SessionHub (session-hub.ts): the live durable sessions, their state,    *)
(* the tool calls each of them holds open, the hold timers, and the limit  *)
(* on how many may live.  The calls on one session's slot are those of the *)
(* request inside its lock (SessionLock), except registerHold, which the   *)
(* SDK's agent calls, and the hold timer.                                  *)
(*                                                                         *)
(* Times are what is left of them (deadlines) or what has passed of them   *)
(* (ages), so the clock needs no bound.                                    *)
(***************************************************************************)
EXTENDS Integers, Sequences, FiniteSets, FiniteSetsExt, TLC

CONSTANTS Session,      \* session ids
          Call,         \* tool call ids
          CallsOf,      \* CallsOf[s]: the calls an agent of s may make
          Delegated,    \* the calls of tools the client delegates (Task)
          Limits,       \* the settings configure() may put in force
          NoTime        \* undefined

ASSUME DelegatedAssumption == Delegated \subseteq Call
ASSUME CallsOfAssumption == CallsOf \in [Session -> SUBSET Call]
ASSUME LimitsAssumption ==
  /\ Limits \subseteq [hold : Nat \ {0}, delegate : Nat \ {0}, idle : Nat \ {0},
                       live : Nat \ {0}]
  /\ IsFiniteSet(Limits) /\ Limits # {}
ASSUME NoTimeAssumption == NoTime \notin Int

VARIABLES limits,       \* holdTtlMs, delegateHoldTtlMs, idleTtlMs, maxLiveSessions
          order,        \* keys of the slots map, least recently used first
          state,        \* state[s]: the slot's state, "none" without a slot
          hold,         \* hold[s][c]: time left of a pending execute, or NoTime
          deadline,     \* deadline[s]: time left of the slot's holdDeadline
          timer,        \* timer[s]: time left of its entry in holdTimers
          age,          \* age[s]: time since lastUsedAt
          fate,         \* fate[s][c]: what became of the execute's promise
          inside        \* inside[s]: a request is inside the session's lock

slotVars == <<order, state, hold, deadline, timer, age, fate>>
vars == <<limits, order, state, hold, deadline, timer, age, fate, inside>>

Live == {s \in Session : state[s] # "none"}

Pending(s) == {c \in Call : hold[s][c] # NoTime}

Ttls == UNION {{l.hold, l.delegate} : l \in Limits}
Time == 0..Max(Ttls)
Age == 0..Max({l.idle : l \in Limits})

(* f with v at the members of D. *)
Set(f, D, v) == [x \in DOMAIN f |-> IF x \in D THEN v ELSE f[x]]

----------------------------------------------------------------------------
Init == /\ limits \in Limits
        /\ order = <<>>
        /\ state = [s \in Session |-> "none"]
        /\ hold = [s \in Session |-> [c \in Call |-> NoTime]]
        /\ deadline = [s \in Session |-> NoTime]
        /\ timer = [s \in Session |-> NoTime]
        /\ age = [s \in Session |-> 0]
        /\ fate = [s \in Session |-> [c \in Call |-> "none"]]
        /\ inside = [s \in Session |-> FALSE]

----------------------------------------------------------------------------
(* The pieces the operations are made of. *)

(* The members of D in the sequence u, in u's order (a function, where     *)
(* SelectSeq would be one the provers cannot expand).                      *)
Only(u, D) == LET kept[i \in 0..Len(u)] ==
                    IF i = 0 THEN <<>>
                    ELSE IF u[i] \in D THEN Append(kept[i - 1], u[i]) ELSE kept[i - 1]
              IN kept[Len(u)]

(* Mutant: the time of use moves and the place in the map does not. *)
TouchInPlace(s) == /\ age' = [age EXCEPT ![s] = 0]
                   /\ UNCHANGED order

(* touch: s becomes the most recently used. *)
Touch(s) == /\ order' = Append(Only(order, Session \ {s}), s)
            /\ age' = [age EXCEPT ![s] = 0]

(* The time left of the last of the holds h, of a full TTL without any. *)
Latest(h) == LET open == {c \in Call : h[c] # NoTime}
             IN IF open = {} THEN limits.hold ELSE Max({h[c] : c \in open})

(* Mutants: the deadline of the first hold; a deadline without a timer. *)
EarliestHold(h) == LET open == {c \in Call : h[c] # NoTime}
                   IN IF open = {} THEN limits.hold ELSE Min({h[c] : c \in open})

RefreshToEarliest(s, h) == /\ deadline' = [deadline EXCEPT ![s] = EarliestHold(h)]
                           /\ timer' = [timer EXCEPT ![s] = EarliestHold(h)]

RefreshWithoutTimer(s, h) == /\ deadline' = [deadline EXCEPT ![s] = Latest(h)]
                             /\ UNCHANGED timer

(* refreshHoldDeadline and armHoldTimer, given the slot's holds h. *)
RefreshHoldDeadline(s, h) == /\ deadline' = [deadline EXCEPT ![s] = Latest(h)]
                             /\ timer' = [timer EXCEPT ![s] = Latest(h)]

(* Mutant: the deadline goes and its timer stays armed. *)
ClearDeadlineOnly(s) == /\ deadline' = [deadline EXCEPT ![s] = NoTime]
                        /\ UNCHANGED timer

(* holdDeadline = undefined; clearHoldTimer. *)
ClearHoldDeadline(s) == /\ deadline' = [deadline EXCEPT ![s] = NoTime]
                        /\ timer' = [timer EXCEPT ![s] = NoTime]

(* The slots for which expiryReason has one. *)
Expired == {s \in Live : \/ state[s] = "awaiting_tools" /\ deadline[s] = 0
                         \/ state[s] = "idle" /\ age[s] >= limits.idle}

(* Mutant: the slot goes without its pending executes being rejected. *)
DropSilently(D) == /\ order' = Only(order, Session \ D)
                   /\ state' = Set(state, D, "none")
                   /\ hold' = Set(hold, D, [c \in Call |-> NoTime])
                   /\ deadline' = Set(deadline, D, NoTime)
                   /\ timer' = Set(timer, D, NoTime)
                   /\ age' = Set(age, D, 0)
                   /\ UNCHANGED fate

(* drop and the first part of recycle, of the slots D at once: off the map, *)
(* timer cleared, every pending execute rejected; what a dropped agent     *)
(* executes later is rejected at once.                                     *)
Drop(D) == /\ order' = Only(order, Session \ D)
           /\ state' = Set(state, D, "none")
           /\ hold' = Set(hold, D, [c \in Call |-> NoTime])
           /\ deadline' = Set(deadline, D, NoTime)
           /\ timer' = Set(timer, D, NoTime)
           /\ age' = Set(age, D, 0)
           /\ fate' = Set(fate, D, [c \in Call |-> "settled"])

----------------------------------------------------------------------------
(* Requests at the session's lock. *)

(* sweep, with which every acquire and tryAcquire begins. *)
Sweep == /\ Drop(Expired)
         /\ UNCHANGED <<limits, inside>>

(* acquire / tryAcquire return the release function after touch. *)
Enter(s) == /\ ~inside[s]
            /\ inside' = [inside EXCEPT ![s] = TRUE]
            /\ IF s \in Live THEN Touch(s) ELSE UNCHANGED <<order, age>>
            /\ UNCHANGED <<limits, state, hold, deadline, timer, fate>>

(* get finds the slot expired and drops it. *)
GetExpired(s) == /\ inside[s]
                 /\ s \in Expired
                 /\ Drop({s})
                 /\ UNCHANGED <<limits, inside>>

(* Mutant: a slot that awaits a delegated tool is a victim like others. *)
VictimsIncludingDelegated(keep) ==
  LET idle == {s \in Session \ {keep} : state[s] = "idle"}
      waits == {s \in Session \ {keep} : state[s] = "awaiting_tools"}
  IN Only(order, idle) \o Only(order, waits)

(* Live slots in the order pickLruVictim takes them: idle ones first, then *)
(* those that await no delegated tool; each class least recently used first.*)
Victims(keep) ==
  LET idle == {s \in Session \ {keep} : state[s] = "idle"}
      waits == {s \in Session \ {keep} : /\ state[s] = "awaiting_tools"
                                         /\ Pending(s) \cap Delegated = {}}
  IN Only(order, idle) \o Only(order, waits)

(* evictToFit drops victims until there is room for one more, if it can.  *)
Evicted(s) == LET v == Victims(s)
                  n == Min({Len(v), Max({0, Len(order) - limits.live + 1})})
              IN {v[i] : i \in 1..n}

(* Mutant: put does not look at the limit after evicting. *)
FitsUnchecked(s) == TRUE

Fits(s) == Len(order) - Cardinality(Evicted(s)) < limits.live

(* put of a new slot: created "running", resumed "idle"; 503 session_capacity *)
(* when nothing more can be evicted.  A new agent has call ids of its own.  *)
Put(s, st) ==
  LET D == Evicted(s) IN
  /\ inside[s]
  /\ s \notin Live
  /\ order' = Only(order, Session \ D) \o (IF Fits(s) THEN <<s>> ELSE <<>>)
  /\ state' = [Set(state, D, "none") EXCEPT ![s] = IF Fits(s) THEN st ELSE "none"]
  /\ hold' = Set(hold, D, [c \in Call |-> NoTime])
  /\ deadline' = Set(deadline, D, NoTime)
  /\ timer' = Set(timer, D, NoTime)
  /\ age' = Set(age, D \cup {s}, 0)
  /\ fate' = [Set(fate, D, [c \in Call |-> "settled"])
                EXCEPT ![s] = [c \in Call |-> IF Fits(s) THEN "none" ELSE "settled"]]
  /\ UNCHANGED <<limits, inside>>

(* settleDurableSlotState and release: the slot is left idle or awaiting   *)
(* tools, or not at all.                                                   *)
Leave(s) == /\ inside[s]
            /\ inside' = [inside EXCEPT ![s] = FALSE]
            /\ \/ /\ s \in Expired \/ (state[s] = "running" /\ Pending(s) = {})
                  /\ Drop({s})
               \/ /\ state[s] = "running" /\ Pending(s) # {}
                  /\ state' = [state EXCEPT ![s] = "awaiting_tools"]
                  /\ RefreshHoldDeadline(s, hold[s])
                  /\ Touch(s)
                  /\ UNCHANGED <<hold, fate>>
               \/ /\ s \notin Expired /\ state[s] # "running"
                  /\ UNCHANGED slotVars
            /\ UNCHANGED limits

----------------------------------------------------------------------------
(* What the request inside does to its slot. *)

ToState(s, st) == /\ inside[s]
                  /\ s \in Live
                  /\ state' = [state EXCEPT ![s] = st]
                  /\ Touch(s)
                  /\ UNCHANGED <<limits, hold, fate, inside>>

(* markRunning: a send, or the run goes on after its last tool result. *)
MarkRunning(s) == ToState(s, "running") /\ ClearHoldDeadline(s)

(* markIdle: the turn is over. *)
MarkIdle(s) == ToState(s, "idle") /\ ClearHoldDeadline(s)

(* beginAwaitingTools: a run is parked on the executes it holds open. *)
BeginAwaitingTools(s) == /\ state[s] = "running" \/ Pending(s) # {}
                         /\ ToState(s, "awaiting_tools")
                         /\ RefreshHoldDeadline(s, hold[s])

(* resolvePending / rejectPending: execute c is answered, and the run goes *)
(* on after the last one.                                                  *)
SettlePending(s, c) ==
  LET h == [hold[s] EXCEPT ![c] = NoTime] IN
  /\ inside[s]
  /\ s \in Live
  /\ c \in Pending(s)
  /\ hold' = [hold EXCEPT ![s] = h]
  /\ fate' = [fate EXCEPT ![s][c] = "settled"]
  /\ Touch(s)
  /\ \/ state[s] # "awaiting_tools" /\ UNCHANGED <<state, deadline, timer>>
     \/ /\ state[s] = "awaiting_tools" /\ Pending(s) = {c}
        /\ state' = [state EXCEPT ![s] = "running"]
        /\ ClearHoldDeadline(s)
     \/ /\ state[s] = "awaiting_tools" /\ Pending(s) # {c}
        /\ RefreshHoldDeadline(s, h)
        /\ UNCHANGED state
  /\ UNCHANGED <<limits, inside>>

(* dropDurableSession. *)
DropExplicit(s) == /\ inside[s]
                   /\ s \in Live
                   /\ Drop({s})
                   /\ UNCHANGED <<limits, inside>>

----------------------------------------------------------------------------
(* What happens by itself. *)

HoldTtl(c) == IF c \in Delegated THEN limits.delegate ELSE limits.hold

(* Mutant: a hold registered while the slot awaits does not move the deadline. *)
RegisterHoldKeepingDeadline(s, c) ==
  /\ s \in Live
  /\ c \in CallsOf[s]
  /\ fate[s][c] = "none"
  /\ hold' = [hold EXCEPT ![s][c] = HoldTtl(c)]
  /\ fate' = [fate EXCEPT ![s][c] = "waiting"]
  /\ UNCHANGED <<limits, order, state, deadline, timer, age, inside>>

(* registerHold: the agent executes a tool.  (Without a slot the execute is *)
(* rejected at once.)                                                      *)
RegisterHold(s, c) ==
  LET h == [hold[s] EXCEPT ![c] = HoldTtl(c)] IN
  /\ s \in Live
  /\ c \in CallsOf[s]
  /\ fate[s][c] = "none"
  /\ hold' = [hold EXCEPT ![s] = h]
  /\ fate' = [fate EXCEPT ![s][c] = "waiting"]
  /\ IF state[s] = "awaiting_tools" THEN RefreshHoldDeadline(s, h)
     ELSE UNCHANGED <<deadline, timer>>
  /\ UNCHANGED <<limits, order, state, age, inside>>

(* The timer of armHoldTimer fires: whatever the slot's state, it is dropped. *)
HoldTimer(s) == /\ timer[s] = 0
                /\ Drop({s} \cap Live)
                /\ UNCHANGED <<limits, inside>>

Less(t) == IF t = NoTime \/ t = 0 THEN t ELSE t - 1

(* Time passes. *)
Tick == /\ hold' = [s \in Session |-> [c \in Call |-> Less(hold[s][c])]]
        /\ deadline' = [s \in Session |-> Less(deadline[s])]
        /\ timer' = [s \in Session |-> Less(timer[s])]
        /\ age' = [s \in Session |-> IF s \in Live THEN Min({age[s] + 1, Max(Age)})
                                                   ELSE 0]
        /\ UNCHANGED <<limits, order, state, fate, inside>>

(* configure: new settings for later holds, sweeps and slots. *)
Configure == /\ limits' \in Limits
             /\ UNCHANGED <<order, state, hold, deadline, timer, age, fate, inside>>

(* dropAll at shutdown. *)
DropAll == /\ Drop(Live)
           /\ UNCHANGED <<limits, inside>>

Next == \/ \E s \in Session :
              \/ Enter(s) \/ GetExpired(s) \/ Leave(s)
              \/ \E st \in {"running", "idle"} : Put(s, st)
              \/ MarkRunning(s) \/ MarkIdle(s) \/ BeginAwaitingTools(s)
              \/ DropExplicit(s) \/ HoldTimer(s)
              \/ \E c \in Call : SettlePending(s, c) \/ RegisterHold(s, c)
        \/ Sweep \/ Tick \/ Configure \/ DropAll

(* The clock runs and due timers fire.  No request must come, go on or end. *)
Fairness == WF_vars(Tick) /\ \A s \in Session : WF_vars(HoldTimer(s))

Spec == Init /\ [][Next]_vars
FairSpec == Spec /\ Fairness

----------------------------------------------------------------------------
TypeOK == /\ limits \in Limits
          /\ order \in Seq(Session)
          /\ state \in [Session -> {"none", "running", "awaiting_tools", "idle"}]
          /\ hold \in [Session -> [Call -> Time \cup {NoTime}]]
          /\ deadline \in [Session -> Time \cup {NoTime}]
          /\ timer \in [Session -> Time \cup {NoTime}]
          /\ age \in [Session -> Age]
          /\ fate \in [Session -> [Call -> {"none", "waiting", "settled"}]]
          /\ inside \in [Session -> BOOLEAN]

(* The map's insertion order is the order of use: each live slot is in it  *)
(* once, and an earlier one has not been used later.  pickLruVictim relies *)
(* on it and no operation sorts.                                           *)
OrderIsLru == /\ \A i, j \in DOMAIN order : i < j => /\ order[i] # order[j]
                                                     /\ age[order[i]] >= age[order[j]]
              /\ {order[i] : i \in DOMAIN order} = Live

(* An armed timer belongs to a slot that awaits tools, and fires at that   *)
(* slot's deadline; a timer left armed would kill the turn that runs now,  *)
(* since it drops the slot whatever its state.                             *)
TimerMatchesSlot == \A s \in Session :
                      /\ timer[s] # NoTime <=> state[s] = "awaiting_tools"
                      /\ timer[s] = deadline[s]

(* The slot's deadline is not before that of any execute it holds open.    *)
DeadlineCoversHolds == \A s \in Live : state[s] = "awaiting_tools" =>
                          \A c \in Pending(s) : hold[s][c] <= deadline[s]

(* No execute's promise is forgotten: one that waits is pending in a live  *)
(* slot, whatever dropped slots, answers and timers came before.           *)
NoHoldForgotten == \A s \in Session, c \in Call :
                     fate[s][c] = "waiting" <=> s \in Live /\ c \in Pending(s)

(* A slot whose hold expired, by its timer, a sweep or a look at it, had   *)
(* no execute left with time to go.                                        *)
HoldsGetTheirTtl ==
  [][(Sweep \/ \E s \in Session : HoldTimer(s) \/ GetExpired(s))
        => \A s \in Live : (s \notin Live' /\ state[s] # "idle")
              => \A c \in Pending(s) : hold[s][c] = 0]_vars

(* Eviction spares a running turn and a delegated wait, and takes a slot   *)
(* that awaits tools only when no idle one is left.                        *)
EvictionSpares ==
  [][(\E s \in Session, st \in {"running", "idle"} : Put(s, st))
        => \A s \in Live : s \notin Live' =>
             /\ state[s] # "running"
             /\ state[s] = "awaiting_tools" =>
                  /\ Pending(s) \cap Delegated = {}
                  /\ \A t \in Live' \cap Live : state[t] # "idle"]_vars

(* No step adds a slot beyond the limit in force, even after configure     *)
(* lowered it.                                                             *)
CapacityKept == [][Len(order') > Len(order) => Len(order') <= limits.live]_vars

(* A slot does not await tools for ever: they are answered, or it goes.    *)
AwaitingEnds == \A s \in Session :
                  state[s] = "awaiting_tools" ~> state[s] # "awaiting_tools"
============================================================================
