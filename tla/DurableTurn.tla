---------------------------- MODULE DurableTurn ----------------------------
(***************************************************************************)
(* The durable turns of one session (cursor-runner.ts): a request enters   *)
(* the session's lock, finds or makes the slot with its live agent, sends  *)
(* a turn or answers the tool calls the agent's run holds open, and hands  *)
(* on what the run pushes into the slot's pump, until the run ends or has  *)
(* to wait for the client's tools; then the slot outlives the request.     *)
(*                                                                         *)
(* A step is one stretch between two awaits.  The lock is SessionLock's    *)
(* promise; the slot may expire or be evicted whenever SessionHub allows.  *)
(* Slots are named by their agents, and runs by their sends.  The agent    *)
(* and its runs are the SDK's: a run may speak and execute tools until it  *)
(* ends, also after it was told to cancel.                                 *)
(***************************************************************************)
EXTENDS Naturals, Sequences, FiniteSets, SequencesExt

CONSTANTS Request, Nobody,
          MaxAgents,    \* bound on slots made
          MaxRuns,      \* bound on sends
          MaxSaid       \* bound on what one run says

ASSUME NobodyAssumption == Nobody \notin Request
ASSUME BoundAssumption == {MaxAgents, MaxRuns, MaxSaid} \subseteq Nat \ {0}

Agent == 1..MaxAgents
Run == 1..MaxRuns
Exec == Run \X (1..MaxSaid)     \* the n-th thing a run said, a tool call
None == 0

VARIABLES current,      \* the agent of the session's slot in the hub, or None
          agents,       \* how many slots were made
          slot,         \* slot[a]: the slot object of agent a
          box,          \* box[a]: the pump that a's tool callback pushes into
          sends,        \* how many sends were made
          run,          \* run[n]: the n-th send, its run and its pump
          holder,       \* the request inside the lock
          req,          \* req[r]: the locals of request r
          handed,       \* tool calls that went out to the client
          brokenOff     \* tool calls whose client left as they went out

client == <<handed, brokenOff>>

vars == <<current, agents, slot, box, sends, run, holder, req, handed, brokenOff>>

hub == <<current, agents, slot, box, sends, run>>

NewSlot(state) == [state |-> state, pending |-> {}, pump |-> None, issued |-> {},
                   consumed |-> {}, asked |-> FALSE, answered |-> FALSE]

(* deaf: promises of next() that an aborted request left with the pump;     *)
(* lost: one of them took an item.                                         *)
NewRun(a, phase) == [agent |-> a, phase |-> phase, queue |-> <<>>, said |-> 0,
                     deaf |-> 0, lost |-> FALSE]

NoLocals(pc) == [pc |-> pc, kind |-> "new_user", results |-> {}, slot |-> None,
                 first |-> FALSE, caught |-> {}, told |-> {}, tools |-> {}, out |-> FALSE]

Init == /\ current = None
        /\ agents = 0
        /\ slot = [a \in Agent |-> NewSlot("dead")]
        /\ box = [a \in Agent |-> None]
        /\ sends = 0
        /\ run = [n \in Run |-> NewRun(None, "none")]
        /\ holder = Nobody
        /\ req = [r \in Request |-> NoLocals("new")]
        /\ handed = {}
        /\ brokenOff = {}

At(r, pc) == req[r].pc = pc

Gone(r) == req' = [req EXCEPT ![r] = NoLocals("gone")]

Go(r, pc) == req' = [req EXCEPT ![r].pc = pc]

Mine(r) == slot[req[r].slot]

Pump(r) == Mine(r).pump

(* The slots once the one in the hub has state st. *)
InState(st) == IF current = None THEN slot ELSE [slot EXCEPT ![current].state = st]

(* The runs once agent a's have been told to cancel. *)
Cancelled(a, runs) ==
  [n \in Run |-> IF runs[n].agent = a /\ runs[n].phase \in {"sending", "live"}
                 THEN [runs[n] EXCEPT !.phase = "cancelling"] ELSE runs[n]]

(* hub.drop: off the map, every pending execute rejected, the run cancelled. *)
DropSlot == /\ current' = None
            /\ slot' = IF current = None THEN slot
                       ELSE [slot EXCEPT ![current].state = "dead", ![current].pending = {}]
            /\ run' = IF current = None THEN run ELSE Cancelled(current, run)
            /\ UNCHANGED <<agents, box, sends>>

----------------------------------------------------------------------------
(* Entering. *)

(* The request arrives with a user turn, the same turn again, or the       *)
(* results of tool calls it was handed.  It waits for the lock only with   *)
(* results for a slot that can take them; otherwise it gets the lock at    *)
(* once or runs stateless.                                                 *)
Handshake == /\ current # None
             /\ \/ slot[current].state \in {"idle", "awaiting_tools"}
                \/ slot[current].pending # {}

Arrive(r) ==
  /\ At(r, "new")
  /\ \E kind \in {"new_user", "again", "tool_results"}, results \in SUBSET handed :
       /\ kind # "tool_results" <=> results = {}
       /\ LET free == holder = Nobody /\ \A q \in Request : ~At(q, "queued")
              to == IF kind = "tool_results" /\ Handshake THEN "queued"
                    ELSE IF free THEN "ensuring" ELSE "gone"
          IN /\ IF to = "gone" THEN Gone(r)
                ELSE req' = [req EXCEPT ![r].pc = to, ![r].kind = kind, ![r].results = results]
             /\ holder' = IF to = "ensuring" THEN r ELSE holder
  /\ UNCHANGED <<hub, client>>

(* Mutant: a waiter goes in beside the holder. *)
EnterBeside(r) == At(r, "queued") /\ holder' = r /\ Go(r, "ensuring") /\ UNCHANGED <<hub, client>>

Enter(r) == /\ At(r, "queued")
            /\ holder = Nobody
            /\ holder' = r
            /\ Go(r, "ensuring")
            /\ UNCHANGED <<hub, client>>

LeaveLine(r) == /\ At(r, "queued")
                /\ Gone(r)
                /\ UNCHANGED <<hub, holder, client>>

----------------------------------------------------------------------------
(* ensureDurableSlot. *)

(* A user turn whose history does not match the slot's runs stateless. *)
Refuse(r) == /\ At(r, "ensuring")
             /\ current # None
             /\ req[r].kind # "tool_results"
             /\ Go(r, "settling")
             /\ UNCHANGED <<hub, holder, client>>

(* Another model, other tools or a rewritten history: drop and create. *)
Replace(r) == /\ At(r, "ensuring")
              /\ current # None
              /\ DropSlot
              /\ Go(r, "creating")
              /\ UNCHANGED <<holder, client>>

Reuse(r) == /\ At(r, "ensuring")
            /\ current # None
            /\ req' = [req EXCEPT ![r].pc = "turning", ![r].slot = current]
            /\ UNCHANGED <<hub, holder, client>>

(* No slot: resume the agent, or make one for a user turn. *)
LookForAgent(r) == /\ At(r, "ensuring")
                   /\ current = None
                   /\ Go(r, IF req[r].kind = "tool_results" THEN "resuming" ELSE "creating")
                   /\ UNCHANGED <<hub, holder, client>>

(* createDurableSlot and tryResumeDurableSlot put a slot of a new agent,   *)
(* "running" or, resumed, "idle".  After a failed send the turn is sent    *)
(* again, as the agent's first.                                            *)
PutSlot(r) == LET a == agents + 1 IN
  /\ req[r].pc \in {"creating", "resuming", "recreating"}
  /\ agents < MaxAgents
  /\ agents' = a
  /\ current' = a
  /\ \E st \in (IF At(r, "resuming") THEN {"idle"} ELSE {"running", "idle"}) :
       slot' = [slot EXCEPT ![a] = NewSlot(st)]
  /\ req' = [req EXCEPT ![r].pc = IF At(r, "recreating") THEN "sending" ELSE "turning",
                        ![r].slot = a, ![r].first = At(r, "recreating")]
  /\ UNCHANGED <<box, sends, run, holder, client>>

(* No agent could be had, or there is no room in the hub: an error. *)
NoSlot(r) == /\ req[r].pc \in {"creating", "resuming", "recreating"}
             /\ Go(r, "settling")
             /\ UNCHANGED <<hub, holder, client>>

----------------------------------------------------------------------------
(* The turn. *)

(* A user turn that was sent before: go on with what the run still has for *)
(* it, or run stateless.                                                   *)
Resumable(r) == ~Mine(r).answered /\ (Mine(r).pending # {} \/ run[Pump(r)].queue # <<>>)

SameTurn(r) == req[r].kind = "again" /\ Mine(r).asked

Retry(r) == /\ At(r, "turning")
            /\ SameTurn(r)
            /\ Go(r, IF Pump(r) # None /\ Resumable(r) THEN "consuming" ELSE "settling")
            /\ UNCHANGED <<hub, holder, client>>

(* resolvePending for each result, and markRunning once nothing is pending. *)
Hits(r) == IF current = None THEN {} ELSE req[r].results \cap slot[current].pending

Resolve(r) == LET left == slot[current].pending \ Hits(r) IN
  /\ At(r, "turning")
  /\ Hits(r) # {}
  /\ slot' = [slot EXCEPT ![current].pending = left,
                          ![current].consumed = @ \cup Hits(r),
                          ![current].state = IF left = {} THEN "running" ELSE @]
  /\ Go(r, "consuming")
  /\ UNCHANGED <<current, agents, box, sends, run, holder, client>>

(* Results of which each was consumed, or of which none is the slot's: the *)
(* slot is left alone and the turn runs stateless.                         *)
Replayed(r) == req[r].results \subseteq Mine(r).consumed

Foreign(r) == LET known == Mine(r).issued \cup Mine(r).pending
              IN known # {} /\ req[r].results \cap known = {}

Ignore(r) == /\ At(r, "turning")
             /\ req[r].kind = "tool_results"
             /\ Hits(r) = {}
             /\ Replayed(r) \/ Foreign(r)
             /\ Go(r, "settling")
             /\ UNCHANGED <<hub, holder, client>>

(* abortHungDurableRun begins: the executes are rejected, the run cancelled. *)
MustAbort(r) == IF req[r].kind = "tool_results" THEN Mine(r).pending # {}
                ELSE Mine(r).state = "awaiting_tools"

MaySend(r) == /\ At(r, "turning")
              /\ Hits(r) = {}
              /\ ~SameTurn(r)
              /\ req[r].kind = "tool_results" => ~Replayed(r)

AbortHung(r) == /\ MaySend(r)
                /\ MustAbort(r)
                /\ slot' = [slot EXCEPT ![req[r].slot].pending = {},
                                        ![req[r].slot].state =
                                           IF @ = "awaiting_tools" THEN "running" ELSE @]
                /\ run' = Cancelled(req[r].slot, run)
                /\ Go(r, "aborting")
                /\ UNCHANGED <<current, agents, box, sends, holder, client>>

(* cancel and wait are over or timed out: markIdle. *)
Aborted(r) == /\ At(r, "aborting")
              /\ slot' = InState("idle")
              /\ Go(r, "sending")
              /\ UNCHANGED <<current, agents, box, sends, run, holder, client>>

(* durableSend up to agent.send: markRunning, a new pump for the slot and  *)
(* for the agent's tool callback.  Without a slot attachPump throws (and   *)
(* at the bound on sends the client leaves).                               *)
Send(r) == LET n == sends + 1 IN
  /\ At(r, "sending") \/ (MaySend(r) /\ ~MustAbort(r))
  /\ IF current = None \/ sends = MaxRuns
     THEN Go(r, "settling") /\ UNCHANGED <<slot, box, sends, run>>
     ELSE /\ sends' = n
          /\ slot' = [slot EXCEPT ![current].state = "running", ![current].pump = n]
          /\ box' = [box EXCEPT ![current] = n]
          /\ run' = [run EXCEPT ![n] = NewRun(current, "sending")]
          /\ Go(r, "awaiting")
  /\ UNCHANGED <<current, agents, holder, client>>

(* send returns the run, unless another run of the agent is active:        *)
(* consumedExecutes is cleared, and a user turn's text is noted.           *)
Sent(r) == LET n == Pump(r) IN
  /\ At(r, "awaiting")
  /\ ~\E m \in Run \ {n} : run[m].agent = run[n].agent /\ run[m].phase = "live"
  /\ run' = [run EXCEPT ![n].phase = "live"]
  /\ slot' = [slot EXCEPT ![req[r].slot].consumed = {},
                          ![req[r].slot].asked = @ \/ req[r].kind # "tool_results",
                          ![req[r].slot].answered = @ /\ req[r].kind = "tool_results"]
  /\ Go(r, "consuming")
  /\ UNCHANGED <<current, agents, box, sends, holder, client>>

(* send fails: the session is dropped and made again for one more try when *)
(* the agent is busy or stale.                                             *)
SendFailed(r) == /\ At(r, "awaiting")
                 /\ \/ Go(r, "settling") /\ run' = [run EXCEPT ![Pump(r)].phase = "ended"]
                                         /\ UNCHANGED <<current, slot>>
                    \/ /\ ~req[r].first
                       /\ current' = None
                       /\ slot' = [slot EXCEPT ![req[r].slot].state = "dead",
                                               ![req[r].slot].pending = {}]
                       /\ run' = [Cancelled(req[r].slot, run) EXCEPT ![Pump(r)].phase = "ended"]
                       /\ Go(r, "recreating")
                 /\ UNCHANGED <<agents, box, sends, holder, client>>

----------------------------------------------------------------------------
(* consumeDurablePump. *)

(* Mutant: the slot of a request that broke off is left as it is. *)
SettleNothing(slots, runs) == slot' = slots /\ run' = runs /\ UNCHANGED current

(* settleDurableSlotState: a slot that still runs awaits the tools it      *)
(* holds open, or goes.                                                    *)
SettleSlot(slots, runs) ==
  IF current = None \/ slots[current].state # "running"
  THEN slot' = slots /\ run' = runs /\ UNCHANGED current
  ELSE IF slots[current].pending # {}
  THEN /\ slot' = [slots EXCEPT ![current].state = "awaiting_tools"]
       /\ run' = runs
       /\ UNCHANGED current
  ELSE /\ slot' = [slots EXCEPT ![current].state = "dead"]
       /\ run' = Cancelled(current, runs)
       /\ current' = None

Leave(r) == holder' = Nobody /\ Gone(r)

(* Every turn ends in these: the turn counts as answered if something went *)
(* out, the slot is settled and the lock released.                         *)
Finish(r, runs) ==
  LET a == IF current = None THEN req[r].slot ELSE current IN
  /\ SettleSlot([slot EXCEPT ![a].answered = @ \/ (req[r].out /\ slot[a].asked)], runs)
  /\ Leave(r)

(* What is collected as a tool call for the client: a call that went out   *)
(* before goes out again only while its execute is pending.                *)
(* Mutant: what was issued is not looked at.                               *)
FreshIssuedToo(r, calls) == calls

Fresh(r, calls) == {x \in calls : x \notin Mine(r).issued \/ x \in Mine(r).pending}

(* The next item: text; a tool the callback captured; a message that       *)
(* tells, again, of a call; a tool marker in the text (path B, for which   *)
(* the slot is idle before the client has the call); or the end.  While an *)
(* execute is pending the request parks.                                   *)
After(r) == IF Mine(r).pending # {} THEN "parking" ELSE "consuming"

Take(r) ==
  LET n == Pump(r)
      item == Head(run[n].queue)
      pathB == item.kind = "marker" /\ Mine(r).pending = {} IN
  /\ At(r, "consuming")
  /\ run[n].queue # <<>>
  /\ run' = [run EXCEPT ![n].queue = Tail(@)]
  /\ slot' = IF pathB THEN InState("idle") ELSE slot
  /\ req' = [req EXCEPT
       ![r].pc = IF item.kind = "end" THEN "ending" ELSE IF pathB THEN "marking" ELSE After(r),
       ![r].out = @ \/ item.kind \in {"text", "marker"},
       ![r].caught = IF item.kind = "captured" THEN @ \cup {item.call} ELSE @,
       ![r].told = IF item.kind = "told" THEN @ \cup {item.call} ELSE @]
  /\ UNCHANGED <<current, agents, box, sends, holder, client>>

(* Mutant: a request of a held run waits for it whatever happens. *)
HttpAbortUnheld(r) ==
  /\ At(r, "consuming")
  /\ Mine(r).pending = {}
  /\ Finish(r, run)
  /\ UNCHANGED <<agents, box, sends, client>>

(* The client leaves or the idle timeout fires, while the request waits    *)
(* for the pump: park, keep the agent for its output, or fail.  Had it     *)
(* called next() already, that stays with the pump.                        *)
HttpAbort(r) ==
  LET n == Pump(r)
      waited == [run EXCEPT ![n].deaf = @ + 1] IN
  /\ At(r, "consuming")
  /\ \E runs \in IF run[n].queue = <<>> THEN {run, waited} ELSE {run} :
       \/ /\ Mine(r).pending # {}
          /\ run' = runs
          /\ Go(r, "parking")
          /\ UNCHANGED <<current, slot, holder>>
       \/ /\ Mine(r).pending = {} /\ req[r].out
          /\ run' = Cancelled(req[r].slot, runs)
          /\ Go(r, "keeping")
          /\ UNCHANGED <<current, slot, holder>>
       \/ Mine(r).pending = {} /\ Finish(r, runs)
  /\ UNCHANGED <<agents, box, sends, client>>

(* Mutant: what else is in the pump is taken and forgotten. *)
ParkForgetting(r) ==
  /\ At(r, "parking")
  /\ run' = [run EXCEPT ![Pump(r)].queue = <<>>]
  /\ req' = [req EXCEPT ![r].pc = "handing", ![r].tools = Fresh(r, req[r].caught)]
  /\ UNCHANGED <<current, agents, slot, box, sends, holder, client>>

(* parkHeld after its settle window: what is in the pump is taken too, and *)
(* the pending calls are gathered.  An end among it is passed over.        *)
Park(r) ==
  LET n == Pump(r)
      items == ToSet(run[n].queue)
      Calls(kind) == {i.call : i \in {j \in items : j.kind = kind}}
      caught == req[r].caught \cup Calls("captured")
      told == req[r].told \cup Calls("told") IN
  /\ At(r, "parking")
  /\ run' = [run EXCEPT ![n].queue = <<>>]
  /\ req' = [req EXCEPT
       ![r].pc = "handing",
       ![r].tools = IF Mine(r).pending = {} THEN Fresh(r, caught \cup told)
                    ELSE Fresh(r, caught) \cup (told \cap Mine(r).pending),
       ![r].caught = caught, ![r].told = told,
       ![r].out = @ \/ \E i \in items : i.kind \in {"text", "marker"}]
  /\ UNCHANGED <<current, agents, slot, box, sends, holder, client>>

(* The calls go out and the slot awaits their results. *)
Hand(r) == /\ At(r, "handing")
           /\ handed' = handed \cup req[r].tools
           /\ slot' = LET s == InState("awaiting_tools")
                      IN [s EXCEPT ![req[r].slot].issued = @ \cup req[r].tools]
           /\ req' = [req EXCEPT ![r].pc = "closing", ![r].out = @ \/ req[r].tools # {}]
           /\ UNCHANGED <<current, agents, box, sends, run, holder, brokenOff>>

(* The client leaves while they go out: it has no answer to work on. *)
LeaveHanding(r) == /\ At(r, "handing")
                   /\ brokenOff' = brokenOff \cup req[r].tools
                   /\ req' = [req EXCEPT ![r].pc = "closing", ![r].out = @ \/ req[r].tools # {}]
                   /\ UNCHANGED <<hub, holder, handed>>

(* Path B: the marker's call has gone out and the run is cancelled; or the *)
(* client left before that.                                                *)
Mark(r) == /\ At(r, "marking")
           /\ run' = Cancelled(req[r].slot, run)
           /\ Go(r, "keeping")
           /\ UNCHANGED <<current, agents, slot, box, sends, holder, client>>

LeaveMarking(r) == /\ At(r, "marking")
                   /\ Go(r, "closing")
                   /\ UNCHANGED <<hub, holder, client>>

(* The cancel is over or timed out: markIdle. *)
Keep(r) == /\ At(r, "keeping")
           /\ slot' = LET s == InState("idle")
                      IN [s EXCEPT ![req[r].slot].issued = @ \cup req[r].tools]
           /\ Go(r, "closing")
           /\ UNCHANGED <<current, agents, box, sends, run, holder, client>>

(* The run is over: an error is thrown (with calls only once the client    *)
(* left), a pending execute                                                *)
(* parks, else the calls that nobody holds go out.                         *)
EndFailed(r) == /\ At(r, "ending")
                /\ Go(r, "closing")
                /\ UNCHANGED <<hub, holder, client>>

EndHeld(r) == /\ At(r, "ending")
              /\ Mine(r).pending # {}
              /\ Go(r, "parking")
              /\ UNCHANGED <<hub, holder, client>>

EndTools(r) == LET tools == Fresh(r, req[r].caught \cup req[r].told) IN
  /\ At(r, "ending")
  /\ Mine(r).pending = {}
  /\ handed' = handed \cup tools
  /\ req' = [req EXCEPT ![r].pc = "waiting", ![r].tools = tools,
                        ![r].out = @ \/ tools # {}]
  /\ UNCHANGED <<hub, holder, brokenOff>>

(* run.wait: done and markIdle; or the client leaves; or it fails, or the  *)
(* idle timeout fires.                                                     *)
Waited(r) ==
  /\ At(r, "waiting")
  /\ \/ /\ slot' = LET s == InState("idle")
                   IN [s EXCEPT ![req[r].slot].issued = @ \cup req[r].tools]
        /\ Go(r, "closing")
        /\ UNCHANGED run
     \/ /\ req[r].out
        /\ run' = Cancelled(req[r].slot, run)
        /\ Go(r, "keeping")
        /\ UNCHANGED slot
     \/ Go(r, "closing") /\ UNCHANGED <<slot, run>>
  /\ UNCHANGED <<current, agents, box, sends, holder, client>>

(* A request that ran stateless, or failed, leaves. *)
Settle(r) == /\ At(r, "settling")
             /\ SettleSlot(slot, run)
             /\ Leave(r)
             /\ UNCHANGED <<agents, box, sends, client>>

(* consumeDurablePump's finally: a running slot is kept for the output it  *)
(* gave, unless the idle timeout ended the request.                        *)
Close(r) == LET a == IF current = None THEN req[r].slot ELSE current IN
  /\ At(r, "closing")
  /\ \/ /\ slot[a].state = "running" /\ slot[a].pending = {} /\ req[r].out
        /\ run' = Cancelled(a, run)
        /\ Go(r, "keeping")
        /\ UNCHANGED <<current, slot, holder>>
     \/ Finish(r, run)
  /\ UNCHANGED <<agents, box, sends, client>>

----------------------------------------------------------------------------
(* The SDK, and the hub's own doings. *)

Active(n) == run[n].phase \in {"sending", "live", "cancelling"}

(* push: a promise left behind by an aborted request takes the item. *)
Pushed(p, item) == IF p.deaf > 0 THEN [p EXCEPT !.deaf = @ - 1, !.lost = TRUE]
                   ELSE [p EXCEPT !.queue = Append(@, item)]

(* Run n speaks: text, a tool marker, or a message about one of its calls. *)
Say(n) == /\ Active(n)
          /\ run[n].said < MaxSaid
          /\ \E item \in [kind : {"text", "marker"}, call : {<<n, 0>>}]
                        \cup [kind : {"told"}, call : {n} \X (1..run[n].said)] :
               run' = [run EXCEPT ![n] = [Pushed(run[n], item) EXCEPT !.said = @ + 1]]
          /\ UNCHANGED <<current, agents, slot, box, sends, holder, req, client>>

(* Mutant: the callback looks up the pump of the session's slot. *)
ExecuteLookingUp(n) == LET x == <<n, run[n].said + 1>> IN
  /\ Active(n)
  /\ run[n].said < MaxSaid
  /\ run' = LET p == IF current = None THEN None ELSE slot[current].pump
                said == [run EXCEPT ![n].said = @ + 1]
            IN IF p = None THEN said
               ELSE [said EXCEPT ![p] = Pushed(@, [kind |-> "captured", call |-> x])]
  /\ slot' = IF current = None THEN slot ELSE [slot EXCEPT ![current].pending = @ \cup {x}]
  /\ UNCHANGED <<current, agents, box, sends, holder, req, client>>

(* Run n executes a client tool: the callback pushes the call into the     *)
(* pump in its agent's box, then registerHold adds it to the slot that the *)
(* session has now, or rejects it.                                         *)
Execute(n) == LET x == <<n, run[n].said + 1>>
                  p == box[run[n].agent] IN
  /\ Active(n)
  /\ run[n].said < MaxSaid
  /\ run' = LET said == [run EXCEPT ![n].said = @ + 1]
            IN [said EXCEPT ![p] = Pushed(@, [kind |-> "captured", call |-> x])]
  /\ slot' = IF current = None THEN slot ELSE [slot EXCEPT ![current].pending = @ \cup {x}]
  /\ UNCHANGED <<current, agents, box, sends, holder, req, client>>

(* The run's stream ends, well or not. *)
End(n) == /\ run[n].phase \in {"live", "cancelling"}
          /\ run' = [run EXCEPT ![n] =
                       [Pushed(@, [kind |-> "end", call |-> <<n, 0>>]) EXCEPT !.phase = "ended"]]
          /\ UNCHANGED <<current, agents, slot, box, sends, holder, req, client>>

(* SessionHub drops the slot: a hold or the idle time is over, or another  *)
(* session needs the room.                                                 *)
Evict == /\ current # None
         /\ slot[current].state \in {"idle", "awaiting_tools"}
         /\ DropSlot
         /\ UNCHANGED <<holder, req, client>>

Step(r) == \/ Enter(r) \/ Refuse(r) \/ Replace(r) \/ Reuse(r) \/ LookForAgent(r)
           \/ PutSlot(r) \/ NoSlot(r) \/ Retry(r) \/ Resolve(r) \/ Ignore(r)
           \/ AbortHung(r) \/ Aborted(r) \/ Send(r) \/ Sent(r)
           \/ SendFailed(r) \/ Take(r) \/ HttpAbort(r) \/ Park(r) \/ Hand(r)
           \/ LeaveHanding(r) \/ Mark(r) \/ LeaveMarking(r) \/ Keep(r) \/ EndFailed(r)
           \/ EndHeld(r) \/ EndTools(r) \/ Waited(r) \/ Close(r) \/ Settle(r)

Next == \/ \E r \in Request : Arrive(r) \/ LeaveLine(r) \/ Step(r)
        \/ \E n \in Run : Say(n) \/ Execute(n) \/ End(n)
        \/ Evict

(* A request's own steps happen, and the server's idle timeout aborts one  *)
(* that waits for its run.  The SDK and the clients need not do anything.  *)
Fairness == \A r \in Request : WF_vars(Step(r))

Spec == Init /\ [][Next]_vars

FairSpec == Spec /\ Fairness

----------------------------------------------------------------------------
Item == [kind : {"text", "marker", "captured", "told", "end"}, call : Run \X (0..MaxSaid)]

TypeOK ==
  /\ current \in Agent \cup {None}
  /\ agents \in 0..MaxAgents
  /\ slot \in [Agent -> [state : {"dead", "idle", "running", "awaiting_tools"},
                         pending : SUBSET Exec, pump : Run \cup {None},
                         issued : SUBSET Exec, consumed : SUBSET Exec,
                         asked : BOOLEAN, answered : BOOLEAN]]
  /\ box \in [Agent -> Run \cup {None}]
  /\ sends \in 0..MaxRuns
  /\ run \in [Run -> [agent : Agent \cup {None},
                      phase : {"none", "sending", "live", "cancelling", "ended"},
                      queue : Seq(Item), said : 0..MaxSaid, deaf : Nat, lost : BOOLEAN]]
  /\ holder \in Request \cup {Nobody}
  /\ \A r \in Request : req[r].pc \in {"new", "queued", "gone"} <=> holder # r
  /\ handed \cup brokenOff \subseteq Exec

(* Between requests a session has no running slot: it is idle, or awaits   *)
(* tools under the hub's timer, or there is none.  Nothing would ever take *)
(* a running slot away (it neither expires nor is evicted).                *)
FreeIsSettled == holder = Nobody => current = None \/ slot[current].state # "running"

(* A pump has only what belongs in it: its own run's speech, and calls of  *)
(* its own agent.  A dropped agent's late calls never reach the slot that  *)
(* took its place.                                                         *)
PumpIsOwn == \A n \in Run : \A i \in ToSet(run[n].queue) :
               IF i.kind = "captured" THEN run[i.call[1]].agent = run[n].agent
               ELSE i.call[1] = n

(* A tool call that went out is gathered for the client again only while   *)
(* its execute is pending: otherwise the client would run the tool twice   *)
(* (the SDK's messages repeat the calls of a run's earlier rounds).        *)
NoToolCallTwice ==
  [][\A r \in Request : req'[r].tools # req[r].tools =>
       req'[r].tools \cap handed \subseteq Mine(r).pending]_vars

(* When a session waits for tools with nobody inside, every call that its  *)
(* run holds open went out, or lies in the pump for the next request, or   *)
(* the pump lost something to an aborted request.                          *)
UndeliveredStaysQueued ==
  holder = Nobody /\ current # None /\ slot[current].state = "awaiting_tools" =>
    LET n == slot[current].pump IN
    \A x \in slot[current].pending :
      n = x[1] /\ ~run[n].lost =>
        \/ x \in handed \cup brokenOff
        \/ \E i \in ToSet(run[n].queue) : i.kind = "captured" /\ i.call = x

(* Every request leaves the lock in the end. *)
LockIsReleased == \A r \in Request : holder = r ~> holder # r

(* A request that goes on with a run gets all that the run says from here  *)
(* on ("a second HTTP can go on consuming" the pump).  The code breaks it: *)
(* an aborted request leaves its promise with the pump, and that takes the *)
(* next item from the request after it.                                    *)
NothingLost == \A r \in Request : At(r, "consuming") => ~run[Pump(r)].lost
============================================================================
