------------------------- MODULE DurableTurn_proofs -------------------------
(***************************************************************************)
(* Proofs about DurableTurn: a free session is settled, a pump has what    *)
(* belongs in it, no call is handed out twice, and no call that is held    *)
(* open is forgotten.                                                      *)
(*                                                                         *)
(* The lock leaves one request inside, whose locals speak of the slot in   *)
(* the hub or of one that has gone.  Calls are followed from the pump that *)
(* they are pushed into, through the locals of that request, to the client *)
(* and the slot's issued ids.                                              *)
(***************************************************************************)
EXTENDS DurableTurn, TLAPS

State == {"dead", "idle", "running", "awaiting_tools"}

Phase == {"none", "sending", "live", "cancelling", "ended"}

SlotRec == [state : State, pending : SUBSET Exec, pump : Run \cup {None},
            issued : SUBSET Exec, consumed : SUBSET Exec, asked : BOOLEAN, answered : BOOLEAN]

RunRec == [agent : Agent \cup {None}, phase : Phase, queue : Seq(Item), said : 0..MaxSaid,
           deaf : Nat, lost : BOOLEAN]

Outside == {"new", "queued", "gone"}

Unmade == {"creating", "resuming", "recreating"}

(* Once a pump was read from. *)
Reading == {"consuming", "parking", "ending"}

Late == Reading \cup {"handing", "marking", "keeping", "waiting", "closing"}

Slotted == Late \cup {"turning", "aborting", "sending", "awaiting"}

Place == Outside \cup Unmade \cup Slotted \cup {"ensuring", "settling"}

Locals == [pc : Place, kind : {"new_user", "again", "tool_results"}, results : SUBSET Exec,
           slot : Agent \cup {None}, first : BOOLEAN, caught : SUBSET Exec,
           told : SUBSET Exec, tools : SUBSET Exec, out : BOOLEAN]

HubType == /\ current \in Agent \cup {None}
           /\ agents \in 0..MaxAgents
           /\ slot \in [Agent -> SlotRec]
           /\ box \in [Agent -> Run \cup {None}]
           /\ sends \in 0..MaxRuns
           /\ run \in [Run -> RunRec]

ReqType == /\ req \in [Request -> Locals]
           /\ holder \in Request \cup {Nobody}

ClientType == handed \subseteq Exec /\ brokenOff \subseteq Exec

(* The slots and the pumps. *)
SlotOK(a) == /\ slot[a].pump = box[a]
             /\ a > agents => box[a] = None /\ slot[a].issued = {}
             /\ a # current => slot[a].pending = {}
             /\ box[a] # None => box[a] <= sends /\ run[box[a]].agent = a

RunOK(n) == IF n <= sends THEN run[n].agent \in Agent /\ n <= box[run[n].agent]
            ELSE run[n].phase = "none" /\ run[n].queue = <<>>

HubInv == /\ current <= agents
          /\ \A a \in Agent : SlotOK(a)
          /\ \A n \in Run : RunOK(n)

(* What lies in the queues.                                                *)
Said(x) == x \in Exec /\ x[1] <= sends /\ x[2] <= run[x[1]].said

Catches(e, x) == e.kind = "captured" /\ e.call = x

Tells(e, x) == e.kind = "told" /\ e.call = x

EntryOK(n, e) == /\ e.kind = "captured" => /\ Said(e.call)
                                           /\ run[e.call[1]].agent = run[n].agent
                                           /\ e.call[1] <= n
                 /\ e.kind # "captured" => e.call[1] = n
                 /\ e.kind = "told" => Said(e.call)
                 /\ e.kind = "end" => run[n].phase = "ended"

(* After a run's end nothing is told of its calls, and a call is captured  *)
(* before it is told of.                                                   *)
Precedes(e, f) == /\ e.kind = "end" => f.kind # "told"
                  /\ e.kind = "told" => ~Catches(f, e.call)

QueueOK(n) == LET q == run[n].queue IN
  /\ \A i \in 1..Len(q) : EntryOK(n, q[i])
  /\ \A i, j \in 1..Len(q) : i < j => Precedes(q[i], q[j])

(* A call is captured once.                                                *)
CapturedOnce == \A n, m \in Run : \A i \in 1..Len(run[n].queue), j \in 1..Len(run[m].queue) :
  /\ run[n].queue[i].kind = "captured"
  /\ Catches(run[m].queue[j], run[n].queue[i].call)
  => n = m /\ i = j

QueueInv == CapturedOnce /\ \A n \in Run : QueueOK(n)

(* Where a call may still be.                                              *)
Lies(n, x) == \E i \in 1..Len(run[n].queue) : Catches(run[n].queue[i], x)

Uncaught(x) == \A n \in Run : ~Lies(n, x)

Untold(n) == \A i \in 1..Len(run[n].queue) : run[n].queue[i].kind # "told"

Quiet(n) == run[n].phase = "ended" /\ Untold(n)

Owner(x) == run[x[1]].agent

(* Nobody will be told of the call again. *)
NoMore(x) == x[1] # box[Owner(x)] \/ Quiet(x[1])

HandedOK(x) == /\ Said(x)
               /\ Uncaught(x)
               /\ x \in slot[Owner(x)].issued \/ NoMore(x)

CallsInv == /\ \A x \in handed : HandedOK(x)
            /\ \A a \in Agent : \A x \in slot[a].pending :
                 Said(x) /\ (x \in handed => Owner(x) = a)

(* What request r has in hand.                                             *)
Seen(r) == IF req[r].pc \in Reading THEN req[r].caught \cup req[r].told
           ELSE IF req[r].pc = "handing" THEN req[r].tools ELSE {}

SeenOK(r, x) == /\ Said(x)
                /\ Owner(x) = req[r].slot
                /\ Uncaught(x)
                /\ x \in handed => x \in Mine(r).issued

ReqOK(r) ==
  /\ req[r].pc \in Outside <=> holder # r
  /\ req[r].results \subseteq handed
  /\ req[r].slot <= agents
  /\ req[r].pc \notin Late => req[r].caught = {} /\ req[r].told = {}
  /\ req[r].pc \in Unmade => current = None
  /\ req[r].pc \in Slotted => req[r].slot # None /\ current \in {None, req[r].slot}
  /\ req[r].pc = "awaiting" => /\ current = req[r].slot
                               /\ Mine(r).state = "running"
                               /\ Pump(r) # None
                               /\ run[Pump(r)].phase = "sending"
  /\ req[r].pc \in Reading => Pump(r) # None
  /\ req[r].pc = "ending" => Quiet(Pump(r))
  /\ \A x \in Seen(r) : SeenOK(r, x)

ReqInv == \A r \in Request : ReqOK(r)

(* A call that the slot's own run holds open has gone out, is in its pump, *)
(* or in the hands of the request that is about to give it out.            *)
Carried(r, x) == \/ req[r].pc = "parking" /\ x \in req[r].caught
                 \/ req[r].pc = "handing" /\ x \in req[r].tools

Kept(x) == \/ x \in handed \cup brokenOff
           \/ Lies(x[1], x)
           \/ \E r \in Request : Carried(r, x)

HeldInv == current # None =>
  \A x \in slot[current].pending : x[1] = slot[current].pump /\ ~run[x[1]].lost => Kept(x)

TypeInv == HubType /\ ReqType /\ ClientType

IInv == /\ TypeInv
        /\ HubInv
        /\ QueueInv
        /\ CallsInv
        /\ ReqInv
        /\ FreeIsSettled
        /\ HeldInv

----------------------------------------------------------------------------
(* Numbers and records.                                                    *)

LEMMA Numbers == /\ MaxAgents \in Nat \ {0} /\ MaxRuns \in Nat \ {0} /\ MaxSaid \in Nat \ {0}
                 /\ Agent \subseteq Nat /\ Run \subseteq Nat
                 /\ None = 0 /\ None \notin Agent /\ None \notin Run
                 /\ \A a \in Agent \cup {None} : a \in Nat
                 /\ \A n \in Run \cup {None} : n \in Nat
BY BoundAssumption DEF Agent, Run, None

LEMMA Pairs == /\ \A x \in Exec : x[1] \in Run /\ x[2] \in 1..MaxSaid
               /\ \A n \in Run, k \in 1..MaxSaid : <<n, k>> \in Exec /\ <<n, k>>[1] = n /\ <<n, k>>[2] = k
BY DEF Exec

LEMMA QueueType ==
  ASSUME NEW p \in RunRec
  PROVE  /\ p.queue \in Seq(Item) /\ Len(p.queue) \in Nat
         /\ \A i \in 1..Len(p.queue) : p.queue[i] \in Item
<1>1. p.queue \in Seq(Item)
  BY DEF RunRec
<1> QED BY <1>1

(* t comes of s: holds only go, issued ids only come.                      *)
Changed(s, t) == /\ t \in SlotRec
                 /\ t.pending \subseteq s.pending
                 /\ s.issued \subseteq t.issued
                 /\ t.pump = s.pump

LEMMA ChangedSteps ==
  ASSUME NEW s \in SlotRec
  PROVE  /\ Changed(s, s)
         /\ \A v \in State : /\ Changed(s, [s EXCEPT !.state = v])
                             /\ [s EXCEPT !.state = v].state = v
                             /\ [s EXCEPT !.state = v].pending = s.pending
                             /\ [s EXCEPT !.state = v].issued = s.issued
         /\ \A P \in SUBSET s.pending : /\ Changed(s, [s EXCEPT !.pending = P])
                                        /\ [s EXCEPT !.pending = P].pending = P
                                        /\ [s EXCEPT !.pending = P].state = s.state
         /\ \A I \in SUBSET Exec : /\ Changed(s, [s EXCEPT !.issued = @ \cup I])
                                   /\ [s EXCEPT !.issued = @ \cup I].issued = s.issued \cup I
                                   /\ [s EXCEPT !.issued = @ \cup I].state = s.state
                                   /\ [s EXCEPT !.issued = @ \cup I].pending = s.pending
         /\ \A C \in SUBSET Exec : /\ Changed(s, [s EXCEPT !.consumed = C])
                                   /\ [s EXCEPT !.consumed = C].state = s.state
         /\ \A b \in BOOLEAN : /\ Changed(s, [s EXCEPT !.answered = b])
                               /\ [s EXCEPT !.answered = b].state = s.state
                               /\ [s EXCEPT !.answered = b].pending = s.pending
                               /\ Changed(s, [s EXCEPT !.asked = b])
<1> USE DEF SlotRec, Changed
<1>1. Changed(s, s)
  OBVIOUS
<1>2. ASSUME NEW v \in State
      PROVE  /\ Changed(s, [s EXCEPT !.state = v])
             /\ [s EXCEPT !.state = v].state = v
             /\ [s EXCEPT !.state = v].pending = s.pending
             /\ [s EXCEPT !.state = v].issued = s.issued
  OBVIOUS
<1>3. ASSUME NEW P \in SUBSET s.pending
      PROVE  /\ Changed(s, [s EXCEPT !.pending = P])
             /\ [s EXCEPT !.pending = P].pending = P
             /\ [s EXCEPT !.pending = P].state = s.state
  OBVIOUS
<1>4. ASSUME NEW I \in SUBSET Exec
      PROVE  /\ Changed(s, [s EXCEPT !.issued = @ \cup I])
             /\ [s EXCEPT !.issued = @ \cup I].issued = s.issued \cup I
             /\ [s EXCEPT !.issued = @ \cup I].state = s.state
             /\ [s EXCEPT !.issued = @ \cup I].pending = s.pending
  <2> DEFINE J == s.issued \cup I
  <2>1. J \in SUBSET Exec /\ s.issued \subseteq J
    OBVIOUS
  <2> HIDE DEF J
  <2>2. /\ Changed(s, [s EXCEPT !.issued = J])
        /\ [s EXCEPT !.issued = J].issued = J
        /\ [s EXCEPT !.issued = J].state = s.state
        /\ [s EXCEPT !.issued = J].pending = s.pending
    BY <2>1
  <2> QED BY <2>2 DEF J
<1>5. ASSUME NEW C \in SUBSET Exec
      PROVE  /\ Changed(s, [s EXCEPT !.consumed = C])
             /\ [s EXCEPT !.consumed = C].state = s.state
  OBVIOUS
<1>6. ASSUME NEW b \in BOOLEAN
      PROVE  /\ Changed(s, [s EXCEPT !.answered = b])
             /\ [s EXCEPT !.answered = b].state = s.state
             /\ [s EXCEPT !.answered = b].pending = s.pending
             /\ Changed(s, [s EXCEPT !.asked = b])
  OBVIOUS
<1> HIDE DEF SlotRec, Changed
<1> QED BY <1>1, <1>2, <1>3, <1>4, <1>5, <1>6

LEMMA ChangedTwice ==
  ASSUME NEW s, NEW t, NEW u, Changed(s, t), Changed(t, u)
  PROVE  Changed(s, u)
BY DEF Changed

(* v is what is left of the queue u.                                       *)
Suffix(u, v) == \E d \in 0..Len(u) : /\ Len(v) = Len(u) - d
                                     /\ \A i \in 1..Len(v) : v[i] = u[i + d]

(* q comes of p, without speaking.                                         *)
Calmed(p, q) == /\ q \in RunRec
                /\ q.agent = p.agent /\ q.said = p.said /\ q.lost = p.lost
                /\ Suffix(p.queue, q.queue)
                /\ p.phase = "ended" => q.phase = "ended"
                /\ p.phase = "none" => q.phase = "none"

LEMMA SuffixSteps ==
  ASSUME NEW u \in Seq(Item)
  PROVE  /\ Suffix(u, u)
         /\ Suffix(u, <<>>)
         /\ u # <<>> => Suffix(u, Tail(u)) /\ Tail(u) \in Seq(Item)
<1>1. Len(u) \in Nat /\ <<>> \in Seq(Item) /\ Len(<<>>) = 0
  OBVIOUS
<1>2. Suffix(u, u)
  <2>1. 0 \in 0..Len(u) /\ \A i \in 1..Len(u) : u[i] = u[i + 0]
    BY <1>1
  <2> QED BY <1>1, <2>1 DEF Suffix
<1>3. Suffix(u, <<>>)
  <2>1. Len(u) \in 0..Len(u) /\ Len(u) - Len(u) = 0
    BY <1>1
  <2> QED BY <1>1, <2>1 DEF Suffix
<1>4. ASSUME u # <<>> PROVE Suffix(u, Tail(u)) /\ Tail(u) \in Seq(Item)
  <2>1. /\ Tail(u) \in Seq(Item) /\ Len(Tail(u)) = Len(u) - 1 /\ 1 \in 0..Len(u)
        /\ \A i \in 1..Len(Tail(u)) : Tail(u)[i] = u[i + 1]
    BY <1>1, <1>4
  <2> QED BY <2>1 DEF Suffix
<1> QED BY <1>2, <1>3, <1>4

LEMMA CalmedSteps ==
  ASSUME NEW p \in RunRec
  PROVE  /\ Calmed(p, p)
         /\ \A v \in Phase : /\ [p EXCEPT !.phase = v] \in RunRec
                             /\ [p EXCEPT !.phase = v].phase = v
                             /\ [p EXCEPT !.phase = v].queue = p.queue
                             /\ \/ v = "ended" /\ p.phase # "none"
                                \/ p.phase \notin {"ended", "none"}
                                => Calmed(p, [p EXCEPT !.phase = v])
         /\ \A u \in Seq(Item) : Suffix(p.queue, u) =>
              /\ Calmed(p, [p EXCEPT !.queue = u])
              /\ [p EXCEPT !.queue = u].queue = u
              /\ [p EXCEPT !.queue = u].phase = p.phase
         /\ /\ Calmed(p, [p EXCEPT !.deaf = @ + 1])
            /\ [p EXCEPT !.deaf = @ + 1].queue = p.queue
            /\ [p EXCEPT !.deaf = @ + 1].phase = p.phase
<1>1. p.queue \in Seq(Item) /\ Suffix(p.queue, p.queue)
  BY QueueType, SuffixSteps
<1> USE DEF RunRec, Calmed
<1>2. Calmed(p, p)
  BY <1>1
<1>3. ASSUME NEW v \in Phase
      PROVE  /\ [p EXCEPT !.phase = v] \in RunRec
             /\ [p EXCEPT !.phase = v].phase = v
             /\ [p EXCEPT !.phase = v].queue = p.queue
             /\ \/ v = "ended" /\ p.phase # "none"
                \/ p.phase \notin {"ended", "none"}
                => Calmed(p, [p EXCEPT !.phase = v])
  BY <1>1
<1>4. ASSUME NEW u \in Seq(Item), Suffix(p.queue, u)
      PROVE  /\ Calmed(p, [p EXCEPT !.queue = u])
             /\ [p EXCEPT !.queue = u].queue = u
             /\ [p EXCEPT !.queue = u].phase = p.phase
  BY <1>4
<1>5. /\ Calmed(p, [p EXCEPT !.deaf = @ + 1])
      /\ [p EXCEPT !.deaf = @ + 1].queue = p.queue
      /\ [p EXCEPT !.deaf = @ + 1].phase = p.phase
  <2> DEFINE d == p.deaf + 1
  <2>1. d \in Nat
    OBVIOUS
  <2> HIDE DEF d
  <2>2. /\ Calmed(p, [p EXCEPT !.deaf = d])
        /\ [p EXCEPT !.deaf = d].queue = p.queue
        /\ [p EXCEPT !.deaf = d].phase = p.phase
    BY <1>1, <2>1
  <2> QED BY <2>2 DEF d
<1> HIDE DEF RunRec, Calmed
<1> QED BY <1>2, <1>3, <1>4, <1>5

----------------------------------------------------------------------------
(* A step that starts no run and pushes nothing: slots change as Changed   *)
(* says, runs as Calmed does.                                              *)

SlotsStep == /\ slot' \in [Agent -> SlotRec]
             /\ \A a \in Agent : Changed(slot[a], slot'[a])

RunsStep == /\ run' \in [Run -> RunRec]
            /\ \A n \in Run : Calmed(run[n], run'[n])

HubStep == /\ SlotsStep
           /\ RunsStep
           /\ box' = box /\ sends' = sends
           /\ agents' \in 0..MaxAgents /\ agents <= agents'
           /\ current' \in Agent \cup {None} /\ current' <= agents'
           /\ \A a \in Agent : a # current' => slot'[a].pending = {}
           /\ \A a \in Agent : a > agents' => slot'[a] = slot[a]

LEMMA HubKept ==
  ASSUME HubType, HubInv, HubStep
  PROVE  HubType' /\ HubInv'
<1>1. HubType'
  BY DEF HubType, HubStep, SlotsStep, RunsStep
<1>2. ASSUME NEW a \in Agent PROVE SlotOK(a)'
  <2>1. SlotOK(a) /\ Changed(slot[a], slot'[a])
    BY DEF HubInv, HubStep, SlotsStep
  <2>2. a > agents' => a > agents
    BY Numbers DEF HubStep, HubType
  <2>3. box[a] # None => run'[box[a]].agent = run[box[a]].agent
    <3>1. box[a] \in Run \cup {None}
      BY DEF HubType
    <3> QED BY <3>1, Numbers DEF HubStep, RunsStep, Calmed
  <2> QED BY <2>1, <2>2, <2>3 DEF SlotOK, HubStep, Changed
<1>3. ASSUME NEW n \in Run PROVE RunOK(n)'
  <2>1. RunOK(n) /\ Calmed(run[n], run'[n]) /\ n \in Nat /\ sends \in Nat
    BY Numbers DEF HubInv, HubStep, RunsStep, HubType
  <2>2. CASE n <= sends
    BY <2>1, <2>2 DEF RunOK, Calmed, HubStep
  <2>3. CASE ~(n <= sends)
    <3>1. run[n].phase = "none" /\ run[n].queue = <<>>
      BY <2>1, <2>3 DEF RunOK
    <3>2. run'[n].queue \in Seq(Item) /\ Len(run'[n].queue) = 0
      <4>1. run'[n] \in RunRec
        BY <2>1 DEF Calmed
      <4>2. run'[n].queue \in Seq(Item) /\ Len(run'[n].queue) \in Nat
        BY <4>1, QueueType
      <4> QED BY <2>1, <3>1, <4>2 DEF Calmed, Suffix
    <3>3. run'[n].queue = <<>>
      BY <3>2
    <3> QED BY <2>1, <2>3, <3>1, <3>3 DEF RunOK, Calmed, HubStep
  <2> QED BY <2>2, <2>3
<1>4. current' <= agents'
  BY DEF HubStep
<1> QED BY <1>1, <1>2, <1>3, <1>4 DEF HubInv

(* An entry of a queue was there before, among the same ones.              *)
Shifted(u, v, d) == /\ Len(v) = Len(u) - d
                    /\ \A i \in 1..Len(v) : i + d \in 1..Len(u) /\ v[i] = u[i + d]

LEMMA SuffixEntries ==
  ASSUME NEW u, NEW v, Len(u) \in Nat, Len(v) \in Nat, Suffix(u, v)
  PROVE  \E d \in 0..Len(u) : Shifted(u, v, d)
<1>1. PICK d \in 0..Len(u) : Len(v) = Len(u) - d /\ \A i \in 1..Len(v) : v[i] = u[i + d]
  BY DEF Suffix
<1>2. \A i \in 1..Len(v) : i + d \in 1..Len(u)
  BY <1>1
<1>3. Shifted(u, v, d)
  BY <1>1, <1>2 DEF Shifted
<1> QED BY <1>3

LEMMA SaidKept ==
  ASSUME HubType, RunsStep, sends' = sends, NEW x, Said(x)
  PROVE  /\ Said(x)'
         /\ Owner(x)' = Owner(x)
<1>1. x[1] \in Run
  BY Pairs DEF Said
<1> QED BY <1>1 DEF Said, Owner, RunsStep, Calmed

LEMMA QueuesKept ==
  ASSUME HubType, QueueInv, RunsStep, sends' = sends
  PROVE  /\ QueueInv'
         /\ \A n \in Run : \A x : Lies(n, x)' => Lies(n, x)
         /\ \A n \in Run : Quiet(n) => Quiet(n)'
<1> DEFINE W(n, d) == /\ Len(run'[n].queue) = Len(run[n].queue) - d
                      /\ \A i \in 1..Len(run'[n].queue) : /\ i + d \in 1..Len(run[n].queue)
                                                          /\ run'[n].queue[i] = run[n].queue[i + d]
<1>1. ASSUME NEW n \in Run
      PROVE  /\ Len(run[n].queue) \in Nat /\ Len(run'[n].queue) \in Nat
             /\ \E d \in 0..Len(run[n].queue) : W(n, d)
  <2>1. run[n] \in RunRec /\ run'[n] \in RunRec /\ Suffix(run[n].queue, run'[n].queue)
    BY DEF HubType, RunsStep, Calmed
  <2>2. Len(run[n].queue) \in Nat /\ Len(run'[n].queue) \in Nat
    BY <2>1, QueueType
  <2> DEFINE u == run[n].queue
             v == run'[n].queue
  <2>3. Len(u) \in Nat /\ Len(v) \in Nat /\ Suffix(u, v)
    BY <2>1, <2>2
  <2> HIDE DEF u, v
  <2>4. \E d \in 0..Len(u) : Shifted(u, v, d)
    BY <2>3, SuffixEntries, Zenon
  <2> QED BY <2>2, <2>4 DEF u, v, Shifted
<1>2. ASSUME NEW n \in Run, NEW e, EntryOK(n, e), e \in Item PROVE EntryOK(n, e)'
  <2>1. e.call \in Run \X (0..MaxSaid) /\ e.call[1] \in Run
    BY <1>2 DEF Item
  <2>2. Said(e.call) => Said(e.call)'
    BY SaidKept
  <2>3. /\ run'[n].agent = run[n].agent /\ run'[e.call[1]].agent = run[e.call[1]].agent
        /\ run[n].phase = "ended" => run'[n].phase = "ended"
    BY <2>1 DEF RunsStep, Calmed
  <2> QED BY <1>2, <2>2, <2>3 DEF EntryOK
<1>3. ASSUME NEW n \in Run PROVE QueueOK(n)'
  <2>1. PICK d \in 0..Len(run[n].queue) : W(n, d)
    BY <1>1
  <2>2. QueueOK(n)
    BY DEF QueueInv
  <2> DEFINE q == run[n].queue
             p == run'[n].queue
  <2>3. ASSUME NEW i \in 1..Len(p), NEW e, e = p[i] PROVE EntryOK(n, e)'
    <3>1. i + d \in 1..Len(q) /\ e = q[i + d]
      BY <2>1, <2>3
    <3>2. EntryOK(n, q[i + d])
      BY <2>2, <3>1 DEF QueueOK
    <3>3. e \in Item
      BY <3>1, QueueType DEF HubType
    <3>4. EntryOK(n, e)
      BY <3>1, <3>2
    <3> QED BY <1>2, <3>3, <3>4
  <2>4. ASSUME NEW i \in 1..Len(p), NEW j \in 1..Len(p), i < j PROVE Precedes(p[i], p[j])
    <3>1. i + d \in 1..Len(q) /\ p[i] = q[i + d]
      BY <2>1
    <3>2. j + d \in 1..Len(q) /\ p[j] = q[j + d]
      BY <2>1
    <3>3. i + d < j + d
      BY <2>4
    <3>4. \A k, l \in 1..Len(q) : k < l => Precedes(q[k], q[l])
      BY <2>2 DEF QueueOK
    <3>5. Precedes(q[i + d], q[j + d])
      BY <3>1, <3>2, <3>3, <3>4
    <3> QED BY <3>1, <3>2, <3>5
  <2> QED BY <2>3, <2>4 DEF QueueOK, EntryOK, Precedes, Catches, Said
<1>4. CapturedOnce'
  <2> SUFFICES ASSUME NEW n \in Run, NEW m \in Run,
                      NEW i \in 1..Len(run'[n].queue), NEW j \in 1..Len(run'[m].queue),
                      run'[n].queue[i].kind = "captured",
                      Catches(run'[m].queue[j], run'[n].queue[i].call)
               PROVE  n = m /\ i = j
    BY DEF CapturedOnce, Catches
  <2>1. PICK c \in 0..Len(run[n].queue) : W(n, c)
    BY <1>1
  <2>2. PICK d \in 0..Len(run[m].queue) : W(m, d)
    BY <1>1
  <2>3. /\ i + c \in 1..Len(run[n].queue) /\ run'[n].queue[i] = run[n].queue[i + c]
        /\ j + d \in 1..Len(run[m].queue) /\ run'[m].queue[j] = run[m].queue[j + d]
    BY <2>1, <2>2
  <2>4. n = m /\ i + c = j + d
    BY <2>3 DEF QueueInv, CapturedOnce
  <2>5. c = d
    BY <1>1, <2>1, <2>2, <2>4
  <2> QED BY <1>1, <2>4, <2>5
<1>5. ASSUME NEW n \in Run, NEW x, Lies(n, x)' PROVE Lies(n, x)
  <2>1. PICK d \in 0..Len(run[n].queue) : W(n, d)
    BY <1>1
  <2>2. PICK i \in 1..Len(run'[n].queue) : Catches(run'[n].queue[i], x)
    BY <1>5 DEF Lies, Catches
  <2> QED BY <2>1, <2>2 DEF Lies
<1>6. ASSUME NEW n \in Run, Quiet(n) PROVE Quiet(n)'
  <2>1. PICK d \in 0..Len(run[n].queue) : W(n, d)
    BY <1>1
  <2>2. run'[n].phase = "ended"
    BY <1>6 DEF Quiet, RunsStep, Calmed
  <2>3. Untold(n)'
    BY <1>6, <2>1 DEF Quiet, Untold
  <2> QED BY <2>2, <2>3 DEF Quiet
<1> QED BY <1>3, <1>4, <1>5, <1>6 DEF QueueInv
----------------------------------------------------------------------------
(* What such a step leaves of calls and requests.                          *)

LEMMA OwnerType ==
  ASSUME HubType, HubInv, NEW x, Said(x)
  PROVE  x[1] \in Run /\ Owner(x) \in Agent /\ x[1] <= box[Owner(x)]
<1>1. x[1] \in Run
  BY Pairs DEF Said
<1>2. RunOK(x[1])
  BY <1>1 DEF HubInv
<1> QED BY <1>1, <1>2 DEF Said, RunOK, Owner

LEMMA HandedKept ==
  ASSUME HubType, HubInv, QueueInv, HubStep, NEW x, HandedOK(x)
  PROVE  HandedOK(x)'
<1>1. RunsStep /\ sends' = sends /\ box' = box
  BY DEF HubStep
<1>2. Said(x)' /\ Owner(x)' = Owner(x) /\ x[1] \in Run /\ Owner(x) \in Agent
  BY <1>1, SaidKept, OwnerType DEF HandedOK
<1>3. Uncaught(x)'
  BY <1>1, QueuesKept DEF HandedOK, Uncaught
<1>4. slot[Owner(x)].issued \subseteq slot'[Owner(x)].issued
  BY <1>2 DEF HubStep, SlotsStep, Changed
<1>5. NoMore(x) => NoMore(x)'
  BY <1>1, <1>2, QueuesKept DEF NoMore
<1> QED BY <1>2, <1>3, <1>4, <1>5 DEF HandedOK

LEMMA CallsKept ==
  ASSUME HubType, HubInv, QueueInv, CallsInv, HubStep, handed' = handed
  PROVE  CallsInv'
<1>1. \A x \in handed' : HandedOK(x)'
  BY HandedKept DEF CallsInv
<1>2. ASSUME NEW a \in Agent, NEW x \in slot'[a].pending
      PROVE  Said(x)' /\ (x \in handed' => Owner(x)' = a)
  <2>1. x \in slot[a].pending
    BY <1>2 DEF HubStep, SlotsStep, Changed
  <2>2. Said(x) /\ (x \in handed => Owner(x) = a)
    BY <2>1 DEF CallsInv
  <2> QED BY <2>2, SaidKept DEF HubStep
<1> QED BY <1>1, <1>2 DEF CallsInv

LEMMA SeenKept ==
  ASSUME HubType, HubInv, QueueInv, HubStep, NEW r, NEW x, SeenOK(r, x),
         req'[r].slot = req[r].slot, x \in handed' => x \in handed
  PROVE  SeenOK(r, x)'
<1>1. RunsStep /\ sends' = sends /\ box' = box
  BY DEF HubStep
<1>2. Said(x)' /\ Owner(x)' = Owner(x) /\ Owner(x) \in Agent
  BY <1>1, SaidKept, OwnerType DEF SeenOK
<1>3. Uncaught(x)'
  BY <1>1, QueuesKept DEF SeenOK, Uncaught
<1>4. slot[req[r].slot].issued \subseteq slot'[req[r].slot].issued
  BY <1>2 DEF HubStep, SlotsStep, Changed, SeenOK
<1> QED BY <1>2, <1>3, <1>4 DEF SeenOK, Mine

(* A request that does not move.                                           *)
LEMMA ReqKept ==
  ASSUME TypeInv, HubInv, QueueInv, HubStep,
         NEW q \in Request, ReqOK(q), req'[q] = req[q],
         holder' = q <=> holder = q, handed \subseteq handed',
         Seen(q) = {} \/ handed' = handed, req[q].pc # "awaiting",
         req[q].pc \in Outside \/ current' \in {current, None}
  PROVE  ReqOK(q)'
<1>1. ASSUME req[q].pc \in Slotted
      PROVE  req[q].slot \in Agent /\ Pump(q)' = Pump(q)
  <2>1. req[q].slot \in Agent
    BY <1>1 DEF ReqOK, TypeInv, ReqType, Locals
  <2> QED BY <2>1 DEF Pump, Mine, HubStep, SlotsStep, Changed
<1>2. req[q].pc = "ending" => Quiet(Pump(q))'
  <2> SUFFICES ASSUME req[q].pc = "ending" PROVE Quiet(Pump(q))'
    OBVIOUS
  <2>1. Pump(q) \in Run /\ Pump(q)' = Pump(q) /\ Quiet(Pump(q))
    BY <1>1 DEF ReqOK, Slotted, Late, Reading, Pump, Mine, TypeInv, HubType, SlotRec
  <2> DEFINE n == Pump(q)
  <2>2. n \in Run /\ Quiet(n)
    BY <2>1
  <2>3. \A m \in Run : Quiet(m) => Quiet(m)'
    BY QueuesKept DEF TypeInv, HubStep
  <2> QED BY <2>1, <2>2, <2>3 DEF Quiet, Untold
<1>3. Seen(q)' = Seen(q)
  BY DEF Seen
<1>4. ASSUME NEW x \in Seen(q) PROVE SeenOK(q, x)'
  BY <1>4, SeenKept DEF ReqOK, TypeInv
<1>5. agents <= agents' /\ (req[q].slot <= agents => req[q].slot <= agents')
  BY Numbers DEF HubStep, TypeInv, HubType, ReqType, Locals
<1>6. req[q].pc \in Outside => req[q].pc \notin Slotted /\ req[q].pc \notin Unmade
  BY DEF Outside, Slotted, Unmade, Late, Reading
<1>7. req[q].pc \in Reading => req[q].pc \in Slotted
  BY DEF Slotted, Late
<1> QED BY <1>1, <1>2, <1>3, <1>4, <1>5, <1>6, <1>7 DEF ReqOK

LEMMA HeldKept ==
  ASSUME HubType, HeldInv, HubStep, \A n \in Run : run'[n].queue = run[n].queue,
         handed \subseteq handed', brokenOff \subseteq brokenOff',
         current' \in {current, None} \/ (current' \in Agent /\ slot'[current'].pending = {}),
         CallsInv,
         \A r \in Request : \A x : Carried(r, x) => Carried(r, x)'
              \/ x \in handed' \cup brokenOff'
  PROVE  HeldInv'
<1> SUFFICES ASSUME current' # None, NEW x \in slot'[current'].pending,
                    x[1] = slot'[current'].pump, ~run'[x[1]].lost
             PROVE  Kept(x)'
  BY DEF HeldInv
<1>1. current' = current /\ current \in Agent
  BY DEF HubType
<1>2. x \in slot[current].pending /\ x[1] = slot[current].pump
  BY <1>1 DEF HubStep, SlotsStep, Changed
<1>3. x[1] \in Run
  BY <1>1, <1>2, Pairs DEF CallsInv, Said
<1>4. ~run[x[1]].lost
  BY <1>3 DEF HubStep, RunsStep, Calmed
<1>5. Kept(x)
  BY <1>1, <1>2, <1>4 DEF HeldInv
<1>6. Lies(x[1], x) => Lies(x[1], x)'
  BY <1>3 DEF Lies
<1> QED BY <1>5, <1>6 DEF Kept

LEMMA Alone ==
  ASSUME ReqInv, NEW r \in Request, req[r].pc \notin Outside
  PROVE  holder = r /\ r # Nobody /\ \A q \in Request : q # r => req[q].pc \in Outside
BY NobodyAssumption DEF ReqInv, ReqOK

LEMMA OutsideSeesNothing ==
  ASSUME NEW q, req[q].pc \in Outside
  PROVE  Seen(q) = {} /\ req[q].pc # "awaiting" /\ \A x : ~Carried(q, x)
BY DEF Outside, Seen, Reading, Carried

----------------------------------------------------------------------------
(* A step of the request inside that moves it, and nothing from the queues *)
(* or to the client.                                                       *)

Plain == /\ HubStep
         /\ \A n \in Run : run'[n].queue = run[n].queue
         /\ handed' = handed /\ brokenOff' = brokenOff

LEMMA OthersKept ==
  ASSUME TypeInv, HubInv, QueueInv, ReqInv, HubStep, NEW r \in Request,
         req[r].pc \notin Outside, handed \subseteq handed', holder' \in {r, Nobody},
         \A q \in Request \ {r} : req'[q] = req[q]
  PROVE  /\ \A q \in Request \ {r} : ReqOK(q)'
         /\ \A q \in Request \ {r} : \A x : ~Carried(q, x)
<1> SUFFICES ASSUME NEW q \in Request \ {r}
             PROVE  ReqOK(q)' /\ \A x : ~Carried(q, x)
  OBVIOUS
<1>1. holder = r /\ r # Nobody /\ req[q].pc \in Outside
  BY Alone
<1>2. Seen(q) = {} /\ req[q].pc # "awaiting" /\ \A x : ~Carried(q, x)
  BY <1>1, OutsideSeesNothing
<1>3. holder' # q /\ holder # q
  BY <1>1, NobodyAssumption
<1>4. ReqOK(q)
  BY DEF ReqInv
<1>5. ReqOK(q)'
  BY <1>1, <1>2, <1>3, <1>4, ReqKept
<1> QED BY <1>2, <1>5
Goes(r, p) == /\ p \in Place \ (Outside \cup {"awaiting", "ending", "handing"})
              /\ req[r].pc \notin Outside \cup {"parking", "handing"}
              /\ p \in Slotted => req[r].pc \in Slotted
              /\ p \notin Late => req[r].pc \notin Late
              /\ p \in Reading => \/ req[r].pc \in Reading
                                  \/ req[r].pc \notin Late /\ Pump(r) # None
              /\ p \in Unmade => current' = None

LEMMA GoLocals ==
  ASSUME ReqType, NEW r \in Request, NEW p \in Place, Go(r, p)
  PROVE  /\ req' \in [Request -> Locals]
         /\ req'[r] = [req[r] EXCEPT !.pc = p] /\ req'[r].pc = p
         /\ req'[r].slot = req[r].slot /\ req'[r].results = req[r].results
         /\ req'[r].caught = req[r].caught /\ req'[r].told = req[r].told
         /\ req'[r].tools = req[r].tools
         /\ \A q \in Request \ {r} : req'[q] = req[q]
<1> DEFINE l == [req[r] EXCEPT !.pc = p]
<1>1. req[r] \in Locals
  BY DEF ReqType
<1>2. /\ l \in Locals /\ l.pc = p /\ l.slot = req[r].slot /\ l.results = req[r].results
      /\ l.caught = req[r].caught /\ l.told = req[r].told /\ l.tools = req[r].tools
  BY <1>1 DEF Locals
<1>3. req' = [req EXCEPT ![r] = l]
  BY DEF Go
<1> HIDE DEF l
<1>4. /\ req'[r] = l /\ req' \in [Request -> Locals]
      /\ \A q \in Request \ {r} : req'[q] = req[q]
  BY <1>2, <1>3 DEF ReqType
<1> QED BY <1>2, <1>4 DEF l

LEMMA GoStep ==
  ASSUME IInv, Plain, NEW r \in Request, NEW p, Go(r, p), holder' = holder, Goes(r, p),
         current' \in {current, None}
  PROVE  IInv'
<1> USE DEF IInv, TypeInv, Plain
<1>1. HubType' /\ HubInv' /\ QueueInv' /\ CallsInv' /\ ClientType'
  BY HubKept, QueuesKept, CallsKept DEF HubStep, ClientType
<1>2. holder = r /\ r # Nobody
  BY Alone DEF Goes
<1>3. /\ req' \in [Request -> Locals] /\ req'[r].pc = p
      /\ req'[r].slot = req[r].slot /\ req'[r].results = req[r].results
      /\ req'[r].caught = req[r].caught /\ req'[r].told = req[r].told
      /\ \A q \in Request \ {r} : req'[q] = req[q]
  BY GoLocals DEF Goes
<1>4. ReqType'
  BY <1>3 DEF ReqType
<1>5. /\ \A q \in Request \ {r} : ReqOK(q)'
      /\ \A q \in Request \ {r} : \A x : ~Carried(q, x)
  BY <1>2, <1>3, OthersKept DEF Goes
<1>6. ReqOK(r)'
  <2>1. ReqOK(r) /\ req[r] \in Locals
    BY DEF ReqInv, ReqType
  <2>2. agents <= agents' /\ req[r].slot <= agents'
    <3>1. /\ agents \in Nat /\ agents' \in Nat /\ agents <= agents'
          /\ req[r].slot <= agents
      BY <2>1 DEF ReqOK, HubStep, HubType
    <3>2. req[r].slot \in Nat
      BY <2>1, Numbers DEF Locals
    <3> QED BY <3>1, <3>2
  <2>3. Seen(r)' \subseteq Seen(r)
    <3>1. Seen(r)' = IF p \in Reading THEN req[r].caught \cup req[r].told ELSE {}
      BY <1>3 DEF Seen, Goes
    <3>2. p \in Reading /\ req[r].pc \notin Reading => req[r].caught = {} /\ req[r].told = {}
      BY <2>1 DEF ReqOK, Goes
    <3> QED BY <3>1, <3>2 DEF Seen
  <2>4. \A x \in Seen(r)' : SeenOK(r, x)'
    BY <1>3, <2>1, <2>3, SeenKept DEF ReqOK
  <2>5. req[r].pc \in Slotted => req[r].slot # None /\ current' \in {None, req[r].slot}
    BY <2>1 DEF ReqOK
  <2>6. p \in Reading => Pump(r)' = Pump(r) /\ Pump(r) # None
    <3> SUFFICES ASSUME p \in Reading PROVE Pump(r)' = Pump(r) /\ Pump(r) # None
      OBVIOUS
    <3>1. req[r].slot \in Agent
      BY <2>1, <2>5 DEF Goes, Slotted, Late, Locals
    <3>2. Pump(r)' = Pump(r)
      BY <1>3, <3>1 DEF Pump, Mine, HubStep, SlotsStep, Changed
    <3> QED BY <2>1, <3>2 DEF ReqOK, Goes
  <2> HIDE DEF IInv, TypeInv, Plain
  <2>7. /\ p \notin Outside /\ p # "awaiting" /\ p # "ending"
        /\ p \in Slotted => req[r].pc \in Slotted
        /\ p \notin Late => req[r].pc \notin Late
        /\ p \in Unmade => current' = None
    BY DEF Goes
  <2>8. req[r].results \subseteq handed' /\ (req[r].pc \notin Late => req[r].caught = {} /\ req[r].told = {})
    BY <2>1 DEF ReqOK, Plain
  <2> QED BY <1>2, <1>3, <2>2, <2>4, <2>5, <2>6, <2>7, <2>8 DEF ReqOK
<1>7. ReqInv'
  BY <1>5, <1>6 DEF ReqInv
<1>8. FreeIsSettled'
  BY <1>2 DEF FreeIsSettled
<1>9. HeldInv'
  <2>1. \A q \in Request : \A x : ~Carried(q, x)
    BY <1>5 DEF Goes, Carried
  <2> QED BY <2>1, HeldKept
<1> QED BY <1>1, <1>4, <1>7, <1>8, <1>9

(* The request leaves.                                                     *)
LEMMA NoLocalsType ==
  ASSUME NEW p \in Place
  PROVE  /\ NoLocals(p) \in Locals
         /\ NoLocals(p).pc = p /\ NoLocals(p).results = {} /\ NoLocals(p).slot = None
         /\ NoLocals(p).caught = {} /\ NoLocals(p).told = {} /\ NoLocals(p).tools = {}
BY DEF NoLocals, Locals

LEMMA GoneLocals ==
  ASSUME TypeInv, ReqInv, NEW r \in Request, Gone(r), agents' \in Nat, holder' # r
  PROVE  /\ req' \in [Request -> Locals]
         /\ req'[r].tools = {} /\ Seen(r)' = {}
         /\ \A q \in Request \ {r} : req'[q] = req[q]
         /\ ReqOK(r)'
<1> DEFINE l == NoLocals("gone")
<1>1. l \in Locals /\ l.pc = "gone" /\ l.results = {} /\ l.slot = None /\ l.caught = {}
      /\ l.told = {} /\ l.tools = {}
  BY NoLocalsType DEF Place, Outside
<1>2. req' = [req EXCEPT ![r] = l]
  BY DEF Gone
<1> HIDE DEF l
<1>3. /\ req'[r] = l /\ req' \in [Request -> Locals]
      /\ \A q \in Request \ {r} : req'[q] = req[q]
  BY <1>1, <1>2 DEF TypeInv, ReqType
<1>4. Seen(r)' = {}
  BY <1>1, <1>3 DEF Seen, Reading
<1>5. ReqOK(r)'
  <2>1. None <= agents'
    BY Numbers
  <2> QED BY <1>1, <1>3, <1>4, <2>1 DEF ReqOK, Outside, Slotted, Late, Reading, Unmade
<1> QED BY <1>1, <1>3, <1>4, <1>5

LEMMA LeaveStep ==
  ASSUME IInv, Plain, NEW r \in Request, Leave(r),
         req[r].pc \notin Outside \cup {"parking", "handing"},
         current' \in {current, None},
         current' = None \/ slot'[current'].state # "running"
  PROVE  IInv'
<1> USE DEF IInv, TypeInv, Plain
<1>1. HubType' /\ HubInv' /\ QueueInv' /\ CallsInv' /\ ClientType'
  BY HubKept, QueuesKept, CallsKept DEF HubStep, ClientType
<1>2. holder = r /\ r # Nobody /\ holder' = Nobody /\ Gone(r)
  BY Alone DEF Leave
<1>3. agents' \in Nat
  BY DEF HubStep
<1>4. /\ req' \in [Request -> Locals]
      /\ \A q \in Request \ {r} : req'[q] = req[q]
      /\ ReqOK(r)'
  BY <1>2, <1>3, GoneLocals
<1>5. /\ \A q \in Request \ {r} : ReqOK(q)'
      /\ \A q \in Request \ {r} : \A x : ~Carried(q, x)
  BY <1>2, <1>4, OthersKept
<1>6. ReqType' /\ ReqInv'
  BY <1>2, <1>4, <1>5 DEF ReqType, ReqInv
<1>7. FreeIsSettled'
  BY DEF FreeIsSettled
<1>8. HeldInv'
  <2>1. \A q \in Request : \A x : ~Carried(q, x)
    BY <1>5 DEF Carried
  <2> QED BY <2>1, HeldKept
<1> QED BY <1>1, <1>6, <1>7, <1>8
----------------------------------------------------------------------------
(* What the actions do to slots and runs.                                  *)

SameQueues == \A n \in Run : run'[n].queue = run[n].queue

(* Slots and runs on the way to the next ones.                             *)
SlotsGo(ss) == /\ ss \in [Agent -> SlotRec]
               /\ \A a \in Agent : Changed(slot[a], ss[a])
               /\ \A a \in Agent : a > agents => ss[a] = slot[a]

RunsGo(rs) == /\ rs \in [Run -> RunRec]
              /\ \A n \in Run : Calmed(run[n], rs[n]) /\ rs[n].queue = run[n].queue

LEMMA Standing ==
  ASSUME HubType
  PROVE  SlotsGo(slot) /\ RunsGo(run)
BY ChangedSteps, CalmedSteps DEF SlotsGo, RunsGo, HubType

(* f with w at k. *)
SetAt(f, k, w) == [f EXCEPT ![k] = w]

LEMMA SlotGoes ==
  ASSUME HubType, NEW ss, SlotsGo(ss), NEW a \in Agent, a <= agents, NEW t, Changed(ss[a], t)
  PROVE  /\ SlotsGo(SetAt(ss, a, t)) /\ SetAt(ss, a, t)[a] = t
         /\ \A b \in Agent \ {a} : SetAt(ss, a, t)[b] = ss[b]
<1> DEFINE us == SetAt(ss, a, t)
<1>1. us \in [Agent -> SlotRec] /\ us[a] = t /\ \A b \in Agent \ {a} : us[b] = ss[b]
  BY DEF SlotsGo, Changed, SetAt
<1> HIDE DEF us
<1>2. \A b \in Agent : Changed(slot[b], us[b])
  BY <1>1, ChangedTwice DEF SlotsGo
<1>3. ~(a > agents)
  BY Numbers DEF HubType
<1>4. \A b \in Agent : b > agents => us[b] = slot[b]
  BY <1>1, <1>3 DEF SlotsGo
<1>5. SlotsGo(us)
  BY <1>1, <1>2, <1>4 DEF SlotsGo
<1> QED BY <1>1, <1>5 DEF us

LEMMA RunGoes ==
  ASSUME HubType, NEW rs, RunsGo(rs), NEW n \in Run, NEW q, Calmed(rs[n], q),
         q.queue = rs[n].queue
  PROVE  /\ RunsGo(SetAt(rs, n, q)) /\ SetAt(rs, n, q)[n] = q
         /\ \A m \in Run \ {n} : SetAt(rs, n, q)[m] = rs[m]
<1> DEFINE ws == SetAt(rs, n, q)
<1>1. ws \in [Run -> RunRec] /\ ws[n] = q /\ \A m \in Run \ {n} : ws[m] = rs[m]
  BY DEF RunsGo, Calmed, SetAt
<1> HIDE DEF ws
<1>2. Calmed(run[n], q)
  BY DEF RunsGo, Calmed
<1>3. RunsGo(ws)
  BY <1>1, <1>2 DEF RunsGo
<1> QED BY <1>1, <1>3 DEF ws

LEMMA CancelGoes ==
  ASSUME NEW rs, RunsGo(rs), NEW a
  PROVE  /\ RunsGo(Cancelled(a, rs))
         /\ \A n \in Run : /\ rs[n].phase = "ended" => Cancelled(a, rs)[n].phase = "ended"
                           /\ rs[n].phase # "none" => Cancelled(a, rs)[n].phase # "none"
<1> DEFINE ws == Cancelled(a, rs)
<1>1. ASSUME NEW n \in Run
      PROVE  /\ ws[n] \in RunRec
             /\ Calmed(run[n], ws[n]) /\ ws[n].queue = run[n].queue
             /\ rs[n].phase = "ended" => ws[n].phase = "ended"
             /\ rs[n].phase # "none" => ws[n].phase # "none"
  <2>1. rs[n] \in RunRec /\ Calmed(run[n], rs[n]) /\ rs[n].queue = run[n].queue
    BY DEF RunsGo
  <2>2. CASE rs[n].agent = a /\ rs[n].phase \in {"sending", "live"}
    <3> DEFINE q == [rs[n] EXCEPT !.phase = "cancelling"]
    <3>1. ws[n] = q
      BY <2>2 DEF Cancelled
    <3>2. Calmed(rs[n], q) /\ q.queue = rs[n].queue /\ q \in RunRec /\ q.phase = "cancelling"
      BY <2>1, <2>2, CalmedSteps DEF Phase
    <3> HIDE DEF q
    <3>3. Calmed(run[n], q)
      BY <2>1, <3>2 DEF Calmed
    <3> HIDE DEF ws
    <3> QED BY <2>1, <2>2, <3>1, <3>2, <3>3
  <2>3. CASE ~(rs[n].agent = a /\ rs[n].phase \in {"sending", "live"})
    <3>1. ws[n] = rs[n]
      BY <2>3 DEF Cancelled
    <3> HIDE DEF ws
    <3> QED BY <2>1, <3>1
  <2> QED BY <2>2, <2>3
<1>2. ws = [n \in Run |-> ws[n]]
  BY DEF Cancelled
<1> HIDE DEF ws
<1>3. ws \in [Run -> RunRec]
  BY <1>1, <1>2
<1>4. RunsGo(ws)
  BY <1>1, <1>3 DEF RunsGo
<1> QED BY <1>1, <1>4 DEF ws

LEMMA HubStepFrom ==
  ASSUME HubType, HubInv, SlotsGo(slot'), RunsGo(run'),
         box' = box, sends' = sends, agents' = agents,
         current' \in {current, None},
         current' # current => slot'[current].pending = {}
  PROVE  HubStep /\ SameQueues
<1>1. SlotsStep /\ RunsStep /\ SameQueues
  BY DEF SlotsGo, RunsGo, SlotsStep, RunsStep, SameQueues
<1>2. agents' \in 0..MaxAgents /\ agents <= agents' /\ None <= agents
      /\ \A a \in Agent : a > agents' => slot'[a] = slot[a]
  BY Numbers DEF HubType, SlotsGo
<1>3. current' \in Agent \cup {None} /\ current' <= agents'
  BY <1>2 DEF HubType, HubInv
<1>4. \A a \in Agent : a # current' => slot'[a].pending = {}
  BY DEF HubInv, SlotOK, SlotsGo, Changed
<1> QED BY <1>1, <1>2, <1>3, <1>4 DEF HubStep

LEMMA StillHub ==
  ASSUME HubType, HubInv, UNCHANGED hub
  PROVE  HubStep /\ SameQueues
<1>1. SlotsGo(slot') /\ RunsGo(run')
  BY Standing DEF hub, SlotsGo, RunsGo
<1> QED BY <1>1, HubStepFrom DEF hub

LEMMA DropHub ==
  ASSUME HubType, HubInv, DropSlot
  PROVE  HubStep /\ SameQueues /\ current' = None
<1>1. CASE current = None
  <2>1. UNCHANGED hub
    BY <1>1 DEF DropSlot, hub
  <2> QED BY <1>1, <2>1, StillHub DEF hub
<1>2. CASE current # None
  <2> DEFINE s == [slot[current] EXCEPT !.state = "dead"]
             t == [s EXCEPT !.pending = {}]
  <2>1. current \in Agent /\ slot[current] \in SlotRec /\ current <= agents
    BY <1>2 DEF HubType, HubInv
  <2>2. Changed(slot[current], s) /\ s \in SlotRec
    BY <2>1, ChangedSteps DEF State, Changed
  <2> HIDE DEF s
  <2>3. Changed(s, t) /\ t.pending = {}
    BY <2>2, ChangedSteps
  <2> HIDE DEF t
  <2>4. Changed(slot[current], t)
    BY <2>2, <2>3, ChangedTwice
  <2>5. slot' = SetAt(slot, current, t)
    BY <1>2 DEF DropSlot, s, t, SetAt
  <2>6. SlotsGo(slot') /\ slot'[current] = t
    BY <2>1, <2>4, <2>5, Standing, SlotGoes
  <2>7. RunsGo(run')
    <3>1. run' = Cancelled(current, run)
      BY <1>2 DEF DropSlot
    <3> QED BY <3>1, Standing, CancelGoes
  <2> QED BY <2>3, <2>6, <2>7, HubStepFrom DEF DropSlot
<1> QED BY <1>1, <1>2

LEMMA SettleHub ==
  ASSUME HubType, HubInv, NEW ss, SlotsGo(ss), NEW rs, RunsGo(rs), SettleSlot(ss, rs),
         UNCHANGED <<agents, box, sends>>
  PROVE  /\ HubStep /\ SameQueues
         /\ current' \in {current, None}
         /\ current' = None \/ slot'[current'].state # "running"
<1>1. CASE current = None \/ ss[current].state # "running"
  <2>1. slot' = ss /\ run' = rs /\ current' = current
    BY <1>1 DEF SettleSlot
  <2> QED BY <1>1, <2>1, HubStepFrom
<1>2. CASE ~(current = None \/ ss[current].state # "running")
  <2>1. current \in Agent /\ current <= agents /\ ss[current] \in SlotRec
    BY <1>2 DEF HubType, HubInv, SlotsGo
  <2>2. CASE ss[current].pending # {}
    <3> DEFINE t == [ss[current] EXCEPT !.state = "awaiting_tools"]
    <3>1. Changed(ss[current], t) /\ t.state = "awaiting_tools"
      BY <2>1, ChangedSteps DEF State
    <3>2. slot' = SetAt(ss, current, t) /\ run' = rs /\ current' = current
      BY <1>2, <2>2 DEF SettleSlot, SetAt
    <3> HIDE DEF t
    <3>3. SlotsGo(slot') /\ slot'[current] = t
      BY <2>1, <3>1, <3>2, SlotGoes
    <3> QED BY <3>1, <3>2, <3>3, HubStepFrom
  <2>3. CASE ss[current].pending = {}
    <3> DEFINE t == [ss[current] EXCEPT !.state = "dead"]
    <3>1. Changed(ss[current], t) /\ t.pending = {}
      BY <2>1, <2>3, ChangedSteps DEF State
    <3>2. slot' = SetAt(ss, current, t) /\ run' = Cancelled(current, rs) /\ current' = None
      BY <1>2, <2>3 DEF SettleSlot, SetAt
    <3> HIDE DEF t
    <3>3. SlotsGo(slot') /\ slot'[current] = t
      BY <2>1, <3>1, <3>2, SlotGoes
    <3>4. RunsGo(run')
      BY <3>2, CancelGoes
    <3> QED BY <3>1, <3>2, <3>3, <3>4, HubStepFrom
  <2> QED BY <2>2, <2>3
<1> QED BY <1>1, <1>2
LEMMA InStateGoes ==
  ASSUME HubType, HubInv, NEW st \in State
  PROVE  /\ SlotsGo(InState(st))
         /\ \A a \in Agent : InState(st)[a].pending = slot[a].pending
<1>1. CASE current = None
  BY <1>1, Standing DEF InState
<1>2. CASE current # None
  <2> DEFINE t == [slot[current] EXCEPT !.state = st]
  <2>1. current \in Agent /\ slot[current] \in SlotRec /\ current <= agents
    BY <1>2 DEF HubType, HubInv
  <2>2. Changed(slot[current], t) /\ t.pending = slot[current].pending
    BY <2>1, ChangedSteps
  <2>3. InState(st) = SetAt(slot, current, t)
    BY <1>2 DEF InState, SetAt
  <2> HIDE DEF t
  <2>4. /\ SlotsGo(InState(st)) /\ InState(st)[current] = t
        /\ \A b \in Agent \ {current} : InState(st)[b] = slot[b]
    BY <2>1, <2>2, <2>3, Standing, SlotGoes
  <2> QED BY <2>2, <2>4
<1> QED BY <1>1, <1>2

(* A slot's issued ids come to the calls that went out.                    *)
LEMMA IssuedGoes ==
  ASSUME HubType, NEW ss, SlotsGo(ss), NEW a \in Agent, a <= agents, NEW I \in SUBSET Exec,
         NEW us, us = [ss EXCEPT ![a].issued = @ \cup I]
  PROVE  /\ SlotsGo(us)
         /\ us[a].issued = ss[a].issued \cup I
         /\ \A b \in Agent : us[b].pending = ss[b].pending
<1> DEFINE t == [ss[a] EXCEPT !.issued = @ \cup I]
<1>1. ss[a] \in SlotRec
  BY DEF SlotsGo
<1>2. Changed(ss[a], t) /\ t.issued = ss[a].issued \cup I /\ t.pending = ss[a].pending
  BY <1>1, ChangedSteps
<1>3. us = SetAt(ss, a, t)
  BY DEF SetAt
<1> HIDE DEF t
<1>4. SlotsGo(SetAt(ss, a, t)) /\ SetAt(ss, a, t)[a] = t
      /\ \A b \in Agent \ {a} : SetAt(ss, a, t)[b] = ss[b]
  <2>1. HubType /\ SlotsGo(ss) /\ a \in Agent /\ a <= agents /\ Changed(ss[a], t)
    BY <1>2
  <2> QED BY ONLY <2>1, SlotGoes
<1> QED BY <1>2, <1>3, <1>4

LEMMA PlainStill ==
  ASSUME IInv, UNCHANGED <<hub, client>>
  PROVE  Plain /\ current' = current
BY StillHub DEF IInv, TypeInv, Plain, hub, client, SameQueues

LEMMA PlainFrom ==
  ASSUME IInv, SlotsGo(slot'), RunsGo(run'),
         box' = box, sends' = sends, agents' = agents, UNCHANGED client,
         current' \in {current, None},
         current' # current => slot'[current].pending = {}
  PROVE  Plain
BY HubStepFrom DEF IInv, TypeInv, Plain, SameQueues, client

(* The slot of a request that has one.                                     *)
LEMMA SlotOf ==
  ASSUME IInv, NEW r \in Request, req[r].pc \in Slotted
  PROVE  /\ req[r].slot \in Agent /\ req[r].slot <= agents /\ Mine(r) \in SlotRec
         /\ current \in {None, req[r].slot}
         /\ Pump(r) \in Run \cup {None}
         /\ req[r].tools \subseteq Exec
         /\ holder = r
<1>1. ReqOK(r) /\ req[r] \in Locals
  BY DEF IInv, TypeInv, ReqInv, ReqType
<1>2. /\ req[r].slot \in Agent /\ req[r].slot <= agents
      /\ current \in {None, req[r].slot} /\ req[r].tools \subseteq Exec
  BY <1>1 DEF ReqOK, Locals
<1>3. Mine(r) \in SlotRec
  BY <1>2 DEF IInv, TypeInv, HubType, Mine
<1>4. Pump(r) \in Run \cup {None}
  BY <1>3 DEF Pump, SlotRec
<1>5. holder = r
  BY <1>1 DEF ReqOK, Outside, Slotted, Late, Reading
<1> QED BY <1>2, <1>3, <1>4, <1>5

----------------------------------------------------------------------------
(* The steps that only move a request.                                     *)

LEMMA StillSteps ==
  ASSUME IInv, NEW r \in Request,
         \/ Refuse(r) \/ LookForAgent(r) \/ NoSlot(r) \/ Retry(r) \/ Ignore(r)
         \/ LeaveMarking(r) \/ EndFailed(r) \/ EndHeld(r)
  PROVE  IInv'
<1> USE DEF Place, Outside, Unmade, Slotted, Late, Reading, At
<1>1. Plain /\ current' = current /\ holder' = holder
  BY PlainStill DEF Refuse, LookForAgent, NoSlot, Retry, Ignore, LeaveMarking, EndFailed, EndHeld
<1>2. CASE Refuse(r)
  <2>1. Go(r, "settling") /\ Goes(r, "settling")
    BY <1>2 DEF Refuse, Goes
  <2> QED BY <1>1, <2>1, GoStep
<1>3. CASE LookForAgent(r)
  <2>1. PICK p \in {"resuming", "creating"} : Go(r, p)
    BY <1>3 DEF LookForAgent
  <2>2. Goes(r, p)
    BY <1>1, <1>3 DEF LookForAgent, Goes
  <2> QED BY <1>1, <2>1, <2>2, GoStep
<1>4. CASE NoSlot(r)
  <2>1. Go(r, "settling") /\ Goes(r, "settling")
    BY <1>4 DEF NoSlot, Goes
  <2> QED BY <1>1, <2>1, GoStep
<1>5. CASE Retry(r)
  <2>1. CASE Pump(r) # None /\ Resumable(r)
    <3>1. Go(r, "consuming") /\ Goes(r, "consuming")
      BY <1>5, <2>1 DEF Retry, Goes
    <3> QED BY <1>1, <3>1, GoStep
  <2>2. CASE ~(Pump(r) # None /\ Resumable(r))
    <3>1. Go(r, "settling") /\ Goes(r, "settling")
      BY <1>5, <2>2 DEF Retry, Goes
    <3> QED BY <1>1, <3>1, GoStep
  <2> QED BY <2>1, <2>2
<1>6. CASE Ignore(r)
  <2>1. Go(r, "settling") /\ Goes(r, "settling")
    BY <1>6 DEF Ignore, Goes
  <2> QED BY <1>1, <2>1, GoStep
<1>7. CASE LeaveMarking(r)
  <2>1. Go(r, "closing") /\ Goes(r, "closing")
    BY <1>7 DEF LeaveMarking, Goes
  <2> QED BY <1>1, <2>1, GoStep
<1>8. CASE EndFailed(r)
  <2>1. Go(r, "closing") /\ Goes(r, "closing")
    BY <1>8 DEF EndFailed, Goes
  <2> QED BY <1>1, <2>1, GoStep
<1>9. CASE EndHeld(r)
  <2>1. Go(r, "parking") /\ Goes(r, "parking")
    BY <1>9 DEF EndHeld, Goes
  <2> QED BY <1>1, <2>1, GoStep
<1> QED BY <1>2, <1>3, <1>4, <1>5, <1>6, <1>7, <1>8, <1>9

LEMMA ReplaceStep ==
  ASSUME IInv, NEW r \in Request, Replace(r)
  PROVE  IInv'
<1>1. Plain /\ current' = None /\ holder' = holder
  BY DropHub DEF Replace, Plain, IInv, TypeInv, SameQueues, client
<1>2. Go(r, "creating") /\ Goes(r, "creating")
  BY <1>1 DEF Replace, Goes, Place, Outside, Unmade, Slotted, Late, Reading, At
<1> QED BY <1>1, <1>2, GoStep

LEMMA AbortedStep ==
  ASSUME IInv, NEW r \in Request, Aborted(r)
  PROVE  IInv'
<1>1. SlotsGo(slot') /\ RunsGo(run')
  BY InStateGoes, Standing DEF Aborted, IInv, TypeInv, State
<1>2. Plain /\ current' = current /\ holder' = holder
  BY <1>1, PlainFrom DEF Aborted
<1>3. Go(r, "sending") /\ Goes(r, "sending")
  BY DEF Aborted, Goes, Place, Outside, Unmade, Slotted, Late, Reading, At
<1> QED BY <1>2, <1>3, GoStep

LEMMA MarkStep ==
  ASSUME IInv, NEW r \in Request, Mark(r)
  PROVE  IInv'
<1>1. SlotsGo(slot') /\ RunsGo(run')
  BY Standing, CancelGoes DEF Mark, IInv, TypeInv, SlotsGo
<1>2. Plain /\ current' = current /\ holder' = holder
  BY <1>1, PlainFrom DEF Mark
<1>3. Go(r, "keeping") /\ Goes(r, "keeping")
  BY DEF Mark, Goes, Place, Outside, Unmade, Slotted, Late, Reading, At
<1> QED BY <1>2, <1>3, GoStep

(* markIdle, with the calls that went out.                                 *)
LEMMA IdleSlots ==
  ASSUME IInv, NEW r \in Request, req[r].pc \in Slotted,
         slot' = LET s == InState("idle")
                 IN [s EXCEPT ![req[r].slot].issued = @ \cup req[r].tools]
  PROVE  SlotsGo(slot')
<1> DEFINE ss == InState("idle")
           us == [ss EXCEPT ![req[r].slot].issued = @ \cup req[r].tools]
<1>1. HubType /\ SlotsGo(ss)
  BY InStateGoes DEF IInv, TypeInv, State
<1>2. req[r].slot \in Agent /\ req[r].slot <= agents /\ req[r].tools \in SUBSET Exec
  BY SlotOf
<1>3. slot' = us
  OBVIOUS
<1> HIDE DEF ss
<1>4. us = [ss EXCEPT ![req[r].slot].issued = @ \cup req[r].tools]
  OBVIOUS
<1> HIDE DEF us
<1>5. SlotsGo(us)
  BY <1>1, <1>2, <1>4, IssuedGoes
<1> QED BY <1>3, <1>5

LEMMA KeepStep ==
  ASSUME IInv, NEW r \in Request, Keep(r)
  PROVE  IInv'
<1> USE DEF Place, Outside, Unmade, Slotted, Late, Reading, At
<1>1. SlotsGo(slot') /\ RunsGo(run')
  BY IdleSlots, Standing DEF Keep, IInv, TypeInv, RunsGo
<1>2. Plain /\ current' = current /\ holder' = holder
  BY <1>1, PlainFrom DEF Keep
<1>3. Go(r, "closing") /\ Goes(r, "closing")
  BY DEF Keep, Goes
<1> QED BY <1>2, <1>3, GoStep

LEMMA WaitedStep ==
  ASSUME IInv, NEW r \in Request, Waited(r)
  PROVE  IInv'
<1> USE DEF Place, Outside, Unmade, Slotted, Late, Reading, At
<1>1. /\ At(r, "waiting") /\ UNCHANGED <<current, agents, box, sends, holder, client>>
      /\ SlotsGo(slot) /\ RunsGo(run)
  BY Standing DEF Waited, IInv, TypeInv
<1>2. CASE UNCHANGED run /\ Go(r, "closing")
           /\ slot' = LET s == InState("idle")
                      IN [s EXCEPT ![req[r].slot].issued = @ \cup req[r].tools]
  <2>1. SlotsGo(slot') /\ RunsGo(run')
    BY <1>1, <1>2, IdleSlots DEF RunsGo
  <2>2. Plain /\ current' = current /\ holder' = holder
    BY <1>1, <2>1, PlainFrom
  <2>3. Goes(r, "closing")
    BY <1>1 DEF Goes
  <2> QED BY <1>2, <2>2, <2>3, GoStep
<1>3. CASE run' = Cancelled(req[r].slot, run) /\ Go(r, "keeping") /\ UNCHANGED slot
  <2>1. SlotsGo(slot') /\ RunsGo(run')
    BY <1>1, <1>3, CancelGoes DEF SlotsGo
  <2>2. Plain /\ current' = current /\ holder' = holder
    BY <1>1, <2>1, PlainFrom
  <2>3. Goes(r, "keeping")
    BY <1>1 DEF Goes
  <2> QED BY <1>3, <2>2, <2>3, GoStep
<1>4. CASE Go(r, "closing") /\ UNCHANGED <<slot, run>>
  <2>1. SlotsGo(slot') /\ RunsGo(run')
    BY <1>1, <1>4 DEF SlotsGo, RunsGo
  <2>2. Plain /\ current' = current /\ holder' = holder
    BY <1>1, <2>1, PlainFrom
  <2>3. Goes(r, "closing")
    BY <1>1 DEF Goes
  <2> QED BY <1>4, <2>2, <2>3, GoStep
<1> QED BY <1>2, <1>3, <1>4 DEF Waited
LEMMA ResolveStep ==
  ASSUME IInv, NEW r \in Request, Resolve(r)
  PROVE  IInv'
<1> USE DEF Place, Outside, Unmade, Slotted, Late, Reading, At
<1> DEFINE left == slot[current].pending \ Hits(r)
           s == [slot[current] EXCEPT !.pending = left]
           C == s.consumed \cup Hits(r)
           u == [s EXCEPT !.consumed = C]
           st == IF left = {} THEN "running" ELSE u.state
           t == [u EXCEPT !.state = st]
<1>1. PICK x : x \in Hits(r)
  BY DEF Resolve
<1>2. /\ current # None /\ x \in req[r].results /\ x \in slot[current].pending
      /\ Hits(r) \subseteq slot[current].pending
  BY <1>1 DEF Hits
<1>3. /\ req[r].slot \in Agent /\ current = req[r].slot /\ current <= agents
      /\ slot[current] \in SlotRec /\ req[r].pc = "turning"
  BY <1>2, SlotOf DEF Resolve, Mine
<1>4. Pump(r) # None
  <2>1. x \in handed
    BY <1>2 DEF IInv, ReqInv, ReqOK
  <2>2. Said(x) /\ Owner(x) = current
    BY <1>2, <1>3, <2>1 DEF IInv, CallsInv
  <2>3. x[1] \in Run /\ x[1] <= box[current]
    BY <2>2, OwnerType DEF IInv, TypeInv
  <2>4. box[current] # None
    BY <2>3, Numbers DEF Run
  <2> QED BY <1>3, <2>4 DEF IInv, HubInv, SlotOK, Pump, Mine
<1>5. SlotsGo(slot') /\ RunsGo(run')
  <2>1. Changed(slot[current], s) /\ s \in SlotRec /\ left \subseteq slot[current].pending
    BY <1>3, ChangedSteps DEF Changed
  <2>2. slot' = SetAt(slot, current, t)
    <3>1. s.consumed = slot[current].consumed /\ u.state = slot[current].state
      BY <1>3 DEF SlotRec
    <3>2. slot' = [slot EXCEPT ![current].pending = left,
                               ![current].consumed = @ \cup Hits(r),
                               ![current].state = IF left = {} THEN "running" ELSE @]
      BY DEF Resolve
    <3> HIDE DEF left
    <3> QED BY <1>3, <3>1, <3>2 DEF SetAt
  <2>3. Hits(r) \in SUBSET Exec
    BY <1>2, <1>3 DEF SlotRec
  <2> HIDE DEF s
  <2>4. C \in SUBSET Exec
    BY <2>1, <2>3 DEF SlotRec
  <2> HIDE DEF C
  <2>5. Changed(s, u) /\ u \in SlotRec
    BY <2>1, <2>4, ChangedSteps DEF Changed
  <2> HIDE DEF u, left
  <2>6. st \in State
    BY <2>5 DEF SlotRec, State
  <2> HIDE DEF st
  <2>7. Changed(u, t)
    BY <2>5, <2>6, ChangedSteps
  <2> HIDE DEF t
  <2>8. Changed(slot[current], t)
    BY <2>1, <2>5, <2>7, ChangedTwice
  <2>9. HubType /\ SlotsGo(slot) /\ RunsGo(run) /\ run' = run
    BY Standing DEF IInv, TypeInv, Resolve
  <2> QED BY <1>3, <2>2, <2>8, <2>9, SlotGoes
<1>6. Plain /\ current' = current /\ holder' = holder
  BY <1>5, PlainFrom DEF Resolve
<1>7. Go(r, "consuming") /\ Goes(r, "consuming")
  BY <1>4 DEF Resolve, Goes
<1> QED BY <1>6, <1>7, GoStep

LEMMA AbortHungStep ==
  ASSUME IInv, NEW r \in Request, AbortHung(r)
  PROVE  IInv'
<1> USE DEF Place, Outside, Unmade, Slotted, Late, Reading, At
<1> DEFINE a == req[r].slot
           s == [slot[a] EXCEPT !.pending = {}]
           st == IF s.state = "awaiting_tools" THEN "running" ELSE s.state
           t == [s EXCEPT !.state = st]
<1>1. req[r].pc = "turning" /\ a \in Agent /\ a <= agents /\ slot[a] \in SlotRec
  BY SlotOf DEF AbortHung, MaySend, Mine
<1>2. Changed(slot[a], s) /\ s \in SlotRec
  BY <1>1, ChangedSteps DEF Changed
<1>3. slot' = SetAt(slot, a, t)
  BY <1>1 DEF AbortHung, SetAt
<1> HIDE DEF s
<1>4. st \in State
  BY <1>2 DEF SlotRec, State
<1> HIDE DEF st
<1>5. Changed(s, t)
  BY <1>2, <1>4, ChangedSteps
<1> HIDE DEF t
<1>6. Changed(slot[a], t)
  BY <1>2, <1>5, ChangedTwice
<1>7. SlotsGo(slot') /\ RunsGo(run')
  <2>1. HubType /\ SlotsGo(slot) /\ RunsGo(run) /\ run' = Cancelled(a, run)
    BY Standing DEF IInv, TypeInv, AbortHung
  <2> HIDE DEF a
  <2> QED BY <1>1, <1>3, <1>6, <2>1, SlotGoes, CancelGoes
<1>8. Plain /\ current' = current /\ holder' = holder
  BY <1>7, PlainFrom DEF AbortHung
<1>9. Go(r, "aborting") /\ Goes(r, "aborting")
  BY <1>1 DEF AbortHung, Goes
<1> QED BY <1>8, <1>9, GoStep

LEMMA SentStep ==
  ASSUME IInv, NEW r \in Request, Sent(r)
  PROVE  IInv'
<1> USE DEF Place, Outside, Unmade, Slotted, Late, Reading, At
<1> DEFINE a == req[r].slot
           n == Pump(r)
           b == slot[a].asked \/ req[r].kind # "tool_results"
           c == slot[a].answered /\ req[r].kind = "tool_results"
           s == [slot[a] EXCEPT !.consumed = {}]
           u == [s EXCEPT !.asked = b]
           t == [u EXCEPT !.answered = c]
           p == [run[n] EXCEPT !.phase = "live"]
<1>1. req[r].pc = "awaiting" /\ a \in Agent /\ a <= agents /\ slot[a] \in SlotRec
  BY SlotOf DEF Sent, Mine
<1>2. n # None /\ n \in Run /\ run[n].phase = "sending" /\ run[n] \in RunRec
  BY <1>1, SlotOf DEF IInv, TypeInv, HubType, ReqInv, ReqOK
<1>3. slot' = SetAt(slot, a, t)
  <2>1. s.asked = slot[a].asked /\ u.answered = slot[a].answered
    BY <1>1 DEF SlotRec
  <2> QED BY <1>1, <2>1 DEF Sent, SetAt
<1>4. b \in BOOLEAN /\ c \in BOOLEAN
  OBVIOUS
<1> HIDE DEF b, c
<1>5. Changed(slot[a], s) /\ s \in SlotRec
  BY <1>1, ChangedSteps DEF Changed
<1> HIDE DEF s
<1>6. Changed(s, u) /\ u \in SlotRec
  BY <1>4, <1>5, ChangedSteps DEF Changed
<1> HIDE DEF u
<1>7. Changed(u, t)
  BY <1>4, <1>6, ChangedSteps
<1> HIDE DEF t
<1>8. Changed(slot[a], t)
  BY <1>5, <1>6, <1>7, ChangedTwice
<1>9. Calmed(run[n], p) /\ p.queue = run[n].queue
  BY <1>2, CalmedSteps DEF Phase
<1>10. run' = SetAt(run, n, p)
  BY DEF Sent, SetAt
<1>11. SlotsGo(slot') /\ RunsGo(run')
  <2>1. HubType /\ SlotsGo(slot) /\ RunsGo(run)
    BY Standing DEF IInv, TypeInv
  <2> HIDE DEF a, n, p
  <2> QED BY <1>1, <1>2, <1>3, <1>8, <1>9, <1>10, <2>1, SlotGoes, RunGoes
<1>12. Plain /\ current' = current /\ holder' = holder
  BY <1>11, PlainFrom DEF Sent
<1>13. Go(r, "consuming") /\ Goes(r, "consuming")
  BY <1>1, <1>2 DEF Sent, Goes
<1> QED BY <1>12, <1>13, GoStep

LEMMA SendFailedStep ==
  ASSUME IInv, NEW r \in Request, SendFailed(r)
  PROVE  IInv'
<1> USE DEF Place, Outside, Unmade, Slotted, Late, Reading, At
<1> DEFINE a == req[r].slot
           n == Pump(r)
<1>1. req[r].pc = "awaiting" /\ a \in Agent /\ a <= agents /\ slot[a] \in SlotRec
  BY SlotOf DEF SendFailed, Mine
<1>2. /\ n # None /\ n \in Run /\ run[n].phase = "sending" /\ run[n] \in RunRec
      /\ current = a
  BY <1>1, SlotOf DEF IInv, TypeInv, HubType, ReqInv, ReqOK
<1>3. HubType /\ SlotsGo(slot) /\ RunsGo(run)
  BY Standing DEF IInv, TypeInv
<1>4. CASE /\ Go(r, "settling") /\ run' = [run EXCEPT ![n].phase = "ended"]
           /\ UNCHANGED <<current, slot>>
  <2> DEFINE p == [run[n] EXCEPT !.phase = "ended"]
  <2>1. Calmed(run[n], p) /\ p.queue = run[n].queue
    BY <1>2, CalmedSteps DEF Phase
  <2>2. run' = SetAt(run, n, p)
    BY <1>4 DEF SetAt
  <2> HIDE DEF p
  <2>3. SlotsGo(slot') /\ RunsGo(run')
    <3>1. RunsGo(SetAt(run, n, p))
      <4> HIDE DEF n
      <4> QED BY ONLY <1>2, <1>3, <2>1, RunGoes
    <3> QED BY <1>3, <1>4, <2>2, <3>1 DEF SlotsGo
  <2>4. Plain /\ current' = current /\ holder' = holder
    BY <1>4, <2>3, PlainFrom DEF SendFailed
  <2>5. Goes(r, "settling")
    BY <1>1 DEF Goes
  <2> QED BY <1>4, <2>4, <2>5, GoStep
<1>5. CASE /\ current' = None
           /\ slot' = [slot EXCEPT ![a].state = "dead", ![a].pending = {}]
           /\ run' = [Cancelled(a, run) EXCEPT ![n].phase = "ended"]
           /\ Go(r, "recreating")
  <2> DEFINE s == [slot[a] EXCEPT !.state = "dead"]
             t == [s EXCEPT !.pending = {}]
             rs == Cancelled(a, run)
             p == [rs[n] EXCEPT !.phase = "ended"]
  <2>1. Changed(slot[a], s) /\ s \in SlotRec
    BY <1>1, ChangedSteps DEF Changed, State
  <2>2. slot' = SetAt(slot, a, t)
    BY <1>1, <1>5 DEF SetAt
  <2> HIDE DEF s
  <2>3. Changed(s, t) /\ t.pending = {}
    BY <2>1, ChangedSteps
  <2> HIDE DEF t
  <2>4. Changed(slot[a], t)
    BY <2>1, <2>3, ChangedTwice
  <2>5. RunsGo(rs) /\ rs[n].phase # "none"
    BY <1>2, <1>3, CancelGoes
  <2>6. run' = SetAt(rs, n, p)
    BY <1>5 DEF SetAt
  <2> HIDE DEF rs
  <2>7. Calmed(rs[n], p) /\ p.queue = rs[n].queue
    BY <1>2, <2>5, CalmedSteps DEF RunsGo, Phase
  <2> HIDE DEF p, n, a
  <2>8. SlotsGo(slot') /\ slot'[a] = t
    BY <1>1, <1>3, <2>2, <2>4, SlotGoes
  <2>9. RunsGo(SetAt(rs, n, p))
    BY ONLY <1>2, <1>3, <2>5, <2>7, RunGoes
  <2>10. Plain /\ holder' = holder
    BY <1>2, <1>5, <2>3, <2>6, <2>8, <2>9, PlainFrom DEF SendFailed
  <2>11. Goes(r, "recreating")
    BY <1>1, <1>5 DEF Goes
  <2> QED BY <1>5, <2>10, <2>11, GoStep
<1> QED BY <1>4, <1>5 DEF SendFailed
----------------------------------------------------------------------------
(* The steps that end a turn.                                              *)

LEMMA FinishStep ==
  ASSUME IInv, NEW r \in Request, req[r].pc \in Slotted \ {"parking", "handing"},
         NEW rs, RunsGo(rs), Finish(r, rs), UNCHANGED <<agents, box, sends, client>>
  PROVE  IInv'
<1> DEFINE a == IF current = None THEN req[r].slot ELSE current
           b == slot[a].answered \/ (req[r].out /\ slot[a].asked)
           t == [slot[a] EXCEPT !.answered = b]
<1>1. HubType /\ HubInv /\ SlotsGo(slot)
  BY Standing DEF IInv, TypeInv
<1>2. a \in Agent /\ a <= agents /\ slot[a] \in SlotRec
  BY SlotOf DEF Mine
<1>3. SettleSlot([slot EXCEPT ![a].answered = @ \/ (req[r].out /\ slot[a].asked)], rs) /\ Leave(r)
  BY DEF Finish
<1>4. b \in BOOLEAN
  OBVIOUS
<1>5. [slot EXCEPT ![a].answered = @ \/ (req[r].out /\ slot[a].asked)] = SetAt(slot, a, t)
  <2> HIDE DEF a
  <2> QED BY DEF SetAt
<1> HIDE DEF a, b
<1>6. Changed(slot[a], t)
  BY <1>2, <1>4, ChangedSteps
<1> HIDE DEF t
<1> DEFINE ss == SetAt(slot, a, t)
<1>7. SettleSlot(ss, rs)
  BY <1>3, <1>5
<1>8. SlotsGo(ss)
  BY <1>1, <1>2, <1>6, SlotGoes
<1> HIDE DEF ss
<1>9. /\ HubStep /\ SameQueues
      /\ current' \in {current, None}
      /\ current' = None \/ slot'[current'].state # "running"
  BY <1>1, <1>7, <1>8, SettleHub
<1>10. Plain
  BY <1>9 DEF Plain, SameQueues, client
<1>11. req[r].pc \notin Outside \cup {"parking", "handing"}
  BY DEF Slotted, Late, Reading, Outside
<1> QED BY <1>3, <1>9, <1>10, <1>11, LeaveStep

LEMMA SettleStep ==
  ASSUME IInv, NEW r \in Request, Settle(r)
  PROVE  IInv'
<1>1. HubType /\ HubInv /\ SlotsGo(slot) /\ RunsGo(run)
  BY Standing DEF IInv, TypeInv
<1>2. SettleSlot(slot, run) /\ Leave(r) /\ UNCHANGED <<agents, box, sends, client>>
      /\ req[r].pc = "settling"
  BY DEF Settle, At
<1>3. /\ HubStep /\ SameQueues
      /\ current' \in {current, None}
      /\ current' = None \/ slot'[current'].state # "running"
  BY <1>1, <1>2, SettleHub
<1>4. Plain
  BY <1>2, <1>3 DEF Plain, SameQueues, client
<1>5. req[r].pc \notin Outside \cup {"parking", "handing"}
  BY <1>2 DEF Outside
<1> QED BY <1>2, <1>3, <1>4, <1>5, LeaveStep

LEMMA CloseStep ==
  ASSUME IInv, NEW r \in Request, Close(r)
  PROVE  IInv'
<1> USE DEF Place, Outside, Unmade, Slotted, Late, Reading, At
<1> DEFINE a == IF current = None THEN req[r].slot ELSE current
<1>1. HubType /\ SlotsGo(slot) /\ RunsGo(run) /\ req[r].pc = "closing"
  BY Standing DEF IInv, TypeInv, Close
<1>2. CASE run' = Cancelled(a, run) /\ Go(r, "keeping") /\ UNCHANGED <<current, slot, holder>>
  <2>1. SlotsGo(slot') /\ RunsGo(run')
    BY <1>1, <1>2, CancelGoes DEF SlotsGo
  <2>2. Plain /\ current' = current /\ holder' = holder
    BY <1>2, <2>1, PlainFrom DEF Close
  <2>3. Goes(r, "keeping")
    BY <1>1 DEF Goes
  <2> QED BY <1>2, <2>2, <2>3, GoStep
<1>3. CASE Finish(r, run)
  BY <1>1, <1>3, FinishStep DEF Close
<1> QED BY <1>2, <1>3 DEF Close

LEMMA HttpAbortStep ==
  ASSUME IInv, NEW r \in Request, HttpAbort(r)
  PROVE  IInv'
<1> USE DEF Place, Outside, Unmade, Slotted, Late, Reading, At
<1> DEFINE n == Pump(r)
           waited == [run EXCEPT ![n].deaf = @ + 1]
           p == [run[n] EXCEPT !.deaf = @ + 1]
<1>1. HubType /\ SlotsGo(slot) /\ RunsGo(run) /\ req[r].pc = "consuming"
  BY Standing DEF IInv, TypeInv, HttpAbort
<1>2. n \in Run /\ run[n] \in RunRec
  BY <1>1, SlotOf DEF IInv, ReqInv, ReqOK, HubType
<1>3. RunsGo(waited)
  <2>1. Calmed(run[n], p) /\ p.queue = run[n].queue
    BY <1>2, CalmedSteps
  <2>2. waited = SetAt(run, n, p)
    BY DEF SetAt
  <2> HIDE DEF p, waited, n
  <2>3. RunsGo(SetAt(run, n, p))
    BY ONLY <1>1, <1>2, <2>1, RunGoes
  <2> QED BY <2>2, <2>3
<1> HIDE DEF waited
<1>4. PICK rs \in {run, waited} :
        \/ /\ run' = rs /\ Go(r, "parking") /\ UNCHANGED <<current, slot, holder>>
        \/ /\ run' = Cancelled(req[r].slot, rs) /\ Go(r, "keeping")
           /\ UNCHANGED <<current, slot, holder>>
        \/ Finish(r, rs)
  BY DEF HttpAbort, waited
<1>5. RunsGo(rs) /\ UNCHANGED <<agents, box, sends, client>>
  BY <1>1, <1>3 DEF HttpAbort
<1>6. CASE run' = rs /\ Go(r, "parking") /\ UNCHANGED <<current, slot, holder>>
  <2>1. SlotsGo(slot') /\ RunsGo(run')
    BY <1>1, <1>5, <1>6 DEF SlotsGo
  <2>2. Plain /\ current' = current /\ holder' = holder
    BY <1>5, <1>6, <2>1, PlainFrom
  <2>3. Goes(r, "parking")
    BY <1>1 DEF Goes
  <2> QED BY <1>6, <2>2, <2>3, GoStep
<1>7. CASE run' = Cancelled(req[r].slot, rs) /\ Go(r, "keeping") /\ UNCHANGED <<current, slot, holder>>
  <2>1. SlotsGo(slot') /\ RunsGo(run')
    BY <1>1, <1>5, <1>7, CancelGoes DEF SlotsGo
  <2>2. Plain /\ current' = current /\ holder' = holder
    BY <1>5, <1>7, <2>1, PlainFrom
  <2>3. Goes(r, "keeping")
    BY <1>1 DEF Goes
  <2> QED BY <1>7, <2>2, <2>3, GoStep
<1>8. CASE Finish(r, rs)
  BY <1>1, <1>5, <1>8, FinishStep
<1> QED BY <1>4, <1>6, <1>7, <1>8

----------------------------------------------------------------------------
(* The steps that enter, and the hub's.                                    *)

LEMMA OutsideStep ==
  ASSUME IInv, UNCHANGED <<hub, client>>, NEW r \in Request, req[r].pc \in Outside,
         req' \in [Request -> Locals], \A q \in Request \ {r} : req'[q] = req[q],
         ReqOK(r)', holder' \in Request \cup {Nobody},
         \A q \in Request \ {r} : holder' = q <=> holder = q,
         holder' = Nobody => holder = Nobody
  PROVE  IInv'
<1> USE DEF IInv, TypeInv
<1>1. HubStep /\ SameQueues /\ handed' = handed /\ brokenOff' = brokenOff
      /\ current' = current
  BY StillHub DEF client, hub
<1>2. HubType' /\ HubInv' /\ QueueInv' /\ CallsInv' /\ ClientType'
  BY <1>1, HubKept, QueuesKept, CallsKept DEF HubStep, ClientType
<1>3. ReqType'
  BY DEF ReqType
<1>4. ASSUME NEW q \in Request \ {r} PROVE ReqOK(q)'
  <2>1. ReqOK(q) /\ req'[q] = req[q] /\ (holder' = q <=> holder = q)
    BY DEF ReqInv
  <2>2. UNCHANGED <<current, agents, slot, box, sends, run>>
    BY DEF hub
  <2>3. Pump(q)' = Pump(q) /\ Seen(q)' = Seen(q) /\ (Quiet(Pump(q))' <=> Quiet(Pump(q)))
        /\ Mine(q)' = Mine(q)
    BY <2>1, <2>2 DEF Pump, Mine, Seen, Quiet, Untold
  <2>4. \A x \in Seen(q) : SeenOK(q, x)'
    BY <2>1, <2>2, <1>1 DEF ReqOK, SeenOK, Said, Owner, Uncaught, Lies, Mine
  <2> QED BY <1>1, <2>1, <2>2, <2>3, <2>4 DEF ReqOK
<1>5. ReqInv'
  BY <1>4 DEF ReqInv
<1>6. FreeIsSettled'
  BY DEF FreeIsSettled, hub
<1>7. HeldInv'
  <2>1. \A q \in Request : \A x : Carried(q, x) => Carried(q, x)'
    BY OutsideSeesNothing DEF Carried
  <2> QED BY <1>1, <2>1, HeldKept DEF SameQueues
<1> QED BY <1>2, <1>3, <1>5, <1>6, <1>7

LEMMA EnterStep ==
  ASSUME IInv, NEW r \in Request, Enter(r)
  PROVE  IInv'
<1>1. req[r].pc = "queued" /\ holder = Nobody /\ holder' = r /\ UNCHANGED <<hub, client>>
      /\ Go(r, "ensuring") /\ r # Nobody
  BY NobodyAssumption DEF Enter, At
<1>2. /\ req' \in [Request -> Locals] /\ req'[r].pc = "ensuring"
      /\ req'[r].slot = req[r].slot /\ req'[r].results = req[r].results
      /\ req'[r].caught = req[r].caught /\ req'[r].told = req[r].told
      /\ \A q \in Request \ {r} : req'[q] = req[q]
  BY <1>1, GoLocals DEF IInv, TypeInv, Place
<1>3. ReqOK(r)'
  <2>1. ReqOK(r) /\ Seen(r)' = {}
    BY <1>2 DEF IInv, ReqInv, Seen, Reading
  <2> QED BY <1>1, <1>2, <2>1
        DEF ReqOK, hub, client, Outside, Unmade, Slotted, Late, Reading
<1> QED BY <1>1, <1>2, <1>3, NobodyAssumption, OutsideStep DEF Outside

LEMMA LeaveLineStep ==
  ASSUME IInv, NEW r \in Request, LeaveLine(r)
  PROVE  IInv'
<1>1. req[r].pc = "queued" /\ holder' = holder /\ UNCHANGED <<hub, client>> /\ Gone(r)
  BY DEF LeaveLine, At
<1>2. holder # r /\ agents' \in Nat
  BY <1>1 DEF IInv, ReqInv, ReqOK, Outside, hub, TypeInv, HubType
<1>3. /\ req' \in [Request -> Locals]
      /\ \A q \in Request \ {r} : req'[q] = req[q]
      /\ ReqOK(r)'
  BY <1>1, <1>2, GoneLocals DEF IInv
<1> QED BY <1>1, <1>3, OutsideStep DEF Outside, IInv, TypeInv, ReqType

LEMMA ArriveStep ==
  ASSUME IInv, NEW r \in Request, Arrive(r)
  PROVE  IInv'
<1>1. req[r].pc = "new" /\ UNCHANGED <<hub, client>> /\ r # Nobody
  BY NobodyAssumption DEF Arrive, At
<1>2. PICK k \in {"new_user", "again", "tool_results"}, R \in SUBSET handed,
           to \in {"gone", "queued", "ensuring"} :
        /\ to = "ensuring" => holder = Nobody
        /\ IF to = "gone" THEN Gone(r)
           ELSE req' = [req EXCEPT ![r].pc = to, ![r].kind = k, ![r].results = R]
        /\ holder' = IF to = "ensuring" THEN r ELSE holder
  BY DEF Arrive
<1>3. holder # r /\ agents' \in Nat /\ handed \subseteq Exec
  BY <1>1 DEF IInv, ReqInv, ReqOK, Outside, hub, TypeInv, HubType, ClientType
<1>4. CASE to = "gone"
  <2>1. /\ req' \in [Request -> Locals]
        /\ \A q \in Request \ {r} : req'[q] = req[q]
        /\ ReqOK(r)'
    BY <1>2, <1>3, <1>4, GoneLocals DEF IInv
  <2> QED BY <1>1, <1>2, <1>4, <2>1, OutsideStep DEF Outside, IInv, TypeInv, ReqType
<1>5. CASE to # "gone"
  <2> DEFINE l == [req[r] EXCEPT !.pc = to, !.kind = k, !.results = R]
  <2>1. req[r] \in Locals /\ ReqOK(r) /\ to \in Place
    BY <1>2 DEF IInv, TypeInv, ReqType, ReqInv, Place, Outside
  <2>2. req' = [req EXCEPT ![r] = l]
    BY <1>2, <1>5, <2>1 DEF Locals
  <2>3. /\ l \in Locals /\ l.pc = to /\ l.results = R /\ l.slot = req[r].slot
        /\ l.caught = req[r].caught /\ l.told = req[r].told
    BY <1>3, <2>1 DEF Locals
  <2> HIDE DEF l
  <2>4. req' \in [Request -> Locals] /\ req'[r] = l /\ \A q \in Request \ {r} : req'[q] = req[q]
    BY <2>2, <2>3 DEF IInv, TypeInv, ReqType
  <2>5. ReqOK(r)'
    <3>1. Seen(r)' = {}
      BY <2>3, <2>4, <1>5 DEF Seen, Reading
    <3>2. holder' = r <=> to = "ensuring"
      BY <1>2, <1>3
    <3>3. to \notin Slotted /\ to \notin Unmade /\ to \notin Late /\ (to \in Outside <=> to # "ensuring")
      BY <1>5 DEF Slotted, Unmade, Late, Reading, Outside
    <3>4. req[r].slot <= agents' /\ req[r].caught = {} /\ req[r].told = {} /\ handed' = handed
      BY <1>1, <2>1 DEF ReqOK, hub, client, Late, Reading
    <3> QED BY <2>3, <2>4, <3>1, <3>2, <3>3, <3>4 DEF ReqOK, Slotted, Late, Reading
  <2> QED BY <1>1, <1>2, <2>4, <2>5, NobodyAssumption, OutsideStep
        DEF Outside, IInv, TypeInv, ReqType
<1> QED BY <1>4, <1>5

LEMMA EvictStep ==
  ASSUME IInv, Evict
  PROVE  IInv'
<1> USE DEF IInv, TypeInv
<1>1. /\ HubStep /\ SameQueues /\ current' = None
      /\ UNCHANGED <<holder, req, client>> /\ current # None
      /\ slot[current].state \in {"idle", "awaiting_tools"}
  BY DropHub DEF Evict
<1>2. HubType' /\ HubInv' /\ QueueInv' /\ CallsInv' /\ ClientType'
  BY <1>1, HubKept, QueuesKept, CallsKept DEF HubStep, ClientType, client
<1>3. ASSUME NEW q \in Request PROVE ReqOK(q)'
  <2>1. ReqOK(q) /\ req'[q] = req[q] /\ (holder' = q <=> holder = q) /\ handed' = handed
    BY <1>1 DEF ReqInv, client
  <2>2. req[q].pc # "awaiting"
    BY <1>1, <2>1 DEF ReqOK, Mine
  <2> QED BY <1>1, <2>1, <2>2, ReqKept
<1>4. ReqInv' /\ ReqType'
  BY <1>1, <1>3 DEF ReqInv, ReqType
<1>5. FreeIsSettled' /\ HeldInv'
  BY <1>1 DEF FreeIsSettled, HeldInv
<1> QED BY <1>2, <1>4, <1>5
----------------------------------------------------------------------------
(* The other steps of the request inside.                                  *)

(* What its step leaves to show.                                           *)
LEMMA InsideStep ==
  ASSUME IInv, HubStep, NEW r \in Request, req[r].pc \notin Outside,
         req' \in [Request -> Locals], \A q \in Request \ {r} : req'[q] = req[q],
         holder' = holder, handed \subseteq handed', ClientType',
         CallsInv', ReqOK(r)', HeldInv'
  PROVE  IInv'
<1> USE DEF IInv, TypeInv
<1>1. HubType' /\ HubInv' /\ QueueInv'
  BY HubKept, QueuesKept DEF HubStep
<1>2. holder = r /\ r # Nobody
  BY Alone
<1>3. \A q \in Request \ {r} : ReqOK(q)'
  BY <1>2, OthersKept
<1>4. ReqType' /\ ReqInv' /\ FreeIsSettled'
  BY <1>2, <1>3 DEF ReqType, ReqInv, FreeIsSettled
<1> QED BY <1>1, <1>4

LEMMA ReuseStep ==
  ASSUME IInv, NEW r \in Request, Reuse(r)
  PROVE  IInv'
<1>1. /\ req[r].pc = "ensuring" /\ current # None /\ UNCHANGED <<hub, holder, client>>
      /\ current \in Agent /\ current <= agents /\ req[r] \in Locals /\ ReqOK(r)
  BY DEF Reuse, At, IInv, TypeInv, HubType, HubInv, ReqType, ReqInv
<1> DEFINE l == [req[r] EXCEPT !.pc = "turning", !.slot = current]
<1>2. /\ l \in Locals /\ l.pc = "turning" /\ l.slot = current /\ l.results = req[r].results
      /\ l.caught = req[r].caught /\ l.told = req[r].told
  BY <1>1 DEF Locals, Place, Slotted
<1>3. req' = [req EXCEPT ![r] = l]
  BY <1>1 DEF Reuse, Locals
<1> HIDE DEF l
<1>4. req' \in [Request -> Locals] /\ req'[r] = l /\ \A q \in Request \ {r} : req'[q] = req[q]
  BY <1>2, <1>3 DEF IInv, TypeInv, ReqType
<1>5. Plain /\ current' = current /\ agents' = agents /\ HubStep
  BY <1>1, PlainStill DEF hub, Plain
<1>6. holder = r
  BY <1>1, Alone DEF Outside, IInv
<1>7. ReqOK(r)'
  <2>1. Seen(r)' = {}
    BY <1>2, <1>4 DEF Seen, Reading
  <2> QED BY <1>1, <1>2, <1>4, <1>5, <1>6, <2>1
        DEF ReqOK, client, Outside, Unmade, Slotted, Late, Reading
<1>8. CallsInv' /\ ClientType'
  BY <1>1, <1>5, CallsKept DEF IInv, TypeInv, client, ClientType
<1>9. HeldInv'
  <2>1. \A q \in Request : \A x : ~Carried(q, x)
    BY <1>1, <1>6, Alone, OutsideSeesNothing DEF IInv, Carried, Outside
  <2> QED BY <1>5, <2>1, HeldKept DEF IInv, TypeInv, Plain
<1> QED BY <1>1, <1>4, <1>5, <1>7, <1>8, <1>9, InsideStep DEF Outside, client

LEMMA PutSlotStep ==
  ASSUME IInv, NEW r \in Request, PutSlot(r)
  PROVE  IInv'
<1> USE DEF IInv, TypeInv
<1> DEFINE a == agents + 1
           p == IF At(r, "recreating") THEN "sending" ELSE "turning"
           f == At(r, "recreating")
           l == [req[r] EXCEPT !.pc = p, !.slot = a, !.first = f]
<1>1. /\ req[r].pc \in Unmade /\ req[r] \in Locals /\ ReqOK(r)
      /\ agents < MaxAgents /\ agents' = a /\ current' = a
      /\ req' = [req EXCEPT ![r].pc = p, ![r].slot = a, ![r].first = f]
      /\ UNCHANGED <<box, sends, run, holder, handed, brokenOff>>
  BY DEF PutSlot, Unmade, ReqType, ReqInv, client
<1>2. PICK st \in {"running", "idle"} : slot' = [slot EXCEPT ![a] = NewSlot(st)]
  BY DEF PutSlot
<1>3. current = None /\ holder = r
  BY <1>1, Alone DEF ReqOK, Unmade, Outside
<1>4. a \in Agent /\ a > agents /\ a # None /\ agents \in Nat
  BY <1>1, Numbers DEF HubType, Agent
<1> HIDE DEF a
<1> DEFINE t == NewSlot(st)
<1>5. /\ t \in SlotRec /\ t.pending = {} /\ t.issued = {} /\ t.pump = None
  BY DEF NewSlot, SlotRec, State
<1> HIDE DEF t
<1>6. slot' = SetAt(slot, a, t)
  BY <1>2 DEF SetAt, t
<1>7. SlotOK(a) /\ slot[a] \in SlotRec
  BY <1>4 DEF HubInv, HubType
<1>8. Changed(slot[a], t)
  BY <1>4, <1>5, <1>7 DEF Changed, SlotOK
<1>9. slot'[a] = t /\ (\A b \in Agent \ {a} : slot'[b] = slot[b]) /\ slot' \in [Agent -> SlotRec]
  BY <1>4, <1>5, <1>6 DEF SetAt, HubType
<1>10. HubStep /\ SameQueues
  <2>1. SlotsStep
    BY <1>8, <1>9, Standing DEF SlotsStep, SlotsGo
  <2>2. RunsStep /\ SameQueues
    BY <1>1, Standing DEF RunsStep, SameQueues, RunsGo
  <2>3. agents' \in 0..MaxAgents /\ agents <= agents' /\ current' \in Agent /\ current' <= agents'
    BY <1>1, <1>4, Numbers DEF Agent
  <2>4. \A b \in Agent : b # current' => slot'[b].pending = {}
    <3>1. \A b \in Agent : SlotOK(b) /\ b # current
      BY <1>3, Numbers DEF HubInv
    <3> QED BY <1>1, <1>9, <3>1 DEF SlotOK
  <2>5. \A b \in Agent : b > agents' => slot'[b] = slot[b]
    BY <1>1, <1>4, <1>9, Numbers
  <2> QED BY <1>1, <2>1, <2>2, <2>3, <2>4, <2>5 DEF HubStep
<1>11. p \in {"sending", "turning"} /\ f \in BOOLEAN
  BY DEF At
<1> HIDE DEF p, f
<1>12. /\ l \in Locals /\ l.pc = p /\ l.slot = a /\ l.results = req[r].results
       /\ l.caught = req[r].caught /\ l.told = req[r].told
  BY <1>1, <1>4, <1>11 DEF Locals, Place, Slotted
<1>13. req' = [req EXCEPT ![r] = l]
  BY <1>1 DEF Locals
<1> HIDE DEF l
<1>14. req' \in [Request -> Locals] /\ req'[r] = l /\ \A q \in Request \ {r} : req'[q] = req[q]
  BY <1>12, <1>13 DEF ReqType
<1>15. ReqOK(r)'
  <2>1. Seen(r)' = {}
    BY <1>11, <1>12, <1>14 DEF Seen, Reading
  <2>2. a <= agents' /\ req[r].results \subseteq handed' /\ req[r].caught = {} /\ req[r].told = {}
        /\ holder' = r
    <3>1. a <= a
      BY <1>4, Numbers
    <3>2. req[r].pc \notin Late
      BY <1>1 DEF Unmade, Late, Reading
    <3> QED BY <1>1, <1>3, <3>1, <3>2 DEF ReqOK
  <2>3. p \notin Outside /\ p \notin Unmade /\ p \notin Reading /\ p # "awaiting" /\ p # "ending"
    BY <1>11 DEF Outside, Unmade, Reading
  <2> QED BY <1>1, <1>4, <1>12, <1>14, <2>1, <2>2, <2>3 DEF ReqOK
<1>16. CallsInv' /\ ClientType'
  BY <1>1, <1>10, CallsKept DEF ClientType
<1>17. HeldInv'
  <2>1. \A q \in Request : \A x : ~Carried(q, x)
    BY <1>1, Alone, OutsideSeesNothing DEF Carried, Outside, Unmade
  <2>2. current' \in Agent /\ slot'[current'].pending = {}
    BY <1>1, <1>4, <1>5, <1>9
  <2> QED BY <1>1, <1>10, <2>1, <2>2, HeldKept DEF SameQueues
<1>18. req[r].pc \notin Outside /\ handed \subseteq handed' /\ holder' = holder
  BY <1>1 DEF Unmade, Outside
<1> QED BY <1>10, <1>14, <1>15, <1>16, <1>17, <1>18, InsideStep
----------------------------------------------------------------------------
(* Reading the pump.                                                       *)

LEMMA HubStepWith ==
  ASSUME HubType, HubInv, SlotsGo(slot'), RunsStep,
         box' = box, sends' = sends, agents' = agents, current' = current
  PROVE  HubStep
<1>1. SlotsStep
  BY DEF SlotsGo, SlotsStep
<1>2. agents' \in 0..MaxAgents /\ agents <= agents'
      /\ \A a \in Agent : a > agents' => slot'[a] = slot[a]
  BY DEF HubType, SlotsGo
<1>3. current' \in Agent \cup {None} /\ current' <= agents'
  BY <1>2 DEF HubType, HubInv
<1>4. \A a \in Agent : a # current' => slot'[a].pending = {}
  BY DEF HubInv, SlotOK, SlotsGo, Changed
<1> QED BY <1>1, <1>2, <1>3, <1>4 DEF HubStep

LEMMA OneQueue ==
  ASSUME HubType, NEW n \in Run, NEW u \in Seq(Item), Suffix(run[n].queue, u),
         run' = [run EXCEPT ![n].queue = u]
  PROVE  /\ RunsStep
         /\ run'[n].queue = u /\ run'[n].phase = run[n].phase
         /\ \A m \in Run \ {n} : run'[m] = run[m]
<1> DEFINE q == [run[n] EXCEPT !.queue = u]
<1>1. run[n] \in RunRec
  BY DEF HubType
<1>2. Calmed(run[n], q) /\ q.queue = u /\ q.phase = run[n].phase
  BY <1>1, CalmedSteps
<1> HIDE DEF q
<1>3. run' = [run EXCEPT ![n] = q]
  BY DEF q
<1>4. q \in RunRec
  BY <1>2 DEF Calmed
<1>5. run'[n] = q /\ run' \in [Run -> RunRec] /\ \A m \in Run \ {n} : run'[m] = run[m]
  BY <1>3, <1>4 DEF HubType
<1>6. \A m \in Run : Calmed(run[m], run[m])
  BY CalmedSteps DEF HubType
<1> QED BY <1>2, <1>5, <1>6 DEF RunsStep

(* A call in agent a's own pump.                                           *)
LEMMA EntryMet ==
  ASSUME HubType, HubInv, QueueInv, CallsInv, NEW a \in Agent, box[a] # None,
         NEW i \in 1..Len(run[box[a]].queue),
         run[box[a]].queue[i].kind \in {"captured", "told"},
         NEW x, x = run[box[a]].queue[i].call
  PROVE  /\ Said(x) /\ x \in Exec
         /\ Owner(x) = a
         /\ x \in handed => x \in slot[a].issued
         /\ \A m \in Run : \A j \in 1..Len(run[m].queue) :
              Catches(run[m].queue[j], x) => m = box[a] /\ j <= i
<1> DEFINE n == box[a]
           q == run[n].queue
<1>1. n \in Run /\ run[n].agent = a /\ n <= sends
  BY DEF HubInv, SlotOK, HubType
<1>2. QueueOK(n) /\ EntryOK(n, q[i]) /\ Len(q) \in Nat
  BY <1>1, QueueType DEF QueueInv, QueueOK, HubType
<1>3. Said(x) /\ x \in Exec
  BY <1>2 DEF EntryOK, Said
<1>4. Owner(x) = a
  BY <1>1, <1>2 DEF EntryOK, Owner
<1>5. CASE q[i].kind = "captured"
  <2>1. Catches(q[i], x)
    BY <1>5 DEF Catches
  <2>2. ~Uncaught(x)
    BY <1>1, <2>1 DEF Uncaught, Lies
  <2>3. x \notin handed
    BY <2>2 DEF CallsInv, HandedOK
  <2>4. \A m \in Run : \A j \in 1..Len(run[m].queue) :
           Catches(run[m].queue[j], x) => m = n /\ j = i
    BY <1>1, <1>5 DEF QueueInv, CapturedOnce
  <2> QED BY <1>2, <1>3, <1>4, <2>3, <2>4
<1>6. CASE q[i].kind = "told"
  <2>1. x[1] = n
    BY <1>2, <1>6 DEF EntryOK
  <2>2. ~Quiet(n)
    BY <1>6 DEF Quiet, Untold
  <2>3. x \in handed => x \in slot[a].issued
    BY <1>4, <2>1, <2>2 DEF CallsInv, HandedOK, NoMore
  <2>4. ASSUME NEW m \in Run, NEW j \in 1..Len(run[m].queue), Catches(run[m].queue[j], x)
        PROVE  m = n /\ j <= i
    <3>1. QueueOK(m) /\ EntryOK(m, run[m].queue[j])
      BY DEF QueueInv, QueueOK
    <3>2. x[1] <= m /\ run[m].agent = a
      BY <1>4, <2>4, <3>1 DEF EntryOK, Catches, Owner
    <3>3. RunOK(m) /\ m \in Nat /\ n \in Nat /\ sends \in Nat
      BY <1>1, Numbers DEF HubInv, HubType
    <3>4. m <= sends
      <4>1. run[m].queue # <<>>
        BY <2>4
      <4> QED BY <3>3, <4>1 DEF RunOK
    <3>5. m = n
      BY <2>1, <3>2, <3>3, <3>4 DEF RunOK
    <3>6. ~(i < j)
      BY <1>2, <1>6, <2>4, <3>5 DEF QueueOK, Precedes
    <3> QED BY <1>2, <3>5, <3>6
  <2> QED BY <1>3, <1>4, <2>3, <2>4
<1> QED BY <1>5, <1>6

LEMMA ReadingPump ==
  ASSUME IInv, NEW r \in Request, req[r].pc \in Reading
  PROVE  /\ req[r].slot \in Agent /\ Pump(r) = box[req[r].slot] /\ box[req[r].slot] # None
         /\ Pump(r) \in Run /\ run[Pump(r)] \in RunRec
         /\ ReqOK(r) /\ req[r] \in Locals
         /\ \A q \in Request \ {r} : \A x : ~Carried(q, x)
<1>1. ReqOK(r) /\ req[r] \in Locals
  BY DEF IInv, ReqInv, TypeInv, ReqType
<1>2. req[r].slot \in Agent /\ Pump(r) \in Run \cup {None}
  BY SlotOf DEF Slotted, Late
<1>3. Pump(r) = box[req[r].slot]
  BY <1>2 DEF IInv, HubInv, SlotOK, Pump, Mine
<1>4. Pump(r) # None
  BY <1>1 DEF ReqOK
<1>5. \A q \in Request \ {r} : \A x : ~Carried(q, x)
  BY Alone, OutsideSeesNothing DEF IInv, Reading, Outside
<1> QED BY <1>1, <1>2, <1>3, <1>4, <1>5 DEF IInv, TypeInv, HubType

LEMMA TakeStep ==
  ASSUME IInv, NEW r \in Request, Take(r)
  PROVE  IInv'
<1> USE DEF IInv, TypeInv
<1>0. PICK n \in Run, a \in Agent : n = Pump(r) /\ a = req[r].slot
  BY ReadingPump, ZenonT(40) DEF Take, At, Reading
<1> DEFINE q == run[n].queue
           e == Head(q)
           pathB == e.kind = "marker" /\ Mine(r).pending = {}
           p == IF e.kind = "end" THEN "ending" ELSE IF pathB THEN "marking" ELSE After(r)
           o == req[r].out \/ e.kind \in {"text", "marker"}
           C == IF e.kind = "captured" THEN req[r].caught \cup {e.call} ELSE req[r].caught
           T == IF e.kind = "told" THEN req[r].told \cup {e.call} ELSE req[r].told
           l == [req[r] EXCEPT !.pc = p, !.out = o, !.caught = C, !.told = T]
<1>1. /\ req[r].pc = "consuming" /\ q # <<>>
      /\ run' = [run EXCEPT ![n].queue = Tail(@)]
      /\ slot' = IF pathB THEN InState("idle") ELSE slot
      /\ UNCHANGED <<current, agents, box, sends, holder, handed, brokenOff>>
  BY <1>0, ZenonT(40) DEF Take, At, client
<1>2. req' = [req EXCEPT ![r].pc = p, ![r].out = o, ![r].caught = C, ![r].told = T]
  <2>1. req[r] \in Locals
    BY DEF ReqType
  <2> QED BY <1>0, <2>1 DEF Take, Locals
<1>3. /\ a = req[r].slot /\ n = Pump(r) /\ a \in Agent /\ n = box[a] /\ box[a] # None /\ n \in Run /\ run[n] \in RunRec
      /\ ReqOK(r) /\ req[r] \in Locals /\ \A s \in Request \ {r} : \A x : ~Carried(s, x)
  BY <1>0, <1>1, ReadingPump DEF Reading
<1>4. /\ q \in Seq(Item) /\ Len(q) \in Nat /\ Len(q) > 0 /\ e = q[1] /\ 1 \in 1..Len(q) /\ e \in Item
      /\ Tail(q) \in Seq(Item) /\ Suffix(q, Tail(q))
      /\ Len(Tail(q)) = Len(q) - 1 /\ \A i \in 1..Len(Tail(q)) : Tail(q)[i] = q[i + 1]
  BY <1>1, <1>3, QueueType, SuffixSteps, SMTT(40)
<1>5. /\ RunsStep /\ run'[n].queue = Tail(q) /\ run'[n].phase = run[n].phase
      /\ \A m \in Run \ {n} : run'[m] = run[m]
  <2>1. run' = [run EXCEPT ![n].queue = Tail(q)]
    BY <1>1
  <2> QED BY <1>3, <1>4, <2>1, OneQueue
<1>6. SlotsGo(slot') /\ \A b \in Agent : slot'[b].pending = slot[b].pending
  BY <1>1, Standing, InStateGoes DEF State
<1>7. HubStep
  BY <1>1, <1>5, <1>6, HubStepWith
<1>8. p \in {"ending", "marking", "parking", "consuming"} /\ o \in BOOLEAN
  BY DEF After
<1>9. e.kind \in {"captured", "told"} =>
        /\ Said(e.call) /\ e.call \in Exec
        /\ Owner(e.call) = a
        /\ e.call \in handed => e.call \in slot[a].issued
        /\ \A m \in Run : \A j \in 1..Len(run[m].queue) :
             Catches(run[m].queue[j], e.call) => m = n /\ j <= 1
  <2> SUFFICES ASSUME e.kind \in {"captured", "told"}
               PROVE  /\ Said(e.call) /\ e.call \in Exec
                      /\ Owner(e.call) = a
                      /\ e.call \in handed => e.call \in slot[a].issued
                      /\ \A m \in Run : \A j \in 1..Len(run[m].queue) :
                           Catches(run[m].queue[j], e.call) => m = n /\ j <= 1
    BY SMTT(40)
  <2> DEFINE y == e.call
  <2>1. /\ 1 \in 1..Len(run[box[a]].queue) /\ y = run[box[a]].queue[1].call
        /\ run[box[a]].queue[1].kind \in {"captured", "told"}
    BY <1>3, <1>4
  <2> HIDE DEF y, e
  <2>2. /\ Said(y) /\ y \in Exec
        /\ Owner(y) = a
        /\ y \in handed => y \in slot[a].issued
        /\ \A m \in Run : \A j \in 1..Len(run[m].queue) :
             Catches(run[m].queue[j], y) => m = box[a] /\ j <= 1
    BY <1>3, <2>1, EntryMet, SMTT(40)
  <2> QED BY <1>3, <2>2 DEF y
<1>10. C \subseteq Exec /\ T \subseteq Exec /\ C \cup T \subseteq req[r].caught \cup req[r].told
         \cup (IF e.kind \in {"captured", "told"} THEN {e.call} ELSE {})
  BY <1>3, <1>9 DEF Locals
<1>11. p = "ending" => e.kind = "end"
  BY DEF After
<1>12. e.kind = "captured" /\ Mine(r).pending # {} => p = "parking" /\ e.call \in C
  BY DEF After
<1> DEFINE new == IF e.kind \in {"captured", "told"} THEN {e.call} ELSE {}
<1> HIDE DEF p, o, C, T
<1>13. /\ l \in Locals /\ l.pc = p /\ l.slot = a /\ l.results = req[r].results
       /\ l.caught = C /\ l.told = T
  BY <1>3, <1>8, <1>10, ZenonT(40) DEF Locals, Place, Slotted, Late, Reading
<1>14. req' = [req EXCEPT ![r] = l]
  BY <1>2, <1>3 DEF Locals
<1> HIDE DEF l
<1>15. req' \in [Request -> Locals] /\ req'[r] = l /\ \A s \in Request \ {r} : req'[s] = req[s]
  BY <1>13, <1>14 DEF ReqType
<1>16. slot'[a].pump = n
  BY <1>3, <1>6 DEF SlotsGo, Changed, HubInv, SlotOK
<1>17. ASSUME NEW x \in new PROVE SeenOK(r, x)'
  <2>1. e.kind \in {"captured", "told"} /\ x = e.call
    OBVIOUS
  <2>2. Said(x)' /\ Owner(x)' = a
    BY <1>1, <1>5, <1>9, <2>1, SaidKept
  <2>3. Uncaught(x)'
    <3> SUFFICES ASSUME NEW m \in Run, NEW j \in 1..Len(run'[m].queue),
                        Catches(run'[m].queue[j], x)
                 PROVE  FALSE
      BY DEF Uncaught, Lies, Catches
    <3>1. CASE m = n
      <4> DEFINE v == run'[m].queue
      <4>0. v = Tail(q)
        BY <1>5, <3>1
      <4> HIDE DEF v, q
      <4>1. j + 1 \in 1..Len(q) /\ run'[m].queue[j] = q[j + 1]
        <5>1. j \in 1..Len(v)
          BY DEF v
        <5>2. j + 1 \in 1..Len(q) /\ v[j] = q[j + 1]
          BY <1>4, <4>0, <5>1
        <5> QED BY <5>2 DEF v
      <4>2. j + 1 <= 1
        <5>1. Catches(run[m].queue[j + 1], x) /\ j + 1 \in 1..Len(run[m].queue)
          BY <3>1, <4>1 DEF q
        <5> HIDE DEF e
        <5> QED BY <1>9, <2>1, <5>1
      <4> QED BY <4>2
    <3>2. CASE m # n
      <4>1. run'[m] = run[m]
        BY <1>5, <3>2, SMTT(40)
      <4> QED BY <1>9, <2>1, <3>2, <4>1
    <3> QED BY <3>1, <3>2
  <2>4. x \in handed' => x \in slot'[a].issued
    BY <1>1, <1>3, <1>6, <1>9, <2>1 DEF SlotsGo, Changed
  <2> QED BY <1>13, <1>15, <2>2, <2>3, <2>4 DEF SeenOK, Mine
<1>18. ReqOK(r)'
  <2>1. Seen(r)' \subseteq Seen(r) \cup new
    <3>1. Seen(r) = req[r].caught \cup req[r].told
      BY <1>1 DEF Seen, Reading
    <3>2. Seen(r)' \subseteq C \cup T
      BY <1>8, <1>13, <1>15 DEF Seen, Reading
    <3> QED BY <1>10, <3>1, <3>2
  <2>2. ASSUME NEW x \in Seen(r) PROVE SeenOK(r, x)'
    <3>1. SeenOK(r, x)
      BY <1>3 DEF ReqOK
    <3>2. req'[r].slot = req[r].slot /\ (x \in handed' => x \in handed)
      BY <1>1, <1>3, <1>13, <1>15
    <3> QED BY <1>7, <3>1, <3>2, SeenKept
  <2>3. p = "ending" => Quiet(n)'
    <3> SUFFICES ASSUME p = "ending" PROVE Quiet(n)'
      BY SMTT(40)
    <3>1. EntryOK(n, e) /\ \A i \in 1..Len(q) : 1 < i => Precedes(e, q[i])
      BY <1>3, <1>4 DEF QueueInv, QueueOK
    <3>2. run'[n].phase = "ended"
      BY <1>5, <1>11, <3>1 DEF EntryOK
    <3>3. ASSUME NEW j \in 1..Len(run'[n].queue) PROVE run'[n].queue[j].kind # "told"
      <4>1. j + 1 \in 1..Len(q) /\ run'[n].queue[j] = q[j + 1] /\ 1 < j + 1
        BY <1>4, <1>5
      <4> QED BY <1>11, <3>1, <4>1 DEF Precedes
    <3> QED BY <3>2, <3>3 DEF Quiet, Untold
  <2>4. Pump(r)' = n /\ Mine(r)' = slot'[a]
    BY <1>13, <1>15, <1>16 DEF Pump, Mine
  <2>5. /\ holder' = r /\ req[r].results \subseteq handed' /\ a <= agents'
        /\ a # None /\ current' \in {None, a} /\ n # None
    BY <1>1, <1>3 DEF ReqOK, Outside, Slotted, Late, Reading
  <2>6. /\ p \notin Outside /\ p \in Late /\ p \notin Unmade /\ p # "awaiting"
    BY <1>8 DEF Outside, Late, Reading, Unmade
  <2>7. p = "ending" => Quiet(Pump(r))'
    BY <2>3, <2>4 DEF Quiet, Untold
  <2> HIDE DEF new
  <2> QED BY <1>13, <1>15, <1>17, <2>1, <2>2, <2>4, <2>5, <2>6, <2>7 DEF ReqOK
<1>19. HeldInv'
  <2> SUFFICES ASSUME current # None, NEW x \in slot[current].pending, x[1] = slot[current].pump,
                      ~run[x[1]].lost
               PROVE  Kept(x)'
    <3>1. current # None => \A x \in slot[current].pending : x[1] \in Run
      BY Pairs DEF CallsInv, Said, HubType
    <3>2. \A m \in Run : run'[m].lost = run[m].lost
      BY <1>5 DEF RunsStep, Calmed
    <3>3. current # None => slot'[current].pump = slot[current].pump
      BY <1>6 DEF SlotsGo, Changed, HubType
    <3> QED BY <1>1, <1>6, <3>1, <3>2, <3>3 DEF HeldInv, HubType
  <2>1. current = a
    BY <1>1, <1>3 DEF ReqOK, Slotted, Late, Reading
  <2>2. x[1] = n /\ x \in Mine(r).pending
    BY <1>3, <2>1 DEF Mine, HubInv, SlotOK
  <2>3. Kept(x)
    BY DEF HeldInv
  <2>4. ~Carried(r, x)
    BY <1>1 DEF Carried
  <2>5. CASE x \in handed \cup brokenOff
    BY <1>1, <2>5 DEF Kept
  <2>6. CASE Lies(n, x)
    <3>1. PICK i \in 1..Len(q) : Catches(q[i], x)
      BY <2>6 DEF Lies
    <3>2. CASE i = 1
      <4>1. e.kind = "captured" /\ e.call = x
        BY <1>4, <3>1, <3>2 DEF Catches
      <4>2. Carried(r, x)'
        BY <1>12, <1>13, <1>15, <2>2, <4>1 DEF Carried
      <4> QED BY <4>2 DEF Kept
    <3>3. CASE i # 1
      <4>1. i - 1 \in 1..Len(run'[n].queue) /\ run'[n].queue[i - 1] = q[i]
        BY <1>4, <1>5, <3>3, SMTT(40)
      <4>2. Lies(n, x)'
        BY <3>1, <4>1, <1>3 DEF Lies, Catches
      <4> QED BY <2>2, <4>2 DEF Kept, Lies
    <3> QED BY <3>2, <3>3
  <2> QED BY <1>3, <2>2, <2>3, <2>4, <2>5, <2>6 DEF Kept
<1>20. CallsInv' /\ ClientType'
  BY <1>1, <1>7, CallsKept DEF ClientType
<1>21. req[r].pc \notin Outside /\ handed \subseteq handed' /\ holder' = holder
  BY <1>1 DEF Outside
<1> HIDE DEF IInv, TypeInv
<1> QED BY <1>7, <1>15, <1>18, <1>19, <1>20, <1>21, InsideStep, SMTT(40)

LEMMA ParkStep ==
  ASSUME IInv, NEW r \in Request, Park(r)
  PROVE  IInv'
<1> USE DEF IInv, TypeInv
<1>0. PICK n \in Run, a \in Agent : n = Pump(r) /\ a = req[r].slot
  BY ReadingPump DEF Park, At, Reading
<1> DEFINE q == run[n].queue
           CC == {i.call : i \in {j \in ToSet(q) : j.kind = "captured"}}
           TC == {i.call : i \in {j \in ToSet(q) : j.kind = "told"}}
           C == req[r].caught \cup CC
           T == req[r].told \cup TC
           S == IF Mine(r).pending = {} THEN Fresh(r, C \cup T)
                ELSE Fresh(r, C) \cup (T \cap Mine(r).pending)
           o == req[r].out \/ \E i \in ToSet(q) : i.kind \in {"text", "marker"}
           l == [req[r] EXCEPT !.pc = "handing", !.tools = S, !.caught = C, !.told = T, !.out = o]
<1>1. /\ req[r].pc = "parking"
      /\ run' = [run EXCEPT ![n].queue = <<>>]
      /\ UNCHANGED <<current, agents, slot, box, sends, holder, handed, brokenOff>>
  BY <1>0 DEF Park, At, client
<1>2. req' = [req EXCEPT ![r].pc = "handing", ![r].tools = S, ![r].caught = C, ![r].told = T,
                         ![r].out = o]
  <2>1. req[r] \in Locals
    BY DEF ReqType
  <2> QED BY <1>0, <2>1 DEF Park, Locals
<1>3. /\ a = req[r].slot /\ n = Pump(r) /\ n = box[a] /\ box[a] # None /\ run[n] \in RunRec
      /\ ReqOK(r) /\ req[r] \in Locals /\ \A s \in Request \ {r} : \A x : ~Carried(s, x)
      /\ Seen(r) = req[r].caught \cup req[r].told
  BY <1>0, <1>1, ReadingPump DEF Reading, Seen
<1>4. q \in Seq(Item) /\ Len(q) \in Nat /\ Suffix(q, <<>>) /\ <<>> \in Seq(Item)
  BY <1>3, QueueType, SuffixSteps
<1>5. /\ RunsStep /\ run'[n].queue = <<>>
      /\ \A m \in Run \ {n} : run'[m] = run[m]
  BY <1>1, <1>4, OneQueue
<1>6. HubStep
  BY <1>1, <1>5, Standing, HubStepWith
<1>7. ASSUME NEW x \in CC \cup TC
      PROVE  /\ Said(x) /\ x \in Exec /\ Owner(x) = a
             /\ x \in handed => x \in slot[a].issued
             /\ \A m \in Run : \A j \in 1..Len(run[m].queue) :
                  Catches(run[m].queue[j], x) => m = n
  <2>1. PICK i \in 1..Len(q) : q[i].kind \in {"captured", "told"} /\ x = q[i].call
    BY <1>4, <1>7 DEF ToSet
  <2>2. /\ i \in 1..Len(run[box[a]].queue) /\ x = run[box[a]].queue[i].call
        /\ run[box[a]].queue[i].kind \in {"captured", "told"}
    BY <1>3, <2>1
  <2>3. /\ Said(x) /\ x \in Exec /\ Owner(x) = a
        /\ x \in handed => x \in slot[a].issued
        /\ \A m \in Run : \A j \in 1..Len(run[m].queue) :
             Catches(run[m].queue[j], x) => m = box[a] /\ j <= i
    BY <1>3, <2>2, EntryMet
  <2> QED BY <1>3, <2>3
<1>8. ASSUME NEW x \in CC \cup TC PROVE SeenOK(r, x)' \/ req'[r].slot # a
  <2>1. Said(x)' /\ Owner(x)' = a
    BY <1>1, <1>5, <1>7, SaidKept
  <2>2. Uncaught(x)'
    <3> SUFFICES ASSUME NEW m \in Run, NEW j \in 1..Len(run'[m].queue),
                        Catches(run'[m].queue[j], x)
                 PROVE  FALSE
      BY DEF Uncaught, Lies, Catches
    <3>1. m # n
      BY <1>5
    <3> QED BY <1>5, <1>7, <3>1
  <2> QED BY <1>1, <1>7, <2>1, <2>2 DEF SeenOK, Mine
<1>9. C \subseteq Exec /\ T \subseteq Exec /\ S \subseteq C \cup T /\ o \in BOOLEAN
      /\ C \cup T = Seen(r) \cup CC \cup TC
  <2>1. CC \cup TC \subseteq Exec /\ req[r].caught \subseteq Exec /\ req[r].told \subseteq Exec
    BY <1>3, <1>7 DEF Locals
  <2>2. C \subseteq Exec /\ T \subseteq Exec /\ C \cup T = Seen(r) \cup CC \cup TC
    BY <1>3, <2>1
  <2>3. S \subseteq C \cup T
    BY DEF Fresh
  <2>4. o \in BOOLEAN
    BY <1>3 DEF Locals
  <2> QED BY <2>2, <2>3, <2>4
<1>10. ASSUME NEW x \in slot[a].pending, \/ Lies(n, x)
                                         \/ x \in req[r].caught
       PROVE  x \in S
  <2>1. Lies(n, x) => x \in CC
    BY <1>4 DEF Lies, Catches, ToSet
  <2>2. x \in C /\ x \in Mine(r).pending
    BY <1>3, <1>10, <2>1 DEF Mine
  <2> HIDE DEF C, T
  <2> QED BY <2>2 DEF Fresh
<1> HIDE DEF o, C, T, S, CC, TC
<1>11. /\ l \in Locals /\ l.pc = "handing" /\ l.slot = a /\ l.results = req[r].results
       /\ l.caught = C /\ l.told = T /\ l.tools = S
  BY <1>3, <1>9 DEF Locals, Place, Slotted, Late, Reading
<1>12. req' = [req EXCEPT ![r] = l]
  BY <1>2, <1>3 DEF Locals
<1> HIDE DEF l
<1>13. req' \in [Request -> Locals] /\ req'[r] = l /\ \A s \in Request \ {r} : req'[s] = req[s]
  BY <1>11, <1>12 DEF ReqType
<1>14. ReqOK(r)'
  <2>1. Seen(r)' = S
    BY <1>11, <1>13 DEF Seen, Reading
  <2>2. ASSUME NEW x \in S PROVE SeenOK(r, x)'
    <3>1. CASE x \in CC \cup TC
      BY <1>8, <1>11, <1>13, <3>1
    <3>2. CASE x \in Seen(r)
      <4>1. SeenOK(r, x)
        BY <1>3, <3>2 DEF ReqOK
      <4>2. req'[r].slot = req[r].slot /\ (x \in handed' => x \in handed)
        BY <1>1, <1>3, <1>11, <1>13
      <4> QED BY <1>6, <4>1, <4>2, SeenKept
    <3> QED BY <1>9, <3>1, <3>2
  <2>3. /\ holder' = r /\ req[r].results \subseteq handed' /\ a <= agents'
        /\ a # None /\ current' \in {None, a}
    BY <1>1, <1>3 DEF ReqOK, Outside, Slotted, Late, Reading
  <2> QED BY <1>11, <1>13, <2>1, <2>2, <2>3
        DEF ReqOK, Outside, Unmade, Slotted, Late, Reading
<1>15. HeldInv'
  <2> SUFFICES ASSUME current # None, NEW x \in slot[current].pending, x[1] = slot[current].pump,
                      ~run[x[1]].lost
               PROVE  Kept(x)'
    <3>1. current # None => \A x \in slot[current].pending : x[1] \in Run
      BY Pairs DEF CallsInv, Said, HubType
    <3>2. \A m \in Run : run'[m].lost = run[m].lost
      BY <1>5 DEF RunsStep, Calmed
    <3> QED BY <1>1, <3>1, <3>2 DEF HeldInv, HubType
  <2>1. current = a
    BY <1>1, <1>3 DEF ReqOK, Slotted, Late, Reading
  <2>2. x[1] = n /\ x \in slot[a].pending
    BY <1>3, <2>1 DEF Mine, HubInv, SlotOK
  <2>3. Kept(x)
    BY DEF HeldInv
  <2>4. x \in S => Carried(r, x)'
    BY <1>11, <1>13 DEF Carried
  <2>5. x \in handed \cup brokenOff \/ Lies(n, x) \/ x \in req[r].caught
    BY <1>1, <1>3, <2>2, <2>3 DEF Kept, Carried
  <2> QED BY <1>1, <1>10, <2>2, <2>4, <2>5 DEF Kept
<1>16. CallsInv' /\ ClientType'
  BY <1>1, <1>6, CallsKept DEF ClientType
<1>17. req[r].pc \notin Outside /\ handed \subseteq handed' /\ holder' = holder
  BY <1>1 DEF Outside
<1> HIDE DEF IInv, TypeInv
<1> QED BY <1>6, <1>13, <1>14, <1>15, <1>16, <1>17, InsideStep

(* The calls in I go out.                                                  *)
LEMMA CallsGrow ==
  ASSUME HubType, HubInv, QueueInv, CallsInv, HubStep, NEW r, NEW I,
         \A x \in I : SeenOK(r, x), handed' = handed \cup I,
         \A x \in I : x \in slot'[Owner(x)].issued \/ NoMore(x),
         \A b \in Agent : \A x \in slot[b].pending \cap I : Owner(x) = b
  PROVE  CallsInv'
<1>1. RunsStep /\ sends' = sends /\ box' = box
  BY DEF HubStep
<1>2. ASSUME NEW x \in I PROVE HandedOK(x)'
  <2>1. SeenOK(r, x) /\ Said(x) /\ Uncaught(x)
    BY DEF SeenOK
  <2>2. Said(x)' /\ Owner(x)' = Owner(x) /\ x[1] \in Run
    BY <1>1, <2>1, SaidKept, OwnerType
  <2>3. Uncaught(x)'
    BY <1>1, <2>1, QueuesKept DEF Uncaught
  <2>4. NoMore(x) => NoMore(x)'
    BY <1>1, <2>2, QueuesKept DEF NoMore
  <2> QED BY <2>2, <2>3, <2>4 DEF HandedOK
<1>3. \A x \in handed : HandedOK(x)'
  BY HandedKept DEF CallsInv
<1>4. ASSUME NEW b \in Agent, NEW x \in slot'[b].pending
      PROVE  Said(x)' /\ (x \in handed' => Owner(x)' = b)
  <2>1. x \in slot[b].pending
    BY <1>4 DEF HubStep, SlotsStep, Changed
  <2>2. Said(x) /\ (x \in handed => Owner(x) = b)
    BY <2>1 DEF CallsInv
  <2>3. Said(x)' /\ Owner(x)' = Owner(x)
    BY <1>1, <2>2, SaidKept
  <2> QED BY <2>1, <2>2, <2>3
<1>5. \A x \in handed' : HandedOK(x)'
  BY <1>2, <1>3
<1> QED BY <1>4, <1>5 DEF CallsInv

(* Calls go out, or would have, and request r goes on to p.                *)
LEMMA GiveStep ==
  ASSUME IInv, NEW r \in Request, req[r].pc \in {"handing", "ending"},
         HubStep, SameQueues, current' = current, holder' = holder,
         handed \subseteq handed', brokenOff \subseteq brokenOff',
         CallsInv', ClientType',
         req[r].pc = "handing" => req[r].tools \subseteq handed' \cup brokenOff',
         NEW p \in {"closing", "waiting"}, NEW I \in SUBSET Exec, NEW o \in BOOLEAN,
         req' = [req EXCEPT ![r].pc = p, ![r].tools = I, ![r].out = o]
  PROVE  IInv'
<1> USE DEF IInv, TypeInv
<1> DEFINE l == [req[r] EXCEPT !.pc = p, !.tools = I, !.out = o]
<1>1. /\ ReqOK(r) /\ req[r] \in Locals /\ req[r].pc \in Slotted /\ req[r].pc \notin Outside
      /\ holder = r
  BY SlotOf DEF ReqInv, ReqType, Slotted, Late, Reading, Outside
<1>2. /\ l \in Locals /\ l.pc = p /\ l.slot = req[r].slot /\ l.results = req[r].results
  BY <1>1 DEF Locals, Place, Slotted, Late
<1>3. req' = [req EXCEPT ![r] = l]
  BY <1>1 DEF Locals
<1> HIDE DEF l
<1>4. req' \in [Request -> Locals] /\ req'[r] = l /\ \A q \in Request \ {r} : req'[q] = req[q]
  BY <1>2, <1>3, ZenonT(40) DEF ReqType
<1>5. ReqOK(r)'
  <2>1. Seen(r)' = {} /\ p \in Late /\ p \notin Outside \cup Unmade \cup Reading
        /\ p \notin {"awaiting", "ending"}
    BY <1>2, <1>4 DEF Seen, Reading, Late, Outside, Unmade
  <2>2. /\ req[r].slot # None /\ current \in {None, req[r].slot} /\ req[r].results \subseteq handed
        /\ req[r].slot <= agents
    BY <1>1 DEF ReqOK
  <2>3. req[r].slot <= agents'
    <3>1. req[r].slot \in Nat /\ agents \in Nat /\ agents' \in Nat /\ agents <= agents'
      BY <1>1, Numbers DEF Locals, HubType, HubStep
    <3> QED BY <2>2, <3>1
  <2> QED BY <1>1, <1>2, <1>4, <2>1, <2>2, <2>3 DEF ReqOK
<1>6. HeldInv'
  <2>1. ASSUME NEW q \in Request, NEW x, Carried(q, x) PROVE x \in handed' \cup brokenOff'
    <3>1. q = r
      BY <1>1, <2>1, Alone, OutsideSeesNothing
    <3> QED BY <2>1, <3>1 DEF Carried
  <2> QED BY <2>1, HeldKept DEF SameQueues
<1> HIDE DEF IInv, TypeInv
<1> QED BY <1>1, <1>4, <1>5, <1>6, InsideStep

Issues(ss, a, I) == [ss EXCEPT ![a].issued = @ \cup I]

LEMMA IssuesGo ==
  ASSUME HubType, NEW ss, SlotsGo(ss), NEW a \in Agent, a <= agents, NEW I \in SUBSET Exec
  PROVE  SlotsGo(Issues(ss, a, I)) /\ Issues(ss, a, I)[a].issued = ss[a].issued \cup I
<1> DEFINE t == [ss[a] EXCEPT !.issued = @ \cup I]
<1>1. ss[a] \in SlotRec
  BY DEF SlotsGo
<1>2. Changed(ss[a], t) /\ t.issued = ss[a].issued \cup I
  BY <1>1, ChangedSteps
<1>3. Issues(ss, a, I) = SetAt(ss, a, t)
  BY DEF SetAt, Issues
<1> HIDE DEF t
<1>4. SlotsGo(SetAt(ss, a, t)) /\ SetAt(ss, a, t)[a] = t
  <2>1. HubType /\ SlotsGo(ss) /\ a \in Agent /\ a <= agents /\ Changed(ss[a], t)
    BY <1>2
  <2> QED BY ONLY <2>1, SlotGoes
<1> QED BY <1>2, <1>3, <1>4

LEMMA HandStep ==
  ASSUME IInv, NEW r \in Request, Hand(r)
  PROVE  IInv'
<1> USE DEF IInv, TypeInv
<1> DEFINE I == req[r].tools
           o == req[r].out \/ I # {}
<1>1. /\ req[r].pc = "handing" /\ req[r] \in Locals /\ ReqOK(r) /\ handed' = handed \cup I
      /\ UNCHANGED <<current, agents, box, sends, run, holder, brokenOff>>
  BY DEF Hand, At, ReqInv, ReqType
<1>2. PICK a \in Agent : /\ a = req[r].slot /\ a <= agents /\ current \in {None, a}
                         /\ I \subseteq Exec
  BY <1>1, SlotOf DEF Slotted, Late
<1> DEFINE ss == InState("awaiting_tools")
<1>3. SlotsGo(ss) /\ slot' = [ss EXCEPT ![a].issued = @ \cup I]
  BY <1>2, InStateGoes DEF Hand, State
<1> HIDE DEF ss
<1>4. SlotsGo(slot') /\ slot'[a].issued = ss[a].issued \cup I
  <2>1. a \in Agent /\ a <= agents /\ I \in SUBSET Exec /\ SlotsGo(ss)
        /\ slot' = Issues(ss, a, I)
    BY <1>2, <1>3 DEF Issues
  <2> HIDE DEF I
  <2>2. SlotsGo(Issues(ss, a, I)) /\ Issues(ss, a, I)[a].issued = ss[a].issued \cup I
    BY <2>1, IssuesGo
  <2> QED BY <2>1, <2>2
<1>5. HubStep /\ SameQueues
  BY <1>1, <1>4, Standing, HubStepFrom DEF SameQueues
<1>6. \A x \in I : SeenOK(r, x) /\ Owner(x) = a
  BY <1>1, <1>2 DEF ReqOK, Seen, SeenOK, Reading
<1>7. CallsInv'
  <2>1. \A b \in Agent : \A x \in slot[b].pending \cap I : Owner(x) = b
    BY <1>2, <1>6, Numbers DEF HubInv, SlotOK
  <2>2. \A x \in I : x \in slot'[Owner(x)].issued
    BY <1>4, <1>6
  <2> QED BY <1>1, <1>5, <1>6, <2>1, <2>2, CallsGrow
<1>8. ClientType'
  BY <1>1, <1>2 DEF ClientType
<1>9. o \in BOOLEAN /\ I \in SUBSET Exec
  BY <1>1, <1>2 DEF Locals
<1>10. req' = [req EXCEPT ![r].pc = "closing", ![r].tools = I, ![r].out = o]
  BY <1>1 DEF Hand, Locals, ReqType
<1> HIDE DEF IInv, TypeInv, I, o
<1>11. req[r].pc = "handing" => req[r].tools \subseteq handed' \cup brokenOff'
  BY <1>1 DEF I
<1> QED BY <1>1, <1>5, <1>7, <1>8, <1>9, <1>10, <1>11, GiveStep

LEMMA LeaveHandingStep ==
  ASSUME IInv, NEW r \in Request, LeaveHanding(r)
  PROVE  IInv'
<1> USE DEF IInv, TypeInv
<1> DEFINE I == req[r].tools
           o == req[r].out \/ I # {}
<1>1. /\ req[r].pc = "handing" /\ req[r] \in Locals /\ brokenOff' = brokenOff \cup I
      /\ UNCHANGED <<hub, holder, handed>>
  BY DEF LeaveHanding, At, ReqType
<1>2. HubStep /\ SameQueues /\ current' = current
  BY <1>1, StillHub DEF hub
<1>3. CallsInv'
  BY <1>1, <1>2, CallsKept
<1>4. ClientType' /\ o \in BOOLEAN /\ I \in SUBSET Exec
  BY <1>1 DEF ClientType, Locals
<1>5. req' = [req EXCEPT ![r].pc = "closing", ![r].tools = I, ![r].out = o]
  BY <1>1 DEF LeaveHanding, Locals, ReqType
<1> HIDE DEF IInv, TypeInv, I, o
<1>6. req[r].pc = "handing" => req[r].tools \subseteq handed' \cup brokenOff'
  BY <1>1 DEF I
<1> QED BY <1>1, <1>2, <1>3, <1>4, <1>5, <1>6, GiveStep

LEMMA EndToolsStep ==
  ASSUME IInv, NEW r \in Request, EndTools(r)
  PROVE  IInv'
<1> USE DEF IInv, TypeInv
<1> DEFINE I == Fresh(r, req[r].caught \cup req[r].told)
           o == req[r].out \/ I # {}
<1>1. /\ req[r].pc = "ending" /\ req[r] \in Locals /\ ReqOK(r) /\ handed' = handed \cup I
      /\ Mine(r).pending = {} /\ UNCHANGED <<hub, holder, brokenOff>>
  BY DEF EndTools, At, ReqInv, ReqType
<1>2. /\ req[r].slot \in Agent /\ current \in {None, req[r].slot}
      /\ Pump(r) = box[req[r].slot]
  BY <1>1, ReadingPump, SlotOf DEF Slotted, Late, Reading
<1>3. HubStep /\ SameQueues /\ current' = current
  BY <1>1, StillHub DEF hub
<1>4. I \subseteq Seen(r) /\ I \in SUBSET Exec
  BY <1>1 DEF Seen, Reading, Fresh, Locals
<1>5. \A x \in I : SeenOK(r, x)
  BY <1>1, <1>4 DEF ReqOK
<1>6. \A x \in I : NoMore(x)
  BY <1>1, <1>2, <1>5 DEF ReqOK, NoMore, SeenOK
<1>7. \A b \in Agent : slot[b].pending = {}
  <2>1. slot[req[r].slot].pending = {}
    BY <1>1 DEF Mine
  <2>2. \A b \in Agent : b # current => slot[b].pending = {}
    BY DEF HubInv, SlotOK
  <2> QED BY <1>2, <2>1, <2>2, Numbers
<1> HIDE DEF I
<1>8. CallsInv'
  BY <1>1, <1>3, <1>5, <1>6, <1>7, CallsGrow
<1>9. ClientType' /\ o \in BOOLEAN
  BY <1>1, <1>4 DEF ClientType, Locals
<1>10. req' = [req EXCEPT ![r].pc = "waiting", ![r].tools = I, ![r].out = o]
  BY <1>1 DEF EndTools, Locals, ReqType, I
<1> HIDE DEF IInv, TypeInv, o
<1> QED BY <1>1, <1>3, <1>4, <1>8, <1>9, <1>10, GiveStep

----------------------------------------------------------------------------
(* Sending starts a run with a new pump.                                   *)

Grows == /\ \A m \in Run : m <= sends => /\ run'[m].agent = run[m].agent
                                         /\ run[m].said <= run'[m].said
         /\ sends <= sends' /\ sends' \in 0..MaxRuns /\ run' \in [Run -> RunRec]

LEMMA SaidGrows ==
  ASSUME HubType, Grows, NEW x, Said(x)
  PROVE  Said(x)' /\ Owner(x)' = Owner(x) /\ x[1] \in Run /\ x[1] <= sends
<1>1. x[1] \in Run /\ x[2] \in Nat /\ x[1] \in Nat
  <2>1. x \in Exec
    BY DEF Said
  <2>2. x[1] \in Run /\ x[2] \in 1..MaxSaid
    BY <2>1, Pairs
  <2>3. x[2] \in Nat
    BY <2>2
  <2>4. x[1] \in Nat
    BY <2>2, Numbers
  <2> QED BY <2>2, <2>3, <2>4
<1>2. run[x[1]] \in RunRec /\ run'[x[1]] \in RunRec /\ sends \in Nat /\ sends' \in Nat
  BY <1>1 DEF HubType, Grows
<1>3. run[x[1]].said \in Nat /\ run'[x[1]].said \in Nat
  BY <1>2 DEF RunRec
<1> QED BY <1>1, <1>2, <1>3 DEF Said, Owner, Grows

Started(n) == /\ n \in Run /\ n = sends + 1 /\ sends' = n
              /\ current \in Agent /\ current' = current /\ agents' = agents
              /\ slot' \in [Agent -> SlotRec] /\ slot'[current].pump = n
              /\ slot'[current].state = "running"
              /\ \A b \in Agent : /\ slot'[b].pending = slot[b].pending
                                  /\ slot'[b].issued = slot[b].issued
                                  /\ b # current => slot'[b] = slot[b]
              /\ box' = [box EXCEPT ![current] = n]
              /\ run' \in [Run -> RunRec] /\ run'[n] = NewRun(current, "sending")
              /\ \A m \in Run \ {n} : run'[m] = run[m]

LEMMA NewRunType ==
  ASSUME NEW a \in Agent
  PROVE  /\ NewRun(a, "sending") \in RunRec
         /\ NewRun(a, "sending").agent = a /\ NewRun(a, "sending").phase = "sending"
         /\ NewRun(a, "sending").queue = <<>>
<1>1. 0 \in 0..MaxSaid /\ 0 \in Nat /\ <<>> \in Seq(Item)
  BY Numbers
<1> QED BY <1>1 DEF NewRun, RunRec, Phase

LEMMA StartedHub ==
  ASSUME HubType, HubInv, QueueInv, NEW n, Started(n)
  PROVE  /\ HubType' /\ HubInv' /\ Grows
         /\ \A m \in Run : run'[m].queue = run[m].queue /\ (m <= sends => run'[m] = run[m])
         /\ n \in Nat /\ sends \in Nat /\ ~(n <= sends)
<1>1. n \in Nat /\ sends \in Nat /\ ~(n <= sends) /\ n \in 0..MaxRuns /\ sends <= n
  BY Numbers DEF Started, HubType, Run
<1>2. /\ run[n].queue = <<>>
      /\ run'[n].queue = <<>> /\ run'[n].agent = current /\ run'[n].phase = "sending"
  <2>1. RunOK(n)
    BY DEF HubInv, Started
  <2> QED BY <1>1, <2>1, NewRunType DEF RunOK, Started
<1>3. \A m \in Run : run'[m].queue = run[m].queue /\ (m <= sends => run'[m] = run[m])
  BY <1>1, <1>2 DEF Started
<1>4. HubType'
  BY <1>1 DEF HubType, Started
<1>5. Grows
  <2>1. \A m \in Run : run[m] \in RunRec
    BY DEF HubType
  <2>2. \A m \in Run : run[m].said \in Nat
    BY <2>1 DEF RunRec
  <2>3. sends \in Nat /\ sends' \in 0..MaxRuns /\ sends <= sends'
    BY <1>1 DEF Started
  <2>4. ASSUME NEW m \in Run, m <= sends PROVE run[m].said <= run'[m].said
    <3>1. run'[m] = run[m] /\ run[m].said \in Nat
      BY <1>3, <2>2, <2>4
    <3> QED BY <3>1
  <2> QED BY <1>3, <2>3, <2>4 DEF Grows, Started
<1>6. ASSUME NEW b \in Agent PROVE SlotOK(b)'
  <2>1. SlotOK(b) /\ current <= agents
    BY DEF HubInv
  <2>2. CASE b = current
    <3>1. box'[b] = n /\ slot'[b].pump = n /\ ~(current > agents)
      BY <2>1, <2>2, Numbers DEF Started, HubType
    <3> QED BY <1>1, <1>2, <2>1, <2>2, <3>1 DEF SlotOK, Started
  <2>3. CASE b # current
    <3>1. box'[b] = box[b] /\ slot'[b] = slot[b]
      BY <2>3 DEF Started, HubType
    <3>2. box[b] # None => box[b] \in Run /\ box[b] <= sends /\ box[b] \in Nat
                           /\ run[box[b]].agent = b
      BY <2>1, Numbers DEF HubType, SlotOK
    <3>3. box[b] # None => box[b] <= sends' /\ run'[box[b]].agent = b
      BY <1>1, <1>3, <3>2 DEF Started
    <3> QED BY <2>1, <3>1, <3>3 DEF SlotOK, Started
  <2> QED BY <2>2, <2>3
<1>7. ASSUME NEW m \in Run PROVE RunOK(m)'
  <2>1. RunOK(m) /\ m \in Nat
    BY Numbers DEF HubInv
  <2>2. CASE m = n
    <3>1. run'[m].agent = current /\ box'[current] = n /\ sends' = n /\ current \in Agent
      BY <1>2, <2>2 DEF Started, HubType
    <3> QED BY <1>1, <2>2, <3>1 DEF RunOK
  <2>3. CASE m <= sends
    <3>1. run'[m] = run[m] /\ run[m].agent \in Agent /\ m <= box[run[m].agent]
      BY <1>3, <2>1, <2>3 DEF RunOK
    <3>2. m <= box'[run[m].agent]
      <4>1. CASE run[m].agent = current
        BY <1>1, <2>1, <2>3, <3>1, <4>1 DEF Started, HubType
      <4>2. CASE run[m].agent # current
        BY <3>1, <4>2 DEF Started, HubType
      <4> QED BY <4>1, <4>2
    <3>3. m <= sends'
      BY <1>1, <2>1, <2>3 DEF Started
    <3> QED BY <3>1, <3>2, <3>3 DEF RunOK
  <2>4. CASE m # n /\ ~(m <= sends)
    <3>1. ~(m <= sends') /\ run'[m] = run[m]
      BY <1>1, <2>1, <2>4 DEF Started
    <3> QED BY <2>1, <2>4, <3>1 DEF RunOK
  <2> QED BY <2>2, <2>3, <2>4
<1>8. HubInv'
  BY <1>6, <1>7 DEF HubInv, Started
<1> QED BY <1>1, <1>3, <1>4, <1>5, <1>8

LEMMA StartedCalls ==
  ASSUME HubType, HubInv, QueueInv, CallsInv, NEW n, Started(n), handed' = handed
  PROVE  QueueInv' /\ CallsInv'
<1>1. /\ Grows
      /\ \A m \in Run : run'[m].queue = run[m].queue /\ (m <= sends => run'[m] = run[m])
      /\ n \in Nat /\ sends \in Nat /\ ~(n <= sends)
  BY StartedHub
<1>2. ASSUME NEW m \in Run, NEW e \in Item, EntryOK(m, e), m <= sends PROVE EntryOK(m, e)'
  <2>1. run'[m] = run[m] /\ (Said(e.call) => Said(e.call)' /\ Owner(e.call)' = Owner(e.call))
    BY <1>1, <1>2, SaidGrows
  <2> QED BY <1>2, <2>1 DEF EntryOK, Owner
<1>3. ASSUME NEW m \in Run PROVE QueueOK(m)'
  <2>1. QueueOK(m) /\ RunOK(m) /\ run'[m].queue = run[m].queue
    BY <1>1 DEF QueueInv, HubInv
  <2> DEFINE q == run[m].queue
  <2>2. CASE m <= sends
    <3>1. ASSUME NEW i \in 1..Len(q), NEW e, e = q[i] PROVE EntryOK(m, e)'
      <4>1. e \in Item /\ EntryOK(m, e)
        BY <2>1, <3>1, QueueType DEF HubType, QueueOK
      <4> QED BY <1>2, <2>2, <4>1
    <3>2. \A i, j \in 1..Len(q) : i < j => Precedes(q[i], q[j])
      BY <2>1 DEF QueueOK
    <3> QED BY <2>1, <3>1, <3>2 DEF QueueOK, EntryOK, Precedes, Catches, Said
  <2>3. CASE ~(m <= sends)
    BY <2>1, <2>3 DEF QueueOK, RunOK
  <2> QED BY <2>2, <2>3
<1>4. CapturedOnce'
  <2> SUFFICES ASSUME NEW k \in Run, NEW m \in Run,
                      NEW i \in 1..Len(run'[k].queue), NEW j \in 1..Len(run'[m].queue),
                      run'[k].queue[i].kind = "captured",
                      Catches(run'[m].queue[j], run'[k].queue[i].call)
               PROVE  k = m /\ i = j
    BY DEF CapturedOnce, Catches
  <2>1. run'[k].queue = run[k].queue /\ run'[m].queue = run[m].queue
    BY <1>1
  <2> QED BY <2>1 DEF QueueInv, CapturedOnce
<1>5. ASSUME NEW x, HandedOK(x) PROVE HandedOK(x)'
  <2>1. Said(x)' /\ Owner(x)' = Owner(x) /\ x[1] \in Run /\ x[1] <= sends /\ Owner(x) \in Agent
    BY <1>1, <1>5, SaidGrows, OwnerType DEF HandedOK
  <2>2. Uncaught(x)'
    BY <1>1, <1>5 DEF HandedOK, Uncaught, Lies, Catches
  <2>3. slot'[Owner(x)].issued = slot[Owner(x)].issued
    BY <2>1 DEF Started
  <2>4. NoMore(x) => NoMore(x)'
    <3>1. run'[x[1]] = run[x[1]]
      BY <1>1, <2>1
    <3>2. Quiet(x[1]) => Quiet(x[1])'
      BY <3>1 DEF Quiet, Untold
    <3>3. box'[Owner(x)] = IF Owner(x) = current THEN n ELSE box[Owner(x)]
      BY <2>1 DEF Started, HubType
    <3> QED BY <1>1, <2>1, <3>2, <3>3 DEF NoMore
  <2> QED BY <1>5, <2>1, <2>2, <2>3, <2>4 DEF HandedOK
<1>6. ASSUME NEW b \in Agent, NEW x \in slot'[b].pending
      PROVE  Said(x)' /\ (x \in handed' => Owner(x)' = b)
  <2>1. Said(x) /\ (x \in handed => Owner(x) = b)
    BY <1>6 DEF CallsInv, Started
  <2> QED BY <1>1, <2>1, SaidGrows
<1>7. \A x \in handed' : HandedOK(x)'
  BY <1>5 DEF CallsInv
<1> QED BY <1>3, <1>4, <1>6, <1>7 DEF QueueInv, CallsInv

LEMMA SendStarts ==
  ASSUME IInv, NEW r \in Request, Send(r), current # None, sends # MaxRuns
  PROVE  /\ Started(sends + 1) /\ req[r].pc \in {"turning", "sending"}
         /\ Go(r, "awaiting") /\ UNCHANGED <<holder, handed, brokenOff>>
<1> DEFINE n == sends + 1
           t == [slot[current] EXCEPT !.state = "running", !.pump = n]
<1>1. n \in Run /\ current \in Agent /\ slot[current] \in SlotRec
  BY Numbers DEF IInv, TypeInv, HubType, Run
<1>2. /\ sends' = n /\ current' = current /\ agents' = agents
      /\ slot' = [slot EXCEPT ![current].state = "running", ![current].pump = n]
      /\ box' = [box EXCEPT ![current] = n]
      /\ run' = [run EXCEPT ![n] = NewRun(current, "sending")]
      /\ Go(r, "awaiting") /\ UNCHANGED <<holder, handed, brokenOff>>
      /\ req[r].pc \in {"turning", "sending"}
  BY DEF Send, MaySend, At, client
<1> HIDE DEF n
<1>3. /\ t \in SlotRec /\ t.pump = n /\ t.state = "running"
      /\ t.pending = slot[current].pending /\ t.issued = slot[current].issued
  BY <1>1 DEF SlotRec, State
<1>4. slot' = [slot EXCEPT ![current] = t]
  BY <1>1, <1>2 DEF SlotRec, IInv, TypeInv, HubType
<1> HIDE DEF t
<1>5. slot' \in [Agent -> SlotRec] /\ slot'[current] = t
      /\ \A b \in Agent \ {current} : slot'[b] = slot[b]
  BY <1>1, <1>3, <1>4 DEF IInv, TypeInv, HubType
<1> DEFINE v == NewRun(current, "sending")
<1>6. v \in RunRec
  BY <1>1, NewRunType
<1>7. run' = [run EXCEPT ![n] = v]
  BY <1>2
<1> HIDE DEF v
<1>8. run' \in [Run -> RunRec] /\ run'[n] = v /\ \A m \in Run \ {n} : run'[m] = run[m]
  BY <1>1, <1>6, <1>7 DEF IInv, TypeInv, HubType
<1>9. Started(n)
  BY <1>1, <1>2, <1>3, <1>5, <1>8 DEF Started, n, v
<1> QED BY <1>2, <1>9 DEF n

LEMMA SendStep ==
  ASSUME IInv, NEW r \in Request, Send(r)
  PROVE  IInv'
<1>1. CASE current = None \/ sends = MaxRuns
  <2>1. /\ req[r].pc \in {"turning", "sending"} /\ Go(r, "settling")
        /\ UNCHANGED <<hub, holder, client>>
    BY <1>1 DEF Send, MaySend, At, hub
  <2>2. Plain /\ current' = current
    BY <2>1, PlainStill
  <2>3. Goes(r, "settling")
    BY <2>1 DEF Goes, Place, Outside, Unmade, Slotted, Late, Reading
  <2> QED BY <2>1, <2>2, <2>3, GoStep
<1>2. CASE current # None /\ sends # MaxRuns
  <2> DEFINE n == sends + 1
  <2>1. /\ Started(n) /\ req[r].pc \in {"turning", "sending"}
        /\ Go(r, "awaiting") /\ UNCHANGED <<holder, handed, brokenOff>>
    BY <1>2, SendStarts
  <2> HIDE DEF n
  <2> USE DEF IInv, TypeInv
  <2>2. HubType' /\ HubInv' /\ QueueInv' /\ CallsInv' /\ ClientType'
        /\ n \in Nat /\ sends \in Nat /\ ~(n <= sends)
    BY <2>1, StartedHub, StartedCalls DEF ClientType
  <2>3. /\ req' \in [Request -> Locals] /\ req'[r].pc = "awaiting"
        /\ req'[r].slot = req[r].slot /\ req'[r].results = req[r].results
        /\ req'[r].caught = req[r].caught /\ req'[r].told = req[r].told
        /\ \A q \in Request \ {r} : req'[q] = req[q]
    BY <2>1, GoLocals DEF Place, Slotted
  <2>4. holder = r /\ r # Nobody /\ \A q \in Request : q # r => req[q].pc \in Outside
    BY <2>1, Alone DEF Outside
  <2>5. ReqOK(r)'
    <3>1. /\ current = req[r].slot /\ req[r].slot \in Agent /\ req[r].slot <= agents
          /\ req[r].caught = {} /\ req[r].told = {} /\ req[r].results \subseteq handed
      BY <1>2, <2>1, SlotOf DEF Slotted, ReqInv, ReqOK, Late, Reading
    <3>2. /\ slot'[current].pump = n /\ slot'[current].state = "running" /\ n # None
          /\ run'[n].phase = "sending" /\ current' = current /\ agents' = agents
      BY <2>1, NewRunType, Numbers DEF Started
    <3>3. Seen(r)' = {}
      BY <2>3 DEF Seen, Reading
    <3>4. Mine(r)' = slot'[current] /\ Pump(r)' = n
      BY <2>3, <3>1, <3>2 DEF Pump, Mine
    <3>5. run'[Pump(r)'].phase = "sending"
      BY <3>2, <3>4
    <3> QED BY <2>1, <2>3, <2>4, <3>1, <3>2, <3>3, <3>4, <3>5, Numbers
          DEF ReqOK, Outside, Unmade, Slotted, Late, Reading
  <2>6. ASSUME NEW q \in Request \ {r} PROVE ReqOK(q)'
    <3>1. ReqOK(q) /\ req[q].pc \in Outside /\ req'[q] = req[q] /\ Seen(q)' = {}
      BY <2>3, <2>4 DEF ReqInv, Seen, Outside, Reading
    <3> QED BY <2>1, <2>4, <3>1 DEF ReqOK, Started, Outside, Unmade, Slotted, Late, Reading
  <2>7. HeldInv'
    <3>1. ASSUME NEW x \in slot'[current'].pending PROVE x[1] # slot'[current'].pump
      <4>1. x \in slot[current].pending /\ slot'[current'].pump = n
        BY <2>1, <3>1 DEF Started
      <4>2. Said(x)
        BY <2>1, <4>1 DEF CallsInv, Started
      <4> QED BY <2>2, <4>1, <4>2 DEF Said
    <3> QED BY <3>1 DEF HeldInv
  <2>8. ReqInv' /\ ReqType' /\ FreeIsSettled'
    BY <2>1, <2>3, <2>4, <2>5, <2>6 DEF ReqInv, ReqType, FreeIsSettled
  <2> QED BY <2>2, <2>7, <2>8
<1> QED BY <1>1, <1>2

----------------------------------------------------------------------------
(* A run speaks, executes a tool, or ends: entry e goes to pump p.         *)

PushQueue(p, e) ==
  \/ run'[p].queue = run[p].queue /\ run'[p].lost
  \/ run'[p].queue = Append(run[p].queue, e)

PushRuns(n, p, e) ==
  /\ n \in Run /\ p \in Run /\ e \in Item /\ run' \in [Run -> RunRec]
  /\ run[n].phase \in {"sending", "live", "cancelling"}
  /\ \A m \in Run : /\ run'[m].agent = run[m].agent
                    /\ run[m].said <= run'[m].said
                    /\ run[m].lost => run'[m].lost
                    /\ \/ run'[m].phase = run[m].phase
                       \/ run[m].phase \in {"live", "cancelling"} /\ run'[m].phase = "ended"
                    /\ m # p => run'[m].queue = run[m].queue
  /\ PushQueue(p, e)
  /\ e.call[1] = n
  /\ IF e.kind = "captured"
     THEN p = box[run[n].agent] /\ e.call \in Exec /\ ~Said(e.call) /\ e.call[2] <= run'[n].said
     ELSE p = n
  /\ e.kind = "told" => Said(e.call)
  /\ e.kind = "end" => run'[n].phase = "ended"

PushSlots(e) ==
  /\ slot' \in [Agent -> SlotRec]
  /\ \A b \in Agent : /\ slot'[b].pump = slot[b].pump /\ slot'[b].issued = slot[b].issued
                      /\ slot'[b].state = slot[b].state
                      /\ b # current => slot'[b] = slot[b]
                      /\ \A x \in slot'[b].pending : \/ x \in slot[b].pending
                                                     \/ e.kind = "captured" /\ x = e.call

Pushes(n, p, e) == /\ PushRuns(n, p, e)
                   /\ PushSlots(e)
                   /\ UNCHANGED <<current, agents, box, sends, holder, req, handed, brokenOff>>

LEMMA PushEntries ==
  ASSUME HubType, NEW n, NEW p, NEW e, PushRuns(n, p, e)
  PROVE  /\ \A m \in Run : \A i \in 1..Len(run'[m].queue) :
              \/ i \in 1..Len(run[m].queue) /\ run'[m].queue[i] = run[m].queue[i]
              \/ m = p /\ i = Len(run[p].queue) + 1 /\ run'[m].queue[i] = e
         /\ \A m \in Run : \A i \in 1..Len(run[m].queue) :
              i \in 1..Len(run'[m].queue) /\ run'[m].queue[i] = run[m].queue[i]
         /\ run'[p].lost \/ (Len(run[p].queue) + 1 \in 1..Len(run'[p].queue)
                             /\ run'[p].queue[Len(run[p].queue) + 1] = e)
         /\ \A m \in Run : Len(run[m].queue) \in Nat
<1> DEFINE q == run[p].queue
           u == run'[p].queue
<1>1. \A m \in Run : Len(run[m].queue) \in Nat
  BY QueueType DEF HubType
<1>2. q \in Seq(Item) /\ Len(q) \in Nat /\ p \in Run /\ e \in Item
  BY QueueType DEF HubType, PushRuns
<1>3. \/ u = q /\ run'[p].lost
      \/ u = Append(q, e)
  BY DEF PushRuns, PushQueue
<1>4. \A m \in Run : m # p => run'[m].queue = run[m].queue
  BY DEF PushRuns
<1> HIDE DEF q, u
<1>5. /\ \A i \in 1..Len(u) : \/ i \in 1..Len(q) /\ u[i] = q[i]
                              \/ i = Len(q) + 1 /\ u[i] = e
      /\ \A i \in 1..Len(q) : i \in 1..Len(u) /\ u[i] = q[i]
      /\ run'[p].lost \/ (Len(q) + 1 \in 1..Len(u) /\ u[Len(q) + 1] = e)
  <2>1. CASE u = q /\ run'[p].lost
    BY <2>1
  <2>2. CASE u = Append(q, e)
    BY <1>2, <2>2
  <2> QED BY <1>3, <2>1, <2>2
<1>6. ASSUME NEW m \in Run, NEW i \in 1..Len(run'[m].queue)
      PROVE  \/ i \in 1..Len(run[m].queue) /\ run'[m].queue[i] = run[m].queue[i]
             \/ m = p /\ i = Len(run[p].queue) + 1 /\ run'[m].queue[i] = e
  BY <1>4, <1>5 DEF q, u
<1>7. ASSUME NEW m \in Run, NEW i \in 1..Len(run[m].queue)
      PROVE  i \in 1..Len(run'[m].queue) /\ run'[m].queue[i] = run[m].queue[i]
  BY <1>4, <1>5 DEF q, u
<1> QED BY <1>1, <1>5, <1>6, <1>7 DEF q, u

LEMMA PushPlaces ==
  ASSUME HubType, HubInv, NEW n, NEW p, NEW e, Pushes(n, p, e)
  PROVE  /\ n \in Run /\ n <= sends /\ run[n].agent \in Agent
         /\ p \in Run /\ p <= sends /\ run[p].agent = run[n].agent /\ n <= p
         /\ e.kind = "captured" => p = box[run[n].agent]
         /\ Grows
<1>1. n \in Run /\ p \in Run /\ run[n].phase \in {"sending", "live", "cancelling"}
  BY DEF Pushes, PushRuns
<1>2. RunOK(n) /\ n \in Nat /\ n > 0 /\ n # None /\ p \in Nat
  BY <1>1, Numbers DEF HubInv, Run
<1>3. n <= sends /\ run[n].agent \in Agent /\ n <= box[run[n].agent]
  BY <1>1, <1>2 DEF RunOK
<1>4. Grows
  <2>1. sends \in Nat /\ sends' = sends /\ sends' \in 0..MaxRuns
    BY DEF HubType, Pushes
  <2>2. sends <= sends'
    BY <2>1
  <2> QED BY <2>1, <2>2 DEF Grows, Pushes, PushRuns
<1>5. CASE e.kind = "captured"
  <2>1. p = box[run[n].agent]
    BY <1>5 DEF Pushes, PushRuns
  <2>2. SlotOK(run[n].agent)
    BY <1>3 DEF HubInv
  <2>3. box[run[n].agent] # None
    BY <1>1, <2>1, Numbers
  <2>4. p <= sends /\ run[p].agent = run[n].agent
    BY <2>1, <2>2, <2>3 DEF SlotOK
  <2> QED BY <1>1, <1>3, <1>4, <2>1, <2>4
<1>6. CASE e.kind # "captured"
  <2>1. p = n
    BY <1>6 DEF Pushes, PushRuns
  <2> QED BY <1>1, <1>2, <1>3, <1>4, <1>6, <2>1
<1> QED BY <1>5, <1>6

LEMMA PushHub ==
  ASSUME HubType, HubInv, NEW n, NEW p, NEW e, Pushes(n, p, e)
  PROVE  HubType' /\ HubInv'
<1>1. HubType'
  BY DEF HubType, Pushes, PushRuns, PushSlots
<1>2. /\ n \in Run /\ n <= sends /\ p \in Run /\ p <= sends
      /\ \A m \in Run : run'[m].agent = run[m].agent
      /\ UNCHANGED <<current, agents, box, sends>>
  BY PushPlaces DEF Pushes, PushRuns
<1>3. ASSUME NEW b \in Agent PROVE SlotOK(b)'
  <2>1. SlotOK(b) /\ box[b] \in Run \cup {None}
    BY DEF HubInv, HubType
  <2>2. /\ slot'[b].pump = slot[b].pump /\ slot'[b].issued = slot[b].issued
        /\ b # current => slot'[b] = slot[b]
    BY DEF Pushes, PushSlots
  <2> QED BY <1>2, <2>1, <2>2, Numbers DEF SlotOK
<1>4. ASSUME NEW m \in Run PROVE RunOK(m)'
  <2>1. RunOK(m)
    BY DEF HubInv
  <2>2. CASE m <= sends
    BY <1>2, <2>1, <2>2 DEF RunOK
  <2>3. CASE ~(m <= sends)
    <3>1. m # p /\ run[m].phase = "none" /\ run[m].queue = <<>>
      BY <1>2, <2>1, <2>3 DEF RunOK
    <3>2. run'[m].queue = <<>> /\ run'[m].phase = "none"
      BY <3>1 DEF Pushes, PushRuns
    <3> QED BY <1>2, <2>3, <3>2 DEF RunOK
  <2> QED BY <2>2, <2>3
<1> QED BY <1>1, <1>2, <1>3, <1>4 DEF HubInv

LEMMA PushQueues ==
  ASSUME HubType, HubInv, QueueInv, NEW n, NEW p, NEW e, Pushes(n, p, e)
  PROVE  QueueInv'
<1>1. /\ n \in Run /\ n <= sends /\ run[n].agent \in Agent
      /\ p \in Run /\ p <= sends /\ run[p].agent = run[n].agent /\ n <= p /\ Grows
  BY PushPlaces
<1>2. PushRuns(n, p, e) /\ e \in Item /\ sends' = sends
  BY DEF Pushes, PushRuns
<1>3. /\ \A m \in Run : \A i \in 1..Len(run'[m].queue) :
           \/ i \in 1..Len(run[m].queue) /\ run'[m].queue[i] = run[m].queue[i]
           \/ m = p /\ i = Len(run[p].queue) + 1 /\ run'[m].queue[i] = e
      /\ \A m \in Run : Len(run[m].queue) \in Nat
  BY <1>2, PushEntries
<1>4. EntryOK(p, e)'
  <2>1. e.kind = "captured" => Said(e.call)'
    <3> SUFFICES ASSUME e.kind = "captured" PROVE Said(e.call)'
      OBVIOUS
    <3>1. e.call \in Exec /\ e.call[1] = n /\ e.call[2] <= run'[n].said
      BY <1>2 DEF PushRuns
    <3> QED BY <1>1, <1>2, <3>1 DEF Said
  <2>2. e.kind = "captured" => run'[e.call[1]].agent = run'[p].agent /\ e.call[1] <= p
    BY <1>1, <1>2 DEF PushRuns
  <2>3. e.kind # "captured" => e.call[1] = p
    BY <1>2 DEF PushRuns
  <2>4. e.kind = "told" => Said(e.call)'
    BY <1>1, <1>2, SaidGrows DEF PushRuns
  <2>5. e.kind = "end" => run'[p].phase = "ended"
    BY <1>2 DEF PushRuns
  <2> QED BY <2>1, <2>2, <2>3, <2>4, <2>5 DEF EntryOK
<1>5. ASSUME NEW m \in Run, NEW f \in Item, EntryOK(m, f) PROVE EntryOK(m, f)'
  <2>1. f.call[1] \in Run
    BY DEF Item
  <2>2. /\ run'[m].agent = run[m].agent /\ run'[f.call[1]].agent = run[f.call[1]].agent
        /\ run[m].phase = "ended" => run'[m].phase = "ended"
    BY <1>2, <2>1 DEF PushRuns
  <2>3. Said(f.call) => Said(f.call)'
    BY <1>1, SaidGrows
  <2> QED BY <1>5, <2>2, <2>3 DEF EntryOK
<1>6. \A m \in Run : \A i \in 1..Len(run[m].queue) : run[m].queue[i] \in Item
  BY QueueType DEF HubType
<1>7. ASSUME NEW i \in 1..Len(run[p].queue), NEW f, f = run[p].queue[i] PROVE Precedes(f, e)
  <2>1. EntryOK(p, f)
    BY <1>1, <1>7 DEF QueueInv, QueueOK
  <2>2. f.kind = "end" => e.kind # "told"
    BY <1>2, <2>1 DEF EntryOK, PushRuns
  <2>3. f.kind = "told" => ~Catches(e, f.call)
    BY <1>2, <2>1 DEF EntryOK, PushRuns, Catches
  <2> QED BY <2>2, <2>3 DEF Precedes
<1>8. ASSUME NEW m \in Run PROVE QueueOK(m)'
  <2>1. QueueOK(m)
    BY DEF QueueInv
  <2>2. ASSUME NEW i \in 1..Len(run'[m].queue), NEW f, f = run'[m].queue[i]
        PROVE  EntryOK(m, f)'
    <3>1. CASE i \in 1..Len(run[m].queue) /\ f = run[m].queue[i]
      <4>1. f \in Item /\ EntryOK(m, f)
        BY <1>6, <2>1, <3>1 DEF QueueOK
      <4> QED BY <1>5, <4>1
    <3>2. CASE m = p /\ f = e
      BY <1>4, <3>2
    <3> QED BY <1>3, <2>2, <3>1, <3>2
  <2>3. ASSUME NEW i \in 1..Len(run'[m].queue), NEW j \in 1..Len(run'[m].queue), i < j
        PROVE  Precedes(run'[m].queue[i], run'[m].queue[j])
    <3>1. CASE /\ j \in 1..Len(run[m].queue) /\ run'[m].queue[j] = run[m].queue[j]
      <4>1. i \in 1..Len(run[m].queue) /\ run'[m].queue[i] = run[m].queue[i]
        BY <1>3, <2>3, <3>1
      <4> QED BY <2>1, <2>3, <3>1, <4>1 DEF QueueOK
    <3>2. CASE m = p /\ j = Len(run[p].queue) + 1 /\ run'[m].queue[j] = e
      <4>1. i \in 1..Len(run[m].queue) /\ run'[m].queue[i] = run[m].queue[i]
        BY <1>3, <2>3, <3>2
      <4> QED BY <1>7, <3>2, <4>1
    <3> QED BY <1>3, <3>1, <3>2
  <2> QED BY <2>2, <2>3 DEF QueueOK, EntryOK, Precedes, Catches, Said
<1>9. ASSUME NEW m \in Run, NEW i \in 1..Len(run[m].queue), run[m].queue[i].kind = "captured",
             e.kind = "captured"
      PROVE  run[m].queue[i].call # e.call
  <2>1. EntryOK(m, run[m].queue[i])
    BY DEF QueueInv, QueueOK
  <2> QED BY <1>2, <1>9, <2>1 DEF EntryOK, PushRuns
<1>10. CapturedOnce'
  <2> SUFFICES ASSUME NEW k \in Run, NEW m \in Run,
                      NEW i \in 1..Len(run'[k].queue), NEW j \in 1..Len(run'[m].queue),
                      run'[k].queue[i].kind = "captured",
                      Catches(run'[m].queue[j], run'[k].queue[i].call)
               PROVE  k = m /\ i = j
    BY DEF CapturedOnce, Catches
  <2> DEFINE Old(c, h) == h \in 1..Len(run[c].queue) /\ run'[c].queue[h] = run[c].queue[h]
             New(c, h) == c = p /\ h = Len(run[p].queue) + 1 /\ run'[c].queue[h] = e
  <2>1. (Old(k, i) \/ New(k, i)) /\ (Old(m, j) \/ New(m, j))
    BY <1>3
  <2>2. CASE Old(k, i) /\ Old(m, j)
    BY <2>2 DEF QueueInv, CapturedOnce
  <2>3. CASE Old(k, i) /\ New(m, j)
    BY <1>9, <2>3 DEF Catches
  <2>4. CASE New(k, i) /\ Old(m, j)
    BY <1>9, <2>4 DEF Catches
  <2>5. CASE New(k, i) /\ New(m, j)
    BY <2>5
  <2> QED BY <2>1, <2>2, <2>3, <2>4, <2>5
<1> QED BY <1>8, <1>10 DEF QueueInv

LEMMA PushLies ==
  ASSUME HubType, HubInv, NEW n, NEW p, NEW e, Pushes(n, p, e)
  PROVE  /\ \A x : Said(x) /\ Uncaught(x) => Uncaught(x)'
         /\ \A m \in Run : \A x : Lies(m, x) => Lies(m, x)'
         /\ \A m \in Run : Quiet(m) => Quiet(m)'
<1>1. PushRuns(n, p, e)
  BY DEF Pushes
<1>2. /\ \A m \in Run : \A i \in 1..Len(run'[m].queue) :
           \/ i \in 1..Len(run[m].queue) /\ run'[m].queue[i] = run[m].queue[i]
           \/ m = p /\ i = Len(run[p].queue) + 1 /\ run'[m].queue[i] = e
      /\ \A m \in Run : \A i \in 1..Len(run[m].queue) :
           i \in 1..Len(run'[m].queue) /\ run'[m].queue[i] = run[m].queue[i]
  BY <1>1, PushEntries
<1>3. ASSUME NEW x, Said(x), Uncaught(x) PROVE Uncaught(x)'
  <2>1. ~Catches(e, x)
    BY <1>1, <1>3 DEF PushRuns, Catches
  <2> SUFFICES ASSUME NEW m \in Run, NEW i \in 1..Len(run'[m].queue),
                      Catches(run'[m].queue[i], x)
               PROVE  FALSE
    BY DEF Uncaught, Lies, Catches
  <2> QED BY <1>2, <1>3, <2>1 DEF Uncaught, Lies
<1>4. ASSUME NEW m \in Run, NEW x, Lies(m, x) PROVE Lies(m, x)'
  <2>1. PICK i \in 1..Len(run[m].queue) : Catches(run[m].queue[i], x)
    BY <1>4 DEF Lies
  <2>2. i \in 1..Len(run'[m].queue) /\ Catches(run'[m].queue[i], x)
    BY <1>2, <2>1
  <2> QED BY <2>2 DEF Lies, Catches
<1>5. ASSUME NEW m \in Run, Quiet(m) PROVE Quiet(m)'
  <2>1. m # n /\ run'[m].phase = "ended"
    BY <1>1, <1>5 DEF Quiet, PushRuns
  <2>2. ASSUME NEW i \in 1..Len(run'[m].queue) PROVE run'[m].queue[i].kind # "told"
    <3>1. CASE i \in 1..Len(run[m].queue) /\ run'[m].queue[i] = run[m].queue[i]
      BY <1>5, <3>1 DEF Quiet, Untold
    <3>2. CASE m = p /\ run'[m].queue[i] = e
      BY <1>1, <2>1, <3>2 DEF PushRuns
    <3> QED BY <1>2, <3>1, <3>2
  <2> QED BY <2>1, <2>2 DEF Quiet, Untold
<1> QED BY <1>3, <1>4, <1>5

LEMMA PushCalls ==
  ASSUME HubType, HubInv, QueueInv, CallsInv, NEW n, NEW p, NEW e, Pushes(n, p, e)
  PROVE  CallsInv'
<1>1. Grows /\ UNCHANGED <<current, agents, box, sends, handed>>
  BY PushPlaces DEF Pushes
<1>2. ASSUME NEW x, HandedOK(x) PROVE HandedOK(x)'
  <2>1. Said(x) /\ Said(x)' /\ Owner(x)' = Owner(x) /\ x[1] \in Run /\ Owner(x) \in Agent
    BY <1>1, <1>2, SaidGrows, OwnerType DEF HandedOK
  <2>2. Uncaught(x)'
    BY <1>2, <2>1, PushLies DEF HandedOK
  <2>3. slot'[Owner(x)].issued = slot[Owner(x)].issued
    BY <2>1 DEF Pushes, PushSlots
  <2>4. Quiet(x[1]) => Quiet(x[1])'
    BY <2>1, PushLies
  <2>5. NoMore(x) => NoMore(x)'
    BY <1>1, <2>1, <2>4 DEF NoMore
  <2> QED BY <1>2, <2>1, <2>2, <2>3, <2>5 DEF HandedOK
<1>3. ASSUME NEW b \in Agent, NEW x \in slot'[b].pending
      PROVE  Said(x)' /\ (x \in handed' => Owner(x)' = b)
  <2>1. CASE x \in slot[b].pending
    <3>1. Said(x) /\ (x \in handed => Owner(x) = b)
      BY <2>1 DEF CallsInv
    <3> QED BY <1>1, <3>1, SaidGrows
  <2>2. CASE e.kind = "captured" /\ x = e.call
    <3>1. ~Said(x)
      BY <2>2 DEF Pushes, PushRuns
    <3>2. x \notin handed'
      BY <1>1, <3>1 DEF CallsInv, HandedOK
    <3>3. n \in Run /\ n <= sends /\ x \in Exec /\ x[1] = n /\ x[2] <= run'[n].said
      BY <2>2, PushPlaces DEF Pushes, PushRuns
    <3>4. Said(x)'
      BY <1>1, <3>3 DEF Said
    <3> QED BY <3>2, <3>4
  <2> QED BY <1>3, <2>1, <2>2 DEF Pushes, PushSlots
<1>4. \A x \in handed' : HandedOK(x)'
  BY <1>1, <1>2 DEF CallsInv
<1> QED BY <1>3, <1>4 DEF CallsInv

LEMMA PushReq ==
  ASSUME TypeInv, HubInv, NEW n, NEW p, NEW e, Pushes(n, p, e), NEW r \in Request, ReqOK(r)
  PROVE  ReqOK(r)'
<1> USE DEF TypeInv
<1>1. Grows /\ UNCHANGED <<current, agents, box, sends, holder, req, handed>>
  BY PushPlaces DEF Pushes
<1>2. ASSUME req[r].pc \in Slotted
      PROVE  /\ req[r].slot \in Agent /\ Pump(r)' = Pump(r)
             /\ Mine(r)'.state = Mine(r).state
             /\ Pump(r) # None => Pump(r) \in Run
  <2>1. req[r].slot \in Agent
    BY <1>2 DEF ReqOK, ReqType, Locals
  <2>2. slot'[req[r].slot].pump = slot[req[r].slot].pump
        /\ slot'[req[r].slot].state = slot[req[r].slot].state
    BY <2>1 DEF Pushes, PushSlots
  <2>3. slot[req[r].slot] \in SlotRec
    BY <2>1 DEF HubType
  <2>4. slot[req[r].slot].pump \in Run \cup {None}
    BY <2>3 DEF SlotRec
  <2> QED BY <1>1, <2>1, <2>2, <2>4 DEF Pump, Mine
<1>3. req[r].pc = "awaiting" => run'[Pump(r)].phase = "sending"
  <2> SUFFICES ASSUME req[r].pc = "awaiting" PROVE run'[Pump(r)].phase = "sending"
    OBVIOUS
  <2>1. Pump(r) \in Run /\ run[Pump(r)].phase = "sending"
    BY <1>2 DEF ReqOK, Slotted
  <2> QED BY <2>1 DEF Pushes, PushRuns
<1>4. req[r].pc = "ending" => Quiet(Pump(r))'
  <2> SUFFICES ASSUME req[r].pc = "ending" PROVE Quiet(Pump(r))'
    OBVIOUS
  <2>1. PICK k \in Run : k = Pump(r)
    BY <1>2 DEF ReqOK, Slotted, Late, Reading
  <2>2. Quiet(k)
    BY <2>1 DEF ReqOK
  <2>3. Quiet(k)'
    BY <2>2, PushLies
  <2>4. Pump(r)' = k
    BY <1>2, <2>1 DEF Slotted, Late, Reading
  <2> QED BY <2>3, <2>4 DEF Quiet, Untold
<1>5. ASSUME NEW x \in Seen(r) PROVE SeenOK(r, x)'
  <2>1. SeenOK(r, x) /\ Said(x) /\ Owner(x) = req[r].slot /\ Uncaught(x)
    BY <1>5 DEF ReqOK, SeenOK
  <2>2. Said(x)' /\ Owner(x)' = Owner(x) /\ Owner(x) \in Agent
    BY <1>1, <2>1, SaidGrows, OwnerType
  <2>3. Uncaught(x)'
    BY <2>1, PushLies
  <2>4. slot'[req[r].slot].issued = slot[req[r].slot].issued
    BY <2>1, <2>2 DEF Pushes, PushSlots
  <2> QED BY <1>1, <2>1, <2>2, <2>3, <2>4 DEF SeenOK, Mine
<1>6. Seen(r)' = Seen(r)
  BY <1>1 DEF Seen
<1>7. req[r].pc \in Reading \cup {"awaiting", "ending"} => req[r].pc \in Slotted
  BY DEF Slotted, Late, Reading
<1>8. req[r].pc = "awaiting" => (current = req[r].slot /\ Mine(r).state = "running" /\ Pump(r) # None)
  BY DEF ReqOK
<1>9. req[r].pc = "awaiting" =>
        /\ current' = req'[r].slot /\ Mine(r)'.state = "running" /\ Pump(r)' # None
        /\ run'[Pump(r)'].phase = "sending"
  BY <1>1, <1>2, <1>3, <1>7, <1>8
<1>10. req[r].pc \in Reading => Pump(r)' # None
  BY <1>2, <1>7 DEF ReqOK
<1>11. \A x \in Seen(r)' : SeenOK(r, x)'
  BY <1>5, <1>6
<1> QED BY <1>1, <1>4, <1>9, <1>10, <1>11 DEF ReqOK

LEMMA PushHeld ==
  ASSUME HubType, HubInv, CallsInv, HeldInv, NEW n, NEW p, NEW e, Pushes(n, p, e)
  PROVE  HeldInv'
<1>1. /\ n \in Run /\ p \in Run /\ run[n].agent \in Agent /\ Grows
      /\ e.kind = "captured" => p = box[run[n].agent]
      /\ PushRuns(n, p, e) /\ UNCHANGED <<current, req, handed, brokenOff>>
  BY PushPlaces DEF Pushes
<1> SUFFICES ASSUME current # None, current \in Agent,
                    NEW x \in slot'[current].pending, NEW k, k = slot[current].pump, x[1] = k,
                    ~run'[k].lost
             PROVE  Kept(x)'
  BY <1>1 DEF HeldInv, HubType, Pushes, PushSlots
<1>2. CASE x \in slot[current].pending
  <2>1. Said(x) /\ k \in Run
    BY <1>1, <1>2, SaidGrows DEF CallsInv
  <2>2. ~run[k].lost
    BY <1>1, <2>1 DEF PushRuns
  <2>3. Kept(x)
    BY <1>2, <2>2 DEF HeldInv
  <2>4. Lies(k, x) => Lies(k, x)'
    BY <2>1, PushLies
  <2> QED BY <1>1, <2>3, <2>4 DEF Kept, Carried, Lies
<1>3. CASE e.kind = "captured" /\ x = e.call
  <2>1. x[1] = n /\ k = n
    BY <1>1, <1>3 DEF PushRuns
  <2>2. SlotOK(current)
    BY DEF HubInv
  <2>3. box[current] = n /\ run[n].agent = current
    BY <1>1, <2>1, <2>2, Numbers DEF SlotOK
  <2>4. p = n
    BY <1>1, <1>3, <2>3
  <2>5. /\ Len(run[p].queue) + 1 \in 1..Len(run'[p].queue)
        /\ run'[p].queue[Len(run[p].queue) + 1] = e
    BY <1>1, <2>1, <2>4, PushEntries
  <2>6. Lies(p, x)'
    BY <1>3, <2>5 DEF Lies, Catches
  <2> QED BY <2>1, <2>4, <2>6 DEF Kept, Lies
<1> QED BY <1>2, <1>3 DEF Pushes, PushSlots

LEMMA PushStep ==
  ASSUME IInv, NEW n, NEW p, NEW e, Pushes(n, p, e)
  PROVE  IInv'
<1> USE DEF IInv, TypeInv
<1>1. HubType' /\ HubInv' /\ QueueInv' /\ CallsInv' /\ HeldInv'
  BY PushHub, PushQueues, PushCalls, PushHeld
<1>2. ReqInv'
  BY PushReq DEF ReqInv
<1>3. ReqType' /\ ClientType'
  BY DEF ReqType, ClientType, Pushes
<1>4. FreeIsSettled'
  <2>1. /\ UNCHANGED <<current, holder>>
        /\ \A b \in Agent : slot'[b].state = slot[b].state
    BY DEF Pushes, PushSlots
  <2> QED BY <2>1 DEF FreeIsSettled, HubType
<1> QED BY <1>1, <1>2, <1>3, <1>4

LEMMA PushedRec ==
  ASSUME NEW s \in RunRec, NEW e \in Item
  PROVE  /\ Pushed(s, e) \in RunRec
         /\ Pushed(s, e).agent = s.agent /\ Pushed(s, e).said = s.said
         /\ Pushed(s, e).phase = s.phase
         /\ s.lost => Pushed(s, e).lost
         /\ \/ Pushed(s, e).queue = s.queue /\ Pushed(s, e).lost
            \/ Pushed(s, e).queue = Append(s.queue, e)
<1>1. CASE s.deaf > 0
  <2> DEFINE d == s.deaf - 1
  <2>1. s.deaf \in Nat
    BY DEF RunRec
  <2>2. d \in Nat
    BY <1>1, <2>1
  <2> HIDE DEF d
  <2> DEFINE t == [s EXCEPT !.deaf = d, !.lost = TRUE]
  <2>3. t \in RunRec /\ t.agent = s.agent /\ t.said = s.said /\ t.phase = s.phase
        /\ t.queue = s.queue /\ t.lost
    BY <2>2 DEF RunRec
  <2>4. Pushed(s, e) = t
    BY <1>1 DEF Pushed, d
  <2> QED BY <2>3, <2>4
<1>2. CASE ~(s.deaf > 0)
  <2> DEFINE u == Append(s.queue, e)
  <2>1. u \in Seq(Item)
    BY DEF RunRec
  <2> HIDE DEF u
  <2> DEFINE t == [s EXCEPT !.queue = u]
  <2>2. t \in RunRec /\ t.agent = s.agent /\ t.said = s.said /\ t.phase = s.phase
        /\ t.queue = u /\ t.lost = s.lost
    BY <2>1 DEF RunRec
  <2>3. Pushed(s, e) = t
    BY <1>2 DEF Pushed, u
  <2> QED BY <2>2, <2>3 DEF u
<1> QED BY <1>1, <1>2

(* What a run that is active may say.                                      *)
LEMMA Speaker ==
  ASSUME IInv, NEW n \in Run, Active(n)
  PROVE  /\ run[n] \in RunRec /\ run[n].said \in 0..MaxSaid /\ n \in Nat /\ n <= sends
         /\ run[n].agent \in Agent /\ box[run[n].agent] \in Run
         /\ run[n].phase \in {"sending", "live", "cancelling"}
<1>1. run[n] \in RunRec /\ RunOK(n) /\ n \in Nat /\ n > 0
  BY Numbers DEF IInv, TypeInv, HubType, HubInv, Run
<1>2. n <= sends /\ run[n].agent \in Agent /\ n <= box[run[n].agent]
  BY <1>1 DEF RunOK, Active
<1> DEFINE b == box[run[n].agent]
<1>3. b \in Run \cup {None}
  BY <1>2 DEF IInv, TypeInv, HubType
<1>4. b # None
  <2>1. n <= b
    BY <1>2
  <2> HIDE DEF b
  <2> QED BY <1>1, <2>1 DEF None
<1>5. run[n].said \in 0..MaxSaid
  BY <1>1 DEF RunRec
<1> QED BY <1>1, <1>2, <1>3, <1>4, <1>5 DEF Active

LEMMA SlotsStand ==
  ASSUME HubType, slot' = slot, NEW e
  PROVE  PushSlots(e)
BY DEF PushSlots, HubType

LEMMA SayStep ==
  ASSUME IInv, NEW n \in Run, Say(n)
  PROVE  IInv'
<1>1. /\ run[n] \in RunRec /\ run[n].said \in 0..MaxSaid /\ n \in Nat /\ n <= sends
      /\ run[n].phase \in {"sending", "live", "cancelling"} /\ run[n].said < MaxSaid
  BY Speaker DEF Say
<1>2. PICK e \in [kind : {"text", "marker"}, call : {<<n, 0>>}]
                  \cup [kind : {"told"}, call : {n} \X (1..run[n].said)] :
        run' = [run EXCEPT ![n] = [Pushed(run[n], e) EXCEPT !.said = @ + 1]]
  BY DEF Say
<1>3. e \in Item /\ e.call[1] = n /\ e.kind \in {"text", "marker", "told"}
  <2>1. CASE e \in [kind : {"text", "marker"}, call : {<<n, 0>>}]
    BY <2>1, Numbers DEF Item
  <2>2. CASE e \in [kind : {"told"}, call : {n} \X (1..run[n].said)]
    <3>1. 1..run[n].said \subseteq 0..MaxSaid
      BY <1>1, Numbers
    <3>2. e.call \in {n} \X (1..run[n].said) /\ e.kind = "told"
      BY <2>2
    <3>3. e.call \in Run \X (0..MaxSaid) /\ e.call[1] = n
      BY <3>1, <3>2
    <3> QED BY <2>2, <3>2, <3>3 DEF Item
  <2> QED BY <1>2, <2>1, <2>2
<1>4. e.kind = "told" => Said(e.call)
  <2> SUFFICES ASSUME e.kind = "told" PROVE Said(e.call)
    OBVIOUS
  <2>1. e.call \in {n} \X (1..run[n].said)
    BY <1>2
  <2>2. 1..run[n].said \subseteq 1..MaxSaid
    BY <1>1, Numbers
  <2>3. e.call \in Exec /\ e.call[1] = n /\ e.call[2] \in 1..run[n].said
    BY <2>1, <2>2 DEF Exec
  <2> QED BY <1>1, <2>3 DEF Said
<1> DEFINE t == Pushed(run[n], e)
           k == t.said + 1
           v == [t EXCEPT !.said = k]
<1>5. /\ t \in RunRec /\ t.agent = run[n].agent /\ t.said = run[n].said /\ t.phase = run[n].phase
      /\ run[n].lost => t.lost
      /\ \/ t.queue = run[n].queue /\ t.lost
         \/ t.queue = Append(run[n].queue, e)
  BY <1>1, <1>3, PushedRec
<1>6. k \in 0..MaxSaid /\ run[n].said <= k
  BY <1>1, <1>5, Numbers
<1>7. run' = [run EXCEPT ![n] = v]
  BY <1>2
<1> HIDE DEF t, k
<1>8. /\ v \in RunRec /\ v.agent = t.agent /\ v.said = k /\ v.phase = t.phase
      /\ v.lost = t.lost /\ v.queue = t.queue
  BY <1>5, <1>6 DEF RunRec
<1> HIDE DEF v
<1>9. run' \in [Run -> RunRec] /\ run'[n] = v /\ \A m \in Run \ {n} : run'[m] = run[m]
  BY <1>7, <1>8 DEF IInv, TypeInv, HubType
<1>10. \A m \in Run : run[m].said <= run'[m].said
  <2>1. \A m \in Run : run[m] \in RunRec
    BY DEF IInv, TypeInv, HubType
  <2>2. \A m \in Run : run[m].said \in Nat
    BY <2>1 DEF RunRec
  <2> QED BY <1>6, <1>8, <1>9, <2>2
<1>11. PushQueue(n, e)
  BY <1>5, <1>8, <1>9 DEF PushQueue
<1>12. PushRuns(n, n, e)
  BY <1>1, <1>3, <1>4, <1>5, <1>8, <1>9, <1>10, <1>11 DEF PushRuns
<1>13. Pushes(n, n, e)
  BY <1>12, SlotsStand DEF Pushes, Say, client, IInv, TypeInv
<1> QED BY <1>13, PushStep

LEMMA EndStep ==
  ASSUME IInv, NEW n \in Run, End(n)
  PROVE  IInv'
<1> DEFINE e == [kind |-> "end", call |-> <<n, 0>>]
           t == Pushed(run[n], e)
           v == [t EXCEPT !.phase = "ended"]
<1>1. /\ run[n] \in RunRec /\ run[n].phase \in {"live", "cancelling"}
  BY DEF End, IInv, TypeInv, HubType
<1>2. run' = [run EXCEPT ![n] = v]
  BY DEF End
<1>3. e \in Item /\ e.kind = "end" /\ e.call[1] = n
  BY Numbers DEF Item
<1> HIDE DEF e
<1>4. /\ t \in RunRec /\ t.agent = run[n].agent /\ t.said = run[n].said
      /\ run[n].lost => t.lost
      /\ \/ t.queue = run[n].queue /\ t.lost
         \/ t.queue = Append(run[n].queue, e)
  BY <1>1, <1>3, PushedRec
<1> HIDE DEF t
<1>5. /\ v \in RunRec /\ v.agent = t.agent /\ v.said = t.said /\ v.phase = "ended"
      /\ v.lost = t.lost /\ v.queue = t.queue
  BY <1>4 DEF RunRec, Phase
<1> HIDE DEF v
<1>6. run' \in [Run -> RunRec] /\ run'[n] = v /\ \A m \in Run \ {n} : run'[m] = run[m]
  BY <1>2, <1>5 DEF IInv, TypeInv, HubType
<1>7. \A m \in Run : run[m].said <= run'[m].said
  <2>1. \A m \in Run : run[m] \in RunRec
    BY DEF IInv, TypeInv, HubType
  <2>2. \A m \in Run : run[m].said \in Nat
    BY <2>1 DEF RunRec
  <2> QED BY <1>4, <1>5, <1>6, <2>2
<1>8. PushQueue(n, e)
  BY <1>4, <1>5, <1>6 DEF PushQueue
<1>9. PushRuns(n, n, e)
  BY <1>1, <1>3, <1>4, <1>5, <1>6, <1>7, <1>8 DEF PushRuns
<1>10. Pushes(n, n, e)
  BY <1>9, SlotsStand DEF Pushes, End, client, IInv, TypeInv
<1> QED BY <1>10, PushStep

LEMMA ExecuteStep ==
  ASSUME IInv, NEW n \in Run, Execute(n)
  PROVE  IInv'
<1> DEFINE k == run[n].said + 1
           x == <<n, k>>
           e == [kind |-> "captured", call |-> x]
           w == [run[n] EXCEPT !.said = k]
           rs == [run EXCEPT ![n] = w]
<1>1. /\ run[n] \in RunRec /\ run[n].said \in 0..MaxSaid /\ n \in Nat /\ n <= sends
      /\ run[n].agent \in Agent /\ box[run[n].agent] \in Run
      /\ run[n].phase \in {"sending", "live", "cancelling"} /\ run[n].said < MaxSaid
  BY Speaker DEF Execute
<1>2. PICK p \in Run : p = box[run[n].agent]
  BY <1>1
<1>3. run' = [rs EXCEPT ![p] = Pushed(@, e)]
  BY <1>2 DEF Execute
<1>4. slot' = IF current = None THEN slot ELSE [slot EXCEPT ![current].pending = @ \cup {x}]
  BY DEF Execute
<1>5. k \in 0..MaxSaid /\ k \in 1..MaxSaid /\ run[n].said <= k /\ ~(k <= run[n].said)
  BY <1>1, Numbers
<1> HIDE DEF k
<1>6. x \in Exec /\ x[1] = n /\ x[2] = k /\ ~Said(x)
  BY <1>5 DEF Exec, Said
<1>7. e \in Item /\ e.kind = "captured" /\ e.call = x
  BY <1>5 DEF Item
<1>8. /\ w \in RunRec /\ w.agent = run[n].agent /\ w.said = k /\ w.phase = run[n].phase
      /\ w.lost = run[n].lost /\ w.queue = run[n].queue
  BY <1>1, <1>5 DEF RunRec
<1> HIDE DEF x, e, w
<1>9. rs \in [Run -> RunRec] /\ rs[n] = w /\ \A m \in Run \ {n} : rs[m] = run[m]
  BY <1>8 DEF IInv, TypeInv, HubType
<1> HIDE DEF rs
<1>10. \A m \in Run : /\ rs[m].agent = run[m].agent /\ rs[m].phase = run[m].phase
                      /\ rs[m].lost = run[m].lost /\ rs[m].queue = run[m].queue
  BY <1>8, <1>9
<1> DEFINE t == Pushed(rs[p], e)
<1>11. /\ t \in RunRec /\ t.agent = rs[p].agent /\ t.said = rs[p].said /\ t.phase = rs[p].phase
       /\ rs[p].lost => t.lost
       /\ \/ t.queue = rs[p].queue /\ t.lost
          \/ t.queue = Append(rs[p].queue, e)
  BY <1>7, <1>9, PushedRec
<1>12. run' = [rs EXCEPT ![p] = t]
  BY <1>3
<1> HIDE DEF t
<1>13. run' \in [Run -> RunRec] /\ run'[p] = t /\ \A m \in Run \ {p} : run'[m] = rs[m]
  BY <1>9, <1>11, <1>12
<1>14. \A m \in Run : /\ run'[m].agent = run[m].agent /\ run'[m].phase = run[m].phase
                      /\ run'[m].said = rs[m].said
                      /\ run[m].lost => run'[m].lost
                      /\ m # p => run'[m].queue = run[m].queue
  BY <1>10, <1>11, <1>13
<1>15. \A m \in Run : run[m].said <= run'[m].said
  <2>1. \A m \in Run : run[m] \in RunRec
    BY DEF IInv, TypeInv, HubType
  <2>2. \A m \in Run : run[m].said \in Nat
    BY <2>1 DEF RunRec
  <2> QED BY <1>5, <1>8, <1>9, <1>14, <2>2
<1>16. PushQueue(p, e)
  BY <1>10, <1>11, <1>13 DEF PushQueue
<1>17. run'[n].said = k
  BY <1>8, <1>9, <1>14
<1>18. x[2] <= run'[n].said
  BY <1>5, <1>6, <1>17
<1>19. PushRuns(n, p, e)
  BY <1>1, <1>2, <1>6, <1>7, <1>13, <1>14, <1>15, <1>16, <1>18 DEF PushRuns
<1>20. PushSlots(e)
  <2>1. CASE current = None
    BY <1>4, <2>1, SlotsStand DEF IInv, TypeInv
  <2>2. CASE current # None
    <3> DEFINE P == slot[current].pending \cup {x}
               s == [slot[current] EXCEPT !.pending = P]
    <3>1. current \in Agent /\ slot[current] \in SlotRec
      BY <2>2 DEF IInv, TypeInv, HubType
    <3>2. P \in SUBSET Exec
      BY <1>6, <3>1 DEF SlotRec
    <3>3. slot' = [slot EXCEPT ![current] = s]
      BY <1>4, <2>2
    <3> HIDE DEF P
    <3>4. /\ s \in SlotRec /\ s.pending = P /\ s.pump = slot[current].pump
          /\ s.issued = slot[current].issued /\ s.state = slot[current].state
      BY <3>1, <3>2 DEF SlotRec
    <3> HIDE DEF s
    <3>5. slot' \in [Agent -> SlotRec] /\ slot'[current] = s
          /\ \A b \in Agent \ {current} : slot'[b] = slot[b]
      BY <3>1, <3>3, <3>4 DEF IInv, TypeInv, HubType
    <3>6. \A y \in P : y \in slot[current].pending \/ y = e.call
      BY <1>7 DEF P
    <3>7. ASSUME NEW b \in Agent
          PROVE  /\ slot'[b].pump = slot[b].pump /\ slot'[b].issued = slot[b].issued
                 /\ slot'[b].state = slot[b].state
                 /\ b # current => slot'[b] = slot[b]
                 /\ \A y \in slot'[b].pending : y \in slot[b].pending \/ y = e.call
      BY <3>4, <3>5, <3>6
    <3> QED BY <1>7, <3>5, <3>7 DEF PushSlots
  <2> QED BY <2>1, <2>2
<1>21. Pushes(n, p, e)
  BY <1>19, <1>20 DEF Pushes, Execute, client
<1> QED BY <1>21, PushStep

----------------------------------------------------------------------------
(* The invariant.                                                          *)

LEMMA InitIInv == Init => IInv
<1> SUFFICES ASSUME Init PROVE IInv
  OBVIOUS
<1>1. NewSlot("dead") \in SlotRec /\ NewSlot("dead").pending = {} /\ NewSlot("dead").pump = None
      /\ NewSlot("dead").issued = {}
  BY DEF NewSlot, SlotRec, State
<1>2. /\ NewRun(None, "none") \in RunRec /\ NewRun(None, "none").phase = "none"
      /\ NewRun(None, "none").queue = <<>>
  <2>1. 0 \in 0..MaxSaid /\ 0 \in Nat /\ <<>> \in Seq(Item)
    BY Numbers
  <2> QED BY <2>1 DEF NewRun, RunRec, Phase
<1>3. HubType
  <2>1. 0 \in 0..MaxAgents /\ 0 \in 0..MaxRuns
    BY Numbers
  <2> QED BY <1>1, <1>2, <2>1 DEF Init, HubType
<1>4. HubInv
  <2>1. \A a \in Agent : SlotOK(a)
    BY <1>1 DEF Init, SlotOK
  <2>2. ASSUME NEW n \in Run PROVE RunOK(n)
    <3>1. ~(n <= sends)
      BY DEF Init, Run
    <3>2. run[n] = NewRun(None, "none")
      BY DEF Init
    <3> QED BY <1>2, <3>1, <3>2 DEF RunOK
  <2>3. current <= agents
    BY Numbers DEF Init
  <2> QED BY <2>1, <2>2, <2>3 DEF HubInv
<1>5. QueueInv
  <2>1. \A n \in Run : run[n].queue = <<>>
    BY <1>2 DEF Init
  <2>2. \A n \in Run : 1..Len(run[n].queue) = {}
    BY <2>1
  <2> QED BY <2>2 DEF QueueInv, CapturedOnce, QueueOK
<1>6. CallsInv
  BY <1>1 DEF Init, CallsInv
<1>7. ASSUME NEW r \in Request PROVE req[r] \in Locals /\ ReqOK(r)
  <2> DEFINE l == NoLocals("new")
  <2>1. l \in Locals /\ l.pc = "new" /\ l.results = {} /\ l.slot = None /\ l.caught = {}
        /\ l.told = {}
    BY NoLocalsType DEF Place, Outside
  <2>2. req[r] = l
    BY DEF Init
  <2> HIDE DEF l
  <2>3. Seen(r) = {}
    BY <2>1, <2>2 DEF Seen, Reading
  <2>4. holder # r /\ None <= agents
    BY NobodyAssumption, Numbers DEF Init
  <2> QED BY <2>1, <2>2, <2>3, <2>4 DEF ReqOK, Outside, Slotted, Late, Reading, Unmade
<1>8. ReqType
  <2>1. req \in [Request -> Locals]
    BY <1>7 DEF Init
  <2> QED BY <2>1 DEF Init, ReqType
<1>9. ClientType /\ FreeIsSettled /\ HeldInv
  BY DEF Init, ClientType, FreeIsSettled, HeldInv
<1> QED BY <1>3, <1>4, <1>5, <1>6, <1>7, <1>8, <1>9 DEF IInv, TypeInv, ReqInv

LEMMA StepIInv ==
  ASSUME IInv, NEW r \in Request, Step(r)
  PROVE  IInv'
<1>1. CASE \/ Refuse(r) \/ LookForAgent(r) \/ NoSlot(r) \/ Retry(r) \/ Ignore(r)
           \/ LeaveMarking(r) \/ EndFailed(r) \/ EndHeld(r)
  BY <1>1, StillSteps
<1>2. CASE Enter(r) \/ Replace(r) \/ Reuse(r) \/ PutSlot(r)
  BY <1>2, EnterStep, ReplaceStep, ReuseStep, PutSlotStep
<1>3. CASE Resolve(r) \/ AbortHung(r) \/ Aborted(r)
  BY <1>3, ResolveStep, AbortHungStep, AbortedStep
<1>4. CASE Send(r) \/ Sent(r) \/ SendFailed(r)
  BY <1>4, SendStep, SentStep, SendFailedStep
<1>5. CASE Take(r) \/ HttpAbort(r) \/ Park(r)
  BY <1>5, TakeStep, HttpAbortStep, ParkStep
<1>6. CASE Hand(r) \/ LeaveHanding(r) \/ EndTools(r)
  BY <1>6, HandStep, LeaveHandingStep, EndToolsStep
<1>7. CASE Mark(r) \/ Keep(r) \/ Waited(r)
  BY <1>7, MarkStep, KeepStep, WaitedStep
<1>8. CASE Close(r) \/ Settle(r)
  BY <1>8, CloseStep, SettleStep
<1> QED BY <1>1, <1>2, <1>3, <1>4, <1>5, <1>6, <1>7, <1>8 DEF Step

LEMMA StutterIInv == IInv /\ UNCHANGED vars => IInv'
<1> SUFFICES ASSUME IInv, UNCHANGED vars PROVE IInv'
  OBVIOUS
<1> USE DEF IInv, TypeInv
<1>1. UNCHANGED <<hub, client>> /\ req' = req /\ holder' = holder
      /\ UNCHANGED <<current, agents, slot, box, sends, run, handed, brokenOff>>
  BY DEF vars, hub, client
<1>2. HubStep /\ SameQueues
  BY <1>1, StillHub
<1>3. HubType' /\ HubInv' /\ QueueInv' /\ CallsInv' /\ ClientType'
  BY <1>1, <1>2, HubKept, QueuesKept, CallsKept DEF HubStep, ClientType
<1>4. ASSUME NEW q \in Request PROVE ReqOK(q)'
  <2>1. ReqOK(q)
    BY DEF ReqInv
  <2>2. Pump(q)' = Pump(q) /\ Seen(q)' = Seen(q) /\ (Quiet(Pump(q))' <=> Quiet(Pump(q)))
        /\ Mine(q)' = Mine(q)
    BY <1>1 DEF Pump, Mine, Seen, Quiet, Untold
  <2>3. \A x \in Seen(q) : SeenOK(q, x)'
    BY <1>1, <2>1 DEF ReqOK, SeenOK, Said, Owner, Uncaught, Lies, Mine
  <2> QED BY <1>1, <2>1, <2>2, <2>3 DEF ReqOK
<1>5. ReqType' /\ ReqInv' /\ FreeIsSettled'
  BY <1>1, <1>4 DEF ReqType, ReqInv, FreeIsSettled
<1>6. HeldInv'
  <2>1. \A q \in Request : \A x : Carried(q, x) => Carried(q, x)'
    BY <1>1 DEF Carried
  <2> QED BY <1>1, <1>2, <2>1, HeldKept DEF SameQueues
<1> QED BY <1>3, <1>5, <1>6

LEMMA NextIInv == IInv /\ [Next]_vars => IInv'
<1> SUFFICES ASSUME IInv, [Next]_vars PROVE IInv'
  OBVIOUS
<1>1. CASE \E r \in Request : Arrive(r) \/ LeaveLine(r) \/ Step(r)
  BY <1>1, ArriveStep, LeaveLineStep, StepIInv
<1>2. CASE \E n \in Run : Say(n) \/ Execute(n) \/ End(n)
  BY <1>2, SayStep, ExecuteStep, EndStep
<1>3. CASE Evict
  BY <1>3, EvictStep
<1>4. CASE UNCHANGED vars
  BY <1>4, StutterIInv
<1> QED BY <1>1, <1>2, <1>3, <1>4 DEF Next

LEMMA Invariance == Spec => []IInv
<1> QED BY InitIInv, NextIInv, PTL DEF Spec

----------------------------------------------------------------------------
(* Slots, pumps and the locals of requests are what their declarations say *)
(* whatever the bounds, and the holder of the lock is the request that is  *)
(* inside.                                                                 *)
THEOREM TypeCorrect == Spec => []TypeOK
<1>1. IInv => TypeOK
  <2> SUFFICES ASSUME IInv PROVE TypeOK
    OBVIOUS
  <2>1. \A r \in Request : req[r].pc \in {"new", "queued", "gone"} <=> holder # r
    BY DEF IInv, ReqInv, ReqOK, Outside
  <2>2. handed \cup brokenOff \subseteq Exec
    BY DEF IInv, TypeInv, ClientType
  <2>3. HubType /\ holder \in Request \cup {Nobody}
    BY DEF IInv, TypeInv, ReqType
  <2> QED BY <2>1, <2>2, <2>3 DEF TypeOK, HubType, SlotRec, RunRec, State, Phase
<1> QED BY Invariance, <1>1, PTL

(* Whichever way a request ends, it leaves the lock with the slot settled: *)
(* finishTurn, and what the finally blocks do, together miss no path.      *)
THEOREM NoSlotLeftRunning == Spec => []FreeIsSettled
<1>1. IInv => FreeIsSettled
  BY DEF IInv
<1> QED BY Invariance, <1>1, PTL

(* What a dropped agent or an earlier run still says stays in its own      *)
(* pump, through any number of sends, drops and new agents.                *)
THEOREM PumpsAreOwn == Spec => []PumpIsOwn
<1>1. IInv => PumpIsOwn
  <2> SUFFICES ASSUME IInv, NEW n \in Run, NEW i \in ToSet(run[n].queue)
               PROVE  IF i.kind = "captured" THEN run[i.call[1]].agent = run[n].agent
                      ELSE i.call[1] = n
    BY DEF PumpIsOwn
  <2>1. run[n] \in RunRec /\ QueueOK(n)
    BY DEF IInv, TypeInv, HubType, QueueInv
  <2>2. PICK k \in 1..Len(run[n].queue) : i = run[n].queue[k]
    BY <2>1, QueueType DEF ToSet
  <2>3. EntryOK(n, i)
    BY <2>1, <2>2 DEF QueueOK
  <2> QED BY <2>3 DEF EntryOK
<1> QED BY Invariance, <1>1, PTL

(* No call that the run of a waiting session holds open is forgotten       *)
(* between the callback, the pump, parkHeld and the client.                *)
THEOREM NothingHeldIsForgotten == Spec => []UndeliveredStaysQueued
<1>1. IInv => UndeliveredStaysQueued
  <2> SUFFICES ASSUME IInv, holder = Nobody, current # None,
                      NEW x \in slot[current].pending, slot[current].pump = x[1],
                      ~run[x[1]].lost
               PROVE  \/ x \in handed \cup brokenOff
                      \/ \E i \in ToSet(run[x[1]].queue) : i.kind = "captured" /\ i.call = x
    BY DEF UndeliveredStaysQueued
  <2>1. Kept(x)
    BY DEF IInv, HeldInv
  <2>2. \A r \in Request : ~Carried(r, x)
    BY NobodyAssumption, OutsideSeesNothing DEF IInv, ReqInv, ReqOK
  <2>3. CASE Lies(x[1], x)
    <3>1. x[1] \in Run
      BY Pairs DEF IInv, CallsInv, TypeInv, HubType, Said
    <3>2. PICK k \in 1..Len(run[x[1]].queue) : Catches(run[x[1]].queue[k], x)
      BY <2>3 DEF Lies
    <3>3. run[x[1]].queue[k] \in ToSet(run[x[1]].queue)
      BY <3>1, <3>2, QueueType DEF ToSet, IInv, TypeInv, HubType
    <3> QED BY <3>2, <3>3 DEF Catches
  <2> QED BY <2>1, <2>2, <2>3 DEF Kept
<1> QED BY Invariance, <1>1, PTL

----------------------------------------------------------------------------
(* What a request has gathered changes only where it gathers.              *)

SameTools(r) == req'[r].tools = req[r].tools \/ req'[r].tools = {}

LEMMA GoTools ==
  ASSUME ReqType, NEW r \in Request, NEW p, Go(r, p)
  PROVE  \A q \in Request : SameTools(q)
<1> DEFINE l == [req[r] EXCEPT !.pc = p]
<1>1. l.tools = req[r].tools
  BY DEF ReqType, Locals
<1>2. req' = [req EXCEPT ![r] = l]
  BY DEF Go
<1> HIDE DEF l
<1>3. req'[r] = l /\ \A q \in Request \ {r} : req'[q] = req[q]
  BY <1>2 DEF ReqType
<1> QED BY <1>1, <1>3 DEF SameTools

LEMMA GoneTools ==
  ASSUME ReqType, NEW r \in Request, Gone(r)
  PROVE  \A q \in Request : SameTools(q)
<1>1. NoLocals("gone").tools = {}
  BY DEF NoLocals
<1>2. req'[r] = NoLocals("gone") /\ \A q \in Request \ {r} : req'[q] = req[q]
  BY DEF Gone, ReqType
<1> QED BY <1>1, <1>2 DEF SameTools

LEMMA OtherTools ==
  ASSUME ReqType, NEW r \in Request, NEW l, req' = [req EXCEPT ![r] = l],
         l.tools = req[r].tools
  PROVE  \A q \in Request : SameTools(q)
<1>1. req'[r] = l /\ \A q \in Request \ {r} : req'[q] = req[q]
  BY DEF ReqType
<1> QED BY <1>1 DEF SameTools

LEMMA StepTools ==
  ASSUME ReqType, NEW r \in Request, Step(r), ~Park(r), ~EndTools(r)
  PROVE  \A q \in Request : SameTools(q)
<1>0. req[r] \in Locals
  BY DEF ReqType
<1>1. CASE \/ Refuse(r) \/ NoSlot(r) \/ Ignore(r) \/ LeaveMarking(r) \/ EndFailed(r) \/ EndHeld(r)
           \/ Enter(r) \/ Replace(r) \/ Mark(r) \/ Keep(r) \/ Aborted(r) \/ Sent(r)
           \/ Resolve(r) \/ AbortHung(r) \/ LookForAgent(r) \/ Retry(r) \/ Send(r)
  <2>1. \E p \in Place : Go(r, p)
    BY <1>1 DEF Refuse, NoSlot, Ignore, LeaveMarking, EndFailed, EndHeld, Enter, Replace, Mark,
                Keep, Aborted, Sent, Resolve, AbortHung, LookForAgent, Retry, Send,
                Place, Outside, Unmade, Slotted, Late, Reading
  <2> QED BY <2>1, GoTools
<1>2. CASE SendFailed(r) \/ Waited(r)
  <2>1. \E p \in Place : Go(r, p)
    BY <1>2 DEF SendFailed, Waited, Place, Outside, Unmade, Slotted, Late, Reading
  <2> QED BY <2>1, GoTools
<1>3. CASE HttpAbort(r) \/ Close(r) \/ Settle(r)
  <2>1. Gone(r) \/ \E p \in Place : Go(r, p)
    BY <1>3 DEF HttpAbort, Close, Settle, Finish, Leave, Place, Slotted, Late, Reading
  <2> QED BY <2>1, GoTools, GoneTools
<1>4. CASE Reuse(r)
  <2> DEFINE l == [req[r] EXCEPT !.pc = "turning", !.slot = current]
  <2>1. l.tools = req[r].tools
    BY <1>0 DEF Locals
  <2>2. req' = [req EXCEPT ![r] = l]
    BY <1>0, <1>4 DEF Reuse, Locals
  <2> HIDE DEF l
  <2> QED BY <2>1, <2>2, OtherTools
<1>5. CASE PutSlot(r)
  <2>1. PICK p, a, f : req' = [req EXCEPT ![r].pc = p, ![r].slot = a, ![r].first = f]
    BY <1>5 DEF PutSlot
  <2> DEFINE l == [req[r] EXCEPT !.pc = p, !.slot = a, !.first = f]
  <2>2. l.tools = req[r].tools
    BY <1>0 DEF Locals
  <2>3. req' = [req EXCEPT ![r] = l]
    BY <1>0, <2>1 DEF Locals
  <2> HIDE DEF l
  <2> QED BY <2>2, <2>3, OtherTools
<1>6. CASE Take(r)
  <2>1. PICK p, o, C, T :
          req' = [req EXCEPT ![r].pc = p, ![r].out = o, ![r].caught = C, ![r].told = T]
    BY <1>6 DEF Take
  <2> DEFINE l == [req[r] EXCEPT !.pc = p, !.out = o, !.caught = C, !.told = T]
  <2>2. l.tools = req[r].tools
    BY <1>0 DEF Locals
  <2>3. req' = [req EXCEPT ![r] = l]
    BY <1>0, <2>1 DEF Locals
  <2> HIDE DEF l
  <2> QED BY <2>2, <2>3, OtherTools
<1>7. CASE Hand(r) \/ LeaveHanding(r)
  <2>1. PICK p, o : req' = [req EXCEPT ![r].pc = p, ![r].out = o]
    BY <1>7 DEF Hand, LeaveHanding
  <2> DEFINE l == [req[r] EXCEPT !.pc = p, !.out = o]
  <2>2. l.tools = req[r].tools
    BY <1>0 DEF Locals
  <2>3. req' = [req EXCEPT ![r] = l]
    BY <1>0, <2>1 DEF Locals
  <2> HIDE DEF l
  <2> QED BY <2>2, <2>3, OtherTools
<1> QED BY <1>1, <1>2, <1>3, <1>4, <1>5, <1>6, <1>7 DEF Step

LEMMA ArriveTools ==
  ASSUME ReqType, NEW r \in Request, Arrive(r)
  PROVE  \A q \in Request : SameTools(q)
<1>0. req[r] \in Locals
  BY DEF ReqType
<1>1. CASE Gone(r)
  BY <1>1, GoneTools
<1>2. CASE \E p, k, R : req' = [req EXCEPT ![r].pc = p, ![r].kind = k, ![r].results = R]
  <2>1. PICK p, k, R : req' = [req EXCEPT ![r].pc = p, ![r].kind = k, ![r].results = R]
    BY <1>2
  <2> DEFINE l == [req[r] EXCEPT !.pc = p, !.kind = k, !.results = R]
  <2>2. l.tools = req[r].tools
    BY <1>0 DEF Locals
  <2>3. req' = [req EXCEPT ![r] = l]
    BY <1>0, <2>1 DEF Locals
  <2> HIDE DEF l
  <2> QED BY <2>2, <2>3, OtherTools
<1> QED BY <1>1, <1>2 DEF Arrive

LEMMA NextTools ==
  ASSUME ReqType, Next, \A r \in Request : ~Park(r) /\ ~EndTools(r)
  PROVE  \A q \in Request : SameTools(q)
<1>1. CASE \E r \in Request : Arrive(r) \/ LeaveLine(r) \/ Step(r)
  BY <1>1, ArriveTools, StepTools, GoneTools DEF LeaveLine
<1>2. CASE Evict \/ \E n \in Run : Say(n) \/ Execute(n) \/ End(n)
  BY <1>2 DEF Evict, Say, Execute, End, SameTools
<1> QED BY <1>1, <1>2 DEF Next

LEMMA ParkTools ==
  ASSUME IInv, NEW r \in Request, Park(r)
  PROVE  /\ req'[r].tools \cap handed \subseteq Mine(r).pending
         /\ \A q \in Request \ {r} : req'[q] = req[q]
<1> USE DEF IInv, TypeInv
<1>0. PICK n \in Run, a \in Agent : n = Pump(r) /\ a = req[r].slot
  BY ReadingPump DEF Park, At, Reading
<1> DEFINE q == run[n].queue
           CC == {i.call : i \in {j \in ToSet(q) : j.kind = "captured"}}
           TC == {i.call : i \in {j \in ToSet(q) : j.kind = "told"}}
           C == req[r].caught \cup CC
           T == req[r].told \cup TC
           S == IF Mine(r).pending = {} THEN Fresh(r, C \cup T)
                ELSE Fresh(r, C) \cup (T \cap Mine(r).pending)
           o == req[r].out \/ \E i \in ToSet(q) : i.kind \in {"text", "marker"}
           l == [req[r] EXCEPT !.pc = "handing", !.tools = S, !.caught = C, !.told = T, !.out = o]
<1>1. req[r].pc = "parking" /\ req[r] \in Locals
  BY DEF Park, At, ReqType
<1>2. req' = [req EXCEPT ![r].pc = "handing", ![r].tools = S, ![r].caught = C, ![r].told = T,
                         ![r].out = o]
  BY <1>0, <1>1 DEF Park, Locals
<1>3. /\ n = box[a] /\ box[a] # None /\ run[n] \in RunRec /\ ReqOK(r)
      /\ Seen(r) = req[r].caught \cup req[r].told
  BY <1>0, <1>1, ReadingPump DEF Reading, Seen
<1>4. q \in Seq(Item) /\ Len(q) \in Nat
  BY <1>3, QueueType
<1>5. ASSUME NEW x \in CC \cup TC PROVE x \in handed => x \in slot[a].issued
  <2>1. PICK i \in 1..Len(q) : q[i].kind \in {"captured", "told"} /\ x = q[i].call
    BY <1>4, <1>5 DEF ToSet
  <2>2. /\ i \in 1..Len(run[box[a]].queue) /\ x = run[box[a]].queue[i].call
        /\ run[box[a]].queue[i].kind \in {"captured", "told"}
    BY <1>3, <2>1
  <2> QED BY <1>3, <2>2, EntryMet
<1>6. ASSUME NEW x \in Seen(r) PROVE x \in handed => x \in slot[a].issued
  BY <1>0, <1>3 DEF ReqOK, SeenOK, Mine
<1>7. ASSUME NEW x \in C \cup T PROVE x \in handed => x \in Mine(r).issued
  <2>1. x \in Seen(r) \/ x \in CC \cup TC
    BY <1>3
  <2> QED BY <1>0, <1>5, <1>6, <2>1 DEF Mine
<1> HIDE DEF o, C, T
<1>8. S \cap handed \subseteq Mine(r).pending
  BY <1>7 DEF Fresh
<1> HIDE DEF S
<1>9. l.tools = S
  BY <1>1 DEF Locals
<1>10. req' = [req EXCEPT ![r] = l]
  BY <1>1, <1>2 DEF Locals
<1> HIDE DEF l
<1>11. req'[r] = l /\ \A s \in Request \ {r} : req'[s] = req[s]
  BY <1>10 DEF ReqType
<1> QED BY <1>8, <1>9, <1>11

LEMMA EndToolsTools ==
  ASSUME IInv, NEW r \in Request, EndTools(r)
  PROVE  /\ req'[r].tools \cap handed \subseteq Mine(r).pending
         /\ \A q \in Request \ {r} : req'[q] = req[q]
<1> USE DEF IInv, TypeInv
<1> DEFINE I == Fresh(r, req[r].caught \cup req[r].told)
           o == req[r].out \/ I # {}
           l == [req[r] EXCEPT !.pc = "waiting", !.tools = I, !.out = o]
<1>1. req[r].pc = "ending" /\ req[r] \in Locals /\ ReqOK(r)
  BY DEF EndTools, At, ReqInv, ReqType
<1>2. \A x \in req[r].caught \cup req[r].told : x \in handed => x \in Mine(r).issued
  BY <1>1 DEF ReqOK, Seen, SeenOK, Reading
<1>3. I \cap handed \subseteq Mine(r).pending
  BY <1>2 DEF Fresh
<1>4. req' = [req EXCEPT ![r].pc = "waiting", ![r].tools = I, ![r].out = o]
  BY <1>1 DEF EndTools, Locals, ReqType
<1> HIDE DEF I, o
<1>5. l.tools = I
  BY <1>1 DEF Locals
<1>6. req' = [req EXCEPT ![r] = l]
  BY <1>1, <1>4 DEF Locals
<1> HIDE DEF l
<1>7. req'[r] = l /\ \A s \in Request \ {r} : req'[s] = req[s]
  BY <1>6 DEF ReqType
<1> QED BY <1>3, <1>5, <1>7

(* However many rounds a run has and however its messages repeat their     *)
(* calls, a call that went out is gathered again only while its execute is *)
(* pending: gatherPendingTools and the issued ids see to it.               *)
THEOREM EachCallOnce == Spec => NoToolCallTwice
<1>1. IInv /\ [Next]_vars =>
        [\A r \in Request : req'[r].tools # req[r].tools =>
           req'[r].tools \cap handed \subseteq Mine(r).pending]_vars
  <2> SUFFICES ASSUME IInv, Next, NEW q \in Request, req'[q].tools # req[q].tools
               PROVE  req'[q].tools \cap handed \subseteq Mine(q).pending
    BY DEF vars
  <2>1. CASE \E r \in Request : Park(r) \/ EndTools(r)
    <3>1. PICK r \in Request : Park(r) \/ EndTools(r)
      BY <2>1
    <3>2. /\ req'[r].tools \cap handed \subseteq Mine(r).pending
          /\ \A s \in Request \ {r} : req'[s] = req[s]
      BY <3>1, ParkTools, EndToolsTools
    <3>3. q = r
      BY <3>2
    <3> QED BY <3>2, <3>3
  <2>2. CASE \A r \in Request : ~Park(r) /\ ~EndTools(r)
    <3>1. SameTools(q)
      BY <2>2, NextTools DEF IInv, TypeInv
    <3> QED BY <3>1 DEF SameTools
  <2> QED BY <2>1, <2>2
<1> QED BY Invariance, <1>1, PTL DEF Spec, NoToolCallTwice
============================================================================
