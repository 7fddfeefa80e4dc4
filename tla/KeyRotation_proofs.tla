------------------------ MODULE KeyRotation_proofs ------------------------
(***************************************************************************)
(* Proofs about KeyRotation: type correctness; a pinned turn stays with    *)
(* its key; a gateway key stays within its grant; no attempt follows       *)
(* output; and marks refuse no request.                                    *)
(*                                                                         *)
(* What a request will try comes from its candidates, so PinnedStays and   *)
(* WithinGrant are strengthened to speak of the candidates, of what the    *)
(* request was allowed, and of the grants, over which the operator runs.   *)
(***************************************************************************)
EXTENDS KeyRotation, TLAPS

Attempt == {"running", "succeeded", "clearing", "binding", "marking", "reporting",
            "judging", "disabling"}

Choosing == {"new", "pinning", "listing", "pruning", "unbinding"}

(* TypeOK in two parts: what is shared, and the locals of the requests.    *)
SharedOK == /\ status \in [Key -> {"active", "disabled", "gone"}]
            /\ failures \in [Key -> 0..Threshold]
            /\ marks \in [Key -> [Bucket -> {"none", "live", "past"}]]
            /\ binding \in [Session -> Key \cup {NoKey}]
            /\ grant \in [Gateway -> SUBSET (Key \cup {Sentinel})]
            /\ enabled \in BOOLEAN
            /\ events \in Nat

Locals == [pc : PC, allowed : SUBSET (Key \cup {Sentinel}),
           pinned : Key \cup {NoKey}, tried : SUBSET Key,
           key : Key \cup {NoKey}, soft : Nat, emitted : BOOLEAN,
           failure : Failure, cands : SUBSET Key,
           todo : SUBSET [key : Key, keep : SUBSET Bucket],
           read : [Bucket -> {"none", "live", "past"}]]

LocalsOK == req \in [Request -> Locals]

(* An attempt has a key, and every key that was had was tried. *)
KeyInv == \A r \in Request : /\ req[r].pc \in Attempt => req[r].key \in Key
                             /\ req[r].key # NoKey => req[r].key \in req[r].tried

(* Nothing is tried or proposed before the pin; then only the pinned key.  *)
PinInv == \A r \in Request :
            /\ req[r].pc \in {"new", "pinning"} => /\ req[r].tried = {}
                                                   /\ req[r].cands = {}
                                                   /\ req[r].pinned = NoKey
            /\ req[r].pinned # NoKey => req[r].tried \cup req[r].cands \subseteq {req[r].pinned}

Kept(allowed, keys) == allowed # {} /\ allowed \subseteq keys \cup {Sentinel}

(* A grant that was limited stays limited, and so does what a request took *)
(* from it, its pin and its candidates.                                    *)
GrantInv ==
  /\ \A g \in Gateway : Granted[g] # {} => Kept(grant[g], Granted[g])
  /\ \A r \in Request : LET g == Granted[From[r].gateway] IN g # {} =>
        /\ req[r].pc # "new" => Kept(req[r].allowed, g)
        /\ req[r].pinned # NoKey => req[r].pinned \in g
        /\ req[r].tried \cup req[r].cands \subseteq g

(* Between two attempts nothing has gone out. *)
EmittedInv == \A r \in Request : req[r].pc \in Choosing => ~req[r].emitted

TypeInv == SharedOK /\ LocalsOK /\ KeyInv

IInv == TypeInv /\ PinInv /\ GrantInv /\ EmittedInv

----------------------------------------------------------------------------
LEMMA InitIInv == Init => IInv
<1> SUFFICES ASSUME Init PROVE IInv
  OBVIOUS
<1> USE KeyAssumption, GrantedAssumption, FromAssumption, LimitAssumption
<1>1. SharedOK /\ LocalsOK
  BY DEF Init, SharedOK, LocalsOK, Locals, PC, Failure
<1>2. KeyInv /\ PinInv /\ EmittedInv
  BY DEF Init, KeyInv, PinInv, EmittedInv, Attempt
<1>3. GrantInv
  BY DEF Init, GrantInv, Kept
<1> QED BY <1>1, <1>2, <1>3 DEF IInv, TypeInv

(* What a request tries next is one of its candidates. *)
LEMMA CandidatesWithin ==
  ASSUME NEW r \in Request
  PROVE  /\ Candidates(r) \subseteq Untried(r)
         /\ Untried(r) \subseteq Key
         /\ Allowed(r) # {} => Untried(r) \subseteq Allowed(r)
BY DEF Candidates, Untried, Active

----------------------------------------------------------------------------
(* The locals of the requests, action by action. *)
LEMMA LocalsOfStep ==
  ASSUME TypeInv, NEW r \in Request, Step(r) \/ Emit(r) \/ Abort(r)
  PROVE  LocalsOK'
<1>a. req[r] \in Locals /\ req \in [Request -> Locals]
  BY DEF TypeInv, LocalsOK
<1> USE <1>a DEF LocalsOK, Locals, PC, At
<1>1. CASE Start(r)
  <2>1. grant[From[r].gateway] \in SUBSET (Key \cup {Sentinel})
    BY FromAssumption DEF TypeInv, SharedOK
  <2> QED BY <1>1, <2>1 DEF Start
<1>2. CASE Pin(r)
  BY <1>2 DEF Pin, Go, Private, BoundTo
<1>3. CASE List(r)
  BY <1>3, CandidatesWithin DEF List, LiveMarks, Go, Private
<1>4. CASE Prune(r)
  <2>1. PICK t \in req[r].todo : req' = [req EXCEPT ![r].todo = @ \ {t}]
    BY <1>4 DEF Prune
  <2> QED BY <2>1
<1>5. CASE Choose(r)
  <2>1. \/ \E c \in req[r].cands : Take(r, c)
        \/ Go(r, "unbinding")
    BY <1>5 DEF Choose
  <2>2. CASE \E c \in req[r].cands : Take(r, c)
    BY <2>2 DEF Take
  <2>3. CASE Go(r, "unbinding")
    BY <2>3 DEF Go
  <2> QED BY <2>1, <2>2, <2>3
<1>6. CASE Unbind(r)
  BY <1>6 DEF Unbind, Take
<1>7. CASE Succeed(r)
  BY <1>7 DEF Succeed, Private
<1>8. CASE ReadMarks(r)
  <2>1. marks[req[r].key] \in [Bucket -> {"none", "live", "past"}]
    BY <1>8 DEF ReadMarks, TypeInv, SharedOK, KeyInv, Attempt
  <2> QED BY <1>8, <2>1 DEF ReadMarks
<1>9. CASE Clear(r)
  BY <1>9 DEF Clear, Present
<1>10. CASE Bind(r)
  BY <1>10 DEF Bind, Go
<1>11. CASE FailOtherwise(r)
  BY <1>11 DEF FailOtherwise, Go, Private
<1>12. CASE FailKey(r)
  BY <1>12 DEF FailKey, Private, Failure
<1>13. CASE MarkBucket(r)
  BY <1>13 DEF MarkBucket, Go, Present
<1>14. CASE Report(r)
  BY <1>14 DEF Report, Decide, Go, Present, Failure
<1>15. CASE Judge(r)
  BY <1>15 DEF Judge, DisableKey, Decide, Go, Present, Failure
<1>16. CASE DisableAfterCount(r)
  <2>1. Decide(r, TRUE) \/ Decide(r, FALSE)
    <3>1. CASE req[r].key \in Present
      BY <1>16, <3>1 DEF DisableAfterCount, DisableKey, Decide
    <3>2. CASE req[r].key \notin Present
      BY <1>16, <3>2 DEF DisableAfterCount, DisableKey, Decide
    <3> QED BY <3>1, <3>2
  <2> QED BY <2>1 DEF Decide, Failure
<1>17. CASE Emit(r)
  BY <1>17 DEF Emit, Private
<1>18. CASE Abort(r)
  BY <1>18 DEF Abort, Go, Private
<1> QED BY <1>1, <1>2, <1>3, <1>4, <1>5, <1>6, <1>7, <1>8, <1>9, <1>10, <1>11, <1>12, <1>13, <1>14, <1>15, <1>16, <1>17, <1>18 DEF Step

LEMMA SharedOfStep ==
  ASSUME TypeInv, NEW r \in Request, Step(r) \/ Emit(r) \/ Abort(r)
  PROVE  SharedOK'
<1>a. SharedOK
  BY DEF TypeInv
<1>b. req[r].key \in Key \cup {NoKey}
  BY DEF TypeInv, LocalsOK, Locals
<1> USE <1>a, <1>b, LimitAssumption DEF SharedOK, At
<1>0. ASSUME Private PROVE SharedOK'
  BY <1>0 DEF Private
<1>1. CASE Start(r)
  BY <1>0, <1>1 DEF Start
<1>2. CASE Pin(r)
  BY <1>0, <1>2 DEF Pin
<1>3. CASE List(r)
  BY <1>0, <1>3 DEF List
<1>4. CASE Prune(r)
  BY <1>4 DEF Prune, Present
<1>5. CASE Choose(r)
  BY <1>0, <1>5 DEF Choose
<1>6. CASE Unbind(r)
  BY <1>6 DEF Unbind, Take
<1>7. CASE Succeed(r)
  BY <1>0, <1>7 DEF Succeed
<1>8. CASE ReadMarks(r)
  <2>1. Private
    BY <1>8 DEF ReadMarks
  <2> QED BY <1>0, <2>1
<1>9. CASE Clear(r)
  <2>1. req[r].read \in [Bucket -> {"none", "live", "past"}]
    BY DEF TypeInv, LocalsOK, Locals
  <2>2. failures' \in [Key -> 0..Threshold]
    BY <1>9 DEF Clear
  <2>3. marks' \in [Key -> [Bucket -> {"none", "live", "past"}]]
    BY <1>9, <2>1 DEF Clear
  <2> QED BY <1>9, <2>2, <2>3 DEF Clear
<1>10. CASE Bind(r)
  BY <1>10 DEF Bind, Go
<1>11. CASE FailOtherwise(r)
  BY <1>0, <1>11 DEF FailOtherwise
<1>12. CASE FailKey(r)
  BY <1>0, <1>12 DEF FailKey
<1>13. CASE MarkBucket(r)
  BY <1>13 DEF MarkBucket, Go, Present
<1>14. CASE Report(r)
  BY <1>14 DEF Report, Decide, Go, Present, Failure
<1>15. CASE Judge(r)
  BY <1>15 DEF Judge, DisableKey, Decide, Go, Present, Failure
<1>16. CASE DisableAfterCount(r)
  BY <1>16 DEF DisableAfterCount, DisableKey, Decide, Present, Failure
<1>17. CASE Emit(r)
  BY <1>0, <1>17 DEF Emit
<1>18. CASE Abort(r)
  BY <1>0, <1>18 DEF Abort
<1> QED BY <1>1, <1>2, <1>3, <1>4, <1>5, <1>6, <1>7, <1>8, <1>9, <1>10, <1>11, <1>12, <1>13, <1>14, <1>15, <1>16, <1>17, <1>18 DEF Step

LEMMA KeyOfStep ==
  ASSUME TypeInv, NEW r \in Request, Step(r) \/ Emit(r) \/ Abort(r)
  PROVE  KeyInv'
<1> USE KeyAssumption DEF TypeInv, LocalsOK, Locals, At, KeyInv, Attempt
<1>1. CASE Start(r)
  BY <1>1 DEF Start, Private
<1>2. CASE Pin(r)
  BY <1>2 DEF Pin, Go, Private, BoundTo
<1>3. CASE List(r)
  BY <1>3, CandidatesWithin DEF List, LiveMarks, Go, Private
<1>4. CASE Prune(r)
  BY <1>4 DEF Prune, Present
<1>5. CASE Choose(r)
  <2>1. \/ \E c \in req[r].cands : Take(r, c)
        \/ Go(r, "unbinding")
    BY <1>5 DEF Choose
  <2>2. CASE \E c \in req[r].cands : Take(r, c)
    BY <2>2 DEF Take
  <2>3. CASE Go(r, "unbinding")
    BY <2>3 DEF Go
  <2> QED BY <2>1, <2>2, <2>3
<1>6. CASE Unbind(r)
  BY <1>6 DEF Unbind, Take
<1>7. CASE Succeed(r)
  BY <1>7 DEF Succeed, Private
<1>8. CASE ReadMarks(r)
  BY <1>8 DEF ReadMarks, Private
<1>9. CASE Clear(r)
  BY <1>9 DEF Clear, Present
<1>10. CASE Bind(r)
  BY <1>10 DEF Bind, Go
<1>11. CASE FailOtherwise(r)
  BY <1>11 DEF FailOtherwise, Go, Private
<1>12. CASE FailKey(r)
  BY <1>12 DEF FailKey, Private, Failure
<1>13. CASE MarkBucket(r)
  BY <1>13 DEF MarkBucket, Go, Present
<1>14. CASE Report(r)
  BY <1>14 DEF Report, Decide, Go, Present, Failure
<1>15. CASE Judge(r)
  BY <1>15 DEF Judge, DisableKey, Decide, Go, Present, Failure
<1>16. CASE DisableAfterCount(r)
  BY <1>16 DEF DisableAfterCount, DisableKey, Decide, Present, Failure
<1>17. CASE Emit(r)
  BY <1>17 DEF Emit, Private
<1>18. CASE Abort(r)
  BY <1>18 DEF Abort, Go, Private
<1> QED BY <1>1, <1>2, <1>3, <1>4, <1>5, <1>6, <1>7, <1>8, <1>9, <1>10, <1>11, <1>12, <1>13, <1>14, <1>15, <1>16, <1>17, <1>18 DEF Step

----------------------------------------------------------------------------
(* Request r goes on and keeps what it tries its keys by.                  *)
Carries(r) == LET l == req[r]
                  m == req'[r]
              IN /\ <<m.pinned, m.allowed, m.tried, m.cands>>
                       = <<l.pinned, l.allowed, l.tried, l.cands>>
                 /\ l.pc \notin {"new", "pinning"} /\ m.pc \notin {"new", "pinning"}
                 /\ m.pc \in Choosing => ~m.emitted \/ (l.pc \in Choosing /\ m.emitted = l.emitted)

Takes(r) == /\ req[r].pc \in {"pruning", "unbinding"}
            /\ \E c \in req[r].cands : Take(r, c)

(* The steps of a request as the invariants see them: it starts, pins,     *)
(* lists its candidates, takes one of them, or carries on.                 *)
LEMMA StepSummary ==
  ASSUME TypeInv, NEW r \in Request, Step(r) \/ Emit(r) \/ Abort(r)
  PROVE  /\ UNCHANGED grant
         /\ \A q \in Request \ {r} : req'[q] = req[q]
         /\ Start(r) \/ Pin(r) \/ List(r) \/ Takes(r) \/ Carries(r)
<1>a. req \in [Request -> Locals] /\ req[r] \in Locals
  BY DEF TypeInv, LocalsOK
<1>1. UNCHANGED grant
  BY DEF Step, Start, Pin, List, Prune, Choose, Unbind, Succeed, ReadMarks, Clear, Bind,
         FailOtherwise, FailKey, MarkBucket, Report, Judge, DisableAfterCount, Emit, Abort,
         Private
<1>2. \A q \in Request \ {r} : req'[q] = req[q]
  BY <1>a DEF Step, Start, Pin, List, Prune, Choose, Unbind, Succeed, ReadMarks, Clear, Bind,
         FailOtherwise, FailKey, MarkBucket, Report, Judge, DisableAfterCount, Emit, Abort,
         Go, Take, Decide, DisableKey
<1>3. Start(r) \/ Pin(r) \/ List(r) \/ Takes(r) \/ Carries(r)
  <2> USE <1>a DEF Locals, At, Carries, Choosing
  <2>1. CASE Choose(r)
    <3>1. CASE \E c \in req[r].cands : Take(r, c)
      BY <2>1, <3>1 DEF Choose, Takes
    <3>2. CASE Go(r, "unbinding")
      BY <2>1, <3>2 DEF Choose, Go
    <3> QED BY <2>1, <3>1, <3>2 DEF Choose
  <2>2. CASE Unbind(r)
    BY <2>2 DEF Unbind, Takes
  <2>3. CASE Prune(r)
    BY <2>3 DEF Prune, Present
  <2>4. CASE Succeed(r)
    BY <2>4 DEF Succeed, Private
  <2>5. CASE ReadMarks(r)
    BY <2>5 DEF ReadMarks, Private
  <2>6. CASE Clear(r)
    BY <2>6 DEF Clear, Present
  <2>7. CASE Bind(r)
    BY <2>7 DEF Bind, Go
  <2>8. CASE FailOtherwise(r)
    BY <2>8 DEF FailOtherwise, Go, Private
  <2>9. CASE FailKey(r)
    BY <2>9 DEF FailKey, Private
  <2>10. CASE MarkBucket(r)
    BY <2>10 DEF MarkBucket, Go, Present
  <2>11. CASE Report(r)
    BY <2>11 DEF Report, Decide, Go, Present
  <2>12. CASE Judge(r)
    BY <2>12 DEF Judge, DisableKey, Decide, Go, Present
  <2>13. CASE DisableAfterCount(r)
    BY <2>13 DEF DisableAfterCount, DisableKey, Decide, Present
  <2>14. CASE Emit(r)
    BY <2>14 DEF Emit, Private
  <2>15. CASE Abort(r)
    BY <2>15 DEF Abort, Go, Private
  <2> QED BY <2>1, <2>2, <2>3, <2>4, <2>5, <2>6, <2>7, <2>8, <2>9, <2>10, <2>11, <2>12, <2>13, <2>14, <2>15 DEF Step
<1> QED BY <1>1, <1>2, <1>3

(* The operator, the bot and the clock leave the requests alone; a key     *)
(* that is removed is taken out of every grant.                            *)
LEMMA OperateSummary ==
  ASSUME TypeInv, Operate
  PROVE  /\ SharedOK' /\ UNCHANGED req
         /\ \/ UNCHANGED grant
            \/ \E k \in Key : grant' = [g \in Gateway |-> DropBoundKey(grant[g], k)]
<1>a. SharedOK
  BY DEF TypeInv
<1> USE LimitAssumption DEF SharedOK, Event
<1>1. CASE SetPolicy
  BY <1>a, <1>1 DEF SetPolicy
<1>2. ASSUME NEW k \in Key, Enable(k) \/ DisableManually(k) \/ DisableSource(k)
      PROVE  SharedOK' /\ UNCHANGED <<req, grant>>
  BY <1>a, <1>2 DEF Enable, DisableManually, DisableSource
<1>3. ASSUME NEW k \in Key, ClearBuckets(k) \/ \E b \in Bucket : MarkSource(k, b) \/ Expire(k, b)
      PROVE  SharedOK' /\ UNCHANGED <<req, grant>>
  <2>1. UNCHANGED <<status, failures, binding, grant, enabled, req>> /\ events' = events + 1
    BY <1>3 DEF ClearBuckets, MarkSource, Expire
  <2>2. marks' \in [Key -> [Bucket -> {"none", "live", "past"}]]
    <3>1. CASE ClearBuckets(k)
      BY <1>a, <3>1 DEF ClearBuckets
    <3>2. ASSUME NEW b \in Bucket, MarkSource(k, b) \/ Expire(k, b)
          PROVE  marks' \in [Key -> [Bucket -> {"none", "live", "past"}]]
      <4>1. PICK m \in {"live", "past"} : marks' = [marks EXCEPT ![k][b] = m]
        BY <3>2 DEF MarkSource, Expire
      <4> QED BY <1>a, <4>1
    <3> QED BY <1>3, <3>1, <3>2
  <2> QED BY <1>a, <2>1, <2>2
<1>4. ASSUME NEW k \in Key, RemoveKey(k)
      PROVE  /\ SharedOK' /\ UNCHANGED req
             /\ grant' = [g \in Gateway |-> DropBoundKey(grant[g], k)]
  <2>1. \A g \in Gateway : DropBoundKey(grant[g], k) \in SUBSET (Key \cup {Sentinel})
    BY <1>a DEF DropBoundKey
  <2> QED BY <1>a, <1>4, <2>1 DEF RemoveKey
<1> QED BY <1>1, <1>2, <1>3, <1>4 DEF Operate, SetPolicy

----------------------------------------------------------------------------
(* The invariants, over the steps as StepSummary tells them.               *)

LEMMA PinOfStep ==
  ASSUME IInv, NEW r \in Request, Step(r) \/ Emit(r) \/ Abort(r)
  PROVE  PinInv'
<1>a. req \in [Request -> Locals] /\ req[r] \in Locals
  BY DEF IInv, TypeInv, LocalsOK
<1>b. PinInv /\ TypeInv
  BY DEF IInv
<1>c. \A q \in Request \ {r} : req'[q] = req[q]
  BY <1>b, StepSummary
<1> SUFFICES /\ req'[r].pc \in {"new", "pinning"} =>
                   req'[r].tried = {} /\ req'[r].cands = {} /\ req'[r].pinned = NoKey
             /\ req'[r].pinned # NoKey =>
                   req'[r].tried \cup req'[r].cands \subseteq {req'[r].pinned}
  BY <1>b, <1>c DEF PinInv
<1> USE <1>a, <1>b DEF Locals, At, PinInv
<1>1. CASE Start(r)
  BY <1>1 DEF Start
<1>2. CASE Pin(r)
  BY <1>2 DEF Pin, Go
<1>3. CASE List(r)
  <2>1. req[r].pinned # NoKey => Candidates(r) \subseteq {req[r].pinned}
    BY CandidatesWithin DEF Allowed
  <2> QED BY <1>3, <2>1 DEF List, Go
<1>4. CASE Takes(r)
  BY <1>4 DEF Takes, Take
<1>5. CASE Carries(r)
  BY <1>5 DEF Carries
<1> QED BY <1>1, <1>2, <1>3, <1>4, <1>5, StepSummary

LEMMA EmittedOfStep ==
  ASSUME IInv, NEW r \in Request, Step(r) \/ Emit(r) \/ Abort(r)
  PROVE  EmittedInv'
<1>a. req \in [Request -> Locals] /\ req[r] \in Locals
  BY DEF IInv, TypeInv, LocalsOK
<1>b. EmittedInv /\ TypeInv
  BY DEF IInv
<1>c. \A q \in Request \ {r} : req'[q] = req[q]
  BY <1>b, StepSummary
<1> SUFFICES req'[r].pc \in Choosing => ~req'[r].emitted
  BY <1>b, <1>c DEF EmittedInv
<1> USE <1>a, <1>b DEF Locals, At, EmittedInv, Choosing
<1>1. CASE Start(r) \/ Pin(r) \/ List(r)
  BY <1>1 DEF Start, Pin, List, Go
<1>2. CASE Takes(r)
  BY <1>2 DEF Takes, Take
<1>3. CASE Carries(r)
  BY <1>3 DEF Carries
<1> QED BY <1>1, <1>2, <1>3, StepSummary

LEMMA GrantOfStep ==
  ASSUME IInv, NEW r \in Request, Step(r) \/ Emit(r) \/ Abort(r)
  PROVE  GrantInv'
<1>a. req \in [Request -> Locals] /\ req[r] \in Locals
  BY DEF IInv, TypeInv, LocalsOK
<1>b. GrantInv /\ PinInv /\ TypeInv
  BY DEF IInv
<1>c. UNCHANGED grant /\ \A q \in Request \ {r} : req'[q] = req[q]
  BY <1>b, StepSummary
<1> DEFINE G == Granted[From[r].gateway]
<1>d. From[r].gateway \in Gateway
  BY FromAssumption
<1> SUFFICES ASSUME G # {}
             PROVE  /\ req'[r].pc # "new" => Kept(req'[r].allowed, G)
                    /\ req'[r].pinned # NoKey => req'[r].pinned \in G
                    /\ req'[r].tried \cup req'[r].cands \subseteq G
  BY <1>b, <1>c DEF GrantInv
<1>e. /\ Kept(grant[From[r].gateway], G)
      /\ req[r].pc # "new" => Kept(req[r].allowed, G)
      /\ req[r].pinned # NoKey => req[r].pinned \in G
      /\ req[r].tried \cup req[r].cands \subseteq G
  BY <1>b, <1>d DEF GrantInv
<1> HIDE DEF G
<1> USE <1>a, <1>e DEF Locals, At
<1>1. CASE Start(r)
  BY <1>1 DEF Start
<1>2. CASE Pin(r)
  <2>1. BoundTo(r) \in Key \cup {NoKey}
    BY <1>b, FromAssumption DEF BoundTo, TypeInv, SharedOK
  <2> DEFINE k == IF From[r].durable THEN BoundTo(r) ELSE NoKey
  <2>2. k \in Key \cup {NoKey}
    BY <2>1
  <2>3. Kept(req[r].allowed, G)
    BY <1>2 DEF Pin
  <2>4. CASE Go(r, "failed")
    BY <2>3, <2>4 DEF Go
  <2>5. CASE /\ k = NoKey \/ k \in req[r].allowed
             /\ req' = [req EXCEPT ![r].pc = "listing", ![r].pinned = k]
    <3> HIDE DEF k
    <3> QED BY <2>2, <2>3, <2>5, KeyAssumption DEF Kept
  <2> QED BY <1>2, <2>3, <2>4, <2>5 DEF Pin, Kept
<1>3. CASE List(r)
  <2>1. Candidates(r) \subseteq G
    <3>1. Allowed(r) # {} /\ Allowed(r) \subseteq G \cup {Sentinel}
      BY <1>3 DEF List, Allowed, Kept
    <3> QED BY <3>1, CandidatesWithin, KeyAssumption
  <2>2. CASE Go(r, "failed")
    BY <1>3, <2>2 DEF Go, List
  <2>3. ASSUME NEW todo,
               req' = [req EXCEPT ![r].pc = "pruning", ![r].cands = Candidates(r),
                                  ![r].todo = todo]
        PROVE  /\ Kept(req'[r].allowed, G)
               /\ req'[r].pinned # NoKey => req'[r].pinned \in G
               /\ req'[r].tried \cup req'[r].cands \subseteq G
    <3>1. req[r].pc = "listing"
      BY <1>3 DEF List
    <3> QED BY <2>1, <2>3, <3>1
  <2> QED BY <1>3, <2>2, <2>3 DEF List
<1>4. CASE Takes(r)
  BY <1>4 DEF Takes, Take
<1>5. CASE Carries(r)
  BY <1>5 DEF Carries
<1> QED BY <1>b, <1>1, <1>2, <1>3, <1>4, <1>5, StepSummary

LEMMA OperateKeeps == ASSUME IInv, Operate PROVE IInv'
<1>1. SharedOK' /\ UNCHANGED req
  BY OperateSummary DEF IInv
<1>2. TypeInv' /\ PinInv' /\ EmittedInv'
  BY <1>1 DEF IInv, TypeInv, LocalsOK, KeyInv, PinInv, EmittedInv
<1>3. GrantInv'
  <2>1. ASSUME NEW k \in Key, NEW g \in Gateway, Granted[g] # {},
               Kept(grant[g], Granted[g])
        PROVE  Kept(DropBoundKey(grant[g], k), Granted[g])
    BY <2>1 DEF Kept, DropBoundKey
  <2>2. \A g \in Gateway : Granted[g] # {} => Kept(grant'[g], Granted[g])
    BY <2>1, OperateSummary DEF IInv, GrantInv
  <2> QED BY <1>1, <2>2 DEF IInv, GrantInv
<1> QED BY <1>2, <1>3 DEF IInv

LEMMA NextIInv == IInv /\ [Next]_vars => IInv'
<1> SUFFICES ASSUME IInv, [Next]_vars PROVE IInv'
  OBVIOUS
<1>1. CASE Operate
  BY <1>1, OperateKeeps
<1>2. ASSUME NEW r \in Request, Step(r) \/ Emit(r) \/ Abort(r)
      PROVE  IInv'
  BY <1>2, LocalsOfStep, SharedOfStep, KeyOfStep, PinOfStep, GrantOfStep, EmittedOfStep
     DEF IInv, TypeInv
<1>3. CASE UNCHANGED vars
  BY <1>3 DEF vars, IInv, TypeInv, SharedOK, LocalsOK, KeyInv, PinInv, GrantInv, EmittedInv
<1> QED BY <1>1, <1>2, <1>3 DEF Next

LEMMA Invariance == Spec => []IInv
<1> QED BY InitIInv, NextIInv, PTL DEF Spec

----------------------------------------------------------------------------
(* The variables keep their types, and every key that an attempt runs with *)
(* was noted as tried.                                                     *)
THEOREM TypeCorrect == Spec => []TypeOK
<1>1. IInv => TypeOK
  BY DEF IInv, TypeInv, SharedOK, LocalsOK, Locals, KeyInv, TypeOK
<1> QED BY <1>1, Invariance, PTL

(* A pinned durable turn runs with the key of its session or not at all,   *)
(* for any number of keys, requests and operator's changes.                *)
THEOREM PinnedTurnStays == Spec => []PinnedStays
<1>1. IInv => PinnedStays
  BY DEF IInv, PinInv, PinnedStays
<1> QED BY <1>1, Invariance, PTL

(* No request of a limited gateway key runs with another key, however many *)
(* of its keys are removed, and when.                                      *)
THEOREM GrantRespected == Spec => []WithinGrant
<1>1. IInv => WithinGrant
  BY DEF IInv, GrantInv, WithinGrant
<1> QED BY <1>1, Invariance, PTL

(* A request tries a further key only while its client has seen nothing.   *)
THEOREM OutputEndsRotation == Spec => NoRetryAfterOutput
<1>1. IInv /\ [Next]_vars => [\A r \in Request : req'[r].tried # req[r].tried => ~req[r].emitted]_vars
  <2> SUFFICES ASSUME IInv, Next, NEW q \in Request, req'[q].tried # req[q].tried
               PROVE  ~req[q].emitted
    OBVIOUS
  <2>1. PICK r \in Request : Step(r) \/ Emit(r) \/ Abort(r)
    BY OperateSummary DEF Next, IInv
  <2>2. q = r
    BY <2>1, StepSummary DEF IInv
  <2>3. req \in [Request -> Locals] /\ req[r] \in Locals
    BY DEF IInv, TypeInv, LocalsOK
  <2>4. ~(Start(r) \/ Pin(r) \/ List(r) \/ Carries(r))
    BY <2>2, <2>3 DEF Start, Pin, List, Carries, Go, Locals
  <2>5. Takes(r)
    BY <2>1, <2>4, StepSummary DEF IInv
  <2> QED BY <2>2, <2>5 DEF Takes, IInv, EmittedInv, Choosing
<1> QED BY <1>1, Invariance, PTL DEF Spec, NoRetryAfterOutput

(* Marks refuse nobody: who gets no key has tried, or may not use, every   *)
(* active key that serves the model.                                       *)
THEOREM MarksOnlySteer == Spec => MarksNeverRefuse
<1>1. ASSUME IInv, NEW r \in Request, List(r), req'[r].pc = "failed",
             NEW k \in Active \cap From[r].keys
      PROVE  k \in req[r].tried \/ (Allowed(r) # {} /\ k \notin Allowed(r))
  <2>1. req \in [Request -> Locals] /\ req[r] \in Locals
    BY <1>1 DEF IInv, TypeInv, LocalsOK
  <2>2. Candidates(r) = {}
    BY <1>1, <2>1 DEF List, Locals
  <2>3. Untried(r) = {}
    BY <2>2 DEF Candidates
  <2> QED BY <1>1, <2>3 DEF Untried
<1>2. IInv /\ [Next]_vars =>
        [\A r \in Request : (List(r) /\ At(r, "listing") /\ req'[r].pc = "failed")
           => \A k \in Active \cap From[r].keys :
                k \in req[r].tried \/ (Allowed(r) # {} /\ k \notin Allowed(r))]_vars
  BY <1>1
<1> QED BY <1>2, Invariance, PTL DEF Spec, MarksNeverRefuse
===========================================================================
