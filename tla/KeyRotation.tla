---------------------------- MODULE KeyRotation ----------------------------
(***************************************************************************)
(* KeyRotatingRunner.stream (key-rotating-runner.ts) over the pool of      *)
(* Cursor keys (key-pool.ts) and its rows in the store (store.ts).  A      *)
(* request takes a usable key, runs upstream with it, and on a failure     *)
(* of the key reports it and takes the next one.  A step is one stretch of *)
(* code between two awaits, so requests and the operator interleave at     *)
(* every access to the store.                                              *)
(*                                                                         *)
(* Which of the candidates is taken (sort order, weights, the rotation     *)
(* cursor) is left open.  A key's failure count is kept up to the          *)
(* threshold it is compared with.                                          *)
(***************************************************************************)
EXTENDS Naturals, FiniteSets

CONSTANTS Key,          \* ids of the keys in the pool at the start
          NoKey,        \* undefined
          Sentinel,     \* NO_KEY_SENTINEL: the only grant that was left is gone
          Bucket,       \* quota buckets
          Session,      \* conversations (sessionBindingHash of a stickyKey)
          NoSession,
          Gateway,      \* gateway keys
          Granted,      \* Granted[g]: the keys bound to g, {} for no limit
          Request,
          From,         \* From[r]: gateway key, session, bucket, model's keys,
                        \*   and whether it is a durable turn
          Threshold,    \* policy.threshold
          MaxAttempts,  \* maxKeyAttempts
          MaxSoft,      \* maxTransientAttempts
          MaxEvents     \* bound on what the operator, the bot and the clock do

ASSUME KeyAssumption == /\ NoKey \notin Key
                        /\ Sentinel \notin Key
                        /\ NoSession \notin Session
ASSUME GrantedAssumption == Granted \in [Gateway -> SUBSET Key]
ASSUME FromAssumption ==
  From \in [Request -> [gateway : Gateway, session : Session \cup {NoSession},
                        bucket : Bucket, keys : SUBSET Key, durable : BOOLEAN]]
ASSUME LimitAssumption == /\ Threshold \in Nat \ {0}
                          /\ MaxAttempts \in Nat \ {0}
                          /\ MaxSoft \in Nat \ {0}
                          /\ MaxEvents \in Nat

VARIABLES status,       \* status[k]: of its row, "gone" when removed
          failures,     \* failures[k]: failureCount
          marks,        \* marks[k][b]: exhaustedBuckets, "past" when expired
          binding,      \* binding[s]: the key session s is bound to
          grant,        \* grant[g]: allowedCursorKeyIds of gateway key g
          enabled,      \* policy.enabled
          events,       \* how much the operator, the bot and the clock did
          req           \* req[r]: the locals of request r's stream

vars == <<status, failures, marks, binding, grant, enabled, events, req>>

Present == {k \in Key : status[k] # "gone"}
Active == {k \in Key : status[k] = "active"}

(* The buckets for which a row has a mark that has not expired. *)
LiveMarks(k) == {b \in Bucket : marks[k][b] = "live"}

PC == {"new", "pinning", "listing", "pruning", "unbinding", "running",
       "succeeded", "clearing", "binding", "marking", "reporting", "judging",
       "disabling", "done", "failed"}

Failure == {"none", "quota", "auth", "transient"}

----------------------------------------------------------------------------
Init == /\ status = [k \in Key |-> "active"]
        /\ failures = [k \in Key |-> 0]
        /\ marks = [k \in Key |-> [b \in Bucket |-> "none"]]
        /\ binding = [s \in Session |-> NoKey]
        /\ grant = Granted
        /\ enabled = TRUE
        /\ events = 0
        /\ req = [r \in Request |->
                    [pc |-> "new", allowed |-> {}, pinned |-> NoKey, tried |-> {},
                     key |-> NoKey, soft |-> 0, emitted |-> FALSE,
                     failure |-> "none", cands |-> {}, todo |-> {},
                     read |-> [b \in Bucket |-> "none"]]]

At(r, pc) == req[r].pc = pc

Go(r, pc) == req' = [req EXCEPT ![r].pc = pc]

(* What a request does to its own locals only. *)
Private == UNCHANGED <<status, failures, marks, binding, grant, enabled, events>>

----------------------------------------------------------------------------
(* Taking a key. *)

(* The request is authenticated: its gateway key's list goes along with it. *)
Start(r) == /\ At(r, "new")
            /\ req' = [req EXCEPT ![r].pc = "pinning",
                                  ![r].allowed = grant[From[r].gateway]]
            /\ Private

(* pinnedDurableKeyId: a durable turn of a bound session keeps its key, or *)
(* fails when the gateway key may not use it.                              *)
BoundTo(r) == IF From[r].session = NoSession THEN NoKey ELSE binding[From[r].session]

Pin(r) == LET k == IF From[r].durable THEN BoundTo(r) ELSE NoKey IN
          /\ At(r, "pinning")
          /\ IF k # NoKey /\ req[r].allowed # {} /\ k \notin req[r].allowed
             THEN Go(r, "failed")
             ELSE req' = [req EXCEPT ![r].pc = "listing", ![r].pinned = k]
          /\ Private

(* Mutant: the pin is not handed to selectKey. *)
AllowedUnpinned(r) == req[r].allowed

Allowed(r) == IF req[r].pinned = NoKey THEN req[r].allowed ELSE {req[r].pinned}

(* Active keys that may serve the request and that it has not tried. *)
Untried(r) == {k \in Active \cap From[r].keys : Allowed(r) # {} => k \in Allowed(r)}
              \ req[r].tried

(* Mutant: a key whose bucket is used up is no candidate at all. *)
CandidatesOnlyUnmarked(r) == {k \in Untried(r) : From[r].bucket \notin LiveMarks(k)}

(* Those whose bucket is not used up, or all of them when every one is. *)
Candidates(r) == LET open == {k \in Untried(r) : From[r].bucket \notin LiveMarks(k)}
                 IN IF open # {} THEN open ELSE Untried(r)

(* select's snapshot of the rows: the candidates, and for each untried key *)
(* with an expired mark the marks that pruneExpiredBucketMarks leaves it.  *)
List(r) == /\ At(r, "listing")
           /\ IF Candidates(r) = {}
              THEN Go(r, "failed")
              ELSE req' = [req EXCEPT
                     ![r].pc = "pruning",
                     ![r].cands = Candidates(r),
                     ![r].todo = {[key |-> k, keep |-> LiveMarks(k)] :
                                    k \in {u \in Untried(r) :
                                             \E b \in Bucket : marks[u][b] = "past"}}]
           /\ Private

(* One write of pruneExpiredBucketMarks: the snapshot less what expired. *)
Prune(r) == /\ At(r, "pruning")
            /\ \E t \in req[r].todo :
                 /\ marks' = IF t.key \in Present
                             THEN [marks EXCEPT ![t.key] =
                                     [b \in Bucket |-> IF b \in t.keep THEN "live" ELSE "none"]]
                             ELSE marks
                 /\ req' = [req EXCEPT ![r].todo = @ \ {t}]
            /\ UNCHANGED <<status, failures, binding, grant, enabled, events>>

(* k is selected: the last check, and the attempt begins. *)
Take(r, k) ==
  IF Cardinality(req[r].tried) >= MaxAttempts
  THEN req' = [req EXCEPT ![r].pc = "failed", ![r].cands = {}]
  ELSE req' = [req EXCEPT ![r].pc = "running", ![r].cands = {}, ![r].key = k,
                          ![r].tried = @ \cup {k}, ![r].emitted = FALSE]

(* stickyKey: the session's key when it is a candidate, any candidate when *)
(* there is no binding, and a useless binding is deleted first.  A pinned  *)
(* request does not look.                                                  *)
Choose(r) ==
  LET k == IF req[r].pinned = NoKey THEN BoundTo(r) ELSE NoKey IN
  /\ At(r, "pruning")
  /\ req[r].todo = {}
  /\ \/ k = NoKey /\ \E c \in req[r].cands : Take(r, c)
     \/ k \in req[r].cands /\ Take(r, k)
     \/ k # NoKey /\ k \notin req[r].cands /\ Go(r, "unbinding")
  /\ Private

(* Mutant: another selection, and the useless binding stays. *)
UnbindKeeping(r) == /\ At(r, "unbinding")
                    /\ Go(r, "listing")
                    /\ Private

Unbind(r) == /\ At(r, "unbinding")
             /\ binding' = [binding EXCEPT ![From[r].session] = NoKey]
             /\ \E c \in req[r].cands : Take(r, c)
             /\ UNCHANGED <<status, failures, marks, grant, enabled, events>>

----------------------------------------------------------------------------
(* Running upstream. *)

(* A visible event of a streamed run goes to the client. *)
Emit(r) == /\ At(r, "running")
           /\ ~req[r].emitted
           /\ req' = [req EXCEPT ![r].emitted = TRUE]
           /\ Private

(* The run ends well; a run that was not streamed is delivered now. *)
Succeed(r) == /\ At(r, "running")
              /\ req' = [req EXCEPT ![r].pc = "succeeded", ![r].emitted = TRUE]
              /\ Private

(* recordSuccess reads the row's marks, *)
ReadMarks(r) == /\ At(r, "succeeded")
                /\ req' = [req EXCEPT ![r].pc = "clearing",
                                      ![r].read = marks[req[r].key]]
                /\ Private

(* and writes them back without its own bucket's. *)
Clear(r) == LET k == req[r].key IN
  /\ At(r, "clearing")
  /\ IF k \in Present
     THEN /\ failures' = [failures EXCEPT ![k] = 0]
          /\ marks' = IF \E b \in Bucket : req[r].read[b] # "none"
                      THEN [marks EXCEPT ![k] =
                              [req[r].read EXCEPT ![From[r].bucket] = "none"]]
                      ELSE marks
     ELSE UNCHANGED <<failures, marks>>
  /\ req' = [req EXCEPT ![r].pc = "binding", ![r].read = [b \in Bucket |-> "none"]]
  /\ UNCHANGED <<status, binding, grant, enabled, events>>

(* bindSession, whatever became of the key. *)
Bind(r) == /\ At(r, "binding")
           /\ binding' = IF From[r].session = NoSession THEN binding
                         ELSE [binding EXCEPT ![From[r].session] = req[r].key]
           /\ Go(r, "done")
           /\ UNCHANGED <<status, failures, marks, grant, enabled, events>>

(* The run fails, for a reason that is not the key's: the error is thrown. *)
FailOtherwise(r) == /\ At(r, "running")
                    /\ Go(r, "failed")
                    /\ Private

(* The run fails and classifyKeyFailure says how. *)
FailKey(r) == /\ At(r, "running")
              /\ \E f \in Failure \ {"none"} :
                   req' = [req EXCEPT ![r].failure = f,
                                      ![r].pc = IF f = "quota" THEN "marking"
                                                ELSE "reporting"]
              /\ Private

(* markKeyBucket: one read-modify-write in the store. *)
MarkBucket(r) == LET k == req[r].key IN
  /\ At(r, "marking")
  /\ marks' = IF k \in Present THEN [marks EXCEPT ![k][From[r].bucket] = "live"]
              ELSE marks
  /\ Go(r, "reporting")
  /\ UNCHANGED <<status, failures, binding, grant, enabled, events>>

(* Mutant: no look at emitted. *)
DecideUnseen(r, disabled) ==
  LET soft == IF disabled THEN req[r].soft ELSE req[r].soft + 1
      over == req[r].pinned # NoKey \/ (~disabled /\ soft >= MaxSoft)
  IN req' = [req EXCEPT ![r].pc = IF over THEN "failed" ELSE "listing",
                        ![r].soft = soft, ![r].failure = "none"]

(* What the catch block does with reportFailure's answer: fail when pinned, *)
(* when the client has seen output, or after too many soft failures;       *)
(* otherwise go for the next key.                                          *)
Decide(r, disabled) ==
  LET soft == IF disabled THEN req[r].soft ELSE req[r].soft + 1
      over == \/ req[r].pinned # NoKey
              \/ req[r].emitted
              \/ ~disabled /\ soft >= MaxSoft
  IN req' = [req EXCEPT ![r].pc = IF over THEN "failed" ELSE "listing",
                        ![r].soft = soft, ![r].failure = "none"]

(* reportFailure: a transient failure is not counted. *)
Report(r) == LET k == req[r].key IN
  /\ At(r, "reporting")
  /\ IF req[r].failure = "transient"
     THEN Decide(r, FALSE) /\ UNCHANGED failures
     ELSE /\ failures' = IF k \in Present /\ failures[k] < Threshold
                         THEN [failures EXCEPT ![k] = @ + 1] ELSE failures
          /\ Go(r, "judging")
  /\ UNCHANGED <<status, marks, binding, grant, enabled, events>>

(* disable of the current key; false when its row is gone. *)
DisableKey(r) == LET k == req[r].key IN
  /\ status' = IF k \in Present THEN [status EXCEPT ![k] = "disabled"] ELSE status
  /\ Decide(r, k \in Present)

(* The count is read again and compared (1 when the row is gone). *)
Judge(r) == LET k == req[r].key
                count == IF k \in Present THEN failures[k] ELSE 1 IN
  /\ At(r, "judging")
  /\ IF ~enabled THEN Decide(r, FALSE) /\ UNCHANGED status
     ELSE IF req[r].failure = "quota" THEN DisableKey(r)
     ELSE IF count < Threshold THEN Decide(r, FALSE) /\ UNCHANGED status
     ELSE Go(r, "disabling") /\ UNCHANGED status
  /\ UNCHANGED <<failures, marks, binding, grant, enabled, events>>

DisableAfterCount(r) == /\ At(r, "disabling")
                        /\ DisableKey(r)
                        /\ UNCHANGED <<failures, marks, binding, grant, enabled, events>>

(* The client goes away (signal.aborted) and the attempt's error is thrown. *)
Abort(r) == /\ req[r].pc \in {"running", "marking", "reporting", "judging"}
            /\ Go(r, "failed")
            /\ Private

----------------------------------------------------------------------------
(* The operator, the bot's accounts and the clock. *)

Event == events < MaxEvents /\ events' = events + 1 /\ UNCHANGED <<enabled, req>>

Enable(k) == /\ Event
             /\ k \in Present
             /\ status' = [status EXCEPT ![k] = "active"]
             /\ failures' = [failures EXCEPT ![k] = 0]
             /\ UNCHANGED <<marks, binding, grant>>

DisableManually(k) == /\ Event
                      /\ k \in Present
                      /\ status' = [status EXCEPT ![k] = "disabled"]
                      /\ failures' = [failures EXCEPT ![k] = 0]
                      /\ UNCHANGED <<marks, binding, grant>>

(* disableSourceKey: a bot account made from the key ran out of credit. *)
DisableSource(k) == /\ Event
                    /\ k \in Present
                    /\ status' = [status EXCEPT ![k] = "disabled"]
                    /\ UNCHANGED <<failures, marks, binding, grant>>

(* Mutant: no sentinel is left behind. *)
DropBoundKeyToEmpty(allowed, k) == allowed \ {k}

(* dropBoundKey: a list that gets empty would mean "any key". *)
DropBoundKey(allowed, k) == IF k \notin allowed THEN allowed
                            ELSE IF allowed = {k} THEN {Sentinel}
                            ELSE allowed \ {k}

(* deleteCursorKey: the row, the bindings to it, and the grants of it. *)
RemoveKey(k) == /\ Event
                /\ k \in Present
                /\ status' = [status EXCEPT ![k] = "gone"]
                /\ failures' = [failures EXCEPT ![k] = 0]
                /\ marks' = [marks EXCEPT ![k] = [b \in Bucket |-> "none"]]
                /\ binding' = [s \in Session |-> IF binding[s] = k THEN NoKey ELSE binding[s]]
                /\ grant' = [g \in Gateway |-> DropBoundKey(grant[g], k)]

(* markCredentialExhausted marks the account's source key. *)
MarkSource(k, b) == /\ Event
                    /\ k \in Present
                    /\ marks' = [marks EXCEPT ![k][b] = "live"]
                    /\ UNCHANGED <<status, failures, binding, grant>>

(* clearKeyBuckets. *)
ClearBuckets(k) == /\ Event
                   /\ marks[k] # [b \in Bucket |-> "none"]
                   /\ marks' = [marks EXCEPT ![k] = [b \in Bucket |-> "none"]]
                   /\ UNCHANGED <<status, failures, binding, grant>>

(* A mark's expiresAt passes. *)
Expire(k, b) == /\ Event
                /\ marks[k][b] = "live"
                /\ marks' = [marks EXCEPT ![k][b] = "past"]
                /\ UNCHANGED <<status, failures, binding, grant>>

(* The operator switches automatic disabling on or off. *)
SetPolicy == /\ events < MaxEvents
             /\ events' = events + 1
             /\ enabled' = ~enabled
             /\ UNCHANGED <<status, failures, marks, binding, grant, req>>

Step(r) == \/ Start(r) \/ Pin(r) \/ List(r) \/ Prune(r) \/ Choose(r) \/ Unbind(r)
           \/ Succeed(r) \/ ReadMarks(r) \/ Clear(r) \/ Bind(r)
           \/ FailOtherwise(r) \/ FailKey(r) \/ MarkBucket(r) \/ Report(r)
           \/ Judge(r) \/ DisableAfterCount(r)

Operate == \/ \E k \in Key : \/ Enable(k) \/ DisableManually(k) \/ DisableSource(k)
                             \/ RemoveKey(k) \/ ClearBuckets(k)
                             \/ \E b \in Bucket : MarkSource(k, b) \/ Expire(k, b)
           \/ SetPolicy

Next == Operate \/ \E r \in Request : Step(r) \/ Emit(r) \/ Abort(r)

(* The store answers and every upstream run ends in some way: cursor-runner *)
(* bounds each of its waits.                                               *)
Fairness == \A r \in Request : WF_vars(~At(r, "new") /\ Step(r))

Spec == Init /\ [][Next]_vars

FairSpec == Spec /\ Fairness

----------------------------------------------------------------------------
TypeOK == /\ status \in [Key -> {"active", "disabled", "gone"}]
          /\ failures \in [Key -> 0..Threshold]
          /\ marks \in [Key -> [Bucket -> {"none", "live", "past"}]]
          /\ binding \in [Session -> Key \cup {NoKey}]
          /\ grant \in [Gateway -> SUBSET (Key \cup {Sentinel})]
          /\ enabled \in BOOLEAN
          /\ events \in Nat
          /\ req \in [Request ->
               [pc : PC, allowed : SUBSET (Key \cup {Sentinel}),
                pinned : Key \cup {NoKey}, tried : SUBSET Key,
                key : Key \cup {NoKey}, soft : Nat, emitted : BOOLEAN,
                failure : Failure, cands : SUBSET Key,
                todo : SUBSET [key : Key, keep : SUBSET Bucket],
                read : [Bucket -> {"none", "live", "past"}]]]
          /\ \A r \in Request : req[r].key # NoKey => req[r].key \in req[r].tried

(* A durable turn of a bound session runs with the bound key or fails: any *)
(* other key would lose the tool calls its agent holds open.               *)
PinnedStays == \A r \in Request : req[r].pinned # NoKey => req[r].tried \subseteq {req[r].pinned}

(* A gateway key bound to some keys never has a request run with another,  *)
(* whichever of its keys were removed, and when.                           *)
WithinGrant == \A r \in Request : LET g == Granted[From[r].gateway] IN
                 g # {} => req[r].tried \subseteq g

(* A request of which the client has seen output is not run again. *)
NoRetryAfterOutput ==
  [][\A r \in Request : req'[r].tried # req[r].tried => ~req[r].emitted]_vars

(* Used-up buckets steer the choice and never refuse a request: it is      *)
(* turned away without a key only when no key that may serve it is left.   *)
MarksNeverRefuse ==
  [][\A r \in Request : (List(r) /\ At(r, "listing") /\ req'[r].pc = "failed")
        => \A k \in Active \cap From[r].keys :
             k \in req[r].tried \/ (Allowed(r) # {} /\ k \notin Allowed(r))]_vars

(* Every request ends, however keys fail and come back meanwhile. *)
EveryRequestEnds == \A r \in Request :
                      ~At(r, "new") ~> req[r].pc \in {"done", "failed"}

(* recordSuccess's header: a success in one bucket does not wipe out the   *)
(* mark of another.                                                        *)
OtherMarksSurvive ==
  [][\A r \in Request, b \in Bucket :
        (Clear(r) /\ b # From[r].bucket /\ b \in LiveMarks(req[r].key))
          => marks'[req[r].key][b] = "live"]_vars
============================================================================
