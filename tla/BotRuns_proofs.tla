--------------------------- MODULE BotRuns_proofs ---------------------------
(***************************************************************************)
(* Proofs about BotRuns: a terminal status is final; a call's result is    *)
(* accepted once; and a client that connects again is sent exactly the     *)
(* events it has not had.                                                  *)
(*                                                                         *)
(* StepSummary tells what any step does to the three parts of the store    *)
(* that the theorems speak of, and the theorems go by that.  Backfill is a *)
(* recursive function; that it returns the rest of the run's events is     *)
(* shown with the least counterexample, whatever the size of the pages.    *)
(***************************************************************************)
EXTENDS BotRuns, WellFoundedInduction, TLAPS

Status == {"absent", "queued", "paused", "running", "awaiting_tool", "awaiting_child"}
          \cup Terminal

StoreInv == /\ status \in [Run -> Status]
            /\ lease \in [Run -> {"none", "live", "lapsed"}]
            /\ lastSeq \in [Run -> Nat]
            /\ call \in [Run -> {"none", "complete", "submitted"}]
            /\ accepted \in [Run -> Nat]

(* A result is accepted when the call gets submitted, and it stays that.   *)
ResultInv == \A r \in Run : accepted[r] = IF call[r] = "submitted" THEN 1 ELSE 0

WireInv == /\ conn \in BOOLEAN
           /\ conn => seen \in 0..lastSeq[Followed]
           /\ ReplayExact

IInv == StoreInv /\ ResultInv /\ WireInv

----------------------------------------------------------------------------
(* What a step may do.                                                     *)

StatusStep == \/ UNCHANGED status
              \/ \E r \in Run : /\ status[r] \notin Terminal
                                /\ \E s \in Status : status' = [status EXCEPT ![r] = s]

LeaseStep == \/ UNCHANGED lease
             \/ \E r \in Run, l \in {"none", "live", "lapsed"} : lease' = [lease EXCEPT ![r] = l]

CallStep == \/ UNCHANGED <<call, accepted>>
            \/ \E r \in Run : /\ call[r] # "submitted"
                              /\ call' = [call EXCEPT ![r] = "complete"]
                              /\ UNCHANGED accepted
            \/ \E r \in Run : Submit(r)

WireStep == \/ UNCHANGED <<lastSeq, conn, seen, wire>>
            \/ \E r \in Run : Publish(r) /\ UNCHANGED <<conn, seen>>
            \/ \E n \in 0..lastSeq[Followed] :
                 /\ conn' = TRUE /\ seen' = n /\ wire' = Backfill(Followed, n)
                 /\ UNCHANGED lastSeq
            \/ Closed /\ UNCHANGED lastSeq

Summary == StatusStep /\ LeaseStep /\ CallStep /\ WireStep

LEMMA ParentRuns == \A p \in Parent : p \in Run /\ ChildOf(p) \in Run
BY DEF Run

LEMMA ReleaseSteps ==
  ASSUME StoreInv, NEW r \in Run, NEW s \in Status, Release(r, s)
  PROVE  StatusStep /\ LeaseStep
BY DEF Release, row, StatusStep, LeaseStep

LEMMA RecordSteps ==
  ASSUME StoreInv, NEW p \in Parent, Record(p)[p] # "submitted"
  PROVE  call[p] # "submitted" /\ Record(p) = [call EXCEPT ![p] = "complete"]
BY ParentRuns DEF StoreInv, Record

LEMMA RequestSummary ==
  ASSUME StoreInv, NEW p \in Parent,
         \/ Request(p) \/ RequestCut(p)
         \/ \E type \in {"text.delta", "run.completed", "other"} : Frame(p, type)
         \/ Abort(p) \/ Answer(p) \/ Fail(p) \/ Abandon(p)
         \/ Repeat(p) \/ HandBack(p) \/ Execute(p) \/ Spawn(p) \/ Executed(p)
         \/ \E s \in {"completed", "failed"} : ChildEnds(p, s)
  PROVE  Summary
<1> USE ParentRuns DEF Summary, Unmoved, row, client, system
<1>a. {"completed", "failed", "awaiting_tool", "running"} \subseteq Status
  BY DEF Status, Terminal
<1>1. CASE Request(p)
  BY <1>1, <1>a DEF Request, Create, StatusStep, LeaseStep, CallStep, WireStep, Terminal
<1>2. CASE RequestCut(p)
  BY <1>2, <1>a DEF RequestCut, Create, StatusStep, LeaseStep, CallStep, WireStep, Terminal
<1>3. CASE \E type \in {"text.delta", "run.completed", "other"} : Frame(p, type)
  BY <1>3 DEF Frame, StatusStep, LeaseStep, CallStep, WireStep
<1>4. CASE Abort(p)
  BY <1>4 DEF Abort, StatusStep, LeaseStep, CallStep, WireStep
<1>5. ASSUME NEW s \in Status, End(p, s) PROVE StatusStep /\ LeaseStep
  BY <1>5, ReleaseSteps DEF End
<1>6. ASSUME Unmoved PROVE WireStep
  BY <1>6 DEF WireStep
<1>7. ASSUME Continue(p) PROVE StatusStep /\ LeaseStep
  BY <1>7, <1>5, <1>a DEF Continue, StatusStep, LeaseStep
<1>8. CASE Answer(p)
  BY <1>8, <1>5, <1>6, <1>a DEF Answer, CallStep
<1>9. CASE Fail(p)
  BY <1>9, <1>5, <1>6, <1>a DEF Fail, CallStep
<1>10. CASE Abandon(p)
  BY <1>10, <1>6 DEF Abandon, CallStep, StatusStep, LeaseStep
<1>11. CASE Repeat(p)
  BY <1>11, <1>6, <1>7 DEF Repeat, CallStep
<1>12. CASE HandBack(p)
  BY <1>12, <1>5, <1>6, <1>a, RecordSteps DEF HandBack, CallStep
<1>13. CASE Execute(p)
  BY <1>13, <1>6, RecordSteps DEF Execute, CallStep, StatusStep, LeaseStep
<1>14. CASE Spawn(p)
  <2>1. CallStep
    BY <1>14, RecordSteps DEF Spawn, CallStep
  <2>2. StatusStep /\ LeaseStep /\ WireStep
    BY <1>14, <1>a DEF Spawn, StatusStep, LeaseStep, WireStep, Terminal
  <2> QED BY <2>1, <2>2
<1>15. CASE Executed(p)
  BY <1>15, <1>6, <1>7 DEF Executed, CallStep
<1>16. CASE \E s \in {"completed", "failed"} : ChildEnds(p, s)
  <2>1. PICK s \in {"completed", "failed"} : ChildEnds(p, s)
    BY <1>16
  <2>2. StatusStep /\ LeaseStep
    BY <2>1, <1>a, ReleaseSteps DEF ChildEnds
  <2> QED BY <2>1, <2>2, <1>6 DEF ChildEnds, CallStep
<1> QED BY <1>1, <1>2, <1>3, <1>4, <1>8, <1>9, <1>10, <1>11, <1>12, <1>13, <1>14, <1>15, <1>16

LEMMA RunSummary ==
  ASSUME StoreInv, NEW r \in Run,
         \/ Take(r) \/ WorkerThrows(r) \/ WorkerCancels(r)
         \/ \E s \in Outcome : WorkerEnds(r, s)
         \/ CancelRun(r) \/ ResumeRun(r) \/ ToolResult(r) \/ Lapse(r)
  PROVE  Summary
<1> USE DEF Summary, row, client, system
<1>a. {"queued", "failed", "cancelled", "running"} \cup Outcome \subseteq Status
  BY OutcomeAssumption DEF Status, Terminal
<1>1. CASE Take(r)
  BY <1>1, <1>a DEF Take, TakeFirst, Takeable, StatusStep, LeaseStep, CallStep, WireStep, Terminal
<1>2. CASE WorkerThrows(r)
  BY <1>2, <1>a, ReleaseSteps DEF WorkerThrows, CallStep, WireStep
<1>3. CASE WorkerCancels(r)
  BY <1>3, <1>a, ReleaseSteps DEF WorkerCancels, CallStep, WireStep
<1>4. ASSUME NEW s \in Outcome, WorkerEnds(r, s) PROVE Summary
  <2>1. CASE cancelled
    BY <1>4, <2>1 DEF WorkerEnds, StatusStep, LeaseStep, CallStep, WireStep
  <2>2. CASE ~cancelled
    BY <1>4, <2>2, <1>a, ReleaseSteps DEF WorkerEnds, CallStep, WireStep
  <2> QED BY <2>1, <2>2
<1>5. CASE CancelRun(r)
  BY <1>5, <1>a, ReleaseSteps DEF CancelRun, CallStep, WireStep
<1>6. CASE ResumeRun(r)
  BY <1>6, <1>a, ReleaseSteps DEF ResumeRun, CallStep, WireStep
<1>7. CASE ToolResult(r)
  BY <1>7, <1>a, ReleaseSteps DEF ToolResult, CallStep, WireStep
<1>8. CASE Lapse(r)
  BY <1>8 DEF Lapse, StatusStep, LeaseStep, CallStep, WireStep
<1> QED BY <1>1, <1>2, <1>3, <1>4, <1>5, <1>6, <1>7, <1>8

LEMMA StepSummary == ASSUME StoreInv, [Next]_vars PROVE Summary
<1> USE DEF Summary, row, client, system, StatusStep, LeaseStep, CallStep, WireStep
<1>1. CASE \E n \in 0..lastSeq[Followed] : Connect(n)
  BY <1>1 DEF Connect
<1>2. CASE Disconnect
  BY <1>2 DEF Disconnect
<1>3. CASE Stop
  BY <1>3 DEF Stop
<1>4. CASE Stopped \/ Crash
  BY <1>4 DEF Stopped, Crash, Exit
<1>5. CASE Restart
  BY <1>5 DEF Restart
<1>6. CASE UNCHANGED vars
  BY <1>6 DEF vars
<1> QED BY <1>1, <1>2, <1>3, <1>4, <1>5, <1>6, RequestSummary, RunSummary DEF Next

----------------------------------------------------------------------------
(* The backfill.                                                           *)

LEMMA LeastOf == ASSUME NEW T \in SUBSET Nat, T # {}
                 PROVE  \E m \in T : \A n \in T : m <= n
<1> DEFINE R == {ss \in Nat \X Nat : ss[1] < ss[2]}
<1>1. IsWellFoundedOn(R, Nat)
  BY NatLessThanWellFounded DEF OpToRel
<1> HIDE DEF R
<1>2. PICK x \in T : \A y \in T : <<y, x>> \notin R
  BY <1>1, WFMin
<1>3. ASSUME NEW y \in T PROVE x <= y
  <2>1. <<y, x>> \in Nat \X Nat /\ <<y, x>> \notin R
    BY <1>2
  <2>2. ~(y < x)
    BY <2>1 DEF R
  <2> QED BY <2>2
<1> QED BY <1>3

(* A page has the next events, and none only when there are none. *)
LEMMA PageNext ==
  ASSUME lastSeq \in [Run -> Nat], NEW r \in Run, NEW c \in 0..lastSeq[r]
  PROVE  \E k \in Nat : /\ Page(r, c) = [i \in 1..k |-> c + i]
                        /\ Len(Page(r, c)) = k
                        /\ c + k \in 0..lastSeq[r]
                        /\ k = 0 <=> c = lastSeq[r]
                        /\ k = 0 <=> Page(r, c) = <<>>
<1> DEFINE k == IF lastSeq[r] - c > PageSize THEN PageSize ELSE lastSeq[r] - c
<1>1. PageSize \in Nat \ {0} /\ lastSeq[r] \in Nat
  BY BoundAssumption
<1>2. k \in Nat /\ c + k \in 0..lastSeq[r] /\ (k = 0 <=> c = lastSeq[r])
  BY <1>1
<1>3. Page(r, c) = [i \in 1..k |-> c + i]
  BY DEF Page
<1> HIDE DEF k
<1>4. Len([i \in 1..k |-> c + i]) = k
  BY <1>2
<1>5. k = 0 <=> [i \in 1..k |-> c + i] = <<>>
  BY <1>2, <1>4
<1> QED BY <1>2, <1>3, <1>4, <1>5

(* Whatever the pages, backfill sends the events after the cursor, each    *)
(* once and in order.                                                      *)
LEMMA BackfillIsRest ==
  ASSUME lastSeq \in [Run -> Nat], NEW r \in Run, NEW n \in 0..lastSeq[r]
  PROVE  Backfill(r, n) = [i \in 1..(lastSeq[r] - n) |-> n + i]
<1> DEFINE L == lastSeq[r]
           Rest == [c \in 0..L |-> [i \in 1..(L - c) |-> c + i]]
           ByPage(f) == [c \in 0..L |-> IF Page(r, c) = <<>> THEN <<>>
                                        ELSE Page(r, c) \o f[c + Len(Page(r, c))]]
<1>0. L \in Nat
  OBVIOUS
<1>1. \A c \in 0..L : Rest[c] = ByPage(Rest)[c]
  <2> SUFFICES ASSUME NEW c \in 0..L PROVE Rest[c] = ByPage(Rest)[c]
    OBVIOUS
  <2>1. PICK k \in Nat : /\ Page(r, c) = [i \in 1..k |-> c + i]
                         /\ Len(Page(r, c)) = k
                         /\ c + k \in 0..L
                         /\ k = 0 <=> c = L
                         /\ k = 0 <=> Page(r, c) = <<>>
    BY PageNext
  <2> HIDE DEF L
  <2>2. CASE k = 0
    <3>1. Rest[c] = <<>>
      BY <1>0, <2>1, <2>2
    <3> QED BY <2>1, <2>2, <3>1
  <2>3. CASE k # 0
    <3>1. ByPage(Rest)[c] = [i \in 1..k |-> c + i] \o [i \in 1..(L - (c + k)) |-> (c + k) + i]
      BY <2>1, <2>3
    <3>2. [i \in 1..k |-> c + i] \o [i \in 1..(L - (c + k)) |-> (c + k) + i]
             = [i \in 1..(L - c) |-> c + i]
      BY <1>0, <2>1
    <3> QED BY <3>1, <3>2
  <2> QED BY <2>2, <2>3
<1>2. ASSUME NEW f, f = ByPage(f) PROVE f = Rest
  <2> DEFINE Left == {d \in Nat : d <= L /\ f[L - d] # Rest[L - d]}
  <2>1. CASE Left # {}
    <3>1. PICK d \in Left : \A e \in Left : d <= e
      BY <2>1, LeastOf
    <3> DEFINE c == L - d
    <3>2. c \in 0..L /\ f[c] # Rest[c]
      BY <1>0, <3>1
    <3>3. PICK k \in Nat : /\ Len(Page(r, c)) = k
                           /\ c + k \in 0..L
                           /\ k = 0 <=> Page(r, c) = <<>>
      BY <3>2, PageNext, ZenonT(40)
    <3>4. f[c] = ByPage(f)[c] /\ Rest[c] = ByPage(Rest)[c]
      BY <1>1, <1>2, <3>2
    <3>5. k # 0 => f[c + k] = Rest[c + k]
      <4>1. k # 0 => d - k \in Nat /\ d - k < d /\ d - k <= L /\ L - (d - k) = c + k
        BY <1>0, <3>1, <3>3
      <4>2. k # 0 => d - k \notin Left
        <5>1. d \in Nat /\ \A e \in Left : d <= e
          BY <3>1
        <5> HIDE DEF Left
        <5> QED BY <4>1, <5>1
      <4> HIDE DEF Rest
      <4> QED BY <4>1, <4>2
    <3> HIDE DEF L, Rest, c
    <3>6. f[c] = Rest[c]
      BY <3>2, <3>3, <3>4, <3>5
    <3> QED BY <3>2, <3>6
  <2>2. CASE Left = {}
    <3>1. ASSUME NEW c \in 0..L PROVE f[c] = Rest[c]
      <4>1. L - c \in Nat /\ L - c <= L /\ L - (L - c) = c
        BY <1>0
      <4> HIDE DEF Rest
      <4> QED BY <2>2, <4>1
    <3> QED BY <1>2, <3>1
  <2> QED BY <2>1, <2>2
<1>3. Rest = ByPage(Rest)
  BY <1>1
<1>4. Backfill(r, n) = (CHOOSE f : f = ByPage(f))[n]
  BY DEF Backfill
<1> HIDE DEF ByPage
<1>5. (CHOOSE f : f = ByPage(f)) = Rest
  BY <1>2, <1>3
<1> QED BY <1>4, <1>5

----------------------------------------------------------------------------
(* The invariants.                                                         *)

LEMMA InitIInv == Init => IInv
<1> SUFFICES ASSUME Init PROVE IInv
  OBVIOUS
<1>1. StoreInv
  BY DEF Init, StoreInv, Status
<1>2. ResultInv
  BY DEF Init, ResultInv
<1>3. WireInv
  BY DEF Init, WireInv, ReplayExact
<1> QED BY <1>1, <1>2, <1>3 DEF IInv

LEMMA StoreOfStep == ASSUME StoreInv, Summary PROVE StoreInv'
<1> USE DEF StoreInv, Summary
<1>1. status' \in [Run -> Status]
  BY DEF StatusStep
<1>2. lease' \in [Run -> {"none", "live", "lapsed"}]
  BY DEF LeaseStep
<1>3. call' \in [Run -> {"none", "complete", "submitted"}]
  BY DEF CallStep, Submit
<1>4. accepted' \in [Run -> Nat]
  BY DEF CallStep, Submit
<1>5. lastSeq' \in [Run -> Nat]
  BY DEF WireStep, Publish, Closed
<1> QED BY <1>1, <1>2, <1>3, <1>4, <1>5

LEMMA ResultOfStep == ASSUME StoreInv, ResultInv, CallStep PROVE ResultInv'
<1> USE DEF StoreInv, ResultInv
<1>1. CASE UNCHANGED <<call, accepted>>
  BY <1>1
<1>2. CASE \E r \in Run : /\ call[r] # "submitted"
                          /\ call' = [call EXCEPT ![r] = "complete"]
                          /\ UNCHANGED accepted
  BY <1>2
<1>3. CASE \E r \in Run : Submit(r)
  BY <1>3 DEF Submit
<1> QED BY <1>1, <1>2, <1>3 DEF CallStep

LEMMA NextEvent ==
  ASSUME NEW n \in Nat, NEW k \in Nat
  PROVE  Append([i \in 1..k |-> n + i], n + k + 1) = [i \in 1..(k + 1) |-> n + i]
<1>1. Len([i \in 1..k |-> n + i]) = k
  OBVIOUS
<1>2. [i \in 1..k |-> n + i] \in Seq(Nat)
  OBVIOUS
<1> QED BY <1>1, <1>2

LEMMA WireOfStep == ASSUME StoreInv, WireInv, WireStep PROVE WireInv'
<1>a. Followed \in Run /\ lastSeq \in [Run -> Nat] /\ lastSeq[Followed] \in Nat
  BY RunAssumption DEF Run, StoreInv
<1> DEFINE L == lastSeq[Followed]
<1>1. CASE UNCHANGED <<lastSeq, conn, seen, wire>>
  BY <1>1 DEF WireInv, ReplayExact
<1>2. ASSUME NEW r \in Run, Publish(r), UNCHANGED <<conn, seen>> PROVE WireInv'
  <2>1. CASE ~conn
    BY <1>2, <2>1 DEF WireInv, ReplayExact
  <2>2. CASE conn /\ r # Followed
    BY <1>a, <1>2, <2>2 DEF Publish, WireInv, ReplayExact
  <2>3. CASE conn /\ r = Followed
    <3>1. seen \in Nat /\ seen \in 0..L /\ wire = [i \in 1..(L - seen) |-> seen + i]
      BY <1>a, <2>3 DEF WireInv, ReplayExact
    <3>2. lastSeq'[Followed] = L + 1 /\ wire' = Append(wire, L + 1)
      BY <1>a, <1>2, <2>3 DEF Publish
    <3>3. wire' = [i \in 1..(L + 1 - seen) |-> seen + i]
      <4> DEFINE k == L - seen
      <4>1. k \in Nat /\ L + 1 = seen + k + 1 /\ L + 1 - seen = k + 1
        BY <1>a, <3>1
      <4>2. wire' = Append([i \in 1..k |-> seen + i], seen + k + 1)
        BY <3>1, <3>2, <4>1
      <4> HIDE DEF k
      <4> QED BY <3>1, <4>1, <4>2, NextEvent
    <3> QED BY <1>a, <1>2, <2>3, <3>1, <3>2, <3>3 DEF WireInv, ReplayExact
  <2> QED BY <2>1, <2>2, <2>3 DEF WireInv
<1>3. ASSUME NEW n \in 0..L, conn' = TRUE, seen' = n, wire' = Backfill(Followed, n),
             UNCHANGED lastSeq
      PROVE  WireInv'
  <2>1. wire' = [i \in 1..(L - n) |-> n + i]
    BY <1>a, <1>3, BackfillIsRest
  <2> QED BY <1>3, <2>1 DEF WireInv, ReplayExact
<1>4. CASE Closed /\ UNCHANGED lastSeq
  BY <1>4 DEF Closed, WireInv, ReplayExact
<1> QED BY <1>1, <1>2, <1>3, <1>4 DEF WireStep

LEMMA Invariance == Spec => []IInv
<1>1. IInv /\ [Next]_vars => IInv'
  BY StepSummary, StoreOfStep, ResultOfStep, WireOfStep DEF IInv, Summary
<1> QED BY InitIInv, <1>1, PTL DEF Spec

----------------------------------------------------------------------------
(* No step of a request, the worker, a route or the process rewrites a     *)
(* status that is terminal (releaseInternal, acquireRunLease).             *)
THEOREM TerminalStays == Spec => TerminalIsFinal
<1>1. IInv /\ [Next]_vars =>
        [\A r \in Run : status[r] \in Terminal => status'[r] = status[r]]_vars
  <2> SUFFICES ASSUME StoreInv, StatusStep, NEW r \in Run, status[r] \in Terminal
               PROVE  status'[r] = status[r]
    BY StepSummary DEF IInv, Summary
  <2> QED BY DEF StoreInv, StatusStep
<1> QED BY Invariance, <1>1, PTL DEF Spec, TerminalIsFinal

(* However often the loop, the route and a repeated call bring a result,   *)
(* one is accepted (submitToolResult, recordToolCall).                     *)
THEOREM ResultAcceptedOnce == Spec => []ResultOnce
<1>1. IInv => ResultOnce
  BY DEF IInv, ResultInv, ResultOnce
<1> QED BY Invariance, <1>1, PTL

(* For any page size and any number of reconnections the client is sent    *)
(* exactly what it has not had, in order (ReplayBridge, eventsAfter).      *)
THEOREM ReplayWithoutGap == Spec => []ReplayExact
<1>1. IInv => ReplayExact
  BY DEF IInv, WireInv
<1> QED BY Invariance, <1>1, PTL
=============================================================================
