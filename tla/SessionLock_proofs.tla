------------------------- MODULE SessionLock_proofs ------------------------
(***************************************************************************)
(* Proofs about SessionLock: type correctness, mutual exclusion, exact     *)
(* probes and no overtaking while the chain is attached; mutual exclusion  *)
(* outright when no signal can fire; and that the chain implements         *)
(* SessionLine.                                                            *)
(*                                                                         *)
(* The invariant compares tickets by their turn.  Behind each ticket stands*)
(* everybody older that is still live (GapInv), so a settled tail is older *)
(* than every live ticket (SettledInv), and so is a holder (HeadInv).      *)
(***************************************************************************)
EXTENDS SessionLock, TLAPS

(* Only a bound ticket is in line or inside, and it is live. *)
PcInv == \A r \in Request :
            /\ pc[r] \in {"queued", "holding"} => r \in Live
            /\ pc[r] \in {"new", "sweeping", "probing"} => turn[r] = 0

(* Turns are handed out once, in increasing order. *)
TurnInv == /\ \A r \in Request : turn[r] <= bound
           /\ \A r, s \in Request : turn[r] # 0 /\ turn[r] = turn[s] => r = s

(* The map entry is the youngest live ticket, and is there while one is. *)
TailInv == /\ tail = NoTicket => Live = {}
           /\ tail # NoTicket => /\ tail \in Live
                                 /\ \A s \in Live : turn[s] <= turn[tail]

(* No live ticket stands between a ticket and the one it waits for. *)
GapInv == \A r \in Request : turn[r] # 0 =>
             \A s \in Live : turn[s] < turn[r] =>
                /\ previous[r] # NoTicket
                /\ turn[s] <= turn[previous[r]]

(* A settled tail is older than every live ticket. *)
SettledInv == \A t \in settled, s \in Live : turn[t] < turn[s]

(* A holder is the oldest live ticket. *)
HeadInv == \A r \in Holders, s \in Live : turn[r] <= turn[s]

ChainInv == TailInv /\ GapInv /\ SettledInv /\ HeadInv

IInv == TypeOK /\ PcInv /\ TurnInv /\ (~detached => ChainInv)

----------------------------------------------------------------------------
LEMMA InitIInv == Init => IInv
<1> SUFFICES ASSUME Init PROVE IInv
  OBVIOUS
<1>1. TypeOK
  BY DEF Init, TypeOK, PC
<1>2. Live = {} /\ Holders = {}
  BY DEF Init, Live, Holders
<1>3. PcInv /\ TurnInv
  BY DEF Init, PcInv, TurnInv
<1>4. ChainInv
  BY <1>2 DEF Init, ChainInv, TailInv, GapInv, SettledInv, HeadInv
<1> QED BY <1>1, <1>3, <1>4 DEF IInv

(* bindLock by a request that has no ticket keeps the chain's order. *)
LEMMA BindKeeps ==
  ASSUME IInv, NEW r \in Request, turn[r] = 0, BindLock(r),
         pc[r] \in {"sweeping", "probing"},
         NEW to \in {"queued", "holding"}, Move(r, to),
         to = "holding" => tail = NoTicket
  PROVE  IInv'
<1> USE NoTicketAssumption
<1>1. Live' = Live \cup {r}
  BY DEF BindLock, Live, IInv, TypeOK
<1>2. TypeOK'
  BY DEF BindLock, Move, IInv, TypeOK, PC
<1>3. PcInv'
  BY <1>1 DEF BindLock, Move, IInv, TypeOK, PcInv
<1>4. TurnInv'
  BY DEF BindLock, IInv, TypeOK, TurnInv
<1>5. r \notin settled /\ \A s \in Live : turn'[s] = turn[s] /\ turn[s] <= bound
  BY DEF BindLock, IInv, TypeOK, TurnInv, Live
<1>6. ASSUME ~detached' PROVE ChainInv'
  <2>0. ChainInv /\ UNCHANGED <<settled, released>> /\ turn'[r] = bound + 1
    BY <1>6 DEF BindLock, IInv, TypeOK
  <2>1. TailInv'
    <3>1. tail' = r /\ r # NoTicket /\ r \in Live'
      BY <1>1 DEF BindLock
    <3>2. \A s \in Live' : turn'[s] <= turn'[r]
      BY <1>1, <1>5, <2>0 DEF IInv, TypeOK, Live
    <3> QED BY <3>1, <3>2 DEF TailInv
  <2>2. GapInv'
    <3> SUFFICES ASSUME NEW q \in Request, turn'[q] # 0, NEW s \in Live',
                        turn'[s] < turn'[q]
                 PROVE  previous'[q] # NoTicket /\ turn'[s] <= turn'[previous'[q]]
      BY DEF GapInv
    <3>0. s \in Request BY DEF Live
    <3>1. CASE q = r
      <4>1. s # r BY <3>1, <2>0 DEF IInv, TypeOK
      <4>2. s \in Live /\ tail # NoTicket /\ turn[s] <= turn[tail] /\ tail \in Live
        BY <4>1, <1>1, <2>0 DEF ChainInv, TailInv
      <4>3. previous'[q] = tail /\ turn'[tail] = turn[tail] /\ turn'[s] = turn[s]
        BY <3>1, <4>2, <1>5 DEF BindLock, IInv, TypeOK
      <4> QED BY <4>2, <4>3
    <3>2. CASE q # r
      <4>1. turn'[q] = turn[q] /\ previous'[q] = previous[q] /\ turn[q] <= bound
        BY <3>2 DEF BindLock, IInv, TypeOK, TurnInv
      <4>2. s # r
        BY <4>1, <2>0 DEF IInv, TypeOK
      <4>3. s \in Live /\ turn'[s] = turn[s]
        BY <4>2, <1>1, <1>5
      <4>4. previous[q] # NoTicket /\ turn[s] <= turn[previous[q]]
        BY <4>1, <4>3, <2>0 DEF ChainInv, GapInv
      <4>5. previous[q] \in Request /\ turn[s] # 0 /\ turn[s] \in Nat
        BY <4>3, <4>4 DEF IInv, TypeOK, Live
      <4>6. previous[q] # r /\ turn'[previous[q]] = turn[previous[q]]
        BY <4>4, <4>5 DEF BindLock, IInv, TypeOK
      <4> QED BY <4>1, <4>3, <4>4, <4>6
    <3> QED BY <3>1, <3>2
  <2>3. SettledInv'
    BY <1>1, <1>5, <2>0 DEF BindLock, ChainInv, SettledInv, IInv, TypeOK, TurnInv
  <2>4. HeadInv'
    <3>1. CASE to = "holding"
      <4>1. Live' = {r} /\ Live = {}
        BY <3>1, <1>1, <2>0 DEF ChainInv, TailInv
      <4>2. \A q \in Holders' : q = r
        BY <4>1 DEF Holders, Move, IInv, TypeOK, PcInv
      <4> QED BY <4>1, <4>2, <2>0 DEF HeadInv, IInv, TypeOK
    <3>2. CASE to = "queued"
      <4>1. Holders' = Holders /\ Holders \subseteq Live
        BY <3>2 DEF Holders, Move, IInv, TypeOK, PcInv
      <4>2. \A q \in Holders : turn'[q] = turn[q] /\ turn[q] <= bound
        BY <4>1, <1>5
      <4> QED BY <1>1, <1>5, <4>1, <4>2, <2>0
          DEF ChainInv, HeadInv, Live, IInv, TypeOK
    <3> QED BY <3>1, <3>2
  <2> QED BY <2>1, <2>2, <2>3, <2>4 DEF ChainInv
<1> QED BY <1>2, <1>3, <1>4, <1>6 DEF IInv

(* A release by a live ticket takes it out of the order and nothing else. *)
LEMMA UnlockKeeps ==
  ASSUME IInv, NEW r \in Request, pc[r] \in {"queued", "holding"},
         Unlock(r), Move(r, "gone")
  PROVE  IInv'
<1> USE NoTicketAssumption
<1>1. r \in Live /\ Live' = Live \ {r}
  BY DEF Unlock, Live, IInv, TypeOK, PcInv
<1>2. TypeOK'
  BY <1>1 DEF Unlock, Move, IInv, TypeOK, PC, Live
<1>3. PcInv'
  BY <1>1 DEF Unlock, Move, IInv, TypeOK, PcInv
<1>4. TurnInv'
  BY DEF Unlock, IInv, TypeOK, TurnInv
<1>5. ASSUME ~detached' PROVE ChainInv'
  <2>0. /\ ChainInv
        /\ tail = r => Live = {r}
        /\ UNCHANGED <<turn, previous, settled>>
        /\ Holders' \subseteq Holders
    BY <1>5 DEF Unlock, Move, IInv, TypeOK, Holders
  <2>1. TailInv'
    BY <1>1, <2>0 DEF Unlock, ChainInv, TailInv, IInv, TypeOK
  <2>2. GapInv' /\ SettledInv' /\ HeadInv'
    BY <1>1, <2>0 DEF ChainInv, GapInv, SettledInv, HeadInv
  <2> QED BY <2>1, <2>2 DEF ChainInv
<1> QED BY <1>2, <1>3, <1>4, <1>5 DEF IInv

(* Once the wait is over, r is the oldest live ticket. *)
LEMMA PreviousSettledIsHead ==
  ASSUME IInv, ChainInv, NEW r \in Request, turn[r] # 0, PreviousSettled(r),
         NEW s \in Live
  PROVE  turn[r] <= turn[s]
<1> SUFFICES ASSUME turn[s] < turn[r] PROVE FALSE
  BY DEF IInv, TypeOK, Live
<1>1. previous[r] # NoTicket /\ turn[s] <= turn[previous[r]]
  BY DEF ChainInv, GapInv
<1>2. previous[r] \in settled /\ turn[previous[r]] < turn[s]
  BY <1>1 DEF PreviousSettled, ChainInv, SettledInv
<1> QED BY <1>1, <1>2 DEF IInv, TypeOK, Live

LEMMA EnterKeeps == ASSUME IInv, NEW r \in Request, Enter(r) PROVE IInv'
<1>1. r \in Live
  BY DEF Enter, IInv, PcInv
<1>2. Live' = Live /\ UNCHANGED <<turn, previous, settled, tail, detached>>
  BY DEF Enter, ChainUnchanged, Live
<1>3. TypeOK' /\ PcInv' /\ TurnInv'
  BY <1>1, <1>2 DEF Enter, Move, ChainUnchanged, IInv, TypeOK, PC, PcInv, TurnInv
<1>4. ASSUME ~detached' PROVE ChainInv'
  <2>1. ChainInv BY <1>2, <1>4 DEF IInv
  <2>2. Holders' \subseteq Holders \cup {r}
    BY DEF Enter, Move, Holders, IInv, TypeOK
  <2>3. \A s \in Live : turn[r] <= turn[s]
    BY <1>1, <2>1, PreviousSettledIsHead DEF Enter, Live
  <2>4. HeadInv'
    BY <1>2, <2>1, <2>2, <2>3 DEF ChainInv, HeadInv
  <2>5. TailInv' /\ GapInv' /\ SettledInv'
    BY <1>2, <2>1 DEF ChainInv, TailInv, GapInv, SettledInv
  <2> QED BY <2>4, <2>5 DEF ChainInv
<1> QED BY <1>3, <1>4 DEF IInv

LEMMA SettleKeeps == ASSUME IInv, NEW r \in Request, Settle(r) PROVE IInv'
<1>1. Live' = Live /\ Holders' = Holders
      /\ UNCHANGED <<pc, turn, previous, tail, detached, bound, released, aborted>>
  BY DEF Settle, Live, Holders
<1>2. TypeOK' /\ PcInv' /\ TurnInv'
  BY <1>1 DEF Settle, IInv, TypeOK, PcInv, TurnInv
<1>3. ASSUME ~detached' PROVE ChainInv'
  <2>1. ChainInv BY <1>1, <1>3 DEF IInv
  <2>2. turn[r] # 0 /\ r \notin Live /\ settled' = settled \cup {r}
    BY DEF Settle, IInv, TypeOK, Live
  <2>3. \A s \in Live : turn[r] < turn[s]
    <3> SUFFICES ASSUME NEW s \in Live PROVE turn[r] < turn[s]
      OBVIOUS
    <3>1. turn[r] <= turn[s]
      BY <2>1, <2>2, PreviousSettledIsHead DEF Settle
    <3>2. turn[r] # turn[s]
      BY <2>2 DEF IInv, TurnInv, Live
    <3> QED BY <3>1, <3>2 DEF IInv, TypeOK, Live
  <2>4. SettledInv'
    BY <1>1, <2>1, <2>2, <2>3 DEF ChainInv, SettledInv
  <2>5. TailInv' /\ GapInv' /\ HeadInv'
    BY <1>1, <2>1 DEF ChainInv, TailInv, GapInv, HeadInv
  <2> QED BY <2>4, <2>5 DEF ChainInv
<1> QED BY <1>2, <1>3 DEF IInv

(* A step that leaves the chain alone and moves r to or from no ticket. *)
LEMMA ChainUnchangedKeeps ==
  ASSUME IInv, NEW r \in Request, ChainUnchanged, aborted' \subseteq Abortable,
         \/ UNCHANGED pc
         \/ \E to \in {"sweeping", "probing", "gone"} :
              Move(r, to) /\ (to = "gone" \/ pc[r] = "new")
  PROVE  IInv'
<1>1. Live' = Live /\ Holders' \subseteq Holders
      /\ UNCHANGED <<turn, previous, settled, tail, detached, bound, released>>
  BY DEF ChainUnchanged, Live, Holders, Move, IInv, TypeOK
<1>2. TypeOK' /\ TurnInv'
  BY <1>1 DEF Move, IInv, TypeOK, PC, TurnInv
<1>3. PcInv'
  BY <1>1 DEF Move, IInv, TypeOK, PcInv
<1>4. (~detached => ChainInv)'
  BY <1>1 DEF IInv, ChainInv, TailInv, GapInv, SettledInv, HeadInv
<1> QED BY <1>2, <1>3, <1>4 DEF IInv

LEMMA NextIInv == IInv /\ [Next]_vars => IInv'
<1> SUFFICES ASSUME IInv, [Next]_vars PROVE IInv'
  OBVIOUS
<1>1. CASE UNCHANGED vars
  BY <1>1 DEF vars, IInv, TypeOK, PcInv, TurnInv, ChainInv, TailInv, GapInv,
              SettledInv, HeadInv, Live, Holders
<1>2. ASSUME NEW r \in Request, Acquire(r) PROVE IInv'
  BY <1>2, ChainUnchangedKeeps DEF Acquire, IInv, TypeOK
<1>3. ASSUME NEW r \in Request, Line(r) PROVE IInv'
  BY <1>3, BindKeeps DEF Line, IInv, PcInv
<1>4. ASSUME NEW r \in Request, LeaveBeforeLine(r) PROVE IInv'
  BY <1>4, ChainUnchangedKeeps DEF LeaveBeforeLine, IInv, TypeOK
<1>5. ASSUME NEW r \in Request, Enter(r) PROVE IInv'
  BY <1>5, EnterKeeps
<1>6. ASSUME NEW r \in Request, GiveUp(r) PROVE IInv'
  BY <1>6, UnlockKeeps DEF GiveUp
<1>7. ASSUME NEW r \in Request, TryAcquire(r) PROVE IInv'
  BY <1>7, ChainUnchangedKeeps DEF TryAcquire, IInv, TypeOK
<1>8. ASSUME NEW r \in Request, Probe(r) PROVE IInv'
  <2>1. CASE tail = NoTicket
    BY <1>8, <2>1, BindKeeps DEF Probe, IInv, PcInv
  <2>2. CASE tail # NoTicket
    BY <1>8, <2>2, ChainUnchangedKeeps DEF Probe, IInv, TypeOK
  <2> QED BY <2>1, <2>2
<1>9. ASSUME NEW r \in Request, Release(r) PROVE IInv'
  BY <1>9, UnlockKeeps DEF Release
<1>10. ASSUME NEW r \in Request, Settle(r) PROVE IInv'
  BY <1>10, SettleKeeps
<1>11. ASSUME NEW r \in Request, Abort(r) PROVE IInv'
  BY <1>11, ChainUnchangedKeeps DEF Abort, IInv, TypeOK
<1> QED
  BY <1>1, <1>2, <1>3, <1>4, <1>5, <1>6, <1>7, <1>8, <1>9, <1>10, <1>11 DEF Next

LEMMA AlwaysIInv == Spec => []IInv
BY InitIInv, NextIInv, PTL DEF Spec

LEMMA IInvSerial == IInv => SerialWhileAttached
<1> SUFFICES ASSUME IInv, ~detached, NEW r \in Holders, NEW s \in Holders
             PROVE  r = s
  BY DEF SerialWhileAttached, Serial
<1>1. r \in Live /\ s \in Live
  BY DEF IInv, PcInv, Holders
<1>2. turn[r] <= turn[s] /\ turn[s] <= turn[r]
  BY <1>1 DEF IInv, ChainInv, HeadInv
<1> QED BY <1>1, <1>2 DEF IInv, TypeOK, TurnInv, Live

----------------------------------------------------------------------------
(* Every variable of the lock chain keeps its type; a settled tail belongs *)
(* to a released ticket, and a released ticket was bound.                  *)
THEOREM TypeCorrect == Spec => []TypeOK
<1>1. IInv => TypeOK BY DEF IInv
<1> QED BY <1>1, AlwaysIInv, PTL

(* For any number of requests and whichever of them give up: two of them   *)
(* are never inside together unless a waiter has left the end of the line  *)
(* while somebody before it was still there.                               *)
THEOREM MutualExclusion == Spec => []SerialWhileAttached
BY AlwaysIInv, IInvSerial, PTL

(* tryAcquire's test lockTails.has(sessionId) is exact while attached.     *)
THEOREM ExactProbe == Spec => []FreeMeansFree
<1>1. IInv => FreeMeansFree
  BY DEF IInv, ChainInv, TailInv, FreeMeansFree
<1> QED BY <1>1, AlwaysIInv, PTL

(* While attached, the requests go in in the order of their bindLock.      *)
THEOREM NobodyOvertakes == Spec => NoOvertaking
<1> DEFINE Ordered == \A r \in Request :
                (pc[r] # "holding" /\ pc'[r] = "holding" /\ ~detached)
                  => \A s \in Live : turn'[r] <= turn[s]
<1>1. IInv /\ [Next]_vars => [Ordered]_vars
  <2> SUFFICES ASSUME IInv, Next, NEW q \in Request, pc[q] # "holding",
                      pc'[q] = "holding", ~detached, NEW s \in Live
               PROVE  turn'[q] <= turn[s]
    BY DEF vars
  <2>1. Enter(q) \/ Probe(q)
    BY DEF Next, Acquire, Line, LeaveBeforeLine, Enter, GiveUp, TryAcquire,
           Probe, Release, Settle, Abort, Move, IInv, TypeOK
  <2>2. CASE Enter(q)
    BY <2>2, PreviousSettledIsHead
    DEF Enter, ChainUnchanged, IInv, PcInv, Live
  <2>3. CASE Probe(q)
    <3>1. tail = NoTicket
      BY <2>3 DEF Probe, Move, IInv, TypeOK
    <3> QED BY <3>1 DEF IInv, ChainInv, TailInv
  <2> QED BY <2>1, <2>2, <2>3
<1> QED BY <1>1, AlwaysIInv, PTL DEF Spec, NoOvertaking

----------------------------------------------------------------------------
(* When no signal can fire, nobody gives up, and a request that releases   *)
(* the tail is the only live one.                                          *)
NeverDetached == ~detached /\ aborted = {}

LEMMA NoAbortStaysAttached ==
  ASSUME Abortable = {}
  PROVE  IInv /\ NeverDetached /\ [Next]_vars => NeverDetached'
<1> SUFFICES ASSUME IInv, NeverDetached, [Next]_vars PROVE NeverDetached'
  OBVIOUS
<1>1. ASSUME NEW r \in Request, Release(r) PROVE NeverDetached'
  <2>1. r \in Live /\ r \in Holders
    BY <1>1 DEF Release, IInv, PcInv, Holders
  <2>2. ASSUME tail = r PROVE Live = {r}
    <3>1. \A s \in Live : turn[s] = turn[r]
      BY <2>1, <2>2, NoTicketAssumption
      DEF IInv, TypeOK, NeverDetached, ChainInv, TailInv, HeadInv, Live
    <3> QED BY <2>1, <3>1 DEF IInv, TurnInv, Live
  <2> QED BY <1>1, <2>2 DEF Release, Unlock, NeverDetached
<1> QED
  BY <1>1 DEF Next, Acquire, Line, LeaveBeforeLine, Enter, GiveUp, TryAcquire,
              Probe, Settle, Abort, BindLock, ChainUnchanged, NeverDetached, vars

(* Without abort signals the requests of one session run serially.         *)
THEOREM SerialWithoutAborts == ASSUME Abortable = {} PROVE Spec => []Serial
<1>1. Init => NeverDetached
  BY DEF Init, NeverDetached
<1>2. IInv /\ NeverDetached => Serial
  BY IInvSerial DEF NeverDetached, SerialWhileAttached
<1> QED BY <1>1, <1>2, NoAbortStaysAttached, AlwaysIInv, PTL DEF Spec

----------------------------------------------------------------------------
(* The chain implements the line.                                          *)
LEMMA LinePresent == Abstract!Present = Live
BY DEF Abstract!Present, LinePlace, Live

LEMMA BindJoins ==
  ASSUME IInv, ~detached, NEW r \in Request, turn[r] = 0, BindLock(r)
  PROVE  Abstract!Joins(r)
<1>1. Live' = Live \cup {r} /\ r \notin Live
  BY DEF BindLock, Live, IInv, TypeOK
<1>2. turn' = [turn EXCEPT ![r] = bound + 1] /\ bound \in Nat
      /\ turn \in [Request -> Nat]
  BY DEF BindLock, IInv, TypeOK
<1>3. LinePlace' = [LinePlace EXCEPT ![r] = LinePlace'[r]]
  BY <1>1, <1>2 DEF LinePlace
<1>4. LinePlace'[r] = bound + 1
  BY <1>1, <1>2 DEF LinePlace
<1>5. \A s \in Live : LinePlace[s] < LinePlace'[r]
  BY <1>2, <1>4 DEF LinePlace, Live, IInv, TurnInv
<1> QED BY <1>1, <1>2, <1>3, <1>4, <1>5, LinePresent DEF Abstract!Joins

LEMMA UnlockLeaves ==
  ASSUME IInv, NEW r \in Request, pc[r] \in {"queued", "holding"},
         Unlock(r), Move(r, "gone"), ~detached'
  PROVE  Abstract!Leave(r)
<1>1. r \in Live /\ Live' = Live \ {r} /\ UNCHANGED <<turn, detached>>
  BY DEF Unlock, Live, IInv, TypeOK, PcInv
<1>2. LinePlace' = [LinePlace EXCEPT ![r] = 0]
  BY <1>1 DEF LinePlace
<1>3. Holders' = Holders \ {r}
  BY DEF Move, Holders, IInv, TypeOK
<1> QED BY <1>1, <1>2, <1>3, LinePresent DEF Abstract!Leave

LEMMA StepRefines == IInv /\ [Next]_vars => [Abstract!Next]_(Abstract!vars)
<1> SUFFICES ASSUME IInv, [Next]_vars, ~detached'
             PROVE  [Abstract!Next]_(Abstract!vars)
  BY DEF Abstract!Next, Abstract!Lapse, IInv, TypeOK
<1>0. ~detached
  BY DEF Next, Acquire, Line, LeaveBeforeLine, Enter, GiveUp, TryAcquire, Probe,
         Release, Settle, Abort, BindLock, Unlock, ChainUnchanged, vars
<1> DEFINE Same == LinePlace' = LinePlace /\ Holders' = Holders /\ detached' = detached
<1>1. ASSUME NEW r \in Request, \/ Acquire(r) \/ LeaveBeforeLine(r)
             \/ TryAcquire(r) \/ Settle(r) \/ Abort(r)
      PROVE  Same
  BY <1>1 DEF Acquire, LeaveBeforeLine, TryAcquire, Settle, Abort, Move,
              ChainUnchanged, LinePlace, Live, Holders, IInv, TypeOK
<1>2. ASSUME NEW r \in Request, Line(r) PROVE Abstract!Join(r)
  <2>1. Holders' = Holders
    BY <1>2 DEF Line, Move, Holders, IInv, TypeOK
  <2>2. turn[r] = 0 /\ BindLock(r) /\ detached' = detached
    BY <1>2 DEF Line, BindLock, IInv, PcInv
  <2> QED BY <2>1, <2>2, <1>0, BindJoins DEF Abstract!Join
<1>3. ASSUME NEW r \in Request, Enter(r) PROVE Abstract!Enter(r)
  <2>1. r \in Live /\ PreviousSettled(r) /\ ChainInv /\ Live' = Live
        /\ UNCHANGED <<turn, detached>> /\ Move(r, "holding") /\ pc[r] = "queued"
    BY <1>0, <1>3 DEF Enter, ChainUnchanged, IInv, PcInv, Live
  <2>2. \A s \in Live : turn[r] <= turn[s]
    BY <2>1, PreviousSettledIsHead DEF Live
  <2>3. Holders' = Holders \cup {r}
    BY <2>1 DEF Move, Holders, IInv, TypeOK
  <2>4. SerialWhileAttached'
    BY <1>3, EnterKeeps, IInvSerial, PTL
  <2>5. Holders = {}
    <3>1. \A q \in Holders : q = r
      BY <2>3, <2>4 DEF SerialWhileAttached, Serial, Holders
    <3> QED BY <3>1, <2>1 DEF Holders
  <2>6. LinePlace' = LinePlace
    BY <2>1 DEF LinePlace
  <2>7. \A s \in Live : LinePlace[r] <= LinePlace[s]
    BY <2>1, <2>2 DEF LinePlace, Live
  <2> QED BY <2>1, <2>3, <2>5, <2>6, <2>7, LinePresent DEF Abstract!Enter
<1>4. ASSUME NEW r \in Request, Probe(r) PROVE Abstract!JoinInside(r) \/ Same
  <2>1. CASE tail = NoTicket
    <3>1. Live = {} /\ Holders = {}
      BY <2>1, <1>0 DEF IInv, ChainInv, TailInv, PcInv, Holders
    <3>2. Holders' = {r}
      BY <1>4, <2>1, <3>1 DEF Probe, Move, Holders, IInv, TypeOK
    <3>3. turn[r] = 0 /\ BindLock(r) /\ detached' = detached
      BY <1>4, <2>1 DEF Probe, BindLock, IInv, PcInv
    <3> QED BY <3>1, <3>2, <3>3, <1>0, BindJoins, LinePresent
            DEF Abstract!JoinInside
  <2>2. CASE tail # NoTicket
    BY <1>4, <2>2 DEF Probe, Move, ChainUnchanged, LinePlace, Live, Holders,
                      IInv, TypeOK
  <2> QED BY <2>1, <2>2
<1>5. ASSUME NEW r \in Request, GiveUp(r) \/ Release(r) PROVE Abstract!Leave(r)
  BY <1>5, UnlockLeaves DEF GiveUp, Release
<1>6. CASE UNCHANGED vars
  BY <1>6 DEF vars, Abstract!vars, LinePlace, Live, Holders
<1> QED
  BY <1>1, <1>2, <1>3, <1>4, <1>5, <1>6 DEF Next, Abstract!Next, Abstract!vars

(* The promise chain keeps SessionLine's promise: a first-come first-served*)
(* line with one request inside, until a waiter detaches it.               *)
THEOREM ChainImplementsLine == Spec => ImplementsLine
<1>1. Init => Abstract!Init
  BY DEF Init, Abstract!Init, LinePlace, Live, Holders
<1> QED BY <1>1, StepRefines, AlwaysIInv, PTL DEF Spec, ImplementsLine, Abstract!Spec
============================================================================
