---------------------------- MODULE SessionLock ----------------------------
(***************************************************************************)
(* The promise chain of SessionHub (session-hub.ts) that serialises the    *)
(* requests of one session.  bindLock makes a ticket: "held", resolved by  *)
(* release, and tail = previous.then(() => held), stored in lockTails.     *)
(* A request is inside once the tail it found there has settled.  Each     *)
(* request makes at most one ticket, so the ticket is named by it.  A step *)
(* is one stretch of code between two awaits; a promise settles in a       *)
(* microtask of its own.                                                   *)
(***************************************************************************)
EXTENDS Naturals, FiniteSets

CONSTANTS Request,      \* the requests of one session, one ticket each
          NoTicket,     \* undefined: no entry in lockTails
          Abortable     \* the requests whose AbortSignal may fire

ASSUME NoTicketAssumption == NoTicket \notin Request
ASSUME AbortableAssumption == Abortable \subseteq Request

VARIABLES pc,           \* where each request is
          tail,         \* lockTails.get(sessionId)
          previous,     \* previous[r]: the tail r found when it bound
          released,     \* tickets whose held promise is resolved
          settled,      \* tickets whose tail promise is resolved
          aborted,      \* requests whose signal has fired
          turn,         \* history: the order of bindLock calls, 0 = not yet
          bound,        \* history: how many tickets were made
          detached      \* history: the map entry was deleted under a live ticket

vars == <<pc, tail, previous, released, settled, aborted, turn, bound, detached>>

PC == {"new", "sweeping", "probing", "queued", "holding", "gone"}

(* Tickets made and not released: the requests in line or inside. *)
Live == {r \in Request : turn[r] # 0 /\ r \notin released}

Holders == {r \in Request : pc[r] = "holding"}

(* waitForPrevious(previous) resolves. *)
PreviousSettled(r) == previous[r] = NoTicket \/ previous[r] \in settled

----------------------------------------------------------------------------
Init == /\ pc = [r \in Request |-> "new"]
        /\ tail = NoTicket
        /\ previous = [r \in Request |-> NoTicket]
        /\ released = {}
        /\ settled = {}
        /\ aborted = {}
        /\ turn = [r \in Request |-> 0]
        /\ bound = 0
        /\ detached = FALSE

Move(r, to) == pc' = [pc EXCEPT ![r] = to]

(* Mutant: a ticket chained behind nothing.                                *)
BindLockUnchained(r) == /\ previous' = [previous EXCEPT ![r] = NoTicket]
                        /\ tail' = r
                        /\ bound' = bound + 1
                        /\ turn' = [turn EXCEPT ![r] = bound + 1]
                        /\ UNCHANGED <<released, settled, aborted, detached>>

(* bindLock: the ticket is chained behind the current tail and becomes it. *)
BindLock(r) == /\ previous' = [previous EXCEPT ![r] = tail]
               /\ tail' = r
               /\ bound' = bound + 1
               /\ turn' = [turn EXCEPT ![r] = bound + 1]
               /\ UNCHANGED <<released, settled, aborted, detached>>

(* Mutant: a release that resolves its ticket only as the map's tail.      *)
UnlockOnlyAsTail(r) == /\ released' = IF tail = r THEN released \cup {r} ELSE released
                       /\ tail' = IF tail = r THEN NoTicket ELSE tail
                       /\ detached' = (detached \/ (tail = r /\ Live # {r}))
                       /\ UNCHANGED <<previous, settled, aborted, turn, bound>>

(* Mutant: a release that deletes the map entry whoever's it is.           *)
UnlockClearing(r) == /\ released' = released \cup {r}
                     /\ tail' = NoTicket
                     /\ detached' = (detached \/ (tail = r /\ Live # {r}))
                     /\ UNCHANGED <<previous, settled, aborted, turn, bound>>

(* release: resolve held; delete the map entry only while it is this tail. *)
Unlock(r) == /\ released' = released \cup {r}
             /\ tail' = IF tail = r THEN NoTicket ELSE tail
             /\ detached' = (detached \/ (tail = r /\ Live # {r}))
             /\ UNCHANGED <<previous, settled, aborted, turn, bound>>

ChainUnchanged == UNCHANGED <<tail, previous, released, settled, turn, bound, detached>>

(* acquire begins and awaits sweep(). *)
Acquire(r) == /\ pc[r] = "new"
              /\ Move(r, "sweeping")
              /\ UNCHANGED aborted
              /\ ChainUnchanged

(* acquire after sweep(): throw when aborted, else take a place. *)
Line(r) == /\ pc[r] = "sweeping"
           /\ r \notin aborted
           /\ BindLock(r)
           /\ Move(r, "queued")

LeaveBeforeLine(r) == /\ pc[r] = "sweeping"
                      /\ r \in aborted
                      /\ Move(r, "gone")
                      /\ UNCHANGED aborted
                      /\ ChainUnchanged

(* The wait for the previous holder is over and the signal has not fired. *)
Enter(r) == /\ pc[r] = "queued"
            /\ PreviousSettled(r)
            /\ r \notin aborted
            /\ Move(r, "holding")
            /\ UNCHANGED aborted
            /\ ChainUnchanged

(* The signal fires during the wait, or is found fired after it: release()  *)
(* and throw.                                                              *)
GiveUp(r) == /\ pc[r] = "queued"
             /\ r \in aborted
             /\ Unlock(r)
             /\ Move(r, "gone")

(* tryAcquire's first look at the map, then await sweep(). *)
TryAcquire(r) == /\ pc[r] = "new"
                 /\ Move(r, IF tail = NoTicket THEN "probing" ELSE "gone")
                 /\ UNCHANGED aborted
                 /\ ChainUnchanged

(* Mutant: the map is not looked at again after the sweep. *)
ProbeWithoutLook(r) == /\ pc[r] = "probing"
                       /\ BindLock(r)
                       /\ Move(r, "holding")

(* tryAcquire's second look: bind and hold at once, or return undefined. *)
Probe(r) == /\ pc[r] = "probing"
            /\ IF tail = NoTicket
               THEN BindLock(r) /\ Move(r, "holding")
               ELSE Move(r, "gone") /\ UNCHANGED aborted /\ ChainUnchanged

(* The caller's finally calls the release function. *)
Release(r) == /\ pc[r] = "holding"
              /\ Unlock(r)
              /\ Move(r, "gone")

(* Mutant: the tail follows the previous tail and not held. *)
SettleUnreleased(r) == /\ turn[r] # 0
                       /\ r \notin settled
                       /\ PreviousSettled(r)
                       /\ settled' = settled \cup {r}
                       /\ UNCHANGED <<pc, tail, previous, released, aborted, turn, bound, detached>>

(* tail = previous.then(() => held) resolves. *)
Settle(r) == /\ r \in released \ settled
             /\ PreviousSettled(r)
             /\ settled' = settled \cup {r}
             /\ UNCHANGED <<pc, tail, previous, released, aborted, turn, bound, detached>>

(* The client goes away: the request's AbortSignal fires. *)
Abort(r) == /\ r \in Abortable \ aborted
            /\ pc[r] # "gone"
            /\ aborted' = aborted \cup {r}
            /\ UNCHANGED pc
            /\ ChainUnchanged

Next == \E r \in Request : \/ Acquire(r) \/ Line(r) \/ LeaveBeforeLine(r)
                           \/ Enter(r) \/ GiveUp(r)
                           \/ TryAcquire(r) \/ Probe(r)
                           \/ Release(r) \/ Settle(r) \/ Abort(r)

(* Promises settle, and a request that can go on does; Release is the      *)
(* finally of streamDurable / runForkedDurable.  No client must arrive or  *)
(* go away.                                                                *)
Fairness == \A r \in Request : /\ WF_vars(Line(r) \/ LeaveBeforeLine(r) \/ Probe(r))
                               /\ WF_vars(Enter(r) \/ GiveUp(r))
                               /\ WF_vars(Release(r))
                               /\ WF_vars(Settle(r))

Spec == Init /\ [][Next]_vars

FairSpec == Spec /\ Fairness

----------------------------------------------------------------------------
TypeOK == /\ pc \in [Request -> PC]
          /\ tail \in Request \cup {NoTicket}
          /\ previous \in [Request -> Request \cup {NoTicket}]
          /\ released \subseteq {r \in Request : turn[r] # 0}
          /\ settled \subseteq released
          /\ aborted \subseteq Abortable
          /\ turn \in [Request -> Nat]
          /\ bound \in Nat
          /\ detached \in BOOLEAN

(* Two requests never work on the session's slot at once: the header of    *)
(* acquire says the requests of one session run serially.                  *)
Serial == \A r, s \in Holders : r = s

(* The same while no waiter has left from the line's end past a request    *)
(* that is still there; bindLock's release deletes the map entry then.     *)
SerialWhileAttached == ~detached => Serial

(* The look at the map that tryAcquire relies on is exact: while the chain *)
(* is attached, an absent entry means that nobody holds or waits.          *)
FreeMeansFree == (~detached /\ tail = NoTicket) => Live = {}

(* Nobody overtakes while the chain is attached: whoever goes in was bound *)
(* before everybody else who is still in line.                             *)
NoOvertaking ==
  [][\A r \in Request : (pc[r] # "holding" /\ pc'[r] = "holding" /\ ~detached)
        => \A s \in Live : turn'[r] <= turn[s]]_vars

(* A request in line is served or gives up: no abort in the middle of the  *)
(* chain, and no refused probe, cuts off the requests behind it.           *)
EveryWaiterServed == \A r \in Request :
                        pc[r] = "queued" ~> pc[r] \in {"holding", "gone"}

(* The chain keeps SessionLine's promise as long as it stays attached.     *)
LinePlace == [r \in Request |-> IF r \in Live THEN turn[r] ELSE 0]

Abstract == INSTANCE SessionLine
              WITH place <- LinePlace, inside <- Holders, intact <- ~detached

ImplementsLine == Abstract!Spec
============================================================================
