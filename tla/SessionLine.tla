---------------------------- MODULE SessionLine ----------------------------
(***************************************************************************)
(* What SessionHub.acquire / tryAcquire promise the requests of one        *)
(* session: they stand in one line, and only the request at its head is    *)
(* inside.  "intact" is the promise's proviso; once it is lost the line    *)
(* promises nothing.                                                       *)
(***************************************************************************)
EXTENDS Naturals

CONSTANT Request        \* the requests (HTTP POSTs) of one session

VARIABLES place,        \* place[r]: r's place in the line, 0 when not in it
          inside,       \* the requests that may touch the session's slot
          intact        \* nobody has left the line's end past a live request

vars == <<place, inside, intact>>

Present == {r \in Request : place[r] # 0}

Init == /\ place = [r \in Request |-> 0]
        /\ inside = {}
        /\ intact = TRUE

(* r joins behind everybody present. *)
Joins(r) == /\ r \notin Present
            /\ place' = [place EXCEPT ![r] = place'[r]]
            /\ \A s \in Present : place[s] < place'[r]
            /\ place'[r] \in Nat \ {0}

Join(r) == Joins(r) /\ UNCHANGED <<inside, intact>>

(* tryAcquire: nobody is there, so r joins and is inside at once. *)
JoinInside(r) == /\ Present = {}
                 /\ Joins(r)
                 /\ inside' = {r}
                 /\ UNCHANGED intact

(* The head of the line goes in when nobody is inside. *)
Enter(r) == /\ r \in Present
            /\ inside = {}
            /\ \A s \in Present : place[r] <= place[s]
            /\ inside' = {r}
            /\ UNCHANGED <<place, intact>>

(* r leaves, from inside or from its place in the line. *)
Leave(r) == /\ r \in Present
            /\ place' = [place EXCEPT ![r] = 0]
            /\ inside' = inside \ {r}
            /\ UNCHANGED intact

(* The proviso is lost, for good. *)
Lapse == intact' = FALSE

Next == \/ \E r \in Request : Join(r) \/ JoinInside(r) \/ Enter(r) \/ Leave(r)
        \/ Lapse

Spec == Init /\ [][Next]_vars
============================================================================
