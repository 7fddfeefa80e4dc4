----------------------- MODULE ExecutorLeases_proofs -----------------------
(***************************************************************************)
(* Proofs about ExecutorLeases: a handle is called once; a handle is never *)
(* lost; and releaseAll reports the truth.                                 *)
(*                                                                         *)
(* A lease is live while its executor is held or may yet be.  The three    *)
(* safety properties come down to where the live leases are: none is a     *)
(* task's that is over, one that is retained is in the table or an orphan, *)
(* and one that a releaseAll took has an unfinished task it waits for.     *)
(***************************************************************************)
EXTENDS ExecutorLeases, TLAPS

LeaseRec == [id : Id \cup {NoId}, warmup : {"none", "running", "landed", "empty", "failed"},
             retiring : BOOLEAN, retained : BOOLEAN, releasing : BOOLEAN,
             running : Nat, released : BOOLEAN]

(* One call at a time, none after the handle was given back, none before   *)
(* it is there; and as long as there is one no task begins another.        *)
Sound(l) == /\ l.running \in {0, 1}
            /\ l.running = 1 => l.releasing /\ ~l.released
            /\ l.released => l.releasing
            /\ l.releasing => l.warmup = "landed"
            /\ l.warmup # "none" => l.id \in Id

Live(l) == l.warmup \in {"running", "landed"} /\ ~l.released

LeaseInv == /\ lease \in [Lease -> LeaseRec]
            /\ \A n \in Lease : Sound(lease[n])

Made == {n \in Lease : lease[n].warmup # "none"}

TableInv == /\ table \in [Id -> Nat]
            /\ Entries \subseteq Made
            /\ orphans \subseteq Made

(* t is a task of a lease that is l. *)
Good(t, l) == /\ t = [name |-> t.name, lease |-> t.lease, id |-> t.id, warms |-> t.warms,
                      at |-> t.at]
              /\ t.lease \in Lease /\ t.id \in Id \cup {NoId} /\ t.warms \in BOOLEAN
              /\ t.at \in {"warmup", "release", "cleared"}
              /\ t.name[1] = t.lease
              /\ l.warmup # "none"
              /\ t.warms => t.id \in Id
              /\ t.at = "release" => l.warmup # "running"
              /\ t.at = "cleared" => t.warms /\ ~Live(l)

TasksInv == \A t \in tasks : Good(t, lease[t.lease])

Busied == {t.lease : t \in tasks}

KeptInv == \A n \in Lease \ overwritten : Live(lease[n]) =>
             /\ n \in Entries \cup orphans \cup Busied
             /\ lease[n].retained => n \in Entries \cup orphans

(* The lease's release is waited for. *)
Waited(a, n) == \E t \in tasks : /\ t.lease = n
                                 /\ t.at # "cleared"
                                 /\ t.name \in admin[a].waits

AdminInv ==
  /\ admin = [a \in Admin |-> [busy |-> admin[a].busy, waits |-> admin[a].waits,
                               failed |-> admin[a].failed, took |-> admin[a].took]]
  /\ \A a \in Admin :
       /\ admin[a].busy \in BOOLEAN /\ admin[a].failed \in BOOLEAN
       /\ admin[a].took \subseteq Made
       /\ admin[a].busy /\ ~admin[a].failed =>
            \A n \in admin[a].took : Live(lease[n]) => Waited(a, n)

TypeInv == LeaseInv /\ TableInv /\ TasksInv

IInv == TypeInv /\ KeptInv /\ AdminInv

----------------------------------------------------------------------------
(* What becomes of a lease.                                                *)

Goes(l, m) == /\ m \in LeaseRec
              /\ Sound(l) => Sound(m)
              /\ m.warmup = l.warmup \/ (l.warmup = "running" /\ m.warmup \in {"landed", "empty", "failed"})
              /\ l.released => m.released

LeaseStep == /\ lease' \in [Lease -> LeaseRec]
             /\ \A n \in Lease : \/ Goes(lease[n], lease'[n])
                                 \/ /\ lease[n].warmup = "none"
                                    /\ \E i \in Id : lease'[n] = Warming(i)

LEMMA LeaseNumbers == 1 \in Lease /\ Lease \subseteq Nat \ {0}
BY BoundAssumption DEF Lease

LEMMA WarmingSound ==
  ASSUME NEW i \in Id
  PROVE  Warming(i) \in LeaseRec /\ Sound(Warming(i)) /\ Warming(i).warmup = "running"
         /\ ~Warming(i).retained
<1>1. /\ Unused \in LeaseRec
      /\ Unused.running = 0 /\ ~Unused.released /\ ~Unused.retained /\ ~Unused.releasing
  BY DEF Unused, LeaseRec
<1> DEFINE w == [Unused EXCEPT !.id = i, !.warmup = "running"]
<1>2. /\ w.running = 0 /\ ~w.released /\ ~w.retained /\ ~w.releasing /\ w.id = i /\ w.warmup = "running"
      /\ w \in LeaseRec
  BY <1>1 DEF LeaseRec
<1>3. Sound(w)
  BY <1>2 DEF Sound
<1> QED BY <1>2, <1>3 DEF Warming

LEMMA BeginGoes ==
  ASSUME NEW l \in LeaseRec
  PROVE  /\ Goes(l, Begin(l)) /\ Goes(l, Begin(Retire(l))) /\ Goes(l, l)
         /\ Begin(l).retained = l.retained
         /\ ~Begin(Retire(l)).retained
         /\ Begin(l).warmup = l.warmup /\ Begin(Retire(l)).warmup = l.warmup
<1> USE DEF LeaseRec
<1>1. Goes(l, l)
  BY DEF Goes
<1>2. ASSUME NEW k \in LeaseRec
      PROVE  /\ Goes(k, Begin(k)) /\ Begin(k).retained = k.retained
             /\ Begin(k).warmup = k.warmup
  <2>1. CASE k.warmup = "landed" /\ ~k.releasing
    <3> DEFINE m == [k EXCEPT !.releasing = TRUE, !.running = @ + 1]
    <3>1. Begin(k) = m
      BY <2>1 DEF Begin
    <3>2. m.releasing
      OBVIOUS
    <3>3. /\ m.running = k.running + 1 /\ m.released = k.released /\ m.warmup = k.warmup
          /\ m.retained = k.retained /\ m.id = k.id
      OBVIOUS
    <3>4. m \in LeaseRec
      <4> DEFINE c == k.running + 1
      <4>1. c \in Nat
        OBVIOUS
      <4> HIDE DEF c
      <4>2. [k EXCEPT !.releasing = TRUE, !.running = c] \in LeaseRec
        BY <4>1
      <4> QED BY <4>2 DEF c
    <3> HIDE DEF m
    <3>5. Sound(k) => Sound(m)
      BY <2>1, <3>2, <3>3 DEF Sound
    <3> QED BY <3>1, <3>3, <3>4, <3>5 DEF Goes
  <2>2. CASE ~(k.warmup = "landed" /\ ~k.releasing)
    BY <2>2 DEF Begin, Goes
  <2> QED BY <2>1, <2>2
<1> DEFINE r == Retire(l)
<1>3. /\ r \in LeaseRec /\ ~r.retained /\ r.warmup = l.warmup /\ r.id = l.id
      /\ r.running = l.running /\ r.releasing = l.releasing /\ r.released = l.released
  BY DEF Retire
<1>4. Sound(l) => Sound(r)
  BY <1>3 DEF Sound
<1>5. /\ Goes(l, Begin(r)) /\ Begin(r).warmup = l.warmup /\ ~Begin(r).retained
  <2> HIDE DEF r
  <2> QED BY <1>2, <1>3, <1>4 DEF Goes
<1> QED BY <1>1, <1>2, <1>5

LEMMA GoodGoes ==
  ASSUME NEW l, NEW m, NEW t, Good(t, l), Goes(l, m)
  PROVE  Good(t, m) /\ (Live(m) => Live(l))
BY DEF Good, Goes, Live

LEMMA WarmsTask ==
  ASSUME NEW t, NEW l, Good(t, l), t.id \in Id, t.at # "cleared",
         NEW u, u = [t EXCEPT !.warms = TRUE]
  PROVE  Good(u, l) /\ u.lease = t.lease /\ u.at = t.at /\ u.warms /\ u.id = t.id
<1>1. /\ u.name = t.name /\ u.lease = t.lease /\ u.id = t.id /\ u.warms = TRUE /\ u.at = t.at
      /\ u = [name |-> u.name, lease |-> u.lease, id |-> u.id, warms |-> u.warms, at |-> u.at]
  BY DEF Good
<1> QED BY <1>1 DEF Good

LEMMA NewTask ==
  ASSUME LeaseInv, NEW n \in Made, NEW i \in Id \cup {NoId}
  PROVE  /\ Good(Task(n, i), lease[n])
         /\ Task(n, i).lease = n /\ Task(n, i).at # "cleared" /\ Task(n, i).id = i
<1> DEFINE s == IF lease[n].warmup = "running" THEN "warmup" ELSE "release"
           t == Task(n, i)
<1>1. /\ s \in {"warmup", "release"} /\ n \in Lease /\ lease[n].warmup # "none"
      /\ s = "release" => lease[n].warmup # "running"
  BY DEF Made
<1>2. /\ t.name[1] = n /\ t.lease = n /\ t.id = i /\ t.warms = FALSE /\ t.at = s
      /\ t = [name |-> t.name, lease |-> t.lease, id |-> t.id, warms |-> t.warms, at |-> t.at]
  BY DEF Task
<1> HIDE DEF s, t
<1>3. Good(t, lease[n])
  BY <1>1, <1>2 DEF Good
<1> QED BY <1>1, <1>2, <1>3 DEF t

LEMMA MovedTask ==
  ASSUME NEW t, NEW l, Good(t, l), NEW s \in {"warmup", "release", "cleared"}
  PROVE  LET u == [t EXCEPT !.at = s] IN
         /\ u.name = t.name /\ u.lease = t.lease /\ u.warms = t.warms /\ u.at = s /\ u.id = t.id
         /\ u = [name |-> u.name, lease |-> u.lease, id |-> u.id, warms |-> u.warms, at |-> u.at]
BY DEF Good

LEMMA OneLease ==
  ASSUME lease \in [Lease -> LeaseRec], NEW n \in Lease, NEW m, Goes(lease[n], m),
         lease' = [lease EXCEPT ![n] = m]
  PROVE  LeaseStep
BY BeginGoes DEF LeaseStep, Goes

(* A release call has ended. *)
LEMMA CallOver ==
  ASSUME NEW l \in LeaseRec, Sound(l), l.running > 0
  PROVE  /\ Goes(l, [l EXCEPT !.running = @ - 1, !.released = TRUE])
         /\ Goes(l, [l EXCEPT !.running = @ - 1])
         /\ Goes(l, [l EXCEPT !.running = @ - 1, !.releasing = FALSE, !.retained = TRUE])
<1> DEFINE k == l.running - 1
<1>1. k = 0 /\ l.running = 1 /\ l.releasing /\ ~l.released /\ k \in Nat
      /\ (l.warmup # "none" => l.id \in Id)
  BY DEF Sound, LeaseRec
<1> HIDE DEF k
<1>2. ASSUME NEW m, m = [l EXCEPT !.running = k, !.released = TRUE] PROVE Goes(l, m)
  <2>1. /\ m.running = 0 /\ m.released = TRUE /\ m.releasing = l.releasing
        /\ m.warmup = l.warmup /\ m.id = l.id
    BY <1>1, <1>2 DEF LeaseRec
  <2>2. m \in LeaseRec
    BY <1>1, <1>2 DEF LeaseRec
  <2> QED BY <1>1, <2>1, <2>2 DEF Goes, Sound
<1>3. ASSUME NEW m, m = [l EXCEPT !.running = k] PROVE Goes(l, m)
  <2>1. /\ m.running = 0 /\ m.released = l.released /\ m.warmup = l.warmup /\ m.id = l.id
    BY <1>1, <1>3 DEF LeaseRec
  <2>2. m \in LeaseRec
    BY <1>1, <1>3 DEF LeaseRec
  <2> QED BY <1>1, <2>1, <2>2 DEF Goes, Sound
<1>4. ASSUME NEW m, m = [l EXCEPT !.running = k, !.releasing = FALSE, !.retained = TRUE]
      PROVE  Goes(l, m)
  <2>1. /\ m.running = 0 /\ m.released = l.released /\ m.warmup = l.warmup /\ m.id = l.id
    BY <1>1, <1>4 DEF LeaseRec
  <2>2. m \in LeaseRec
    BY <1>1, <1>4 DEF LeaseRec
  <2> QED BY <1>1, <2>1, <2>2 DEF Goes, Sound
<1> QED BY <1>2, <1>3, <1>4 DEF k

LEMMA KeepIt ==
  ASSUME NEW l \in LeaseRec,
         NEW m, \/ m = [l EXCEPT !.retained = TRUE]
                \/ /\ ~l.released /\ l.running = 0
                   /\ m = [l EXCEPT !.releasing = FALSE, !.retained = TRUE]
  PROVE  Goes(l, m)
<1>1. /\ m.running = l.running /\ m.released = l.released /\ m.warmup = l.warmup /\ m.id = l.id
      /\ m.releasing = l.releasing \/ (~l.released /\ l.running = 0)
      /\ m.releasing => l.releasing
  BY DEF LeaseRec
<1>2. m \in LeaseRec
  BY DEF LeaseRec
<1> QED BY <1>1, <1>2 DEF Goes, Sound

(* The lease l has landed as m. *)
Landed(l, m, how) == /\ m \in LeaseRec /\ m.warmup = how /\ m.running = l.running
                     /\ m.released = l.released /\ m.releasing = l.releasing /\ m.id = l.id
                     /\ m.retained = l.retained

LEMMA Landing ==
  ASSUME NEW l \in LeaseRec, l.warmup = "running", NEW how \in {"landed", "empty", "failed"},
         NEW m, Landed(l, m, how)
  PROVE  /\ Goes(l, m) /\ Goes(l, Begin(m)) /\ Begin(m).warmup = how
         /\ Begin(m).retained = l.retained
<1>1. Goes(m, Begin(m)) /\ Begin(m).warmup = how /\ Begin(m).retained = l.retained
  BY BeginGoes DEF Landed
<1>2. Sound(l) => Sound(m)
  BY DEF Sound, Landed
<1> QED BY <1>1, <1>2 DEF Goes, Landed

LEMMA LandSummary ==
  ASSUME LeaseInv, NEW n \in Lease, NEW how \in {"landed", "empty", "failed"}, Land(n, how)
  PROVE  \E m : /\ Landed(lease[n], m, how)
                /\ lease' = [lease EXCEPT ![n] = m] \/ lease' = [lease EXCEPT ![n] = Begin(m)]
<1> DEFINE r == lease[n].retiring \/ (table[lease[n].id] # n /\ how # "failed")
           m == [lease[n] EXCEPT !.warmup = how, !.retiring = r]
<1>1. r \in BOOLEAN /\ lease[n] \in LeaseRec
  BY DEF LeaseInv
<1>2. lease' = [lease EXCEPT ![n] = m] \/ lease' = [lease EXCEPT ![n] = Begin(m)]
  BY DEF Land
<1> HIDE DEF r
<1>3. Landed(lease[n], m, how)
  BY <1>1 DEF Landed, LeaseRec
<1> QED BY <1>2, <1>3

LEMMA TheLeaseStep == ASSUME TypeInv, Next PROVE LeaseStep
<1>a. lease \in [Lease -> LeaseRec] /\ \A n \in Lease : Sound(lease[n])
  BY DEF TypeInv, LeaseInv
<1>b. UNCHANGED lease => LeaseStep
  BY <1>a, BeginGoes DEF LeaseStep
<1>c. \A n \in Entries : n \in Lease
  BY DEF TypeInv, TableInv, Made
<1>1. ASSUME NEW i \in Id, NEW tab, NEW T, Register(i, tab, T) PROVE LeaseStep
  <2>1. PICK n \in Fresh : \E E :
          lease' = [m \in Lease |-> IF m \in E THEN Begin(Retire(lease[m]))
                                    ELSE IF m = n THEN Warming(i) ELSE lease[m]]
    BY <1>1 DEF Register
  <2>2. n \in Lease /\ lease[n].warmup = "none"
    BY DEF Fresh
  <2>3. \A m \in Lease : Goes(lease[m], Begin(Retire(lease[m]))) /\ Goes(lease[m], lease[m])
    BY <1>a, BeginGoes
  <2> QED BY <1>a, <2>1, <2>2, <2>3, WarmingSound DEF LeaseStep, Goes
<1>2. ASSUME NEW i \in Id, Warm(i) \/ Clear(i) \/ Recycle(i) \/ CoolDown(i) PROVE LeaseStep
  <2>a. table[i] # 0 => table[i] \in Lease
    BY <1>c DEF Entries
  <2>1. CASE Warm(i)
    BY <1>1, <2>1 DEF Warm
  <2>2. CASE Clear(i)
    BY <1>a, <2>a, <2>2, OneLease, BeginGoes DEF Clear
  <2>3. CASE Recycle(i)
    BY <1>a, <1>b, <2>a, <2>3, OneLease, BeginGoes DEF Recycle
  <2>4. CASE CoolDown(i)
    BY <1>b, <2>4 DEF CoolDown
  <2> QED BY <1>2, <2>1, <2>2, <2>3, <2>4
<1>3. ASSUME NEW a \in Admin, ReleaseAll(a) \/ Return(a) PROVE LeaseStep
  <2>1. CASE ReleaseAll(a)
    <3>1. \A n \in Lease : Goes(lease[n], Begin(Retire(lease[n]))) /\ Goes(lease[n], lease[n])
      BY <1>a, BeginGoes
    <3> QED BY <1>a, <2>1, <3>1 DEF ReleaseAll, LeaseStep, Goes
  <2>2. CASE Return(a)
    BY <1>b, <2>2 DEF Return
  <2> QED BY <1>3, <2>1, <2>2
<1>4. ASSUME NEW n \in Lease, NEW how \in {"landed", "empty", "failed"}, Land(n, how)
      PROVE  LeaseStep
  <2>1. lease[n].warmup = "running" /\ lease[n] \in LeaseRec
    BY <1>a, <1>4 DEF Land
  <2>2. PICK m : /\ Landed(lease[n], m, how)
                 /\ lease' = [lease EXCEPT ![n] = m] \/ lease' = [lease EXCEPT ![n] = Begin(m)]
    BY <1>4, LandSummary DEF TypeInv
  <2>3. Goes(lease[n], m) /\ Goes(lease[n], Begin(m))
    BY <2>1, <2>2, Landing
  <2> QED BY <1>a, <2>2, <2>3, OneLease
<1>5. ASSUME NEW n \in Lease, Released(n) PROVE LeaseStep
  BY <1>a, <1>5, OneLease, CallOver DEF Released
<1>6. ASSUME NEW n \in Lease, ReleaseFails(n) PROVE LeaseStep
  <2>1. lease[n] \in LeaseRec /\ Sound(lease[n]) /\ lease[n].running > 0
    BY <1>a, <1>6 DEF ReleaseFails
  <2>2. PICK m \in {[lease[n] EXCEPT !.running = @ - 1],
                    [lease[n] EXCEPT !.running = @ - 1, !.releasing = FALSE, !.retained = TRUE]} :
          lease' = [lease EXCEPT ![n] = m]
    BY <1>6 DEF ReleaseFails
  <2>3. Goes(lease[n], m)
    BY <2>1, CallOver
  <2> QED BY <1>a, <2>2, <2>3, OneLease
<1>7. ASSUME NEW t \in tasks,
             Cleared(t) \/ NothingToRelease(t) \/ FailedBefore(t) \/ Timeout(t)
      PROVE  LeaseStep
  <2>a. t.lease \in Lease
    BY DEF TypeInv, TasksInv, Good
  <2>1. CASE Cleared(t)
    <3>1. t.id \in Id
      BY <2>1 DEF Cleared, TypeInv, TasksInv, Good
    <3> QED BY <1>1, <2>1, <3>1 DEF Cleared
  <2>2. CASE NothingToRelease(t)
    BY <1>b, <2>2 DEF NothingToRelease
  <2>3. CASE FailedBefore(t)
    <3> DEFINE n == t.lease
               m == [lease[n] EXCEPT !.releasing = FALSE, !.retained = TRUE]
    <3>1. /\ lease[n] \in LeaseRec /\ lease' = [lease EXCEPT ![n] = m]
          /\ ~lease[n].released /\ lease[n].running = 0
      BY <1>a, <2>a, <2>3 DEF FailedBefore
    <3>2. Goes(lease[n], m)
      BY <3>1, KeepIt
    <3> HIDE DEF m
    <3> QED BY <1>a, <2>a, <3>1, <3>2, OneLease
  <2>4. CASE Timeout(t)
    BY <1>a, <2>a, <2>4, OneLease, KeepIt DEF Timeout
  <2> QED BY <1>7, <2>1, <2>2, <2>3, <2>4
<1> QED BY <1>2, <1>3, <1>4, <1>5, <1>6, <1>7 DEF Next

LEMMA LeaseOfStep == ASSUME LeaseInv, LeaseStep PROVE LeaseInv'
BY WarmingSound DEF LeaseInv, LeaseStep, Goes

(* What holds of the leases and tasks there were goes on holding.          *)
LEMMA OldKeep ==
  ASSUME TypeInv, LeaseStep
  PROVE  /\ Made \subseteq Made'
         /\ \A n \in Made : Goes(lease[n], lease'[n])
         /\ \A n \in Made : Live(lease[n])' => Live(lease[n])
         /\ \A t \in tasks : Good(t, lease'[t.lease])
<1>1. \A n \in Made : Goes(lease[n], lease'[n])
  BY DEF LeaseStep, Made
<1>2. Made \subseteq Made'
  BY <1>1 DEF Made, Goes
<1>3. \A n \in Made : Live(lease[n])' => Live(lease[n])
  BY <1>1 DEF Goes, Live
<1>4. \A t \in tasks : t.lease \in Made
  BY DEF TypeInv, TasksInv, Good, Made
<1>5. \A t \in tasks : Good(t, lease'[t.lease])
  BY <1>1, <1>4, GoodGoes DEF TypeInv, TasksInv
<1> QED BY <1>1, <1>2, <1>3, <1>5

----------------------------------------------------------------------------
(* The parts of a step.                                                    *)

(* A warm's registration: n is the new lease, E are the ones pushed out.   *)
LEMMA RegisterSummary ==
  ASSUME TypeInv, NEW i \in Id, NEW tab \in [Id -> Nat], {tab[j] : j \in Id} \ {0} \subseteq Entries,
         NEW T, Register(i, tab, T)
  PROVE  /\ table' \in [Id -> Nat]
         /\ overwritten \subseteq overwritten'
         /\ \E n \in Fresh, E \in SUBSET Made :
              /\ Entries' \subseteq Entries \cup {n}
              /\ n \in Entries'
              /\ \A j \in Id : tab[j] # 0 => tab[j] \in Entries' \cup E \cup overwritten'
              /\ lease' = [m \in Lease |-> IF m \in E THEN Begin(Retire(lease[m]))
                                           ELSE IF m = n THEN Warming(i) ELSE lease[m]]
              /\ \A m \in E : \E t \in tasks' : \E k \in Id : t = Task(m, k)
              /\ \A t \in tasks' : t \in T \/ \E m \in E, k \in Id : t = Task(m, k)
              /\ T \subseteq tasks'
<1>a. Entries \subseteq Made /\ Made \subseteq Lease
  BY DEF TypeInv, TableInv, Made
<1>1. PICK n \in Fresh : \E E \in Overflow([tab EXCEPT ![i] = n], i) :
        LET new == [tab EXCEPT ![i] = n] IN
        /\ table' = [j \in Id |-> IF new[j] \in E THEN 0 ELSE new[j]]
        /\ lease' = [m \in Lease |-> IF m \in E THEN Begin(Retire(lease[m]))
                                     ELSE IF m = n THEN Warming(i) ELSE lease[m]]
        /\ tasks' = T \cup {Task(m, CHOOSE j \in Id : tab[j] = m) : m \in E}
        /\ overwritten' = overwritten \cup ({tab[i]} \ {0})
  BY DEF Register
<1> DEFINE new == [tab EXCEPT ![i] = n]
<1>2. PICK E \in Overflow(new, i) :
        /\ table' = [j \in Id |-> IF new[j] \in E THEN 0 ELSE new[j]]
        /\ lease' = [m \in Lease |-> IF m \in E THEN Begin(Retire(lease[m]))
                                     ELSE IF m = n THEN Warming(i) ELSE lease[m]]
        /\ tasks' = T \cup {Task(m, CHOOSE j \in Id : tab[j] = m) : m \in E}
        /\ overwritten' = overwritten \cup ({tab[i]} \ {0})
  BY <1>1
<1>3. n \in Lease /\ n \notin Made /\ n \in Nat /\ n # 0
  BY LeaseNumbers DEF Fresh, Made
<1>4. new \in [Id -> Nat] /\ new[i] = n /\ \A j \in Id \ {i} : new[j] = tab[j]
  BY <1>3
<1>5. \A m \in E : m # 0 /\ \E j \in Id : tab[j] = m
  BY <1>4 DEF Overflow
<1>6. E \subseteq Made /\ n \notin E
  BY <1>a, <1>3, <1>5
<1> DEFINE place(m) == CHOOSE j \in Id : tab[j] = m
<1>7. /\ tasks' = T \cup {Task(m, place(m)) : m \in E}
      /\ \A m \in E : place(m) \in Id
      /\ lease' = [m \in Lease |-> IF m \in E THEN Begin(Retire(lease[m]))
                                   ELSE IF m = n THEN Warming(i) ELSE lease[m]]
  BY <1>2, <1>5
<1> HIDE DEF new, place
<1>8. table' \in [Id -> Nat]
  BY <1>2, <1>4
<1>9. Entries' \subseteq Entries \cup {n} /\ n \in Entries'
  BY <1>2, <1>3, <1>4, <1>6 DEF Entries
<1>10. \A j \in Id : tab[j] # 0 => tab[j] \in Entries' \cup E \cup overwritten'
  BY <1>2, <1>4 DEF Entries
<1>11. /\ \A m \in E : \E t \in tasks' : \E k \in Id : t = Task(m, k)
       /\ \A t \in tasks' : t \in T \/ \E m \in E, k \in Id : t = Task(m, k)
       /\ T \subseteq tasks'
  BY <1>7
<1>12. overwritten \subseteq overwritten'
  BY <1>2
<1>13. E \in SUBSET Made
  BY <1>6
<1> QED BY <1>7, <1>8, <1>9, <1>10, <1>11, <1>12, <1>13

(* The tasks go on, for all that admins wait for. *)
LEMMA AdminSame ==
  ASSUME TypeInv, AdminInv, LeaseStep, UNCHANGED admin,
         \A t \in tasks : t.at # "cleared" =>
           \E u \in tasks' : u.name = t.name /\ u.lease = t.lease /\ u.at # "cleared"
  PROVE  AdminInv'
<1>1. /\ Made \subseteq Made'
      /\ \A n \in Made : Live(lease[n])' => Live(lease[n])
  BY OldKeep
<1>2. \A a \in Admin, n \in Lease : Waited(a, n) => Waited(a, n)'
  BY DEF Waited
<1>3. ASSUME NEW a \in Admin
      PROVE  /\ admin[a]'.busy \in BOOLEAN /\ admin[a]'.failed \in BOOLEAN
             /\ admin[a]'.took \subseteq Made'
             /\ admin[a]'.busy /\ ~admin[a]'.failed =>
                  \A n \in admin[a]'.took : Live(lease[n])' => Waited(a, n)'
  <2>1. /\ admin[a].busy \in BOOLEAN /\ admin[a].failed \in BOOLEAN
        /\ admin[a].took \subseteq Made /\ Made \subseteq Lease
        /\ admin[a].busy /\ ~admin[a].failed =>
             \A n \in admin[a].took : Live(lease[n]) => Waited(a, n)
    BY DEF AdminInv, Made
  <2> QED BY <1>1, <1>2, <2>1
<1> QED BY <1>3 DEF AdminInv

LEMMA OverAdmin ==
  ASSUME TypeInv, AdminInv, LeaseStep, NEW T \in SUBSET tasks,
         NEW failed \in BOOLEAN, Over(T, failed),
         ~failed => \A t \in T : ~Live(lease[t.lease])'
  PROVE  AdminInv'
<1>1. /\ Made \subseteq Made'
      /\ \A n \in Made : Live(lease[n])' => Live(lease[n])
  BY OldKeep
<1>2. ASSUME NEW a \in Admin
      PROVE  /\ admin'[a].busy = admin[a].busy /\ admin'[a].took = admin[a].took
             /\ admin'[a].waits = admin[a].waits \ Names(T)
             /\ admin'[a].failed =
                  (admin[a].failed \/ (failed /\ admin[a].waits \cap Names(T) # {}))
             /\ admin'[a] = [busy |-> admin'[a].busy, waits |-> admin'[a].waits,
                             failed |-> admin'[a].failed, took |-> admin'[a].took]
  <2>1. admin[a] = [busy |-> admin[a].busy, waits |-> admin[a].waits,
                    failed |-> admin[a].failed, took |-> admin[a].took]
    BY DEF AdminInv
  <2>2. admin'[a] = [admin[a] EXCEPT
                       !.waits = @ \ Names(T),
                       !.failed = @ \/ (failed /\ admin[a].waits \cap Names(T) # {})]
    BY DEF Over
  <2> DEFINE f == admin[a].failed \/ (failed /\ admin[a].waits \cap Names(T) # {})
             w == admin[a].waits \ Names(T)
  <2>3. admin'[a] = [admin[a] EXCEPT !.waits = w, !.failed = f]
    BY <2>2
  <2> HIDE DEF f, w
  <2> QED BY <2>1, <2>3 DEF f, w
<1>3. ASSUME NEW a \in Admin, admin'[a].busy, ~admin'[a].failed,
             NEW n \in admin'[a].took, Live(lease[n])'
      PROVE  Waited(a, n)'
  <2>1. n \in Made /\ Live(lease[n]) /\ admin[a].busy /\ ~admin[a].failed
    BY <1>1, <1>2, <1>3 DEF AdminInv
  <2>2. PICK t \in tasks : t.lease = n /\ t.at # "cleared" /\ t.name \in admin[a].waits
    BY <1>2, <1>3, <2>1 DEF AdminInv, Waited
  <2>3. t.name \notin Names(T)
    <3>1. CASE failed
      BY <1>2, <1>3, <2>2, <3>1
    <3>2. CASE ~failed
      <4>1. \A u \in T : u.name # t.name
        BY <1>3, <2>2, <3>2 DEF TypeInv, TasksInv, Good
      <4> QED BY <4>1 DEF Names
    <3> QED BY <3>1, <3>2
  <2>4. t \notin T
    BY <2>3 DEF Names
  <2>5. t \in tasks' /\ t.name \in admin'[a].waits
    BY <1>2, <2>2, <2>3, <2>4, ZenonT(40) DEF Over
  <2> QED BY <2>2, <2>5 DEF Waited
<1>4. ASSUME NEW a \in Admin
      PROVE  /\ admin'[a].busy \in BOOLEAN /\ admin'[a].failed \in BOOLEAN
             /\ admin'[a].took \subseteq Made'
  <2>1. /\ admin[a].busy \in BOOLEAN /\ admin[a].failed \in BOOLEAN
        /\ admin[a].took \subseteq Made
    BY DEF AdminInv
  <2> QED BY <1>1, <1>2, <2>1
<1>5. admin' = [a \in Admin |-> [busy |-> admin'[a].busy, waits |-> admin'[a].waits,
                                 failed |-> admin'[a].failed, took |-> admin'[a].took]]
  <2>1. admin' = [a \in Admin |-> admin'[a]]
    BY DEF Over
  <2> QED BY <1>2, <2>1
<1> QED BY <1>3, <1>4, <1>5 DEF AdminInv

LEMMA OverTasks ==
  ASSUME TypeInv, LeaseStep, NEW T \in SUBSET tasks,
         NEW failed \in BOOLEAN, Over(T, failed),
         ~failed => \A t \in T : ~Live(lease[t.lease])'
  PROVE  /\ TasksInv'
         /\ tasks \ T \subseteq tasks'
<1>1. \A t \in tasks : Good(t, lease'[t.lease])
  BY OldKeep
<1>2. ASSUME NEW t \in T, t.warms, ~failed
      PROVE  LET u == [t EXCEPT !.at = "cleared"] IN Good(u, lease'[u.lease])
  <2> DEFINE u == [t EXCEPT !.at = "cleared"]
  <2>1. Good(t, lease'[t.lease]) /\ ~Live(lease'[t.lease])
    BY <1>1, <1>2
  <2>2. /\ u.name = t.name /\ u.lease = t.lease /\ u.warms = t.warms /\ u.at = "cleared"
        /\ u.id = t.id
        /\ u = [name |-> u.name, lease |-> u.lease, id |-> u.id, warms |-> u.warms, at |-> u.at]
    BY <2>1, MovedTask
  <2> HIDE DEF u
  <2> QED BY <1>2, <2>1, <2>2, ZenonT(40) DEF Good
<1>3. TasksInv'
  BY <1>1, <1>2 DEF Over, TasksInv
<1> QED BY <1>3 DEF Over

(* A task that could not release its lease has given it back. *)
LEMMA GivenBack ==
  ASSUME TypeInv, KeptInv, LeaseStep, NEW n \in Made, NEW i \in Id \cup {NoId}, Retain(n, i),
         UNCHANGED overwritten,
         \A m \in Lease \ {n} : lease'[m] = lease[m],
         \A t \in tasks : t.lease # n => t \in tasks'
  PROVE  KeptInv' /\ TableInv'
<1>a. n \in Lease /\ n \in Nat /\ n # 0
  BY LeaseNumbers DEF Made
<1>b. table \in [Id -> Nat] /\ Entries \subseteq Made /\ orphans \subseteq Made
  BY DEF TypeInv, TableInv
<1>1. /\ Made \subseteq Made'
      /\ \A m \in Made : Live(lease[m])' => Live(lease[m])
  BY OldKeep
<1>2. /\ table' \in [Id -> Nat] /\ Entries \subseteq Entries' /\ Entries' \subseteq Entries \cup {n}
      /\ orphans \subseteq orphans' /\ orphans' \subseteq orphans \cup {n}
      /\ lease[n].retained \/ n \in Entries' \cup orphans'
  <2>1. CASE lease[n].retained
    BY <1>b, <2>1 DEF Retain, Entries
  <2>2. CASE ~lease[n].retained /\ i # NoId /\ table[i] = 0
    <3>1. table' = [table EXCEPT ![i] = n] /\ UNCHANGED orphans /\ i \in Id
      BY <2>2 DEF Retain
    <3> QED BY <1>a, <1>b, <2>2, <3>1 DEF Entries
  <2>3. CASE ~lease[n].retained /\ ~(i # NoId /\ table[i] = 0)
    <3>1. UNCHANGED table /\ orphans' = orphans \cup {n}
      BY <2>3 DEF Retain
    <3> QED BY <1>b, <3>1 DEF Entries
  <2> QED BY <2>1, <2>2, <2>3
<1>3. TableInv'
  BY <1>b, <1>1, <1>2 DEF TableInv
<1>4. ASSUME NEW m \in Lease \ overwritten, Live(lease[m])'
      PROVE  /\ m \in (Entries \cup orphans \cup Busied)'
             /\ lease[m]'.retained => m \in (Entries \cup orphans)'
  <2>1. CASE m = n
    <3>1. lease[n].retained => n \in Entries \cup orphans
      BY <1>1, <1>4, <2>1 DEF KeptInv
    <3> QED BY <1>2, <2>1, <3>1
  <2>2. CASE m # n
    <3>1. lease'[m] = lease[m]
      BY <2>2
    <3>2. /\ m \in Entries \cup orphans \cup Busied
          /\ lease[m].retained => m \in Entries \cup orphans
      BY <1>4, <3>1 DEF KeptInv, Live
    <3>3. m \in Busied => m \in Busied'
      BY <2>2 DEF Busied
    <3> QED BY <1>2, <3>1, <3>2, <3>3
  <2> QED BY <2>1, <2>2
<1> QED BY <1>3, <1>4 DEF KeptInv

(* The leases stay where they are, or get a task when they are taken out.  *)
LEMMA KeptBy ==
  ASSUME TypeInv, KeptInv, LeaseStep, overwritten \subseteq overwritten',
         \A x \in Lease \ Made : Live(lease[x])' => x \in Entries' /\ ~lease'[x].retained,
         \A x \in (Entries \cup orphans) \ overwritten' : Live(lease[x])' =>
            x \in (Entries \cup orphans)' \/ (x \in Busied' /\ ~lease'[x].retained),
         \A x \in Busied \ overwritten' : Live(lease[x])' =>
            x \in (Entries \cup orphans \cup Busied)' /\ (lease'[x].retained => lease[x].retained)
  PROVE  KeptInv'
<1> SUFFICES ASSUME NEW x \in Lease \ overwritten', Live(lease[x])'
             PROVE  /\ x \in (Entries \cup orphans \cup Busied)'
                    /\ lease[x]'.retained => x \in (Entries \cup orphans)'
  BY DEF KeptInv
<1>1. CASE x \notin Made
  BY <1>1
<1>2. CASE x \in Made
  <2>1. Live(lease[x])
    BY <1>2, OldKeep
  <2>2. x \in Entries \cup orphans \/ (x \in Busied /\ ~lease[x].retained)
    BY <2>1 DEF KeptInv
  <2> QED BY <2>2
<1> QED BY <1>1, <1>2

LEMMA Registers ==
  ASSUME IInv, LeaseStep, NEW i \in Id, NEW tab \in [Id -> Nat], NEW T \in SUBSET tasks,
         Register(i, tab, T), UNCHANGED <<orphans, admin>>,
         \A t \in tasks \ T : t.at = "cleared",
         \A j \in Id : tab[j] # 0 => tab[j] = table[j],
         \A j \in Id : table[j] # 0 /\ Live(lease[table[j]]) => tab[j] = table[j]
  PROVE  TableInv' /\ TasksInv' /\ KeptInv' /\ AdminInv'
<1>a. TypeInv /\ KeptInv /\ AdminInv /\ TableInv /\ TasksInv /\ LeaseInv
  BY DEF IInv, TypeInv
<1>b. {tab[j] : j \in Id} \ {0} \subseteq Entries
  BY DEF Entries
<1>c. /\ Made \subseteq Made' /\ \A t \in tasks : Good(t, lease'[t.lease])
      /\ \A n \in Made : Goes(lease[n], lease'[n])
      /\ \A m \in Made : Live(lease[m])' => Live(lease[m])
  BY <1>a, OldKeep
<1>1. PICK n \in Fresh, E \in SUBSET Made :
              /\ Entries' \subseteq Entries \cup {n}
              /\ n \in Entries'
              /\ \A j \in Id : tab[j] # 0 => tab[j] \in Entries' \cup E \cup overwritten'
              /\ lease' = [m \in Lease |-> IF m \in E THEN Begin(Retire(lease[m]))
                                           ELSE IF m = n THEN Warming(i) ELSE lease[m]]
              /\ \A m \in E : \E t \in tasks' : \E k \in Id : t = Task(m, k)
              /\ \A t \in tasks' : t \in T \/ \E m \in E, k \in Id : t = Task(m, k)
              /\ T \subseteq tasks'
  BY <1>a, <1>b, RegisterSummary
<1>2. table' \in [Id -> Nat] /\ overwritten \subseteq overwritten'
  BY <1>a, <1>b, RegisterSummary
<1>3. n \in Lease /\ n \notin Made
  BY DEF Fresh, Made
<1>4. lease'[n] = Warming(i)
  BY <1>1, <1>3
<1>5. TableInv'
  <2>1. n \in Made'
    BY <1>3, <1>4, WarmingSound DEF Made
  <2> QED BY <1>a, <1>c, <1>1, <1>2, <2>1 DEF TableInv
<1>6. TasksInv'
  <2>1. ASSUME NEW m \in E, NEW k \in Id PROVE Good(Task(m, k), lease'[Task(m, k).lease])
    <3>1. Good(Task(m, k), lease[m]) /\ Task(m, k).lease = m
      BY <1>a, NewTask
    <3> QED BY <1>c, <3>1, GoodGoes
  <2> QED BY <1>c, <1>1, <2>1 DEF TasksInv
<1>7. \A t \in tasks : t.at # "cleared" => t \in tasks'
  BY <1>1
<1>8. AdminInv'
  BY <1>a, <1>7, AdminSame
<1>9. \A x \in Lease \ Made : Live(lease[x])' => x \in Entries' /\ ~lease'[x].retained
  <2>1. ASSUME NEW x \in Lease \ Made, x # n PROVE ~Live(lease[x])'
    <3>1. lease'[x] = lease[x] /\ lease[x].warmup = "none"
      BY <1>1, <2>1 DEF Made
    <3> QED BY <3>1 DEF Live
  <2> QED BY <1>1, <1>4, <2>1, WarmingSound
<1>10. ASSUME NEW x \in E PROVE x \in Busied' /\ ~lease'[x].retained
  <2>1. PICK t \in tasks', k \in Id : t = Task(x, k)
    BY <1>1
  <2>2. t.lease = x
    BY <1>a, <2>1, NewTask
  <2>3. lease'[x] = Begin(Retire(lease[x])) /\ lease[x] \in LeaseRec
    BY <1>a, <1>1 DEF Made, LeaseInv
  <2> QED BY <2>2, <2>3, BeginGoes DEF Busied
<1>11. \A x \in (Entries \cup orphans) \ overwritten' : Live(lease[x])' =>
            x \in (Entries \cup orphans)' \/ (x \in Busied' /\ ~lease'[x].retained)
  <2>1. ASSUME NEW x \in Entries, x \notin overwritten', Live(lease[x])'
        PROVE  x \in Entries' \/ (x \in Busied' /\ ~lease'[x].retained)
    <3>1. x \in Made /\ Live(lease[x])
      BY <1>a, <1>c, <2>1 DEF TableInv
    <3>2. PICK j \in Id : table[j] = x /\ x # 0
      BY <2>1 DEF Entries
    <3>3. tab[j] = x
      BY <3>1, <3>2
    <3> QED BY <1>1, <1>10, <2>1, <3>2, <3>3
  <2> QED BY <2>1
<1>12. ASSUME NEW x \in Busied, x \notin overwritten', Live(lease[x])'
       PROVE  x \in Busied' /\ (lease'[x].retained => lease[x].retained)
  <2>1. PICK t \in tasks : t.lease = x
    BY DEF Busied
  <2>2. x \in Made /\ Good(t, lease[x])
    BY <1>a, <2>1 DEF TasksInv, Good, Made
  <2>3. t.at # "cleared"
    BY <1>c, <1>12, <2>2 DEF Good
  <2>4. x \in E \/ lease'[x] = lease[x]
    BY <1>1, <1>3, <2>2 DEF Made
  <2> QED BY <1>7, <1>10, <2>1, <2>3, <2>4 DEF Busied
<1>13. KeptInv'
  BY <1>a, <1>2, <1>9, <1>11, <1>12, KeptBy
<1> QED BY <1>5, <1>6, <1>8, <1>13

(* The tasks that are there stay, the new ones are N, in these states of   *)
(* the leases they are to give back.                                       *)
LEMMA MoreTasks ==
  ASSUME TypeInv, AdminInv, LeaseStep, UNCHANGED admin, NEW N, tasks' = tasks \cup N,
         \A t \in N : t.lease \in Made /\ Good(t, lease[t.lease])
  PROVE  TasksInv' /\ AdminInv'
<1>1. \A t \in tasks : Good(t, lease'[t.lease])
  BY OldKeep
<1>2. \A t \in N : Good(t, lease'[t.lease])
  BY OldKeep, GoodGoes
<1>3. AdminInv'
  BY AdminSame
<1> QED BY <1>1, <1>2, <1>3 DEF TasksInv

LEMMA EntryOf == ASSUME TypeInv, NEW i \in Id, table[i] # 0
                 PROVE  table[i] \in Made /\ table[i] \in Entries /\ lease[table[i]] \in LeaseRec
BY DEF TypeInv, TableInv, Entries, LeaseInv, Made

LEMMA IdKeeps ==
  ASSUME IInv, LeaseStep, NEW i \in Id, Warm(i) \/ Clear(i) \/ Recycle(i) \/ CoolDown(i)
  PROVE  TableInv' /\ TasksInv' /\ KeptInv' /\ AdminInv'
<1>a. TypeInv /\ KeptInv /\ AdminInv /\ TableInv /\ TasksInv /\ LeaseInv
  BY DEF IInv, TypeInv
<1>b. table \in [Id -> Nat] /\ Entries \subseteq Made /\ orphans \subseteq Made
  BY <1>a DEF TableInv
<1>c. /\ Made \subseteq Made'
      /\ \A m \in Made : Live(lease[m])' => Live(lease[m])
  BY <1>a, OldKeep
<1>d. \A x \in Lease \ Made : lease'[x] = lease[x] => ~Live(lease[x])'
  BY DEF Made, Live
<1>1. CASE Warm(i)
  BY <1>a, <1>b, <1>1, Registers DEF Warm
<1>2. CASE Clear(i)
  <2> DEFINE n == table[i]
             t == [Task(n, i) EXCEPT !.warms = TRUE]
  <2>1. /\ n \in Made /\ n \in Entries /\ lease[n] \in LeaseRec
        /\ UNCHANGED <<table, orphans, admin, overwritten>>
        /\ lease' = [lease EXCEPT ![n] = Begin(@)] /\ tasks' = tasks \cup {t}
    BY <1>a, <1>2, EntryOf DEF Clear
  <2>2. Good(t, lease[n]) /\ t.lease = n
    <3>1. Good(Task(n, i), lease[n]) /\ Task(n, i).lease = n /\ Task(n, i).at # "cleared"
          /\ Task(n, i).id = i
      BY <1>a, <2>1, NewTask
    <3> QED BY <3>1, WarmsTask
  <2>3. TasksInv' /\ AdminInv'
    <3> DEFINE N == {t}
    <3>1. tasks' = tasks \cup N /\ \A u \in N : u.lease \in Made /\ Good(u, lease[u.lease])
      BY <2>1, <2>2
    <3> HIDE DEF N
    <3> QED BY <1>a, <2>1, <3>1, MoreTasks
  <2>4. \A x \in Lease : lease'[x] = lease[x] \/ (x = n /\ lease'[x].retained = lease[x].retained)
    BY <2>1, BeginGoes
  <2> HIDE DEF t, n
  <2>5. Entries' = Entries /\ Busied \subseteq Busied'
    BY <2>1 DEF Entries, Busied
  <2>6. KeptInv'
    <3>1. \A x \in Busied : x \in Lease
      BY <1>a DEF Busied, TasksInv, Good
    <3> QED BY <1>a, <1>d, <2>1, <2>4, <2>5, <3>1, KeptBy
  <2>7. TableInv'
    BY <1>b, <1>c, <2>1, <2>5 DEF TableInv
  <2> QED BY <2>3, <2>6, <2>7
<1>3. CASE Recycle(i) /\ table[i] = 0
  <2>1. UNCHANGED <<table, lease, tasks, orphans, admin, overwritten>>
    BY <1>3 DEF Recycle
  <2> QED BY <1>a, <2>1 DEF TableInv, TasksInv, KeptInv, AdminInv, Entries, Busied, Made, Waited, Live
<1>4. CASE Recycle(i) /\ table[i] # 0
  <2> DEFINE n == table[i]
             t == Task(n, i)
  <2>1. /\ n \in Made /\ n \in Entries /\ lease[n] \in LeaseRec
        /\ UNCHANGED <<orphans, admin, overwritten>>
        /\ table' = [table EXCEPT ![i] = 0]
        /\ lease' = [lease EXCEPT ![n] = Begin(Retire(@))] /\ tasks' = tasks \cup {t}
    BY <1>a, <1>4, EntryOf DEF Recycle
  <2>2. Good(t, lease[n]) /\ t.lease = n
    BY <1>a, <2>1, NewTask
  <2>3. /\ \A x \in Lease : lease'[x] = lease[x] \/ (x = n /\ ~lease'[x].retained)
        /\ ~lease'[n].retained
    BY <1>a, <2>1, BeginGoes DEF LeaseInv, Made
  <2>4. \A x \in Entries : x = n \/ x \in Entries'
    BY <1>b, <2>1 DEF Entries
  <2>5. Entries' \subseteq Entries /\ table' \in [Id -> Nat]
    BY <1>b, <2>1 DEF Entries
  <2> HIDE DEF t, n
  <2>6. TasksInv' /\ AdminInv'
    <3> DEFINE N == {t}
    <3>1. tasks' = tasks \cup N /\ \A u \in N : u.lease \in Made /\ Good(u, lease[u.lease])
      BY <2>1, <2>2
    <3> HIDE DEF N
    <3> QED BY <1>a, <2>1, <3>1, MoreTasks
  <2>7. Busied \subseteq Busied' /\ n \in Busied'
    BY <2>1, <2>2 DEF Busied
  <2>8. KeptInv'
    <3>1. \A x \in Busied : x \in Lease
      BY <1>a DEF Busied, TasksInv, Good
    <3>2. \A x \in Lease \ Made : Live(lease[x])' => x \in Entries' /\ ~lease'[x].retained
      BY <1>d, <2>1, <2>3
    <3>3. \A x \in Entries \cup orphans :
            x \in (Entries \cup orphans)' \/ (x \in Busied' /\ ~lease'[x].retained)
      BY <2>1, <2>3, <2>4, <2>7
    <3>4. \A x \in Busied : x \in Busied' /\ (lease'[x].retained => lease[x].retained)
      BY <2>3, <2>7, <3>1
    <3> QED BY <1>a, <2>1, <3>2, <3>3, <3>4, KeptBy
  <2>9. TableInv'
    BY <1>b, <1>c, <2>1, <2>5 DEF TableInv
  <2> QED BY <2>6, <2>8, <2>9
<1>5. CASE CoolDown(i)
  <2>1. UNCHANGED <<table, lease, tasks, orphans, admin, overwritten>>
    BY <1>5 DEF CoolDown
  <2> QED BY <1>a, <2>1 DEF TableInv, TasksInv, KeptInv, AdminInv, Entries, Busied, Made, Waited, Live
<1> QED BY <1>1, <1>2, <1>3, <1>4, <1>5

LEMMA AdminShape ==
  ASSUME NEW b, NEW w, NEW f, NEW k, NEW r,
         r = [busy |-> b, waits |-> w, failed |-> f, took |-> k]
  PROVE  /\ r.busy = b /\ r.waits = w /\ r.failed = f /\ r.took = k
         /\ r = [busy |-> r.busy, waits |-> r.waits, failed |-> r.failed, took |-> r.took]
OBVIOUS

LEMMA AdminKeeps ==
  ASSUME IInv, LeaseStep, NEW a \in Admin, ReleaseAll(a) \/ Return(a)
  PROVE  TableInv' /\ TasksInv' /\ KeptInv' /\ AdminInv'
<1>a. TypeInv /\ KeptInv /\ AdminInv /\ TableInv /\ TasksInv /\ LeaseInv
  BY DEF IInv, TypeInv
<1>b. /\ Made \subseteq Made' /\ \A t \in tasks : Good(t, lease'[t.lease])
      /\ \A n \in Made : Goes(lease[n], lease'[n])
      /\ \A m \in Made : Live(lease[m])' => Live(lease[m])
  BY <1>a, OldKeep
<1>1. CASE ReleaseAll(a)
  <2> DEFINE all == {table[i] : i \in {j \in Id : table[j] # 0}} \cup orphans
             mine == {Task(table[i], i) : i \in {j \in Id : table[j] # 0}}
                      \cup {Task(n, NoId) : n \in orphans}
  <2>1. /\ lease' = [n \in Lease |-> IF n \in Entries \cup orphans
                                     THEN Begin(Retire(lease[n])) ELSE lease[n]]
        /\ tasks' = tasks \cup mine
        /\ admin' = [admin EXCEPT ![a] =
                       [busy |-> TRUE, waits |-> Names(Settling \cup mine), failed |-> FALSE,
                        took |-> {t.lease : t \in Settling \cup mine}]]
        /\ table' = [i \in Id |-> 0] /\ orphans' = {} /\ UNCHANGED overwritten
    BY <1>1 DEF ReleaseAll, Awaited
  <2>2. \A t \in mine : /\ t.lease \in Made /\ Good(t, lease[t.lease]) /\ t.at # "cleared"
    <3>1. ASSUME NEW n \in Made, NEW i \in Id \cup {NoId}
          PROVE  /\ Task(n, i).lease \in Made /\ Task(n, i).at # "cleared"
                 /\ Good(Task(n, i), lease[Task(n, i).lease])
      BY <1>a, NewTask
    <3>2. /\ \A i \in Id : table[i] # 0 => table[i] \in Made
          /\ orphans \subseteq Made
      BY <1>a, EntryOf DEF TableInv
    <3> QED BY <3>1, <3>2
  <2>3. \A n \in Entries \cup orphans : \E t \in mine : t.lease = n
    <3>1. ASSUME NEW n \in Made, NEW i \in Id \cup {NoId} PROVE Task(n, i).lease = n
      BY <1>a, NewTask
    <3>2. ASSUME NEW n \in Entries PROVE \E t \in mine : t.lease = n
      <4>1. PICK i \in Id : table[i] = n /\ n # 0
        BY DEF Entries
      <4>2. n \in Made
        BY <1>a DEF TableInv
      <4> QED BY <3>1, <4>1, <4>2
    <3>3. ASSUME NEW n \in orphans PROVE \E t \in mine : t.lease = n
      <4>1. n \in Made
        BY <1>a DEF TableInv
      <4> QED BY <3>1, <4>1
    <3> QED BY <3>2, <3>3
  <2> HIDE DEF mine
  <2>4. TableInv'
    BY <2>1, <1>b DEF TableInv, Entries
  <2>5. TasksInv'
    <3>1. \A t \in mine : Good(t, lease'[t.lease])
      BY <1>b, <2>2, GoodGoes
    <3> QED BY <1>b, <2>1, <3>1 DEF TasksInv
  <2>6. KeptInv'
    <3>1. \A x \in Lease \ Made : Live(lease[x])' => x \in Entries' /\ ~lease'[x].retained
      <4>1. \A x \in Lease \ Made : lease'[x] = lease[x] /\ lease[x].warmup = "none"
        BY <1>a, <2>1 DEF TableInv, Made
      <4> QED BY <4>1 DEF Live
    <3>2. \A x \in Entries \cup orphans : x \in Busied' /\ ~lease'[x].retained
      <4> SUFFICES ASSUME NEW x \in Entries \cup orphans
                   PROVE  x \in Busied' /\ ~lease'[x].retained
        OBVIOUS
      <4>1. x \in Lease /\ lease[x] \in LeaseRec
        BY <1>a DEF TableInv, Made, LeaseInv
      <4>2. lease'[x] = Begin(Retire(lease[x]))
        BY <2>1, <4>1
      <4>3. x \in Busied'
        BY <2>1, <2>3 DEF Busied
      <4> QED BY <4>1, <4>2, <4>3, BeginGoes
    <3>3. \A x \in Busied : x \in Busied' /\ (lease'[x].retained => lease[x].retained)
      <4> SUFFICES ASSUME NEW x \in Busied
                   PROVE  x \in Busied' /\ (lease'[x].retained => lease[x].retained)
        OBVIOUS
      <4>1. x \in Lease
        BY <1>a DEF Busied, TasksInv, Good
      <4>2. x \in Busied'
        BY <2>1 DEF Busied
      <4> QED BY <2>1, <3>2, <4>1, <4>2
    <3> QED BY <1>a, <2>1, <3>1, <3>2, <3>3, KeptBy
  <2>7. AdminInv'
    <3>1. admin'[a] = [busy |-> TRUE, waits |-> Names(Settling \cup mine), failed |-> FALSE,
                       took |-> {t.lease : t \in Settling \cup mine}]
      BY <1>a, <2>1 DEF AdminInv
    <3>2. \A b \in Admin \ {a} : admin'[b] = admin[b]
      BY <1>a, <2>1 DEF AdminInv
    <3>3. \A t \in Settling \cup mine : t.lease \in Made /\ t \in tasks' /\ t.at # "cleared"
      BY <1>a, <2>1, <2>2 DEF Settling, TasksInv, Good, Made
    <3>4. admin'[a].took \subseteq Made'
      BY <1>b, <3>1, <3>3
    <3>5. \A n \in admin'[a].took : Waited(a, n)'
      BY <3>1, <3>3 DEF Waited, Names
    <3>6. ASSUME NEW b \in Admin, b # a, admin[b].busy, ~admin[b].failed,
                 NEW n \in admin[b].took, Live(lease[n])'
          PROVE  Waited(b, n)'
      <4>1. Waited(b, n)
        BY <1>a, <1>b, <3>6 DEF AdminInv
      <4> QED BY <2>1, <3>2, <3>6, <4>1 DEF Waited
    <3>7. ASSUME NEW b \in Admin
          PROVE  /\ admin'[b].busy \in BOOLEAN /\ admin'[b].failed \in BOOLEAN
                 /\ admin'[b].took \subseteq Made'
                 /\ admin'[b] = [busy |-> admin'[b].busy, waits |-> admin'[b].waits,
                                 failed |-> admin'[b].failed, took |-> admin'[b].took]
      <4>1. CASE b = a
        <5> DEFINE yes == TRUE
                   no == FALSE
                   w == Names(Settling \cup mine)
                   k == {t.lease : t \in Settling \cup mine}
        <5>1. /\ admin'[a] = [busy |-> yes, waits |-> w, failed |-> no, took |-> k]
              /\ yes \in BOOLEAN /\ no \in BOOLEAN
          BY <3>1
        <5> HIDE DEF yes, no, w, k
        <5> QED BY <3>4, <4>1, <5>1, AdminShape
      <4>2. CASE b # a
        <5>1. /\ admin[b].busy \in BOOLEAN /\ admin[b].failed \in BOOLEAN
              /\ admin[b].took \subseteq Made
              /\ admin[b] = [busy |-> admin[b].busy, waits |-> admin[b].waits,
                             failed |-> admin[b].failed, took |-> admin[b].took]
          BY <1>a DEF AdminInv
        <5> QED BY <1>b, <3>2, <4>2, <5>1
      <4> QED BY <4>1, <4>2
    <3>8. admin' = [b \in Admin |-> admin'[b]]
      BY <1>a, <2>1 DEF AdminInv
    <3> QED BY <3>2, <3>5, <3>6, <3>7, <3>8 DEF AdminInv
  <2> QED BY <2>4, <2>5, <2>6, <2>7
<1>2. CASE Return(a)
  <2>1. UNCHANGED <<table, lease, tasks, orphans, overwritten>> /\ admin' = [admin EXCEPT ![a] = Idle]
    BY <1>2 DEF Return
  <2>2. TableInv' /\ TasksInv' /\ KeptInv'
    BY <1>a, <2>1 DEF TableInv, TasksInv, KeptInv, Entries, Busied, Made, Live
  <2>3. ASSUME NEW b \in Admin
        PROVE  \/ b # a /\ admin'[b] = admin[b]
               \/ b = a /\ admin'[b] = [busy |-> FALSE, waits |-> {}, failed |-> FALSE, took |-> {}]
    BY <1>a, <2>1 DEF AdminInv, Idle
  <2>4. admin' = [b \in Admin |-> admin'[b]]
    BY <1>a, <2>1 DEF AdminInv
  <2>5. AdminInv'
    <3> SUFFICES ASSUME NEW b \in Admin
          PROVE  /\ admin'[b].busy \in BOOLEAN /\ admin'[b].failed \in BOOLEAN
                 /\ admin'[b].took \subseteq Made'
                 /\ admin'[b] = [busy |-> admin'[b].busy, waits |-> admin'[b].waits,
                                 failed |-> admin'[b].failed, took |-> admin'[b].took]
                 /\ admin'[b].busy /\ ~admin'[b].failed =>
                      \A n \in admin'[b].took : Live(lease[n])' => Waited(b, n)'
      BY <2>4 DEF AdminInv
    <3>1. CASE b = a
      <4> DEFINE no == FALSE
                 none == {}
      <4>1. /\ admin'[a] = [busy |-> no, waits |-> none, failed |-> no, took |-> none]
            /\ no \in BOOLEAN /\ none \subseteq Made' /\ ~no
        BY <2>3, <3>1
      <4> HIDE DEF no, none
      <4> QED BY <3>1, <4>1, AdminShape
    <3>2. CASE b # a
      <4>1. /\ admin[b].busy \in BOOLEAN /\ admin[b].failed \in BOOLEAN
            /\ admin[b].took \subseteq Made
            /\ admin[b] = [busy |-> admin[b].busy, waits |-> admin[b].waits,
                           failed |-> admin[b].failed, took |-> admin[b].took]
            /\ admin[b].busy /\ ~admin[b].failed =>
                 \A n \in admin[b].took : Live(lease[n]) => Waited(b, n)
        BY <1>a DEF AdminInv
      <4>2. admin'[b] = admin[b] /\ UNCHANGED <<lease, tasks>>
        BY <2>1, <2>3, <3>2
      <4>3. \A n \in admin[b].took : (Waited(b, n) <=> Waited(b, n)') /\ (Live(lease[n])' => Live(lease[n]))
        BY <1>b, <4>1, <4>2 DEF Waited
      <4> QED BY <1>b, <4>1, <4>2, <4>3
    <3> QED BY <3>1, <3>2
  <2> QED BY <2>2, <2>5
<1> QED BY <1>1, <1>2

LEMMA LandKeeps ==
  ASSUME IInv, LeaseStep, NEW n \in Lease, NEW how \in {"landed", "empty", "failed"}, Land(n, how)
  PROVE  TableInv' /\ TasksInv' /\ KeptInv' /\ AdminInv'
<1>a. TypeInv /\ KeptInv /\ AdminInv /\ TableInv /\ TasksInv /\ LeaseInv
  BY DEF IInv, TypeInv
<1>b. /\ Made \subseteq Made' /\ \A t \in tasks : Good(t, lease'[t.lease])
      /\ \A m \in Made : Live(lease[m])' => Live(lease[m])
  BY <1>a, OldKeep
<1> DEFINE i == lease[n].id
           lost == table[i] # n /\ how # "failed"
           late == [Task(n, i) EXCEPT !.at = "release"]
           waited == {t \in tasks : t.lease = n /\ t.at = "warmup"}
           moved(t) == [t EXCEPT !.at = "release"]
<1>1. /\ lease[n].warmup = "running"
      /\ tasks' = (tasks \ waited) \cup {moved(t) : t \in waited} \cup (IF lost THEN {late} ELSE {})
      /\ table' = IF how = "failed" /\ table[i] = n THEN [table EXCEPT ![i] = 0] ELSE table
      /\ UNCHANGED <<orphans, admin, overwritten>>
  BY DEF Land
<1>2. n \in Made /\ i \in Id /\ n # 0
  BY <1>a, <1>1, LeaseNumbers DEF Made, LeaseInv, Sound
<1>3. /\ lease'[n].warmup = how /\ lease'[n].retained = lease[n].retained
      /\ \A x \in Lease \ {n} : lease'[x] = lease[x]
  <2>1. PICK m : /\ Landed(lease[n], m, how)
                 /\ lease' = [lease EXCEPT ![n] = m] \/ lease' = [lease EXCEPT ![n] = Begin(m)]
    BY <1>a, LandSummary
  <2>2. lease[n] \in LeaseRec /\ lease \in [Lease -> LeaseRec]
    BY <1>a DEF LeaseInv
  <2>3. /\ m.warmup = how /\ m.retained = lease[n].retained
        /\ Begin(m).warmup = how /\ Begin(m).retained = lease[n].retained
    BY <1>1, <2>1, <2>2, Landing DEF Landed
  <2> QED BY <2>1, <2>2, <2>3
<1>4. /\ Good(late, lease'[n]) /\ late.lease = n /\ late.at = "release"
  <2> DEFINE t == Task(n, i)
  <2>1. Good(t, lease[n]) /\ t.lease = n
    BY <1>a, <1>2, NewTask
  <2>2. /\ late.name = t.name /\ late.lease = t.lease /\ late.warms = t.warms
        /\ late.at = "release" /\ late.id = t.id
        /\ late = [name |-> late.name, lease |-> late.lease, id |-> late.id,
                   warms |-> late.warms, at |-> late.at]
    <3> HIDE DEF t
    <3> QED BY <2>1, MovedTask DEF t
  <2> HIDE DEF t, late
  <2> QED BY <1>3, <2>1, <2>2 DEF Good
<1>5. \A t \in waited : /\ Good(moved(t), lease'[n]) /\ moved(t).lease = n
                        /\ moved(t).name = t.name /\ moved(t).at = "release"
  <2> SUFFICES ASSUME NEW t \in waited
               PROVE  /\ Good(moved(t), lease'[n]) /\ moved(t).lease = n
                      /\ moved(t).name = t.name /\ moved(t).at = "release"
    OBVIOUS
  <2> DEFINE u == moved(t)
  <2>1. Good(t, lease[n]) /\ t.lease = n
    BY <1>a DEF TasksInv
  <2>2. /\ u.name = t.name /\ u.lease = t.lease /\ u.warms = t.warms /\ u.at = "release"
        /\ u.id = t.id
        /\ u = [name |-> u.name, lease |-> u.lease, id |-> u.id, warms |-> u.warms, at |-> u.at]
    BY <2>1, MovedTask
  <2> HIDE DEF u
  <2>3. Good(u, lease'[n]) /\ u.lease = n /\ u.name = t.name /\ u.at = "release"
    BY <1>3, <2>1, <2>2 DEF Good
  <2> QED BY <2>3 DEF u
<1>6. TasksInv'
  <2>1. \A u \in tasks' : u \in tasks \/ u = late \/ \E t \in waited : u = moved(t)
    BY <1>1
  <2> HIDE DEF moved, late
  <2> QED BY <1>b, <1>4, <1>5, <2>1 DEF TasksInv
<1>7. \A t \in tasks : t \in tasks' \/ (t.lease = n /\ t.at = "warmup" /\ moved(t) \in tasks')
  BY <1>1
<1>8. AdminInv'
  <2> HIDE DEF moved
  <2>1. \A t \in tasks : t.at # "cleared" =>
           \E u \in tasks' : u.name = t.name /\ u.lease = t.lease /\ u.at # "cleared"
    BY <1>5, <1>7
  <2> QED BY <1>a, <1>1, <2>1, AdminSame
<1>9. Busied \subseteq Busied' /\ (lost => n \in Busied')
  <2>1. lost => late \in tasks'
    BY <1>1
  <2> HIDE DEF moved, late
  <2> QED BY <1>4, <1>5, <1>7, <2>1 DEF Busied
<1>10. /\ table' \in [Id -> Nat] /\ Entries' \subseteq Entries
       /\ \A x \in Entries : x \in Entries' \/ (x = n /\ how = "failed")
  BY <1>a, <1>1, <1>2 DEF TableInv, Entries
<1>11. TableInv'
  BY <1>a, <1>b, <1>1, <1>10 DEF TableInv
<1> HIDE DEF i, lost, late, waited, moved
<1>12. KeptInv'
  <2>1. \A x \in Lease \ Made : Live(lease[x])' => x \in Entries' /\ ~lease'[x].retained
    <3>1. \A x \in Lease \ Made : lease'[x] = lease[x] /\ lease[x].warmup = "none"
      BY <1>2, <1>3 DEF Made
    <3> QED BY <3>1 DEF Live
  <2>2. how = "failed" => ~Live(lease[n])'
    BY <1>3 DEF Live
  <2>3. \A x \in Entries \cup orphans : Live(lease[x])' => x \in (Entries \cup orphans)'
    BY <1>1, <1>10, <2>2
  <2>4. \A x \in Busied : x \in Busied' /\ (lease'[x].retained => lease[x].retained)
    <3>1. \A x \in Busied : x \in Lease
      BY <1>a DEF Busied, TasksInv, Good
    <3> QED BY <1>3, <1>9, <3>1
  <2> QED BY <1>a, <1>1, <2>1, <2>3, <2>4, KeptBy
<1> QED BY <1>6, <1>8, <1>11, <1>12

LEMMA CallKeeps ==
  ASSUME IInv, LeaseStep, NEW n \in Lease, Released(n) \/ ReleaseFails(n)
  PROVE  TableInv' /\ TasksInv' /\ KeptInv' /\ AdminInv'
<1>a. TypeInv /\ KeptInv /\ AdminInv /\ TableInv /\ TasksInv /\ LeaseInv
  BY DEF IInv, TypeInv
<1>b. /\ Made \subseteq Made' /\ \A t \in tasks : Good(t, lease'[t.lease])
      /\ \A m \in Made : Live(lease[m])' => Live(lease[m])
  BY <1>a, OldKeep
<1>c. lease \in [Lease -> LeaseRec]
  BY <1>a DEF LeaseInv
<1>d. \A x \in Lease : lease'[x] = lease[x] => (Live(lease[x])' => Live(lease[x]))
  BY DEF Live
<1>e. \A x \in Lease \ Made : ~Live(lease[x])
  BY DEF Made, Live
<1>f. \A x \in Busied : x \in Made
  BY <1>a DEF Busied, TasksInv, Good, Made
<1>g. Waiting(n) \in SUBSET tasks /\ \A t \in Waiting(n) : t.lease = n
  BY DEF Waiting
<1>1. CASE Released(n)
  <2>1. /\ UNCHANGED <<table, orphans, overwritten>> /\ Over(Waiting(n), FALSE)
        /\ \A x \in Lease \ {n} : lease'[x] = lease[x]
        /\ lease'[n].released = TRUE
    BY <1>c, <1>1 DEF Released, LeaseRec
  <2>2. ~Live(lease[n])'
    BY <2>1 DEF Live
  <2>3. TasksInv' /\ AdminInv' /\ tasks \ Waiting(n) \subseteq tasks'
    BY <1>a, <1>g, <2>1, <2>2, OverTasks, OverAdmin
  <2>4. \A x \in Busied : x # n => x \in Busied'
    BY <1>g, <2>3 DEF Busied
  <2>5. \A x \in Lease \ Made : ~Live(lease[x])'
    BY <1>d, <1>e, <2>1, <2>2
  <2>6. KeptInv'
    <3>1. \A x \in Busied : Live(lease[x])' => x \in Busied' /\ (lease'[x].retained => lease[x].retained)
      BY <1>f, <2>1, <2>2, <2>4 DEF Made
    <3>2. \A x \in Entries \cup orphans : x \in (Entries \cup orphans)'
      BY <2>1 DEF Entries
    <3> QED BY <1>a, <2>1, <2>5, <3>1, <3>2, KeptBy
  <2>7. TableInv'
    BY <1>a, <1>b, <2>1 DEF TableInv, Entries
  <2> QED BY <2>3, <2>6, <2>7
<1>2. CASE ReleaseFails(n) /\ Waiting(n) = {}
  <2>1. /\ UNCHANGED <<table, orphans, overwritten, tasks, admin>>
        /\ lease' = [lease EXCEPT ![n].running = @ - 1]
    BY <1>2 DEF ReleaseFails
  <2>2. \A x \in Lease : /\ lease'[x].retained = lease[x].retained
                         /\ lease'[x].warmup = lease[x].warmup
    BY <1>c, <2>1 DEF LeaseRec
  <2>3. TasksInv' /\ AdminInv'
    <3>1. AdminInv'
      BY <1>a, <2>1, AdminSame
    <3> QED BY <1>b, <2>1, <3>1 DEF TasksInv
  <2>4. \A x \in Lease \ Made : ~Live(lease[x])'
    BY <2>2 DEF Made, Live
  <2>5. Busied' = Busied /\ Entries' = Entries
    BY <2>1 DEF Busied, Entries
  <2>6. KeptInv'
    <3>1. \A x \in Busied : x \in Lease
      BY <1>f DEF Made
    <3> QED BY <1>a, <2>1, <2>2, <2>4, <2>5, <3>1, KeptBy
  <2>7. TableInv'
    BY <1>a, <1>b, <2>1, <2>5 DEF TableInv
  <2> QED BY <2>3, <2>6, <2>7
<1>3. CASE ReleaseFails(n) /\ Waiting(n) # {}
  <2>1. PICK t \in Waiting(n) :
           /\ Retain(n, t.id)
           /\ lease' = [lease EXCEPT ![n].running = @ - 1, ![n].releasing = FALSE,
                                     ![n].retained = TRUE]
           /\ Over(Waiting(n), TRUE)
           /\ UNCHANGED overwritten
    BY <1>3 DEF ReleaseFails
  <2>2. /\ n \in Made /\ t.id \in Id \cup {NoId}
        /\ \A x \in Lease \ {n} : lease'[x] = lease[x]
    BY <1>a, <1>c, <1>g, <2>1 DEF TasksInv, Good, Made
  <2>3. TasksInv' /\ AdminInv' /\ tasks \ Waiting(n) \subseteq tasks'
    BY <1>a, <1>g, <2>1, OverTasks, OverAdmin
  <2>4. \A u \in tasks : u.lease # n => u \in tasks'
    BY <1>g, <2>3
  <2>5. KeptInv' /\ TableInv'
    BY <1>a, <2>1, <2>2, <2>4, GivenBack
  <2> QED BY <2>3, <2>5
<1> QED BY <1>1, <1>2, <1>3

LEMMA TaskKeeps ==
  ASSUME IInv, LeaseStep, NEW t \in tasks,
         Cleared(t) \/ NothingToRelease(t) \/ FailedBefore(t) \/ Timeout(t)
  PROVE  TableInv' /\ TasksInv' /\ KeptInv' /\ AdminInv'
<1>a. TypeInv /\ KeptInv /\ AdminInv /\ TableInv /\ TasksInv /\ LeaseInv
  BY DEF IInv, TypeInv
<1>b. /\ Made \subseteq Made'
      /\ \A m \in Made : Live(lease[m])' => Live(lease[m])
  BY <1>a, OldKeep
<1>c. lease \in [Lease -> LeaseRec]
  BY <1>a DEF LeaseInv
<1> DEFINE n == t.lease
<1>d. n \in Made /\ n \in Lease /\ t.id \in Id \cup {NoId} /\ Good(t, lease[n])
  BY <1>a DEF TasksInv, Good, Made
<1>e. \A u \in tasks : u.lease \in Made
  BY <1>a DEF TasksInv, Good, Made
<1>1. CASE Cleared(t)
  <2> DEFINE tab == IF table[t.id] = n THEN [table EXCEPT ![t.id] = 0] ELSE table
             T == tasks \ {t}
  <2>1. /\ t.at = "cleared" /\ Register(t.id, tab, T) /\ UNCHANGED <<orphans, admin>>
    BY <1>1 DEF Cleared
  <2>2. t.id \in Id /\ ~Live(lease[n])
    BY <1>d, <2>1 DEF Good
  <2>3. table \in [Id -> Nat]
    BY <1>a DEF TableInv
  <2>4. /\ tab \in [Id -> Nat]
        /\ \A j \in Id : tab[j] # 0 => tab[j] = table[j]
        /\ \A j \in Id : table[j] # 0 /\ Live(lease[table[j]]) => tab[j] = table[j]
    BY <2>2, <2>3
  <2>5. T \in SUBSET tasks /\ \A u \in tasks \ T : u.at = "cleared"
    BY <2>1
  <2> HIDE DEF tab, T
  <2> QED BY <2>1, <2>2, <2>4, <2>5, Registers
<1>2. CASE NothingToRelease(t)
  <2>1. /\ UNCHANGED <<table, orphans, lease, overwritten>> /\ Over({t}, FALSE)
        /\ ~Live(lease[n])
    BY <1>d, <1>2 DEF NothingToRelease, Good, Live
  <2>2. ~Live(lease[n])'
    BY <1>b, <1>d, <2>1
  <2>3. TasksInv' /\ AdminInv' /\ tasks \ {t} \subseteq tasks'
    <3>1. {t} \in SUBSET tasks /\ \A u \in {t} : ~Live(lease[u.lease])'
      BY <2>2
    <3> QED BY <1>a, <2>1, <3>1, OverTasks, OverAdmin
  <2>4. \A x \in Busied : x # n => x \in Busied'
    BY <2>3 DEF Busied
  <2>5. \A x \in Lease : Live(lease[x])' => Live(lease[x])
    BY <2>1 DEF Live
  <2>6. KeptInv'
    <3>1. \A x \in Lease \ Made : ~Live(lease[x])
      BY DEF Made, Live
    <3>2. \A x \in Entries \cup orphans : x \in (Entries \cup orphans)'
      BY <2>1 DEF Entries
    <3> QED BY <1>a, <2>1, <2>2, <2>4, <2>5, <3>1, <3>2, KeptBy
  <2>7. TableInv'
    BY <1>a, <1>b, <2>1 DEF TableInv, Entries
  <2> QED BY <2>3, <2>6, <2>7
<1>3. CASE FailedBefore(t) \/ Timeout(t)
  <2>1. /\ Retain(n, t.id) /\ Over({t}, TRUE) /\ UNCHANGED overwritten
        /\ \A x \in Lease \ {n} : lease'[x] = lease[x]
    BY <1>c, <1>d, <1>3 DEF FailedBefore, Timeout
  <2>2. TasksInv' /\ AdminInv' /\ tasks \ {t} \subseteq tasks'
    <3>1. {t} \in SUBSET tasks
      OBVIOUS
    <3> QED BY <1>a, <2>1, <3>1, OverTasks, OverAdmin
  <2>3. \A u \in tasks : u.lease # n => u \in tasks'
    BY <2>2
  <2> HIDE DEF n
  <2>4. KeptInv' /\ TableInv'
    BY <1>a, <1>d, <2>1, <2>3, GivenBack
  <2> QED BY <2>2, <2>4
<1> QED BY <1>1, <1>2, <1>3

----------------------------------------------------------------------------
LEMMA InitIInv == Init => IInv
<1> SUFFICES ASSUME Init PROVE IInv
  OBVIOUS
<1>1. Home \in Id /\ 1 \in Lease
  BY IdAssumption, LeaseNumbers
<1>2. Unused \in LeaseRec /\ Sound(Unused) /\ ~Live(Unused) /\ Unused.warmup = "none"
  BY DEF Unused, LeaseRec, Sound, Live
<1>3. LeaseInv
  BY <1>1, <1>2, WarmingSound DEF Init, LeaseInv
<1>4. Entries = {1} /\ 1 \in Made
  BY <1>1, WarmingSound DEF Init, Entries, Made
<1>5. TableInv
  BY <1>4 DEF Init, TableInv
<1>6. TasksInv
  BY DEF Init, TasksInv
<1>7. KeptInv
  BY <1>1, <1>2, <1>4, WarmingSound DEF Init, KeptInv
<1>8. AdminInv
  BY DEF Init, AdminInv, Idle
<1> QED BY <1>3, <1>5, <1>6, <1>7, <1>8 DEF IInv, TypeInv

LEMMA NextIInv == IInv /\ [Next]_vars => IInv'
<1> SUFFICES ASSUME IInv, [Next]_vars PROVE IInv'
  OBVIOUS
<1>1. CASE Next
  <2>1. LeaseStep /\ LeaseInv'
    BY <1>1, TheLeaseStep, LeaseOfStep DEF IInv, TypeInv
  <2>2. TableInv' /\ TasksInv' /\ KeptInv' /\ AdminInv'
    BY <1>1, <2>1, IdKeeps, AdminKeeps, LandKeeps, CallKeeps, TaskKeeps DEF Next
  <2> QED BY <2>1, <2>2 DEF IInv, TypeInv
<1>2. CASE UNCHANGED vars
  BY <1>2, SMTT(40) DEF vars, IInv, TypeInv, LeaseInv, TableInv, TasksInv, KeptInv, AdminInv, Entries,
              Busied, Made, Waited, Live
<1> QED BY <1>1, <1>2

LEMMA Invariance == Spec => []IInv
<1> QED BY InitIInv, NextIInv, PTL DEF Spec

----------------------------------------------------------------------------
(* However many tasks work on a lease, and whichever of them time out, its *)
(* handle is never called while a call is under way or was answered.       *)
THEOREM HandleCalledOnce == Spec => []ReleasedOnce
<1>1. IInv => ReleasedOnce
  BY DEF IInv, TypeInv, LeaseInv, Sound, LeaseRec, ReleasedOnce
<1> QED BY Invariance, <1>1, PTL

(* For any number of workspaces, calls and administrators a held executor  *)
(* is in the table, among the orphans, or a task's, unless a warm has      *)
(* overwritten it.                                                         *)
THEOREM NoHandleLost == Spec => []HandleKept
<1>1. IInv => HandleKept
  BY DEF IInv, KeptInv, Live, HandleKept, Held, Busied
<1> QED BY Invariance, <1>1, PTL

(* When releaseAll reports success no lease that it found holds its        *)
(* executor still, nor is being warmed.                                    *)
THEOREM ReportsTruth == Spec => ReportIsTrue
<1>1. IInv /\ [Next]_vars =>
        [\A a \in Admin :
           admin[a].busy /\ ~admin'[a].busy /\ ~admin[a].failed =>
             \A n \in admin[a].took : ~Held(n) /\ lease[n].warmup # "running"]_vars
  <2> SUFFICES ASSUME IInv, Next, NEW a \in Admin, admin[a].busy, ~admin'[a].busy,
                      ~admin[a].failed, NEW n \in admin[a].took
               PROVE  ~Held(n) /\ lease[n].warmup # "running"
    BY SMTT(40)
  <2>1. admin[a].waits = {}
    <3>1. CASE UNCHANGED admin
      BY <3>1
    <3>2. ASSUME NEW T, NEW failed, Over(T, failed) PROVE FALSE
      <4> DEFINE w == admin[a].waits \ Names(T)
                 f == admin[a].failed \/ (failed /\ admin[a].waits \cap Names(T) # {})
      <4>1. admin'[a] = [admin[a] EXCEPT !.waits = w, !.failed = f]
        BY <3>2 DEF Over
      <4>2. admin[a] = [busy |-> admin[a].busy, waits |-> admin[a].waits,
                        failed |-> admin[a].failed, took |-> admin[a].took]
        BY DEF IInv, AdminInv
      <4> HIDE DEF w, f
      <4> QED BY <4>1, <4>2
    <3>3. CASE \E b \in Admin : ReleaseAll(b)
      BY <3>3 DEF ReleaseAll, IInv, AdminInv
    <3>4. ASSUME NEW b \in Admin, Return(b) PROVE admin[a].waits = {}
      BY <3>4 DEF Return, Idle, IInv, AdminInv
    <3>5. ASSUME NEW k \in Lease, ReleaseFails(k) PROVE UNCHANGED admin \/ \E T : Over(T, TRUE)
      BY <3>5 DEF ReleaseFails
    <3> QED BY <3>1, <3>2, <3>3, <3>4, <3>5
            DEF Next, Warm, Clear, Recycle, CoolDown, Land, Released, Cleared,
                NothingToRelease, FailedBefore, Timeout
  <2>2. ~Live(lease[n])
    BY <2>1 DEF IInv, AdminInv, Waited
  <2>3. lease[n].released => lease[n].warmup # "running"
    BY DEF IInv, TypeInv, LeaseInv, AdminInv, Sound, Made
  <2> QED BY <2>2, <2>3 DEF Live, Held, IInv, TypeInv, LeaseInv, AdminInv, Made, LeaseRec
<1> QED BY Invariance, <1>1, PTL DEF Spec, ReportIsTrue
=============================================================================
