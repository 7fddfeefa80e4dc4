------------------------ MODULE GatewayStream_proofs ------------------------
(***************************************************************************)
(* Proofs about GatewayStream: a stream is well formed however many events *)
(* it has; the log tells how it has ended; and a client that was told of   *)
(* its response's completion finds it in the store.                        *)
(*                                                                         *)
(* All three are about sent \o out, what the client has and what the       *)
(* generator is about to yield: an event's chunks are well formed as a     *)
(* whole, the client may be cut off between any two of them.               *)
(***************************************************************************)
EXTENDS GatewayStream, FiniteSetTheorems, SequenceTheorems, TLAPS

Chunk == [t : {"plain", "final", "error", "start", "delta", "stop"}, i : Nat]

Count(s, t, k) == Cardinality({j \in 1..k : s[j].t = t})
Starts(s) == Count(s, "start", Len(s))
Stops(s) == Count(s, "stop", Len(s))

(* The chunk c may come where "started" blocks were opened and "stopped"   *)
(* of them closed; nothing comes after it if it is the last.               *)
Fits(c, started, stopped) ==
  /\ c.t \in {"start", "plain", "final"} => started = stopped
  /\ c.t = "start" => c.i = started
  /\ c.t \in {"delta", "stop"} => started # stopped /\ c.i = started - 1

Ends(c) == c.t \in {"final", "error"}

(* WellFormed of any sequence. *)
Form(s) == \A k \in 1..Len(s) :
             /\ Fits(s[k], Count(s, "start", k - 1), Count(s, "stop", k - 1))
             /\ Ends(s[k]) => k = Len(s)

(* A stream under way: n blocks were opened, the last one is still open if *)
(* "opened", and nothing has ended the stream.                             *)
Under(s, n, opened) ==
  /\ s \in Seq(Chunk) /\ n \in Nat /\ Form(s)
  /\ \A k \in 1..Len(s) : ~Ends(s[k])
  /\ Starts(s) = n
  /\ IF opened THEN n > 0 /\ Stops(s) = n - 1 ELSE Stops(s) = n

----------------------------------------------------------------------------
(* Counting.                                                               *)

LEMMA CountStep ==
  ASSUME NEW s, NEW t, NEW k \in Nat
  PROVE  /\ Count(s, t, 0) = 0 /\ Count(s, t, k) \in Nat
         /\ s[k + 1].t = t => Count(s, t, k + 1) = Count(s, t, k) + 1
         /\ s[k + 1].t # t => Count(s, t, k + 1) = Count(s, t, k)
<1> DEFINE S == {j \in 1..k : s[j].t = t}
           T == {j \in 1..(k + 1) : s[j].t = t}
<1>1. IsFiniteSet(S) /\ Cardinality(S) \in Nat
  <2>1. IsFiniteSet(1..k) /\ S \in SUBSET (1..k)
    BY FS_Interval
  <2> QED BY <2>1, FS_Subset, FS_CardinalityType
<1>2. /\ k + 1 \notin S
      /\ s[k + 1].t = t => T = S \cup {k + 1}
      /\ s[k + 1].t # t => T = S
  OBVIOUS
<1>3. Cardinality(S \cup {k + 1}) = Cardinality(S) + 1
  <2> HIDE DEF S
  <2> QED BY <1>1, <1>2, FS_AddElement
<1>4. Count(s, t, 0) = 0
  <2>1. {j \in 1..0 : s[j].t = t} = {}
    OBVIOUS
  <2> QED BY <2>1, FS_EmptySet DEF Count
<1>5. Count(s, t, k) = Cardinality(S) /\ Count(s, t, k + 1) = Cardinality(T)
  BY DEF Count
<1> HIDE DEF S, T
<1> QED BY <1>1, <1>2, <1>3, <1>4, <1>5

LEMMA CountSame ==
  ASSUME NEW s, NEW u, NEW t, NEW k \in Nat, \A j \in 1..k : s[j] = u[j]
  PROVE  Count(s, t, k) = Count(u, t, k)
<1>1. {j \in 1..k : s[j].t = t} = {j \in 1..k : u[j].t = t}
  OBVIOUS
<1> QED BY <1>1 DEF Count

----------------------------------------------------------------------------
(* Form, chunk by chunk.                                                   *)

LEMMA FormGrows ==
  ASSUME NEW s \in Seq(Chunk), NEW c \in Chunk, Form(s), \A k \in 1..Len(s) : ~Ends(s[k]),
         Fits(c, Starts(s), Stops(s))
  PROVE  /\ Form(Append(s, c)) /\ Append(s, c) \in Seq(Chunk)
         /\ Starts(Append(s, c)) = Starts(s) + IF c.t = "start" THEN 1 ELSE 0
         /\ Stops(Append(s, c)) = Stops(s) + IF c.t = "stop" THEN 1 ELSE 0
         /\ ~Ends(c) => \A k \in 1..Len(Append(s, c)) : ~Ends(Append(s, c)[k])
<1> DEFINE u == Append(s, c)
<1>1. /\ u \in Seq(Chunk) /\ Len(u) = Len(s) + 1 /\ Len(s) \in Nat
      /\ \A j \in 1..Len(s) : u[j] = s[j]
      /\ u[Len(s) + 1] = c
  BY AppendProperties, LenProperties
<1> HIDE DEF u
<1>2. ASSUME NEW k \in 0..Len(s), NEW t PROVE Count(u, t, k) = Count(s, t, k)
  <2>1. k \in Nat /\ \A j \in 1..k : u[j] = s[j]
    BY <1>1
  <2> QED BY <2>1, CountSame
<1>3. ASSUME NEW t
      PROVE  /\ c.t = t => Count(u, t, Len(u)) = Count(s, t, Len(s)) + 1
             /\ c.t # t => Count(u, t, Len(u)) = Count(s, t, Len(s))
             /\ Count(s, t, Len(s)) \in Nat
  <2> DEFINE n == Len(s)
  <2>1. n \in Nat /\ Len(u) = n + 1 /\ u[n + 1] = c /\ n \in 0..Len(s)
    BY <1>1
  <2>2. Count(u, t, n) = Count(s, t, n)
    BY <1>2, <2>1
  <2> HIDE DEF n
  <2>3. /\ u[n + 1].t = t => Count(u, t, n + 1) = Count(u, t, n) + 1
        /\ u[n + 1].t # t => Count(u, t, n + 1) = Count(u, t, n)
        /\ Count(s, t, n) \in Nat
    BY <2>1, CountStep
  <2> QED BY <2>1, <2>2, <2>3 DEF n
<1>4. ASSUME NEW k \in 1..Len(u)
      PROVE  /\ Fits(u[k], Count(u, "start", k - 1), Count(u, "stop", k - 1))
             /\ Ends(u[k]) => k = Len(u)
  <2>0. k - 1 \in 0..Len(s)
    BY <1>1
  <2>1. /\ Count(u, "start", k - 1) = Count(s, "start", k - 1)
        /\ Count(u, "stop", k - 1) = Count(s, "stop", k - 1)
    BY <1>2, <2>0
  <2>2. CASE k = Len(s) + 1
    <3>1. k - 1 = Len(s) /\ u[k] = c
      BY <1>1, <2>2
    <3> QED BY <1>1, <2>1, <2>2, <3>1 DEF Starts, Stops
  <2>3. CASE k # Len(s) + 1
    <3>1. k \in 1..Len(s) /\ u[k] = s[k]
      BY <1>1, <2>3
    <3> QED BY <2>1, <3>1 DEF Form
  <2> QED BY <2>2, <2>3
<1>5. ~Ends(c) => \A k \in 1..Len(u) : ~Ends(u[k])
  BY <1>1
<1> QED BY <1>1, <1>3, <1>4, <1>5 DEF Form, Starts, Stops, u

(* What was handed out before the last chunks is well formed, too. *)
LEMMA FormPrefix ==
  ASSUME NEW s \in Seq(Chunk), NEW u \in Seq(Chunk), Form(s \o u)
  PROVE  Form(s)
<1> DEFINE w == s \o u
<1>1. /\ Len(s) \in Nat /\ Len(w) \in Nat /\ Len(s) <= Len(w)
      /\ \A j \in 1..Len(s) : w[j] = s[j]
  BY ConcatProperties, LenProperties
<1>2. Form(w)
  OBVIOUS
<1> HIDE DEF w
<1>3. ASSUME NEW k \in 1..Len(s)
      PROVE  /\ Fits(s[k], Count(s, "start", k - 1), Count(s, "stop", k - 1))
             /\ Ends(s[k]) => k = Len(s)
  <2>1. k \in 1..Len(w) /\ k - 1 \in Nat /\ \A j \in 1..(k - 1) : s[j] = w[j]
    BY <1>1
  <2>2. /\ Count(s, "start", k - 1) = Count(w, "start", k - 1)
        /\ Count(s, "stop", k - 1) = Count(w, "stop", k - 1)
    BY <2>1, CountSame
  <2>3. s[k] = w[k]
    BY <1>1
  <2> QED BY <1>1, <1>2, <2>1, <2>2, <2>3 DEF Form
<1> QED BY <1>3 DEF Form

LEMMA UnderEmpty == Under(<<>>, 0, FALSE)
<1>1. Len(<<>>) = 0 /\ <<>> \in Seq(Chunk)
  BY EmptySeq
<1>2. Starts(<<>>) = 0 /\ Stops(<<>>) = 0
  BY <1>1, CountStep DEF Starts, Stops
<1> QED BY <1>1, <1>2 DEF Under, Form

LEMMA ChunkTypes ==
  /\ Plain \in Chunk /\ Final \in Chunk
  /\ \A i \in Nat : Start(i) \in Chunk /\ Delta(i) \in Chunk /\ Stop(i) \in Chunk /\ Error(i) \in Chunk
BY DEF Plain, Final, Start, Delta, Stop, Error, Chunk

LEMMA UnderGrows ==
  ASSUME NEW s, NEW n, NEW opened \in BOOLEAN, Under(s, n, opened)
  PROVE  /\ ~opened => /\ Under(Append(s, Plain), n, FALSE)
                       /\ Under(Append(s, Start(n)), n + 1, TRUE)
                       /\ Form(Append(s, Final))
         /\ opened => /\ Under(Append(s, Delta(n - 1)), n, TRUE)
                      /\ Under(Append(s, Stop(n - 1)), n, FALSE)
         /\ \A i \in Nat : Form(Append(s, Error(i)))
<1>1. /\ s \in Seq(Chunk) /\ n \in Nat /\ Form(s) /\ Starts(s) = n
      /\ \A k \in 1..Len(s) : ~Ends(s[k])
      /\ opened => n > 0 /\ n - 1 \in Nat /\ Stops(s) = n - 1
      /\ ~opened => Stops(s) = n
  BY DEF Under
<1>2. ASSUME ~opened
      PROVE  /\ Under(Append(s, Plain), n, FALSE)
             /\ Under(Append(s, Start(n)), n + 1, TRUE)
             /\ Form(Append(s, Final))
  <2>1. /\ Fits(Plain, Starts(s), Stops(s)) /\ Fits(Final, Starts(s), Stops(s))
        /\ Fits(Start(n), Starts(s), Stops(s))
        /\ ~Ends(Plain) /\ ~Ends(Start(n))
        /\ Plain.t = "plain" /\ Start(n).t = "start"
    BY <1>1, <1>2 DEF Fits, Ends, Plain, Final, Start
  <2>2. Under(Append(s, Plain), n, FALSE)
    BY <1>1, <1>2, <2>1, FormGrows, ChunkTypes DEF Under
  <2>3. Under(Append(s, Start(n)), n + 1, TRUE)
    BY <1>1, <1>2, <2>1, FormGrows, ChunkTypes DEF Under
  <2> QED BY <1>1, <2>1, <2>2, <2>3, FormGrows, ChunkTypes
<1>3. ASSUME opened
      PROVE  /\ Under(Append(s, Delta(n - 1)), n, TRUE)
             /\ Under(Append(s, Stop(n - 1)), n, FALSE)
  <2>1. /\ Fits(Delta(n - 1), Starts(s), Stops(s)) /\ Fits(Stop(n - 1), Starts(s), Stops(s))
        /\ ~Ends(Delta(n - 1)) /\ ~Ends(Stop(n - 1))
        /\ Delta(n - 1).t = "delta" /\ Stop(n - 1).t = "stop"
    BY <1>1, <1>3 DEF Fits, Ends, Delta, Stop
  <2>2. Delta(n - 1) \in Chunk /\ Stop(n - 1) \in Chunk
    BY <1>1, <1>3, ChunkTypes
  <2>3. Under(Append(s, Delta(n - 1)), n, TRUE)
    BY <1>1, <1>3, <2>1, <2>2, FormGrows DEF Under
  <2>4. Under(Append(s, Stop(n - 1)), n, FALSE)
    BY <1>1, <1>3, <2>1, <2>2, FormGrows DEF Under
  <2> QED BY <2>3, <2>4
<1>4. ASSUME NEW i \in Nat PROVE Form(Append(s, Error(i)))
  <2>1. Fits(Error(i), Starts(s), Stops(s))
    BY DEF Fits, Error
  <2> QED BY <1>1, <2>1, FormGrows, ChunkTypes
<1> QED BY <1>2, <1>3, <1>4

----------------------------------------------------------------------------
(* What the generators make of an event.                                   *)

LEMMA Cat ==
  ASSUME NEW s \in Seq(Chunk), NEW a \in Chunk, NEW b \in Chunk, NEW c \in Chunk
  PROVE  /\ s \o <<>> = s /\ s \o <<a>> = Append(s, a)
         /\ s \o <<a, b>> = Append(Append(s, a), b)
         /\ s \o <<a, b, c>> = Append(Append(Append(s, a), b), c)
         /\ <<>> \in Seq(Chunk) /\ <<a>> \in Seq(Chunk) /\ <<a, b>> \in Seq(Chunk)
         /\ <<a, b, c>> \in Seq(Chunk)
OBVIOUS

LEMMA UnderPlus ==
  ASSUME NEW s, NEW n, Under(s, n, FALSE)
  PROVE  /\ <<Plain>> \in Seq(Chunk) /\ Under(s \o <<Plain>>, n, FALSE)
         /\ <<Start(n)>> \in Seq(Chunk) /\ Under(s \o <<Start(n)>>, n + 1, TRUE)
         /\ Block(n) \in Seq(Chunk) /\ Under(s \o Block(n), n + 1, FALSE)
<1>1. s \in Seq(Chunk) /\ n \in Nat /\ n + 1 \in Nat /\ (n + 1) - 1 = n
  BY DEF Under
<1>2. Plain \in Chunk /\ Start(n) \in Chunk /\ Delta(n) \in Chunk /\ Stop(n) \in Chunk
  BY <1>1, ChunkTypes
<1>3. Under(Append(s, Plain), n, FALSE) /\ Under(Append(s, Start(n)), n + 1, TRUE)
  BY UnderGrows
<1>4. Under(Append(Append(s, Start(n)), Delta(n)), n + 1, TRUE)
  BY <1>1, <1>3, UnderGrows
<1>5. Under(Append(Append(Append(s, Start(n)), Delta(n)), Stop(n)), n + 1, FALSE)
  BY <1>1, <1>4, UnderGrows
<1> DEFINE a == Start(n)
           b == Delta(n)
           c == Stop(n)
<1>6. a \in Chunk /\ b \in Chunk /\ c \in Chunk /\ Block(n) = <<a, b, c>>
  BY <1>2 DEF Block
<1>7. /\ <<Plain>> \in Seq(Chunk) /\ s \o <<Plain>> = Append(s, Plain)
      /\ <<a>> \in Seq(Chunk) /\ s \o <<a>> = Append(s, a)
      /\ <<a, b, c>> \in Seq(Chunk) /\ s \o <<a, b, c>> = Append(Append(Append(s, a), b), c)
  <2> HIDE DEF a, b, c
  <2> QED BY <1>1, <1>2, <1>6, Cat
<1>8. /\ Under(s \o <<a, b, c>>, n + 1, FALSE) /\ Under(s \o <<a>>, n + 1, TRUE)
      /\ Under(s \o <<Plain>>, n, FALSE)
  BY <1>3, <1>5, <1>7
<1> HIDE DEF b, c
<1> QED BY <1>6, <1>7, <1>8

LEMMA BlockAdds ==
  ASSUME NEW s, NEW n \in Nat, NEW m, m = n + 1, Under(s, n, FALSE)
  PROVE  Block(n) \in Seq(Chunk) /\ Under(s \o Block(n), m, FALSE)
BY UnderPlus

LEMMA Glued ==
  ASSUME NEW a \in Chunk, NEW b \in Chunk
  PROVE  /\ <<a, b>> = <<a>> \o <<b>> /\ <<a, a, b>> = (<<a>> \o <<a>>) \o <<b>>
<1>1. <<a>> \o <<b>> = Append(<<a>>, b) /\ <<a>> \o <<a>> = Append(<<a>>, a) /\ <<a, a>> \in Seq(Chunk)
  BY Cat
<1>2. <<a, b>> = Append(<<a>>, b) /\ <<a, a>> = Append(<<a>>, a) /\ <<a, a, b>> = Append(<<a, a>>, b)
  OBVIOUS
<1>3. <<a, a>> \o <<b>> = Append(<<a, a>>, b)
  BY <1>1, Cat
<1> QED BY <1>1, <1>2, <1>3

LEMMA UnderInside ==
  ASSUME NEW s, NEW n, Under(s, n, TRUE)
  PROVE  /\ <<Delta(n - 1)>> \in Seq(Chunk) /\ Under(s \o <<Delta(n - 1)>>, n, TRUE)
         /\ <<Stop(n - 1)>> \in Seq(Chunk) /\ Under(s \o <<Stop(n - 1)>>, n, FALSE)
         /\ <<Delta(n - 1), Stop(n - 1)>> \in Seq(Chunk)
         /\ Under(s \o <<Delta(n - 1), Stop(n - 1)>>, n, FALSE)
<1>1. s \in Seq(Chunk) /\ n - 1 \in Nat
  BY DEF Under
<1>2. Delta(n - 1) \in Chunk /\ Stop(n - 1) \in Chunk
  BY <1>1, ChunkTypes
<1>3. /\ Under(Append(s, Delta(n - 1)), n, TRUE) /\ Under(Append(s, Stop(n - 1)), n, FALSE)
  BY UnderGrows
<1>4. Under(Append(Append(s, Delta(n - 1)), Stop(n - 1)), n, FALSE)
  BY <1>3, UnderGrows
<1> QED BY <1>1, <1>2, <1>3, <1>4, Cat, ZenonT(40)

LEMMA UnderJoin ==
  ASSUME NEW s \in Seq(Chunk), NEW u \in Seq(Chunk), NEW w \in Seq(Chunk)
  PROVE  s \o (u \o w) = (s \o u) \o w /\ u \o w \in Seq(Chunk)
BY ConcatAssociative, ConcatProperties

LEMMA UnderSeq ==
  ASSUME NEW s, NEW n, NEW o \in BOOLEAN, Under(s, n, o)
  PROVE  s \in Seq(Chunk) /\ s \o <<>> = s /\ <<>> \in Seq(Chunk) /\ n \in Nat
BY ConcatEmptySeq, EmptySeq DEF Under

LEMMA CloseChunks ==
  ASSUME NEW s, Under(s, blocks, open # "none"), open \in {"none", "text", "thinking"}
  PROVE  CloseOpen \in Seq(Chunk) /\ Under(s \o CloseOpen, blocks, FALSE)
<1>1. CASE open = "none"
  <2>1. Under(s, blocks, FALSE) /\ CloseOpen = <<>>
    BY <1>1 DEF CloseOpen
  <2> QED BY <2>1, UnderSeq
<1>2. CASE open # "none"
  <2>1. /\ Under(s, blocks, TRUE)
        /\ \/ CloseOpen = <<Delta(blocks - 1), Stop(blocks - 1)>>
           \/ CloseOpen = <<Stop(blocks - 1)>>
    BY <1>2 DEF CloseOpen
  <2> QED BY <2>1, UnderInside, ZenonT(40)
<1> QED BY <1>1, <1>2

LEMMA TextChunks ==
  ASSUME NEW s, Under(s, blocks, open # "none"), open \in {"none", "text", "thinking"},
         kind = "chat" => open = "none", NEW e \in {"text", "thinking"}
  PROVE  /\ Text(e) \in Seq(Chunk)
         /\ Under(s \o Text(e),
                  IF kind = "chat" \/ Hidden(e) \/ open = e THEN blocks ELSE blocks + 1,
                  (IF kind = "chat" \/ Hidden(e) THEN open ELSE e) # "none")
<1>1. CASE kind = "chat"
  <2>1. Under(s, blocks, FALSE) /\ Text(e) = <<Plain>>
    BY <1>1 DEF Text
  <2> QED BY <1>1, <2>1, UnderPlus
<1>2. CASE kind # "chat" /\ Hidden(e)
  <2>1. Text(e) = <<>>
    BY <1>2 DEF Text
  <2> QED BY <1>2, <2>1, UnderSeq
<1>3. CASE kind # "chat" /\ ~Hidden(e) /\ open = e
  <2>1. /\ Under(s, blocks, TRUE)
        /\ Text(e) = <<>> \/ Text(e) = <<Delta(blocks - 1)>>
    BY <1>3 DEF Text
  <2>2. CASE Text(e) = <<>>
    <3>1. Text(e) \in Seq(Chunk) /\ s \o Text(e) = s
      <4>1. s \o <<>> = s /\ <<>> \in Seq(Chunk)
        <5>1. s \in Seq(Chunk)
          BY DEF Under
        <5> QED BY <5>1, ConcatEmptySeq, EmptySeq
      <4> QED BY <2>2, <4>1
    <3> QED BY <1>3, <2>1, <3>1
  <2>3. CASE Text(e) = <<Delta(blocks - 1)>>
    <3>1. /\ <<Delta(blocks - 1)>> \in Seq(Chunk)
          /\ Under(s \o <<Delta(blocks - 1)>>, blocks, TRUE)
      BY <2>1, UnderInside
    <3> QED BY <1>3, <2>3, <3>1
  <2> QED BY <2>1, <2>2, <2>3
<1>4. CASE kind # "chat" /\ ~Hidden(e) /\ open # e
  <2> DEFINE u == s \o CloseOpen
  <2>1. s \in Seq(Chunk) /\ blocks \in Nat /\ CloseOpen \in Seq(Chunk) /\ Under(u, blocks, FALSE)
    BY CloseChunks, UnderSeq
  <2>2. /\ <<Start(blocks)>> \in Seq(Chunk)
        /\ Under(u \o <<Start(blocks)>>, blocks + 1, TRUE)
    BY <2>1, UnderPlus
  <2>3. PICK d \in {<<>>, <<Delta(blocks)>>} : Text(e) = (CloseOpen \o <<Start(blocks)>>) \o d
    BY <1>4 DEF Text
  <2> DEFINE w == u \o <<Start(blocks)>>
  <2>4. d \in Seq(Chunk) /\ Under(w \o d, blocks + 1, TRUE)
    <3>1. (blocks + 1) - 1 = blocks
      BY <2>1
    <3> HIDE DEF w
    <3>2. <<Delta(blocks)>> \in Seq(Chunk) /\ Under(w \o <<Delta(blocks)>>, blocks + 1, TRUE)
      <4>1. /\ <<Delta((blocks + 1) - 1)>> \in Seq(Chunk)
            /\ Under(w \o <<Delta((blocks + 1) - 1)>>, blocks + 1, TRUE)
        BY <2>2, UnderInside DEF w
      <4> QED BY <3>1, <4>1
    <3>3. <<>> \in Seq(Chunk) /\ Under(w \o <<>>, blocks + 1, TRUE)
      <4>1. w \o <<>> = w /\ <<>> \in Seq(Chunk)
        BY <2>2, UnderSeq DEF w
      <4> QED BY <2>2, <4>1 DEF w
    <3>4. d = <<>> \/ d = <<Delta(blocks)>>
      OBVIOUS
    <3> QED BY <3>2, <3>3, <3>4
  <2>5. /\ s \o Text(e) = w \o d
        /\ Text(e) \in Seq(Chunk)
    <3>1. /\ CloseOpen \o <<Start(blocks)>> \in Seq(Chunk)
          /\ s \o (CloseOpen \o <<Start(blocks)>>) = w
      BY <2>1, <2>2, UnderJoin
    <3> DEFINE v == CloseOpen \o <<Start(blocks)>>
    <3>2. v \in Seq(Chunk) /\ s \o v = w /\ Text(e) = v \o d
      BY <2>3, <3>1
    <3> HIDE DEF w, v
    <3>3. s \o (v \o d) = (s \o v) \o d /\ v \o d \in Seq(Chunk)
      BY <2>1, <2>4, <3>2, UnderJoin
    <3> QED BY <3>2, <3>3
  <2> HIDE DEF w, u
  <2> QED BY <1>4, <2>4, <2>5
<1> QED BY <1>1, <1>2, <1>3, <1>4
LEMMA ToolChunks ==
  ASSUME NEW s, Under(s, blocks, open # "none"), open \in {"none", "text", "thinking"},
         kind = "chat" => open = "none"
  PROVE  /\ Tool \in Seq(Chunk)
         /\ Under(s \o Tool, IF kind = "chat" THEN blocks ELSE blocks + 1, FALSE)
<1>1. CASE kind = "chat"
  <2>1. Under(s, blocks, FALSE) /\ Tool = <<Plain>>
    BY <1>1 DEF Tool
  <2> QED BY <1>1, <2>1, UnderPlus
<1>2. CASE kind # "chat"
  <2> DEFINE u == s \o CloseOpen
             v == Block(blocks)
  <2>1. s \in Seq(Chunk) /\ CloseOpen \in Seq(Chunk) /\ Under(u, blocks, FALSE)
    BY CloseChunks, UnderSeq
  <2> HIDE DEF u
  <2>2. v \in Seq(Chunk) /\ Under(u \o v, blocks + 1, FALSE)
    BY <2>1, UnderPlus
  <2>3. Tool = CloseOpen \o v
    BY <1>2 DEF Tool
  <2> HIDE DEF v
  <2>4. s \o (CloseOpen \o v) = (s \o CloseOpen) \o v /\ CloseOpen \o v \in Seq(Chunk)
    BY <2>1, <2>2, UnderJoin
  <2> QED BY <1>2, <2>2, <2>3, <2>4 DEF u
<1> QED BY <1>1, <1>2

(* After the fallback's items nothing but the end follows. *)
LEMMA FallbackChunks ==
  ASSUME NEW s, Under(s, blocks, FALSE)
  PROVE  Fallback \in Seq(Chunk) /\ \E n \in Nat : Under(s \o Fallback, n, FALSE)
<1>0. s \in Seq(Chunk) /\ blocks \in Nat
  BY UnderSeq
<1>1. CASE blocks > 0
  <2>1. Fallback = <<>>
    BY <1>1 DEF Fallback
  <2> QED BY <1>0, <2>1, UnderSeq
<1>2. CASE ~(blocks > 0)
  <2> DEFINE a == Block(0)
             b == Block(1)
             c == Block(2)
  <2>1. a \in Seq(Chunk) /\ Under(s \o a, 1, FALSE)
    <3>1. 1 = blocks + 1 /\ blocks = 0
      BY <1>0, <1>2
    <3> QED BY <3>1, BlockAdds
  <2>2. b \in Seq(Chunk) /\ Under((s \o a) \o b, 2, FALSE)
    <3> DEFINE w == s \o a
    <3>0. 1 \in Nat /\ 2 = 1 + 1
      OBVIOUS
    <3>1. Under(w, 1, FALSE)
      BY <2>1
    <3> HIDE DEF w
    <3>2. Block(1) \in Seq(Chunk) /\ Under(w \o Block(1), 2, FALSE)
      BY <3>0, <3>1, BlockAdds
    <3> QED BY <3>2 DEF w
  <2>3. c \in Seq(Chunk) /\ Under(((s \o a) \o b) \o c, 3, FALSE)
    <3> DEFINE w == (s \o a) \o b
    <3>0. 2 \in Nat /\ 3 = 2 + 1
      OBVIOUS
    <3>1. Under(w, 2, FALSE)
      BY <2>2
    <3> HIDE DEF w
    <3>2. Block(2) \in Seq(Chunk) /\ Under(w \o Block(2), 3, FALSE)
      BY <3>0, <3>1, BlockAdds
    <3> QED BY <3>2 DEF w
  <2>4. Fallback = a \/ Fallback = (a \o b) \o c
    BY <1>2 DEF Fallback
  <2> HIDE DEF a, b, c
  <2>5. /\ a \o b \in Seq(Chunk) /\ s \o (a \o b) = (s \o a) \o b
    BY <1>0, <2>1, <2>2, UnderJoin
  <2>6. /\ (a \o b) \o c \in Seq(Chunk) /\ s \o ((a \o b) \o c) = (s \o (a \o b)) \o c
    BY <1>0, <2>3, <2>5, UnderJoin
  <2> QED BY <2>1, <2>3, <2>4, <2>5, <2>6
<1> QED BY <1>1, <1>2

(* The sequence s ends with Final, to be logged as 200, or with an error   *)
(* that was logged.                                                        *)
Status == {499, 500, 502, 504}
Closes(s, l) == /\ s # <<>>
                /\ \/ s[Len(s)] = Final /\ l = 0
                   \/ \E x \in Status : s[Len(s)] = Error(x) /\ l = x

LEMMA FinalClosesUp ==
  ASSUME NEW s, NEW n, Under(s, n, FALSE)
  PROVE  /\ Form(s \o <<Final>>) /\ <<Final>> \in Seq(Chunk)
         /\ Closes(s \o <<Final>>, 0)
<1>1. s \in Seq(Chunk) /\ Final \in Chunk /\ Form(Append(s, Final))
  BY UnderSeq, UnderGrows, ChunkTypes
<1>2. s \o <<Final>> = Append(s, Final) /\ <<Final>> \in Seq(Chunk)
  BY <1>1, Cat
<1>3. Closes(Append(s, Final), 0)
  BY <1>1, AppendProperties DEF Closes
<1> QED BY <1>1, <1>2, <1>3

LEMMA ClosingChunks ==
  ASSUME NEW s, Under(s, blocks, open # "none"), open \in {"none", "text", "thinking"},
         kind \in {"chat", "anthropic", "responses"}, kind = "chat" => open = "none"
  PROVE  /\ Closing \in Seq(Chunk)
         /\ kind = "responses" => \E n \in Nat : Under(s \o Closing, n, FALSE)
         /\ kind # "responses" => /\ Closing # <<>> /\ Form(s \o Closing)
                                  /\ Closes(s \o Closing, 0)
<1>0. s \in Seq(Chunk) /\ Plain \in Chunk /\ Final \in Chunk
  BY UnderSeq, ChunkTypes
<1> DEFINE p == <<Plain>>
           f == <<Final>>
<1>p. p \in Seq(Chunk) /\ f \in Seq(Chunk) /\ f # <<>> /\ Len(f) = 1 /\ Len(p) = 1
  BY <1>0, Cat
<1>u. /\ \A w, n : Under(w, n, FALSE) => Under(w \o p, n, FALSE)
      /\ \A w, n : Under(w, n, FALSE) => Form(w \o f) /\ Closes(w \o f, 0)
  BY UnderPlus, FinalClosesUp
<1>q. <<Plain, Final>> = p \o f /\ <<Plain, Plain, Final>> = (p \o p) \o f
  BY <1>0, Glued
<1> HIDE DEF p, f
<1>j. /\ p \o f \in Seq(Chunk) /\ p \o p \in Seq(Chunk) /\ (p \o p) \o f \in Seq(Chunk)
      /\ \A w \in Seq(Chunk) : /\ w \o (p \o f) = (w \o p) \o f
                              /\ w \o ((p \o p) \o f) = ((w \o p) \o p) \o f
  <2>1. p \o f \in Seq(Chunk) /\ p \o p \in Seq(Chunk) /\ (p \o p) \o f \in Seq(Chunk)
    BY <1>p, ConcatProperties
  <2> SUFFICES ASSUME NEW w \in Seq(Chunk)
               PROVE  /\ w \o (p \o f) = (w \o p) \o f
                      /\ w \o ((p \o p) \o f) = ((w \o p) \o p) \o f
    BY <2>1
  <2>2. w \o (p \o f) = (w \o p) \o f /\ w \o (p \o p) = (w \o p) \o p
    BY <1>p, UnderJoin
  <2>3. w \o ((p \o p) \o f) = (w \o (p \o p)) \o f
    <3> DEFINE pp == p \o p
    <3>1. pp \in Seq(Chunk)
      BY <2>1
    <3> HIDE DEF pp
    <3>2. w \o (pp \o f) = (w \o pp) \o f
      BY <1>p, <3>1, UnderJoin
    <3> QED BY <3>2 DEF pp
  <2> QED BY <2>2, <2>3
<1>1. CASE kind = "chat"
  <2>1. Under(s, blocks, FALSE)
    BY <1>1
  <2>2. Closing = p \o f \/ Closing = (p \o p) \o f
    BY <1>1, <1>q DEF Closing
  <2>3. /\ Form(s \o (p \o f)) /\ Closes(s \o (p \o f), 0)
        /\ Form(s \o ((p \o p) \o f)) /\ Closes(s \o ((p \o p) \o f), 0)
    BY <1>0, <1>j, <1>u, <2>1
  <2>4. p \o f # <<>> /\ (p \o p) \o f # <<>>
    BY <1>p, <1>j, ConcatProperties, EmptySeq
  <2> QED BY <1>1, <1>j, <2>2, <2>3, <2>4
<1>2. CASE kind = "anthropic"
  <2> DEFINE c == CloseOpen
  <2>1. c \in Seq(Chunk) /\ Under(s \o c, blocks, FALSE)
    BY CloseChunks
  <2>2. Closing = c \o (p \o f)
    BY <1>2, <1>q DEF Closing
  <2> HIDE DEF c
  <2>3. /\ s \o (c \o (p \o f)) = (s \o c) \o (p \o f) /\ c \o (p \o f) \in Seq(Chunk)
        /\ s \o c \in Seq(Chunk)
    BY <1>0, <1>j, <2>1, UnderJoin
  <2>4. Form((s \o c) \o (p \o f)) /\ Closes((s \o c) \o (p \o f), 0)
    BY <1>j, <1>u, <2>1, <2>3
  <2>5. c \o (p \o f) # <<>>
    BY <1>p, <1>j, <2>1, ConcatProperties, EmptySeq
  <2> QED BY <1>2, <2>2, <2>3, <2>4, <2>5
<1>3. CASE kind = "responses"
  <2> DEFINE c == CloseOpen
             k == Fallback
  <2>1. c \in Seq(Chunk) /\ Under(s \o c, blocks, FALSE)
    BY CloseChunks
  <2>2. k \in Seq(Chunk) /\ \E n \in Nat : Under((s \o c) \o k, n, FALSE)
    BY <2>1, FallbackChunks
  <2>3. Closing = c \o k
    BY <1>3 DEF Closing
  <2> HIDE DEF c, k
  <2>4. s \o (c \o k) = (s \o c) \o k /\ c \o k \in Seq(Chunk)
    BY <1>0, <2>1, <2>2, UnderJoin
  <2> QED BY <1>3, <2>2, <2>3, <2>4
<1> QED BY <1>1, <1>2, <1>3
----------------------------------------------------------------------------
(* The inductive invariant.                                                *)

All == sent \o out

TypeInv ==
  /\ kind \in {"chat", "responses", "anthropic", "json"}
  /\ gen \in {"new", "wait", "held", "over"} /\ next \in {"events", "save", "end"}
  /\ sent \in Seq(Chunk) /\ out \in Seq(Chunk)
  /\ open \in {"none", "text", "thinking"} /\ blocks \in Nat
  /\ socket \in BOOLEAN /\ closing \in BOOLEAN /\ saved \in BOOLEAN
  /\ kind = "chat" => open = "none" /\ blocks = 0
  /\ gen = "new" => /\ next = "events" /\ sent = <<>> /\ out = <<>>
                    /\ open = "none" /\ blocks = 0
  /\ gen = "wait" => next # "end" /\ out = <<>>
  /\ next = "save" => kind \in {"responses", "json"}
  /\ kind = "json" => gen # "held" /\ out = <<>> /\ (gen # "over" => sent = <<>>)
  /\ closing => ~socket /\ kind # "json" /\ gen \in {"wait", "over"}

(* What was and is to be sent is well formed, and agrees with the locals   *)
(* of the generator as long as it makes chunks of events.                  *)
FormInv ==
  /\ Form(All)
  /\ kind # "json" /\ next = "events" => Under(All, blocks, open # "none")
  /\ kind # "json" /\ next = "save" => \E n \in Nat : Under(All, n, FALSE)

(* The log row of a stream is empty as long as the end is open, and when   *)
(* the generator has an error to send it tells of that error already.      *)
EndInv ==
  /\ gen = "new" => log = 0
  /\ kind # "json" /\ gen \in {"wait", "held"} =>
       IF next = "end" THEN Closes(All, log) ELSE log = 0
  /\ kind = "json" /\ gen = "wait" => next = "save" /\ log = 200
  /\ LogTellsEnd

StoredInv ==
  kind \in {"responses", "json"} /\ option = "store" /\ (\E k \in 1..Len(All) : All[k] = Final)
    => saved

IInv == TypeInv /\ FormInv /\ EndInv /\ StoredInv

----------------------------------------------------------------------------
(* What a step does to a stream.                                           *)

(* The generator is over and nothing more is sent: the client is gone.     *)
Cut == /\ ~socket
       /\ gen' = "over" /\ next' = "end" /\ out' = <<>> /\ sent' = sent
       /\ \E x \in Status : log' = IF log = 0 THEN x ELSE log

(* The generator has made chunks and is held at the first of them. *)
Emit(chunks, after) == /\ ~closing
                       /\ gen' = "held" /\ next' = after
                       /\ sent' \in Seq(Chunk) /\ out' \in Seq(Chunk)
                       /\ All' = sent \o chunks

(* What no step changes but one of the renderer's. *)
Rendered == /\ open' \in {"none", "text", "thinking"} /\ blocks' \in Nat
            /\ kind = "chat" => open' = "none" /\ blocks' = 0
            /\ UNCHANGED <<fixed, socket, closing>>

LEMMA AllWhenWaiting ==
  ASSUME TypeInv
  PROVE  /\ All \in Seq(Chunk) /\ Len(sent) \in Nat /\ Len(All) \in Nat
         /\ out = <<>> => All = sent
         /\ \A k \in 1..Len(sent) : k \in 1..Len(All) /\ All[k] = sent[k]
         /\ out # <<>> => Len(sent) < Len(All)
BY ConcatProperties, ConcatEmptySeq, LenProperties, EmptySeq DEF TypeInv, All

LEMMA YieldStep ==
  ASSUME TypeInv, gen = "wait", NEW chunks \in Seq(Chunk), chunks # <<>>, NEW after,
         Yield(chunks, after)
  PROVE  \/ Emit(chunks, after)
         \/ closing /\ Over /\ sent' = sent
<1>1. CASE closing
  BY <1>1 DEF Yield
<1>2. CASE ~closing
  <2> DEFINE a == Head(chunks)
             b == Tail(chunks)
  <2>1. /\ sent \in Seq(Chunk) /\ gen' = "held" /\ next' = after
        /\ sent' = Append(sent, a) /\ out' = b
    BY <1>2 DEF TypeInv, Yield
  <2>2. a \in Chunk /\ b \in Seq(Chunk) /\ chunks = <<a>> \o b
    OBVIOUS
  <2> HIDE DEF a, b
  <2>3. /\ Append(sent, a) \in Seq(Chunk) /\ <<a>> \in Seq(Chunk)
        /\ Append(sent, a) = sent \o <<a>>
    BY <2>1, <2>2, Cat, AppendProperties
  <2>4. sent \o (<<a>> \o b) = (sent \o <<a>>) \o b
    BY <2>1, <2>2, <2>3, UnderJoin
  <2>5. All' = sent \o chunks
    BY <2>1, <2>2, <2>3, <2>4 DEF All
  <2> QED BY <1>2, <2>1, <2>2, <2>3, <2>5 DEF Emit
<1> QED BY <1>1, <1>2

(* Where the end is still open the client has seen none. *)
LEMMA NoEndYet ==
  ASSUME IInv, kind # "json", gen \in {"wait", "held"}, sent # <<>>,
         next # "end" \/ out # <<>>
  PROVE  Len(sent) \in 1..Len(sent) /\ ~Ends(sent[Len(sent)])
<1> DEFINE k == Len(sent)
<1>1. k \in 1..Len(sent) /\ k \in 1..Len(All) /\ All[k] = sent[k]
      /\ (out # <<>> => k < Len(All)) /\ Len(All) \in Nat
  <2>1. Len(sent) \in Nat \ {0}
    BY EmptySeq DEF IInv, TypeInv
  <2> QED BY <2>1, AllWhenWaiting DEF IInv
<1>2. CASE next # "end"
  <2>1. \E n, o : Under(All, n, o)
    BY <1>2 DEF IInv, TypeInv, FormInv
  <2>2. \A j \in 1..Len(All) : ~Ends(All[j])
    BY <2>1 DEF Under
  <2> QED BY <1>1, <2>2
<1>3. CASE out # <<>>
  <2>1. Ends(All[k]) => k = Len(All)
    BY <1>1 DEF IInv, FormInv, Form
  <2> QED BY <1>1, <1>3, <2>1
<1> QED BY <1>2, <1>3

LEMMA CutKeeps ==
  ASSUME IInv, kind # "json", gen \in {"wait", "held"}, Cut, Rendered,
         saved' \in BOOLEAN, option = "store" /\ saved => saved'
  PROVE  IInv'
<1>1. TypeInv'
  BY EmptySeq DEF IInv, TypeInv, Cut, Rendered, fixed
<1>2. All' = sent /\ sent \in Seq(Chunk) /\ Form(sent)
  <2>1. sent \in Seq(Chunk) /\ out \in Seq(Chunk) /\ Form(sent \o out)
    BY DEF IInv, TypeInv, FormInv, All
  <2>2. All' = sent \o <<>>
    BY DEF Cut, All
  <2> QED BY <2>1, <2>2, FormPrefix, ConcatEmptySeq
<1>3. FormInv'
  BY <1>2 DEF FormInv, Cut
<1>4. /\ sent # <<>> => log' # 0 /\ log' # 200
                       /\ (Ends(sent[Len(sent)]) => sent[Len(sent)] = Final
                                \/ (sent[Len(sent)].t = "error" /\ log' = sent[Len(sent)].i))
  <2> SUFFICES ASSUME sent # <<>>
               PROVE  /\ log' # 0 /\ log' # 200
                      /\ (Ends(sent[Len(sent)]) => sent[Len(sent)] = Final
                                \/ (sent[Len(sent)].t = "error" /\ log' = sent[Len(sent)].i))
    OBVIOUS
  <2>1. CASE next # "end"
    <3>1. log = 0 /\ ~Ends(sent[Len(sent)])
      BY <2>1, NoEndYet DEF IInv, EndInv
    <3> QED BY <3>1 DEF Cut, Status
  <2>2. CASE next = "end"
    <3>1. Closes(All, log)
      BY <2>2 DEF IInv, EndInv
    <3>2. log = 0 \/ log \in Status
      BY <3>1 DEF Closes
    <3>3. log' # 0 /\ log' # 200
      BY <3>2 DEF Cut, Status
    <3>4. CASE out # <<>>
      BY <2>2, <3>3, <3>4, NoEndYet
    <3>5. CASE out = <<>>
      <4>1. All = sent
        BY <3>5, AllWhenWaiting DEF IInv
      <4>2. \/ sent[Len(sent)] = Final
            \/ \E x \in Status : sent[Len(sent)] = Error(x) /\ log = x
        BY <3>1, <4>1 DEF Closes
      <4>3. ASSUME NEW x \in Status, sent[Len(sent)] = Error(x), log = x
            PROVE  sent[Len(sent)].t = "error" /\ log' = sent[Len(sent)].i
        BY <4>3 DEF Error, Cut, Status
      <4> QED BY <3>3, <4>2, <4>3
    <3> QED BY <3>4, <3>5
  <2> QED BY <2>1, <2>2
<1>5. EndInv'
  <2>1. sent' = sent /\ gen' = "over" /\ kind' = kind /\ ~socket'
    BY DEF Cut, Rendered, fixed
  <2>2. LogTellsEnd'
    BY <1>4, <2>1 DEF LogTellsEnd, Last, Ends, Final
  <2> QED BY <2>1, <2>2 DEF EndInv
<1>6. StoredInv'
  <2>1. kind' = kind /\ option' = option
    BY DEF Rendered, fixed
  <2>2. \A k \in 1..Len(sent) : k \in 1..Len(All) /\ All[k] = sent[k]
    BY AllWhenWaiting DEF IInv
  <2> QED BY <1>2, <2>1, <2>2 DEF StoredInv, IInv
<1> QED BY <1>1, <1>3, <1>5, <1>6 DEF IInv
LEMMA EmitKeeps ==
  ASSUME IInv, kind # "json", gen = "wait", NEW chunks \in Seq(Chunk),
         NEW after \in {"events", "save", "end"}, Emit(chunks, after), Rendered,
         after = "save" => kind = "responses",
         Form(sent \o chunks),
         after = "events" => Under(sent \o chunks, blocks', open' # "none"),
         after = "save" => \E n \in Nat : Under(sent \o chunks, n, FALSE),
         IF after = "end" THEN Closes(sent \o chunks, log') ELSE log' = 0,
         saved' \in BOOLEAN, option = "store" /\ saved => saved',
         saved' \/ option # "store" \/ kind # "responses" \/ after # "end"
           \/ (\E i \in Nat : (sent \o chunks)[Len(sent \o chunks)] = Error(i))
  PROVE  IInv'
<1>1. kind' = kind /\ option' = option /\ socket' = socket /\ closing' = closing
  BY DEF Rendered, fixed
<1>2. TypeInv'
  BY <1>1 DEF IInv, TypeInv, Emit, Rendered
<1>3. FormInv'
  BY <1>1 DEF FormInv, Emit
<1>4. EndInv'
  BY <1>1 DEF EndInv, Emit, LogTellsEnd
<1>5. StoredInv'
  <2> SUFFICES ASSUME kind \in {"responses", "json"}, option = "store", ~saved',
                      NEW k \in 1..Len(All)', All'[k] = Final
               PROVE  FALSE
    BY <1>1 DEF StoredInv
  <2>1. Ends(Final)
    BY DEF Ends, Final
  <2>2. after = "end"
    <3>1. CASE after = "events"
      BY <2>1, <3>1 DEF Under, Emit
    <3>2. CASE after = "save"
      BY <2>1, <3>2 DEF Under, Emit
    <3> QED BY <3>1, <3>2
  <2>3. PICK i \in Nat : All'[Len(All')] = Error(i)
    BY <2>2 DEF Emit, IInv, TypeInv
  <2>4. k = Len(All')
    BY <2>1 DEF Emit, Form
  <2> QED BY <2>3, <2>4 DEF Final, Error
<1> QED BY <1>2, <1>3, <1>4, <1>5 DEF IInv

LEMMA StillWaits ==
  ASSUME IInv, kind # "json", gen = "wait", NEW after \in {"events", "save"},
         gen' = "wait", next' = after, UNCHANGED <<sent, out, log, saved>>, Rendered,
         after = "save" => kind = "responses",
         next # "end",
         after = "events" => Under(sent, blocks', open' # "none"),
         after = "save" => \E n \in Nat : Under(sent, n, FALSE)
  PROVE  IInv'
<1>1. /\ kind' = kind /\ option' = option /\ socket' = socket /\ closing' = closing
      /\ All' = All /\ All = sent
  BY AllWhenWaiting DEF Rendered, fixed, All, IInv, TypeInv
<1>2. TypeInv'
  BY <1>1 DEF IInv, TypeInv, Rendered
<1>3. FormInv'
  BY <1>1 DEF FormInv, IInv
<1>4. EndInv'
  BY <1>1 DEF EndInv, LogTellsEnd, IInv
<1>5. StoredInv'
  BY <1>1 DEF StoredInv, IInv
<1> QED BY <1>2, <1>3, <1>4, <1>5 DEF IInv

(* At a yield that a disconnect is found at the stream is cut. *)
LEMMA GiveKeeps ==
  ASSUME IInv, kind # "json", gen = "wait", NEW chunks \in Seq(Chunk),
         NEW after \in {"events", "save", "end"}, Give(chunks, after), Rendered,
         UNCHANGED saved, next # "end",
         after = "save" => kind = "responses", after = "end" => kind # "responses",
         after = "events" => Under(sent \o chunks, blocks', open' # "none"),
         after = "save" => \E n \in Nat : Under(sent \o chunks, n, FALSE),
         after = "end" => /\ chunks # <<>> /\ Form(sent \o chunks)
                          /\ Closes(sent \o chunks, 0)
  PROVE  IInv'
<1>1. sent \in Seq(Chunk) /\ log = 0 /\ saved \in BOOLEAN /\ (closing => ~socket)
  BY DEF IInv, TypeInv, EndInv
<1>2. CASE chunks = <<>>
  <2>1. gen' = "wait" /\ next' = after /\ UNCHANGED <<sent, out, log>> /\ sent \o chunks = sent
    BY <1>1, <1>2, ConcatEmptySeq DEF Give
  <2>2. after \in {"events", "save"}
    BY <1>2
  <2> QED BY <2>1, <2>2, StillWaits
<1>3. CASE chunks # <<>>
  <2>1. Yield(chunks, after) /\ Logged
    BY <1>3 DEF Give
  <2>2. CASE Emit(chunks, after)
    <3>1. log' = 0
      BY <1>1, <2>1, <2>2 DEF Logged, Emit
    <3>2. Form(sent \o chunks)
      BY DEF Under
    <3> QED BY <1>1, <2>2, <3>1, <3>2, EmitKeeps
  <2>3. CASE closing /\ Over /\ sent' = sent
    <3>1. Cut
      BY <1>1, <2>1, <2>3 DEF Cut, Over, Logged, FinishLog, Status
    <3> QED BY <1>1, <3>1, CutKeeps
  <2> QED BY <1>3, <2>1, <2>2, <2>3, YieldStep DEF IInv
<1> QED BY <1>2, <1>3

LEMMA ReportKeeps ==
  ASSUME IInv, kind # "json", gen = "wait", next # "end", NEW s \in {499, 500, 502}, Report(s),
         UNCHANGED <<fixed, rendering, socket, closing, saved>>
  PROVE  IInv'
<1> DEFINE status == IF s = 499 /\ reason = "idle_timeout" THEN 504 ELSE s
<1>1. /\ sent \in Seq(Chunk) /\ log = 0 /\ saved \in BOOLEAN /\ (closing => ~socket)
      /\ All = sent
  BY AllWhenWaiting DEF IInv, TypeInv, EndInv
<1>2. Rendered
  BY DEF Rendered, rendering, IInv, TypeInv
<1>3. status \in Status /\ log' = status
  BY <1>1 DEF Status, Report, FinishLog
<1>4. /\ FinishLog(status)
      /\ \/ ~socket /\ Over /\ UNCHANGED sent
         \/ Yield(<<Error(status)>>, "end")
  BY DEF Report
<1> HIDE DEF status
<1>5. CASE ~socket /\ Over /\ UNCHANGED sent
  <2>1. Cut
    BY <1>1, <1>3, <1>5 DEF Cut, Over
  <2> QED BY <1>1, <1>2, <2>1, CutKeeps
<1>6. CASE Yield(<<Error(status)>>, "end")
  <2> DEFINE e == Error(status)
  <2>1. e \in Chunk /\ <<e>> \in Seq(Chunk) /\ <<e>> # <<>> /\ sent \o <<e>> = Append(sent, e)
    <3>1. e \in Chunk
      BY <1>3, ChunkTypes DEF Status
    <3> HIDE DEF e
    <3> QED BY <1>1, <3>1, Cat
  <2>2. CASE Emit(<<e>>, "end")
    <3>1. Form(Append(sent, e))
      <4>1. PICK n \in Nat, o \in BOOLEAN : Under(sent, n, o)
        <5>1. CASE next = "events"
          <6>1. Under(sent, blocks, open # "none") /\ blocks \in Nat /\ (open # "none") \in BOOLEAN
            BY <1>1, <5>1 DEF IInv, FormInv, TypeInv
          <6> QED BY <6>1
        <5>2. CASE next = "save"
          <6>1. \E n \in Nat : Under(sent, n, FALSE)
            BY <1>1, <5>2 DEF IInv, FormInv
          <6> QED BY <6>1
        <5> QED BY <5>1, <5>2 DEF IInv, TypeInv
      <4>2. status \in Nat
        BY <1>3 DEF Status
      <4> QED BY <4>1, <4>2, UnderGrows
    <3>2. /\ Append(sent, e) # <<>>
          /\ Append(sent, e)[Len(Append(sent, e))] = e
      <4> HIDE DEF e
      <4> QED BY <1>1, <2>1, AppendProperties
    <3>3. Closes(sent \o <<e>>, log')
      BY <1>3, <2>1, <3>2 DEF Closes
    <3>4. \E i \in Nat : (sent \o <<e>>)[Len(sent \o <<e>>)] = Error(i)
      BY <1>3, <2>1, <3>2 DEF Status
    <3> HIDE DEF e
    <3> QED BY <1>1, <1>2, <2>1, <2>2, <3>1, <3>3, <3>4, EmitKeeps
  <2>3. CASE closing /\ Over /\ sent' = sent
    <3>1. Cut
      BY <1>1, <1>3, <2>3 DEF Cut, Over
    <3> QED BY <1>1, <1>2, <3>1, CutKeeps
  <2> HIDE DEF e
  <2> QED BY <1>6, <2>1, <2>2, <2>3, YieldStep DEF e, IInv
<1> QED BY <1>4, <1>5, <1>6

----------------------------------------------------------------------------
(* The actions.                                                            *)

LEMMA EventKeeps ==
  ASSUME IInv, NEW e \in {"text", "thinking", "tool_call", "full", "empty"}, Event(e)
  PROVE  IInv'
<1>1. /\ gen = "wait" /\ next = "events" /\ kind # "json" /\ UNCHANGED <<fixed, socket, closing, saved>>
      /\ Under(sent, blocks, open # "none") /\ open \in {"none", "text", "thinking"}
      /\ blocks \in Nat /\ sent \in Seq(Chunk) /\ (kind = "chat" => open = "none" /\ blocks = 0)
  <2>1. out = <<>> /\ gen = "wait" /\ next = "events" /\ kind # "json"
    BY DEF Event, Waits, IInv, TypeInv
  <2> QED BY <2>1, AllWhenWaiting DEF Event, Steady, signal, IInv, TypeInv, FormInv
<1>2. CASE e \in {"text", "thinking"}
  <2>1. /\ Give(Text(e), "events")
        /\ open' = IF kind = "chat" \/ Hidden(e) THEN open ELSE e
        /\ blocks' = IF kind = "chat" \/ Hidden(e) \/ open = e THEN blocks ELSE blocks + 1
    BY <1>2 DEF Event
  <2>2. Text(e) \in Seq(Chunk) /\ Under(sent \o Text(e), blocks', open' # "none")
    BY <1>1, <1>2, <2>1, TextChunks
  <2>3. Rendered
    BY <1>1, <1>2, <2>1 DEF Rendered
  <2> QED BY <1>1, <2>1, <2>2, <2>3, GiveKeeps
<1>3. CASE e = "tool_call"
  <2>1. /\ Give(Tool, "events") /\ open' = "none"
        /\ blocks' = IF kind = "chat" THEN 0 ELSE blocks + 1
    BY <1>3 DEF Event
  <2>2. Tool \in Seq(Chunk) /\ Under(sent \o Tool, blocks', FALSE)
    <3>1. /\ Tool \in Seq(Chunk)
          /\ Under(sent \o Tool, IF kind = "chat" THEN blocks ELSE blocks + 1, FALSE)
      BY <1>1, ToolChunks
    <3> QED BY <1>1, <2>1, <3>1
  <2>3. Rendered
    BY <1>1, <2>1 DEF Rendered
  <2>4. (open' # "none") = FALSE
    BY <2>1
  <2> QED BY <1>1, <2>1, <2>2, <2>3, <2>4, GiveKeeps
<1>4. CASE e \in {"full", "empty"}
  <2>1. Give(<<>>, "events") /\ UNCHANGED <<open, blocks>>
    BY <1>4 DEF Event
  <2>2. <<>> \in Seq(Chunk) /\ sent \o <<>> = sent
    BY <1>1, EmptySeq, ConcatEmptySeq
  <2>3. Rendered
    BY <1>1, <2>1 DEF Rendered
  <2> QED BY <1>1, <2>1, <2>2, <2>3, GiveKeeps
<1> QED BY <1>2, <1>3, <1>4

LEMMA EventsEndKeeps ==
  ASSUME IInv, EventsEnd
  PROVE  IInv'
<1>1. /\ gen = "wait" /\ next = "events" /\ kind # "json" /\ UNCHANGED <<fixed, socket, closing, saved>>
      /\ Under(sent, blocks, open # "none") /\ open \in {"none", "text", "thinking"}
      /\ blocks \in Nat /\ sent \in Seq(Chunk) /\ (kind = "chat" => open = "none" /\ blocks = 0)
      /\ kind \in {"chat", "anthropic", "responses"}
  <2>1. out = <<>> /\ gen = "wait" /\ next = "events" /\ kind # "json"
    BY DEF EventsEnd, Waits, IInv, TypeInv
  <2> QED BY <2>1, AllWhenWaiting DEF EventsEnd, Steady, signal, IInv, TypeInv, FormInv
<1> DEFINE after == IF kind = "responses" THEN "save" ELSE "end"
<1>2. Give(Closing, after) /\ open' = "none" /\ UNCHANGED blocks
  BY DEF EventsEnd
<1>3. /\ Closing \in Seq(Chunk)
      /\ kind = "responses" => \E n \in Nat : Under(sent \o Closing, n, FALSE)
      /\ kind # "responses" => /\ Closing # <<>> /\ Form(sent \o Closing)
                               /\ Closes(sent \o Closing, 0)
  BY <1>1, ClosingChunks
<1>4. Rendered
  BY <1>1, <1>2 DEF Rendered
<1>5. /\ after \in {"events", "save", "end"} /\ (after = "save" <=> kind = "responses")
      /\ (after = "end" <=> kind # "responses")
  OBVIOUS
<1> HIDE DEF after
<1> QED BY <1>1, <1>2, <1>3, <1>4, <1>5, GiveKeeps

LEMMA FailureKeeps ==
  ASSUME IInv, (kind # "json" /\ SaveFails) \/ Race \/ \E s \in {499, 502} : EventsFail(s)
  PROVE  IInv'
<1>1. /\ \E s \in {499, 500, 502} : Report(s)
      /\ gen = "wait" /\ next # "end" /\ kind # "json"
      /\ UNCHANGED <<fixed, rendering, socket, closing, saved>>
  BY DEF SaveFails, Race, EventsFail, Waits, signal
<1> QED BY <1>1, ReportKeeps

LEMMA CompleteKeeps ==
  ASSUME IInv, kind # "json", Complete
  PROVE  IInv'
<1>1. /\ gen = "wait" /\ next = "save" /\ kind = "responses" /\ out = <<>>
      /\ saved' = (option = "store") /\ Yield(<<Final>>, "end") /\ Logged
      /\ UNCHANGED <<fixed, socket, closing, open, blocks>>
  BY DEF Complete, Waits, signal, rendering, IInv, TypeInv
<1>2. PICK n \in Nat : Under(sent, n, FALSE)
  BY <1>1, AllWhenWaiting DEF IInv, FormInv
<1>3. log = 0 /\ saved' \in BOOLEAN /\ (closing => ~socket) /\ Rendered
  BY <1>1 DEF IInv, TypeInv, EndInv, Rendered
<1> DEFINE f == <<Final>>
<1>4. f \in Seq(Chunk) /\ Form(sent \o f) /\ Closes(sent \o f, 0) /\ f # <<>>
  BY <1>2, FinalClosesUp
<1> HIDE DEF f
<1>5. CASE Emit(f, "end")
  <2>1. log' = 0
    BY <1>1, <1>3, <1>5 DEF Emit, Logged
  <2> QED BY <1>1, <1>3, <1>4, <1>5, <2>1, EmitKeeps
<1>6. CASE closing /\ Over /\ sent' = sent
  <2>1. Cut
    BY <1>1, <1>3, <1>6 DEF Cut, Over, Logged, FinishLog, Status
  <2> QED BY <1>1, <1>3, <2>1, CutKeeps
<1> QED BY <1>1, <1>4, <1>5, <1>6, YieldStep DEF f, IInv
(* A step that leaves the renderer where it is. *)
LEMMA FormKept ==
  ASSUME FormInv, All' = All, UNCHANGED <<kind, next, open, blocks>>
  PROVE  FormInv'
<1>1. kind' = kind /\ next' = next /\ open' = open /\ blocks' = blocks /\ Form(All')
  BY DEF FormInv
<1>2. kind # "json" /\ next = "events" => Under(All', blocks', open' # "none")
  BY <1>1 DEF FormInv
<1>3. kind # "json" /\ next = "save" => \E n \in Nat : Under(All', n, FALSE)
  BY DEF FormInv
<1> QED BY <1>1, <1>2, <1>3 DEF FormInv

LEMMA StoredKept ==
  ASSUME StoredInv, All' = All, UNCHANGED <<kind, option, saved>>
  PROVE  StoredInv'
BY DEF StoredInv

LEMMA PullKeeps ==
  ASSUME IInv, Pull
  PROVE  IInv'
<1>1. /\ kind # "json" /\ UNCHANGED <<open, blocks, fixed, socket, closing, saved>>
      /\ sent \in Seq(Chunk) /\ out \in Seq(Chunk)
  BY DEF Pull, rendering, signal, IInv, TypeInv
<1>r. Rendered /\ kind' = kind /\ option' = option /\ saved' = saved
  BY <1>1 DEF Rendered, fixed, IInv, TypeInv
<1>2. CASE gen = "new" /\ Yield(Opening, "events") /\ UNCHANGED log
  <2>1. ~closing /\ log = 0 /\ open = "none" /\ blocks = 0 /\ sent = <<>>
    BY <1>2 DEF IInv, TypeInv, EndInv
  <2> DEFINE p == <<Plain>>
  <2>2. /\ sent' = p /\ gen' = "held" /\ next' = "events"
        /\ out' = <<>> \/ out' = p
    BY <1>2, <2>1 DEF Opening, Yield
  <2>3. p \in Seq(Chunk) /\ <<>> \o p = p
    BY ChunkTypes
  <2>4. Under(p, 0, FALSE) /\ Under(p \o p, 0, FALSE) /\ Under(p \o <<>>, 0, FALSE)
    <3>1. \A w, n : Under(w, n, FALSE) => Under(w \o p, n, FALSE)
      BY UnderPlus
    <3>2. p \o <<>> = p
      BY <2>3, ConcatEmptySeq
    <3> HIDE DEF p
    <3> QED BY <2>3, <3>1, <3>2, UnderEmpty
  <2> HIDE DEF p
  <2>5. Under(All', 0, FALSE)
    BY <2>2, <2>4 DEF All
  <2>6. TypeInv'
    BY <1>1, <1>r, <2>1, <2>2, <2>3, EmptySeq DEF IInv, TypeInv, fixed
  <2>7. FormInv'
    <3>1. open' = "none" /\ blocks' = 0 /\ Form(All') /\ (open' # "none") = FALSE
      BY <1>1, <2>1, <2>5 DEF Under
    <3> QED BY <2>2, <2>5, <3>1 DEF FormInv
  <2>8. EndInv'
    BY <1>1, <1>2, <1>r, <2>1, <2>2 DEF EndInv, LogTellsEnd
  <2>9. StoredInv'
    BY <2>5 DEF Under, StoredInv, Ends, Final
  <2> QED BY <2>6, <2>7, <2>8, <2>9 DEF IInv
<1>3. CASE gen = "held" /\ out # <<>> /\ Yield(out, next) /\ UNCHANGED log
  <2> DEFINE a == Head(out)
             b == Tail(out)
  <2>1. ~closing
    BY <1>3 DEF IInv, TypeInv
  <2>2. sent' = Append(sent, a) /\ out' = b /\ gen' = "held" /\ next' = next
    BY <1>3, <2>1 DEF Yield
  <2>3. a \in Chunk /\ b \in Seq(Chunk) /\ out = <<a>> \o b
    BY <1>1, <1>3
  <2> HIDE DEF a, b
  <2>4. /\ Append(sent, a) \in Seq(Chunk) /\ <<a>> \in Seq(Chunk)
        /\ Append(sent, a) = sent \o <<a>>
    BY <1>1, <2>3, Cat, AppendProperties
  <2>5. All' = All
    <3>1. sent \o (<<a>> \o b) = (sent \o <<a>>) \o b
      BY <1>1, <2>3, <2>4, UnderJoin
    <3> QED BY <2>2, <2>3, <2>4, <3>1 DEF All
  <2>6. TypeInv'
    BY <1>1, <1>3, <1>r, <2>2, <2>3, <2>4 DEF IInv, TypeInv, fixed
  <2>7. FormInv' /\ StoredInv'
    BY <1>1, <1>r, <2>2, <2>5, FormKept, StoredKept DEF IInv
  <2>8. EndInv'
    BY <1>1, <1>3, <1>r, <2>2, <2>5 DEF IInv, EndInv, LogTellsEnd
  <2> QED BY <2>6, <2>7, <2>8 DEF IInv
<1>4. CASE gen = "held" /\ out = <<>> /\ next # "end" /\ gen' = "wait" /\ UNCHANGED <<next, out, sent, log>>
  <2>1. All' = All
    BY <1>4 DEF All
  <2>2. TypeInv'
    BY <1>1, <1>4, <1>r DEF IInv, TypeInv, fixed
  <2>3. FormInv' /\ StoredInv'
    BY <1>1, <1>4, <1>r, <2>1, FormKept, StoredKept DEF IInv
  <2>4. EndInv'
    BY <1>1, <1>4, <1>r, <2>1 DEF IInv, EndInv, LogTellsEnd
  <2> QED BY <2>2, <2>3, <2>4 DEF IInv
<1>5. CASE gen = "held" /\ out = <<>> /\ next = "end" /\ Over /\ FinishLog(200) /\ UNCHANGED sent
  <2>1. All' = All /\ gen' = "over" /\ next' = "end" /\ All = sent
    BY <1>5, AllWhenWaiting DEF All, Over, IInv
  <2>2. TypeInv'
    BY <1>1, <1>5, <1>r DEF IInv, TypeInv, fixed, Over
  <2>3. FormInv' /\ StoredInv'
    BY <1>1, <1>r, <2>1 DEF IInv, FormInv, StoredInv
  <2>4. Closes(sent, log)
    BY <1>1, <1>5, <2>1 DEF IInv, EndInv
  <2>5. LogTellsEnd'
    <3>1. CASE sent[Len(sent)] = Final /\ log = 0
      <4>1. log' = 200
        BY <1>5, <3>1 DEF FinishLog
      <4> QED BY <1>5, <3>1, <4>1 DEF LogTellsEnd, Last, Final
    <3>2. ASSUME NEW x \in Status, sent[Len(sent)] = Error(x), log = x PROVE LogTellsEnd'
      <4>1. log' = x /\ x # 0 /\ x # 200
        BY <1>5, <3>2 DEF FinishLog, Status
      <4> QED BY <1>5, <3>2, <4>1 DEF LogTellsEnd, Last, Error, Final
    <3> QED BY <2>4, <3>1, <3>2 DEF Closes
  <2>6. EndInv'
    BY <1>1, <1>r, <2>1, <2>5 DEF EndInv
  <2> QED BY <2>2, <2>3, <2>6 DEF IInv
<1> QED BY <1>2, <1>3, <1>4, <1>5 DEF Pull

LEMMA BodyKeeps ==
  ASSUME IInv, Answer \/ RunFails \/ RunTimeout \/ JsonComplete \/ JsonSaveFails
  PROVE  IInv'
<1>1. /\ kind = "json" /\ gen \in {"new", "wait"} /\ sent = <<>> /\ out = <<>>
      /\ UNCHANGED <<open, blocks, fixed, socket, closing>> /\ ~closing /\ out' = <<>>
      /\ saved' = saved \/ saved' = (option = "store")
  BY DEF Answer, RunFails, RunTimeout, JsonComplete, JsonSaveFails, Waits, Reply, rendering, signal,
         IInv, TypeInv
<1>r. kind' = kind /\ option' = option /\ socket' = socket /\ closing' = closing
  BY <1>1 DEF fixed
<1>2. CASE Answer
  <2>1. gen' = "wait" /\ next' = "save" /\ log' = 200 /\ sent' = sent /\ UNCHANGED saved /\ All' = All
    BY <1>2 DEF Answer, FinishLog, IInv, EndInv, All
  <2>2. TypeInv'
    BY <1>1, <1>r, <2>1 DEF IInv, TypeInv
  <2>3. FormInv' /\ EndInv' /\ StoredInv'
    BY <1>1, <1>r, <2>1 DEF IInv, FormInv, EndInv, StoredInv, LogTellsEnd
  <2> QED BY <2>2, <2>3 DEF IInv
<1>3. CASE RunFails \/ RunTimeout \/ JsonComplete \/ JsonSaveFails
  <2>1. PICK c \in {Final, Error(500), Error(502), Error(504)} :
          /\ Reply(c)
          /\ c = Final => log' = 200 /\ (option = "store" => saved')
          /\ c = Error(500) => log' = 200
          /\ c = Error(502) => log' = 502
          /\ c = Error(504) => log' = 504
    <3>0. /\ Final # Error(500) /\ Final # Error(502) /\ Final # Error(504)
          /\ Error(500) # Error(502) /\ Error(500) # Error(504) /\ Error(502) # Error(504)
      BY DEF Final, Error
    <3>1. (gen = "new" => log = 0) /\ (gen = "wait" => log = 200)
      BY <1>1 DEF IInv, EndInv
    <3>2. CASE RunFails
      <4>1. Reply(Error(502)) /\ log' = 502
        BY <3>1, <3>2 DEF RunFails, FinishLog
      <4> QED BY <3>0, <4>1
    <3>3. CASE RunTimeout
      <4>1. Reply(Error(504)) /\ log' = 504
        BY <3>1, <3>3 DEF RunTimeout, FinishLog
      <4> QED BY <3>0, <4>1
    <3>4. CASE JsonComplete
      <4>1. Reply(Final) /\ log' = 200 /\ (option = "store" => saved')
        BY <3>1, <3>4 DEF JsonComplete, Waits
      <4> QED BY <3>0, <4>1
    <3>5. CASE JsonSaveFails
      <4>1. Reply(Error(500)) /\ log' = 200
        BY <3>1, <3>5 DEF JsonSaveFails, Waits
      <4> QED BY <3>0, <4>1
    <3> QED BY <1>3, <3>2, <3>3, <3>4, <3>5
  <2>2. c \in Chunk
    BY ChunkTypes
  <2>3. gen' = "over" /\ sent' = <<c>> /\ next' = next
    BY <2>1 DEF Reply
  <2>4. <<c>> \in Seq(Chunk) /\ All' = Append(<<>>, c) /\ Len(<<c>>) = 1 /\ <<c>>[1] = c
        /\ Append(<<>>, c) = <<c>>
    BY <1>1, <2>2, <2>3 DEF All
  <2>5. Form(Append(<<>>, c))
    <3>1. /\ Form(Append(<<>>, Final))
          /\ \A i \in Nat : Form(Append(<<>>, Error(i)))
      BY UnderEmpty, UnderGrows, ZenonT(40)
    <3> QED BY <3>1
  <2>6. TypeInv'
    <3>1. sent' \in Seq(Chunk) /\ <<>> \in Seq(Chunk)
      BY <2>3, <2>4, EmptySeq
    <3>2. saved' \in BOOLEAN /\ socket' \in BOOLEAN /\ closing' \in BOOLEAN /\ ~closing'
      <4>1. socket \in BOOLEAN /\ closing \in BOOLEAN /\ saved \in BOOLEAN
        BY DEF IInv, TypeInv
      <4>2. socket' \in BOOLEAN /\ closing' \in BOOLEAN /\ ~closing'
        BY <1>1, <1>r, <4>1
      <4>3. CASE saved' = saved
        BY <4>1, <4>2, <4>3
      <4>4. CASE saved' = (option = "store")
        BY <4>2, <4>4
      <4> QED BY <1>1, <4>3, <4>4
    <3>3. /\ kind = "json" /\ next \in {"events", "save", "end"}
          /\ open' \in {"none", "text", "thinking"} /\ blocks' \in Nat /\ out' = <<>>
      BY <1>1 DEF IInv, TypeInv
    <3> QED BY <1>r, <2>3, <3>1, <3>2, <3>3 DEF TypeInv
  <2>7. FormInv'
    BY <1>1, <1>r, <2>4, <2>5 DEF FormInv
  <2>8. EndInv'
    BY <1>1, <1>r, <2>1, <2>3, <2>4 DEF EndInv, LogTellsEnd, Last, Final, Error
  <2>9. StoredInv'
    BY <1>1, <1>r, <2>1, <2>3, <2>4 DEF StoredInv, Final, Error
  <2> QED BY <2>6, <2>7, <2>8, <2>9 DEF IInv
<1> QED BY <1>2, <1>3

LEMMA SignalKeeps ==
  ASSUME IInv, IdleTimeout \/ SocketClose \/ Destroy
  PROVE  IInv'
<1>1. kind # "json" /\ UNCHANGED <<sent, open, blocks, fixed, saved>> /\ kind' = kind /\ option' = option
  BY DEF IdleTimeout, SocketClose, Destroy, Listening, rendering, fixed
<1>2. CASE IdleTimeout \/ SocketClose
  <2>1. UNCHANGED <<gen, next, out, closing, log>> /\ gen # "over" /\ (socket' = socket \/ socket' = FALSE)
        /\ All' = All
    BY <1>2 DEF IdleTimeout, SocketClose, Listening, All
  <2>2. TypeInv'
    <3>1. socket' \in BOOLEAN /\ (~socket => ~socket')
      <4>1. CASE socket' = socket
        BY <4>1 DEF IInv, TypeInv
      <4>2. CASE socket' = FALSE
        BY <4>2
      <4> QED BY <2>1, <4>1, <4>2
    <3> QED BY <1>1, <2>1, <3>1 DEF IInv, TypeInv
  <2>3. FormInv' /\ StoredInv'
    BY <1>1, <2>1, FormKept, StoredKept DEF IInv
  <2>4. EndInv'
    BY <1>1, <2>1 DEF IInv, EndInv, LogTellsEnd
  <2> QED BY <2>2, <2>3, <2>4 DEF IInv
<1>3. CASE Destroy /\ gen = "new"
  <2>1. /\ gen' = "over" /\ next' = "end" /\ out' = <<>> /\ sent = <<>> /\ out = <<>>
        /\ UNCHANGED <<socket, closing>>
    BY <1>3 DEF Destroy, Over, signal, IInv, TypeInv
  <2>2. All' = All
    BY <1>1, <2>1 DEF All
  <2>3. TypeInv'
    BY <1>1, <1>3, <2>1 DEF IInv, TypeInv
  <2>4. FormInv' /\ EndInv' /\ StoredInv'
    BY <1>1, <2>1, <2>2 DEF IInv, FormInv, EndInv, StoredInv, LogTellsEnd
  <2> QED BY <2>3, <2>4 DEF IInv
<1>4. CASE Destroy /\ gen = "held"
  <2>1. Cut
    BY <1>4 DEF Destroy, Cut, Over, FinishLog, Status
  <2>2. Rendered
    BY <1>1, <1>4 DEF Rendered, Destroy, signal, IInv, TypeInv
  <2> QED BY <1>1, <1>4, <2>1, <2>2, CutKeeps DEF IInv, TypeInv
<1>5. CASE Destroy /\ gen = "wait"
  <2>1. /\ closing' = TRUE /\ UNCHANGED <<gen, next, out, log, socket>> /\ ~socket /\ All' = All
    BY <1>1, <1>5 DEF Destroy, signal, All
  <2>2. TypeInv'
    BY <1>1, <1>5, <2>1 DEF IInv, TypeInv
  <2>3. FormInv' /\ EndInv' /\ StoredInv'
    BY <1>1, <1>5, <2>1 DEF IInv, FormInv, EndInv, StoredInv, LogTellsEnd
  <2> QED BY <2>2, <2>3 DEF IInv
<1>6. gen \in {"new", "held", "wait"} \/ IdleTimeout \/ SocketClose
  BY DEF Destroy, Listening, IInv, TypeInv
<1> QED BY <1>2, <1>3, <1>4, <1>5, <1>6

----------------------------------------------------------------------------
LEMMA InitIInv == Init => IInv
<1> SUFFICES ASSUME Init PROVE IInv
  OBVIOUS
<1>1. kind \in {"chat", "responses", "anthropic", "json"}
  BY DEF Init, Options
<1>2. /\ gen = "new" /\ next = "events" /\ out = <<>> /\ sent = <<>> /\ open = "none" /\ blocks = 0
      /\ socket \in BOOLEAN /\ closing = FALSE /\ saved = FALSE /\ log = 0
  BY DEF Init
<1>3. TypeInv
  BY <1>1, <1>2, EmptySeq DEF TypeInv
<1>4. All = <<>>
  BY <1>2, <1>3, AllWhenWaiting
<1>5. FormInv
  <2>1. (open # "none") = FALSE
    BY <1>2
  <2> QED BY <1>2, <1>4, <2>1, UnderEmpty DEF FormInv, Under
<1>6. EndInv
  BY <1>2 DEF EndInv, LogTellsEnd
<1>7. StoredInv
  BY <1>4, EmptySeq DEF StoredInv
<1> QED BY <1>3, <1>5, <1>6, <1>7 DEF IInv

LEMMA NextIInv == IInv /\ [Next]_vars => IInv'
<1>1. ASSUME IInv, Next PROVE IInv'
  BY <1>1, EventKeeps, EventsEndKeeps, FailureKeeps, CompleteKeeps, PullKeeps, BodyKeeps,
     SignalKeeps DEF Next
<1>2. ASSUME IInv, UNCHANGED vars PROVE IInv'
  <2>1. FormInv' /\ StoredInv'
    BY <1>2, FormKept, StoredKept DEF vars, IInv, All
  <2>2. TypeInv'
    BY <1>2 DEF vars, IInv, TypeInv
  <2>3. EndInv'
    BY <1>2 DEF vars, IInv, EndInv, LogTellsEnd, All
  <2> QED BY <2>1, <2>2, <2>3 DEF IInv
<1> QED BY <1>1, <1>2

LEMMA Invariance == Spec => []IInv
<1> QED BY InitIInv, NextIInv, PTL DEF Spec

----------------------------------------------------------------------------
(* However many events a run has, whatever they are, and wherever the      *)
(* client is cut off, its chunks follow the protocol.                      *)
THEOREM StreamWellFormed == Spec => []WellFormed
<1>1. IInv => WellFormed
  <2> SUFFICES ASSUME IInv PROVE WellFormed
    OBVIOUS
  <2>1. Form(sent) /\ sent \in Seq(Chunk) /\ DOMAIN sent = 1..Len(sent)
    BY FormPrefix, LenProperties DEF IInv, TypeInv, FormInv, All
  <2> SUFFICES ASSUME NEW k \in DOMAIN sent
               PROVE  LET Number(t, j) == Cardinality({m \in 1..j : sent[m].t = t})
                          c == sent[k]
                          started == Number("start", k - 1)
                          between == started = Number("stop", k - 1)
                      IN /\ c.t \in {"start", "plain", "final"} => between
                         /\ c.t = "start" => c.i = started
                         /\ c.t \in {"delta", "stop"} => ~between /\ c.i = started - 1
                         /\ c.t \in {"final", "error"} => k = Len(sent)
    BY DEF WellFormed
  <2>2. /\ Fits(sent[k], Count(sent, "start", k - 1), Count(sent, "stop", k - 1))
        /\ Ends(sent[k]) => k = Len(sent)
    BY <2>1 DEF Form
  <2> QED BY <2>2 DEF Fits, Ends, Count
<1> QED BY Invariance, <1>1, PTL

(* Whatever ends a stream, at whatever moment: the log tells how it ended. *)
THEOREM LogTellsTheEnd == Spec => []LogTellsEnd
<1>1. IInv => LogTellsEnd
  BY DEF IInv, EndInv
<1> QED BY Invariance, <1>1, PTL

(* A client that was told its response is complete finds it in the store.  *)
THEOREM CompletedIsStored == Spec => []StoredBeforeCompleted
<1>1. IInv => StoredBeforeCompleted
  <2> SUFFICES ASSUME IInv, kind \in {"responses", "json"}, option = "store",
                      NEW k \in 1..Len(sent), sent[k] = Final
               PROVE  saved
    BY DEF StoredBeforeCompleted, Contains
  <2>1. k \in 1..Len(All) /\ All[k] = Final
    BY AllWhenWaiting DEF IInv
  <2> QED BY <2>1 DEF IInv, StoredInv
<1> QED BY Invariance, <1>1, PTL
=============================================================================
