--------------------------- MODULE Localize_proofs ---------------------------
(***************************************************************************)
(* Theorems about Localize: for every finite graph, procedure and number of *)
(* hops the search ends, and what it shows is the neighbourhood.            *)
(***************************************************************************)

EXTENDS ImproveShort_proofs, SequenceTheorems

\* Induction over the numbers, for a set of them.
LEMMA NaturalsInduct ==
  ASSUME NEW Good, 0 \in Good, \A n \in Nat : n \in Good => n + 1 \in Good
  PROVE  \A n \in Nat : n \in Good
<1> SUFFICES ASSUME NEW n \in Nat, n \notin Good PROVE FALSE
  OBVIOUS
<1> DEFINE Bad == {m \in Nat : m \notin Good}
<1>1. Bad # {} /\ Bad \subseteq Nat
  OBVIOUS
<1> HIDE DEF Bad
<1>2. PICK m \in Bad : \A k \in Bad : ~(<<k, m>> \in OpToRel(<, Nat))
  BY <1>1, NatLessThanWellFounded, WFMin
<1>3. m \in Nat /\ m # 0 /\ m \notin Good
  BY <1>2 DEF Bad
<1>4. m - 1 \in Nat /\ m - 1 \notin Good
  <2>1. m - 1 \in Nat /\ (m - 1) + 1 = m
    BY <1>3
  <2> QED
    BY <1>3, <2>1
<1>5. <<m - 1, m>> \in OpToRel(<, Nat)
  BY <1>3, <1>4 DEF OpToRel
<1> QED
  BY <1>2, <1>4, <1>5 DEF Bad

(***************************************************************************)
(* Paths                                                                   *)
(***************************************************************************)

LEMMA PathStart ==
  ASSUME NEW g, NEW a \in g.nodes
  PROVE  Path(g, a, a, 0)
<1>1. PICK p : p = [i \in 0..0 |-> a]
  OBVIOUS
<1>2. 0 \in 0..0 /\ (\A i \in 0..0 : p[i] = a) /\ p \in [0..0 -> g.nodes]
  BY <1>1
<1>3. 0..(0 - 1) = {}
  OBVIOUS
<1> QED
  BY <1>2, <1>3 DEF Path

LEMMA PathStep ==
  ASSUME NEW g, NEW a, NEW u, NEW k \in Nat, Path(g, a, u, k),
         NEW e \in g.edges, e.from = u, e.to \in g.nodes
  PROVE  Path(g, a, e.to, k + 1)
<1>1. PICK p \in [0..k -> g.nodes] :
        /\ p[0] = a /\ p[k] = u
        /\ \A i \in 0..k-1 : \E d \in g.edges : d.from = p[i] /\ d.to = p[i + 1]
  BY DEF Path
<1>2. PICK q : q = [i \in 0..k+1 |-> IF i = k + 1 THEN e.to ELSE p[i]]
  OBVIOUS
<1>3. q \in [0..k+1 -> g.nodes] /\ q[0] = a /\ q[k + 1] = e.to /\ \A i \in 0..k : q[i] = p[i]
  BY <1>1, <1>2
<1>4. ASSUME NEW i \in 0..(k+1)-1
      PROVE  \E d \in g.edges : d.from = q[i] /\ d.to = q[i + 1]
  <2>1. CASE i = k
    BY <1>1, <1>3, <2>1
  <2>2. CASE i # k
    <3>1. i \in 0..k-1 /\ i \in 0..k /\ i + 1 \in 0..k
      BY <2>2
    <3> QED
      BY <1>1, <1>3, <3>1
  <2> QED
    BY <2>1, <2>2
<1> QED
  BY <1>3, <1>4 DEF Path

(***************************************************************************)
(* A list of the nodes that are found                                      *)
(***************************************************************************)

LEMMA SetToSeqLists ==
  ASSUME NEW S, IsFiniteSet(S)
  PROVE  /\ SetToSeq(S) \in Seq(S) /\ Len(SetToSeq(S)) = Cardinality(S)
         /\ \A x \in S : \E i \in 1..Len(SetToSeq(S)) : SetToSeq(S)[i] = x
<1>1. PICK n \in Nat : n = Cardinality(S) /\ ExistsBijection(1..n, S)
  BY FS_NatBijection, FS_CountingElements, FS_CardinalityType
<1>2. PICK h \in Bijection(1..n, S) : TRUE
  BY <1>1 DEF ExistsBijection
<1>3. h \in [1..n -> S] /\ IsInjective(h)
  BY <1>2 DEF Bijection, Injection, IsInjective
<1>4. PICK f : f = SetToSeq(S)
  OBVIOUS
<1>5. f \in [1..n -> S] /\ IsInjective(f)
  BY <1>1, <1>3, <1>4 DEF SetToSeq
<1>6. f \in Seq(S) /\ Len(f) = n
  BY <1>5
<1>7. f \in Injection(1..n, S)
  BY <1>5 DEF Injection, IsInjective
<1>8. f \in Surjection(1..n, S)
  BY <1>1, <1>7, FS_Interval, FS_Injection
<1> QED
  BY <1>1, <1>4, <1>6, <1>8 DEF Surjection

(***************************************************************************)
(* What a turn of the loop keeps                                           *)
(***************************************************************************)

Fields == {"queue", "depth", "kept"}

Within(g, a, hops, st) ==
  /\ DOMAIN st = Fields
  /\ DOMAIN st.depth \subseteq g.nodes /\ st.kept \subseteq g.edges
  /\ st.queue \in Seq(DOMAIN st.depth)
  /\ st.depth \in [DOMAIN st.depth -> 0..hops]
  /\ a \in DOMAIN st.depth /\ st.depth[a] = 0

\* The depths in the queue rise, and by no more than one; what is found is not
\* deeper than that.
InOrder(st) ==
  /\ \A i, j \in 1..Len(st.queue) : i <= j => st.depth[st.queue[i]] <= st.depth[st.queue[j]]
  /\ st.queue # <<>> => \A n \in DOMAIN st.depth : st.depth[n] <= st.depth[st.queue[1]] + 1

Queued(st, u) == \E i \in 1..Len(st.queue) : st.queue[i] = u

\* What a node that is done leads to has been found, at most a hop further.
Reaches(st, u, e) ==
  e \in st.kept /\ e.to \in DOMAIN st.depth /\ st.depth[e.to] <= st.depth[u] + 1
DoneReaches(g, hops, st) ==
  \A u \in DOMAIN st.depth : ~Queued(st, u) /\ st.depth[u] < hops =>
    \A e \in g.edges : e.from = u => Reaches(st, u, e)

KeptIsNear(hops, st) ==
  \A e \in st.kept : e.from \in DOMAIN st.depth /\ st.depth[e.from] < hops

DepthIsPath(g, a, st) == \A n \in DOMAIN st.depth : Path(g, a, n, st.depth[n])

LoopInv(g, a, hops, st) ==
  /\ Within(g, a, hops, st) /\ InOrder(st) /\ DoneReaches(g, hops, st)
  /\ KeptIsNear(hops, st) /\ DepthIsPath(g, a, st)

LEMMA AtStartKeeps ==
  ASSUME NEW g, NEW a \in g.nodes, NEW hops \in Nat
  PROVE  LoopInv(g, a, hops, AtStart(a))
<1>1. PICK st : st = AtStart(a)
  OBVIOUS
<1>2. st.queue = <<a>> /\ st.kept = {} /\ DOMAIN st.depth = {a} /\ st.depth[a] = 0
  BY <1>1 DEF AtStart
<1>3. Within(g, a, hops, st)
  <2>1. st.depth = [n \in {a} |-> 0]
    BY <1>1 DEF AtStart
  <2>2. DOMAIN st = Fields
    BY <1>1 DEF AtStart, Fields
  <2> QED
    BY <1>2, <2>1, <2>2 DEF Within
<1>4. InOrder(st)
  BY <1>2 DEF InOrder
<1>5. DoneReaches(g, hops, st)
  BY <1>2 DEF DoneReaches, Queued
<1>6. KeptIsNear(hops, st) /\ DepthIsPath(g, a, st)
  BY <1>2, PathStart DEF KeptIsNear, DepthIsPath
<1> QED
  BY <1>1, <1>3, <1>4, <1>5, <1>6 DEF LoopInv

\* A turn at a node of the last hop.
LEMMA LastHopKeeps ==
  ASSUME NEW g, NEW a, NEW hops \in Nat, NEW st, LoopInv(g, a, hops, st), st.queue # <<>>,
         AtLastHop(st.depth[Head(st.queue)], hops), NEW s, DOMAIN s = Fields,
         s.depth = st.depth, s.kept = st.kept, s.queue = Tail(st.queue)
  PROVE  LoopInv(g, a, hops, s)
<1>1. Within(g, a, hops, st) /\ InOrder(st) /\ DoneReaches(g, hops, st)
      /\ KeptIsNear(hops, st) /\ DepthIsPath(g, a, st)
  BY DEF LoopInv
<1>2. PICK D : D = DOMAIN st.depth
  OBVIOUS
<1>3. st.queue \in Seq(D) /\ st.depth \in [D -> 0..hops]
  BY <1>1, <1>2 DEF Within
<1>4. /\ s.queue \in Seq(D) /\ Len(st.queue) = Len(s.queue) + 1 /\ Len(s.queue) \in Nat
      /\ \A i \in 1..Len(s.queue) : s.queue[i] = st.queue[i + 1]
  BY <1>3, HeadTailProperties
<1>5. Within(g, a, hops, s)
  BY <1>1, <1>2, <1>4 DEF Within
<1>6. \A i \in 1..Len(st.queue) : st.queue[i] \in D /\ st.depth[st.queue[i]] \in 0..hops
  BY <1>3, ElementOfSeq
<1>7. InOrder(s)
  <2>1. \A i, j \in 1..Len(s.queue) : i <= j => s.depth[s.queue[i]] <= s.depth[s.queue[j]]
    <3> SUFFICES ASSUME NEW i \in 1..Len(s.queue), NEW j \in 1..Len(s.queue), i <= j
                 PROVE  s.depth[s.queue[i]] <= s.depth[s.queue[j]]
      OBVIOUS
    <3>1. i + 1 \in 1..Len(st.queue) /\ j + 1 \in 1..Len(st.queue) /\ i + 1 <= j + 1
      BY <1>4
    <3> QED
      BY <1>1, <1>4, <3>1 DEF InOrder
  <2>2. CASE s.queue = <<>>
    BY <2>1, <2>2 DEF InOrder
  <2>3. CASE s.queue # <<>>
    <3>1. 1 \in 1..Len(s.queue) /\ 1 \in 1..Len(st.queue) /\ 2 \in 1..Len(st.queue)
      BY <1>4, <2>3
    <3>2. st.depth[st.queue[1]] <= st.depth[st.queue[2]] /\ s.queue[1] = st.queue[2]
      BY <1>1, <1>4, <3>1 DEF InOrder
    <3>3. ASSUME NEW n \in DOMAIN s.depth PROVE s.depth[n] <= s.depth[s.queue[1]] + 1
      <4>1. st.depth[n] <= st.depth[st.queue[1]] + 1
        BY <1>1 DEF InOrder
      <4>2. st.depth[n] \in Int /\ st.depth[st.queue[1]] \in Int /\ st.depth[st.queue[2]] \in Int
        BY <1>2, <1>3, <1>6, <3>1
      <4>3. PICK x, y, z : x = st.depth[n] /\ y = st.depth[st.queue[1]] /\ z = st.depth[st.queue[2]]
        OBVIOUS
      <4>4. x \in Int /\ y \in Int /\ z \in Int /\ x <= y + 1 /\ y <= z
        BY <3>2, <4>1, <4>2, <4>3
      <4>5. x <= z + 1
        BY ONLY <4>4
      <4>6. s.depth[n] = x /\ s.depth[s.queue[1]] = z
        BY <3>2, <4>3
      <4> QED
        BY <4>5, <4>6
    <3> QED
      BY <2>1, <3>3 DEF InOrder
  <2> QED
    BY <2>2, <2>3
<1>8. DoneReaches(g, hops, s)
  <2> SUFFICES ASSUME NEW u \in D, ~Queued(s, u), s.depth[u] < hops,
                      NEW e \in g.edges, e.from = u
               PROVE  Reaches(s, u, e)
    BY <1>2 DEF DoneReaches
  <2>1. ~Queued(st, u)
    <3> SUFFICES ASSUME NEW i \in 1..Len(st.queue), st.queue[i] = u PROVE FALSE
      BY DEF Queued
    <3>1. CASE i = 1
      <4>1. st.depth[u] >= hops /\ st.depth[u] \in Int
        BY <1>3, <3>1 DEF AtLastHop
      <4> QED
        BY <4>1
    <3>2. CASE i # 1
      <4>1. i - 1 \in 1..Len(s.queue) /\ (i - 1) + 1 = i
        BY <1>4, <3>2
      <4>2. s.queue[i - 1] = u
        BY <1>4, <4>1
      <4> QED
        BY <4>1, <4>2 DEF Queued
    <3> QED
      BY <3>1, <3>2
  <2> QED
    BY <1>1, <1>2, <2>1 DEF DoneReaches, Reaches
<1>9. KeptIsNear(hops, s) /\ DepthIsPath(g, a, s)
  BY <1>1 DEF KeptIsNear, DepthIsPath
<1> QED
  BY <1>5, <1>7, <1>8, <1>9 DEF LoopInv

\* How many turns are left, at most: the nodes that are in the queue and those
\* that were not found yet.
Left(g, st) == Cardinality(g.nodes) - Cardinality(DOMAIN st.depth) + Len(st.queue)

\* The queue a turn leaves: what was behind the first one, then what is new.
TailThenNew(D, F, queue, new, rest) ==
  /\ Len(queue) \in Nat /\ Len(new) \in Nat /\ Len(queue) >= 1
  /\ rest \in Seq(D \cup F) /\ Len(rest) = Len(queue) - 1 + Len(new)
  /\ \A i \in 1..Len(rest) :
       \/ i <= Len(queue) - 1 /\ rest[i] = queue[i + 1] /\ rest[i] \in D
       \/ i > Len(queue) - 1 /\ rest[i] = new[i - (Len(queue) - 1)] /\ rest[i] \in F

LEMMA QueueGrows ==
  ASSUME NEW D, NEW F, NEW queue, queue \in Seq(D), queue # <<>>, NEW new, new \in Seq(F)
  PROVE  TailThenNew(D, F, queue, new, Tail(queue) \o new)
<1>1. PICK t : t = Tail(queue)
  OBVIOUS
<1>2. /\ t \in Seq(D) /\ Len(t) = Len(queue) - 1 /\ Len(queue) \in Nat /\ Len(new) \in Nat
      /\ \A i \in 1..Len(t) : t[i] = queue[i + 1]
  BY <1>1, HeadTailProperties, LenProperties
<1>3. t \in Seq(D \cup F) /\ new \in Seq(D \cup F)
  BY <1>2
<1>4. PICK rest : rest = t \o new
  OBVIOUS
<1>5. /\ rest \in Seq(D \cup F) /\ Len(rest) = Len(t) + Len(new)
      /\ \A i \in 1..Len(t) + Len(new) : rest[i] = IF i <= Len(t) THEN t[i] ELSE new[i - Len(t)]
  BY <1>3, <1>4, ConcatProperties
<1>6. Len(queue) >= 1
  BY <1>2, EmptySeq
<1>7. ASSUME NEW i \in 1..Len(rest)
      PROVE  \/ i <= Len(t) /\ rest[i] = queue[i + 1] /\ rest[i] \in D
             \/ i > Len(t) /\ rest[i] = new[i - Len(t)] /\ rest[i] \in F
  <2>1. CASE i <= Len(t)
    <3>1. i \in 1..Len(t) /\ rest[i] = t[i] /\ t[i] = queue[i + 1] /\ t[i] \in D
      BY <1>2, <1>5, <2>1, ElementOfSeq
    <3> QED
      BY <2>1, <3>1
  <2>2. CASE i > Len(t)
    <3>1. i \in 1..Len(t) + Len(new) /\ Len(t) \in Nat /\ Len(new) \in Nat
      BY <1>2, <1>5
    <3>2. i - Len(t) \in 1..Len(new) /\ ~(i <= Len(t))
      BY <2>2, <3>1
    <3>3. rest[i] = new[i - Len(t)]
      BY <1>5, <3>1, <3>2
    <3>4. new[i - Len(t)] \in F
      BY <3>2, ElementOfSeq
    <3> QED
      BY <2>2, <3>3, <3>4
  <2> QED
    BY <1>2, <2>1, <2>2
<1>8. TailThenNew(D, F, queue, new, rest)
  BY <1>2, <1>5, <1>6, <1>7 DEF TailThenNew
<1> QED
  BY <1>1, <1>4, <1>8

\* What a turn that follows the edges of u does, with the nodes it finds.
Grown(g, st, s, u, found) ==
  /\ u = st.queue[1] /\ u \in DOMAIN st.depth
  /\ found \subseteq g.nodes /\ found \cap DOMAIN st.depth = {}
  /\ DOMAIN s.depth = DOMAIN st.depth \cup found
  /\ \A n \in found : s.depth[n] = st.depth[u] + 1
  /\ \A n \in DOMAIN st.depth : s.depth[n] = st.depth[n]
  /\ s.kept \subseteq g.edges /\ st.kept \subseteq s.kept
  /\ \A e \in s.kept : e \in st.kept \/ e.from = u
  /\ \A n \in found : \E e \in g.edges : e.from = u /\ e.to = n
  /\ \A e \in g.edges : e.from = u => e \in s.kept /\ e.to \in DOMAIN s.depth

GrownQueue(st, s, found) ==
  /\ Len(st.queue) \in Nat /\ Len(st.queue) >= 1
  /\ s.queue \in Seq(DOMAIN s.depth) /\ Len(s.queue) \in Nat
  /\ Len(s.queue) = Len(st.queue) - 1 + Cardinality(found)
  /\ \A i \in 1..Len(s.queue) :
       \/ i <= Len(st.queue) - 1 /\ s.queue[i] = st.queue[i + 1] /\ s.queue[i] \in DOMAIN st.depth
       \/ i > Len(st.queue) - 1 /\ s.queue[i] \in found
  /\ \A i \in 2..Len(st.queue) : Queued(s, st.queue[i])
  /\ \A n \in found : Queued(s, n)

LEMMA TurnGrows ==
  ASSUME NEW g, Sound(g), IsFiniteSet(g.nodes), NEW hops \in Nat,
         NEW st, st.queue \in Seq(DOMAIN st.depth), st.queue # <<>>,
         DOMAIN st.depth \subseteq g.nodes, st.kept \subseteq g.edges,
         ~AtLastHop(st.depth[Head(st.queue)], hops)
  PROVE  \E u, found : /\ Grown(g, st, Turn(g, hops, st), u, found)
                       /\ GrownQueue(st, Turn(g, hops, st), found)
                       /\ IsFiniteSet(found)
<1>1. PICK s : s = Turn(g, hops, st)
  OBVIOUS
<1>2. PICK u : u = Head(st.queue)
  OBVIOUS
<1>3. PICK D : D = DOMAIN st.depth
  OBVIOUS
<1>4. PICK out : out = {e \in g.edges : e.from = u}
  OBVIOUS
<1>5. PICK found : found = {e.to : e \in out} \ D
  OBVIOUS
<1>6. PICK new : new = SetToSeq(found)
  OBVIOUS
<1>7. PICK depth : depth = [n \in D \cup found |-> IF n \in found THEN st.depth[u] + 1 ELSE st.depth[n]]
  OBVIOUS
<1>8. s = [queue |-> Tail(st.queue) \o new, depth |-> depth, kept |-> st.kept \cup out]
  BY <1>1, <1>2, <1>3, <1>4, <1>5, <1>6, <1>7 DEF Turn
<1>9. u = st.queue[1] /\ u \in D
  BY <1>2, <1>3, HeadTailProperties
<1>10. found \subseteq g.nodes /\ found \cap D = {} /\ IsFiniteSet(found)
  <2>1. found \subseteq g.nodes
    BY <1>4, <1>5 DEF Sound
  <2> QED
    BY <1>5, <2>1, FS_Subset
<1>11. Grown(g, st, s, u, found)
  <2>1. DOMAIN s.depth = D \cup found
    BY <1>7, <1>8
  <2>2. \A n \in found : s.depth[n] = st.depth[u] + 1
    BY <1>7, <1>8
  <2>3. \A n \in D : s.depth[n] = st.depth[n]
    BY <1>7, <1>8, <1>10
  <2>4. \A e \in out : e.to \in D \cup found
    BY <1>5
  <2>5. \A n \in found : \E e \in out : e.to = n
    BY <1>5
  <2>6. s.kept = st.kept \cup out
    BY <1>8
  <2> QED
    BY <1>3, <1>4, <1>9, <1>10, <2>1, <2>2, <2>3, <2>4, <2>5, <2>6 DEF Grown
<1>12. GrownQueue(st, s, found)
  <2>1. /\ new \in Seq(found) /\ Len(new) = Cardinality(found)
        /\ \A x \in found : \E i \in 1..Len(new) : new[i] = x
    BY <1>6, <1>10, SetToSeqLists
  <2>2. PICK k : k = Len(st.queue) - 1
    OBVIOUS
  <2>3. PICK rest : rest = Tail(st.queue) \o new
    OBVIOUS
  <2>4. /\ Len(st.queue) \in Nat /\ Len(new) \in Nat /\ Len(st.queue) >= 1
        /\ rest \in Seq(D \cup found) /\ Len(rest) = k + Len(new)
        /\ \A i \in 1..Len(rest) :
             \/ i <= k /\ rest[i] = st.queue[i + 1] /\ rest[i] \in D
             \/ i > k /\ rest[i] = new[i - k] /\ rest[i] \in found
    <3>1. TailThenNew(D, found, st.queue, new, rest)
      BY <1>3, <2>1, <2>3, QueueGrows
    <3> QED
      BY <2>2, <3>1 DEF TailThenNew
  <2>5. k \in Nat
    BY <2>2, <2>4
  <2>6. s.queue = rest /\ DOMAIN s.depth = D \cup found
    BY <1>7, <1>8, <2>3
  <2>7. ASSUME NEW i \in 2..Len(st.queue) PROVE Queued(s, st.queue[i])
    <3>1. i - 1 \in 1..Len(rest) /\ i - 1 <= k /\ (i - 1) + 1 = i
      BY <2>2, <2>4
    <3>2. rest[i - 1] = st.queue[i]
      BY <2>4, <2>5, <3>1
    <3> QED
      BY <2>6, <3>1, <3>2 DEF Queued
  <2>8. ASSUME NEW n \in found PROVE Queued(s, n)
    <3>1. PICK i \in 1..Len(new) : new[i] = n
      BY <2>1
    <3>2. k + i \in 1..Len(rest) /\ k + i > k /\ (k + i) - k = i
      BY <2>4, <2>5
    <3>3. rest[k + i] = n
      BY <2>4, <2>5, <3>1, <3>2
    <3> QED
      BY <2>6, <3>2, <3>3 DEF Queued
  <2>9. \A i \in 1..Len(rest) : \/ i <= k /\ rest[i] = st.queue[i + 1] /\ rest[i] \in D
                                \/ i > k /\ rest[i] \in found
    BY <2>4
  <2> QED
    BY <1>3, <2>1, <2>2, <2>4, <2>5, <2>6, <2>7, <2>8, <2>9 DEF GrownQueue
<1> QED
  BY <1>1, <1>10, <1>11, <1>12

LEMMA GrownKeeps ==
  ASSUME NEW g, NEW a, NEW hops \in Nat, NEW st, LoopInv(g, a, hops, st),
         NEW s, NEW u, NEW found, Grown(g, st, s, u, found), GrownQueue(st, s, found),
         st.depth[u] < hops, DOMAIN s = Fields, s.depth = [n \in DOMAIN s.depth |-> s.depth[n]]
  PROVE  LoopInv(g, a, hops, s)
<1>1. Within(g, a, hops, st) /\ InOrder(st) /\ DoneReaches(g, hops, st)
      /\ KeptIsNear(hops, st) /\ DepthIsPath(g, a, st)
  BY DEF LoopInv
<1>2. PICK D : D = DOMAIN st.depth
  OBVIOUS
<1>3. PICK d : d = st.depth[u]
  OBVIOUS
<1>4. /\ st.queue \in Seq(D) /\ (\A n \in D : st.depth[n] \in 0..hops)
      /\ a \in D /\ st.depth[a] = 0 /\ D \subseteq g.nodes
  BY <1>1, <1>2 DEF Within
<1>5. u \in D /\ u = st.queue[1] /\ d \in Nat /\ d < hops
  BY <1>2, <1>3, <1>4 DEF Grown
<1>6. /\ DOMAIN s.depth = D \cup found /\ found \cap D = {}
      /\ (\A n \in found : s.depth[n] = d + 1) /\ (\A n \in D : s.depth[n] = st.depth[n])
  BY <1>2, <1>3 DEF Grown
<1>7. \A n \in D \cup found : s.depth[n] \in 0..hops
  <2>1. d + 1 \in 0..hops
    BY <1>5
  <2> QED
    BY <1>4, <1>6, <2>1
<1>8. Within(g, a, hops, s)
  <2>1. D \cup found \subseteq g.nodes /\ s.kept \subseteq g.edges
    BY <1>4 DEF Grown
  <2>2. s.queue \in Seq(D \cup found)
    BY <1>6 DEF GrownQueue
  <2>3. a \in D \cup found /\ s.depth[a] = 0
    BY <1>4, <1>6
  <2>4. s.depth \in [D \cup found -> 0..hops]
    BY <1>6, <1>7
  <2> QED
    BY <1>6, <2>1, <2>2, <2>3, <2>4 DEF Within
\* What is in the old queue is as deep as u or a hop deeper.
<1>9. \A i \in 1..Len(st.queue) :
        st.queue[i] \in D /\ d <= st.depth[st.queue[i]] /\ st.depth[st.queue[i]] <= d + 1
  <2> SUFFICES ASSUME NEW i \in 1..Len(st.queue)
               PROVE  st.queue[i] \in D /\ d <= st.depth[st.queue[i]]
                      /\ st.depth[st.queue[i]] <= d + 1
    OBVIOUS
  <2>1. st.queue[i] \in D
    BY <1>4, ElementOfSeq
  <2>2. 1 \in 1..Len(st.queue) /\ 1 <= i /\ st.queue # <<>>
    BY <1>4, EmptySeq DEF GrownQueue
  <2> QED
    BY <1>1, <1>2, <1>3, <1>5, <2>1, <2>2 DEF InOrder
<1>10. \A n \in D \cup found : s.depth[n] \in Nat /\ s.depth[n] <= d + 1
  <2> SUFFICES ASSUME NEW n \in D \cup found PROVE s.depth[n] \in Nat /\ s.depth[n] <= d + 1
    OBVIOUS
  <2>1. 1 \in 1..Len(st.queue) /\ st.queue # <<>>
    BY <1>4, EmptySeq DEF GrownQueue
  <2>2. n \in D => st.depth[n] <= d + 1
    BY <1>1, <1>2, <1>3, <1>5, <2>1 DEF InOrder
  <2> QED
    BY <1>5, <1>6, <1>7, <2>2
<1>11. PICK k : k = Len(st.queue) - 1
  OBVIOUS
<1>12. k \in Nat /\ Len(s.queue) \in Nat
  BY <1>11 DEF GrownQueue
<1>13. \A i \in 1..Len(s.queue) :
         \/ i <= k /\ s.queue[i] = st.queue[i + 1] /\ s.queue[i] \in D
         \/ i > k /\ s.queue[i] \in found
  BY <1>2, <1>11 DEF GrownQueue
<1>14. \A i \in 1..Len(s.queue) : s.queue[i] \in D \cup found /\ d <= s.depth[s.queue[i]]
  <2> SUFFICES ASSUME NEW i \in 1..Len(s.queue)
               PROVE  s.queue[i] \in D \cup found /\ d <= s.depth[s.queue[i]]
    OBVIOUS
  <2>1. CASE i <= k
    <3>1. i + 1 \in 1..Len(st.queue)
      BY <1>11, <1>12, <2>1
    <3>2. s.queue[i] = st.queue[i + 1] /\ s.queue[i] \in D
      BY <1>12, <1>13, <2>1
    <3> QED
      BY <1>6, <1>9, <3>1, <3>2
  <2>2. CASE i > k
    <3>1. s.queue[i] \in found
      BY <1>12, <1>13, <2>2
    <3> QED
      BY <1>5, <1>6, <3>1
  <2> QED
    BY <1>12, <2>1, <2>2
<1>15. InOrder(s)
  <2>1. ASSUME NEW i \in 1..Len(s.queue), NEW j \in 1..Len(s.queue), i <= j
        PROVE  s.depth[s.queue[i]] <= s.depth[s.queue[j]]
    <3>1. CASE j <= k
      <4>1. i + 1 \in 1..Len(st.queue) /\ j + 1 \in 1..Len(st.queue) /\ i + 1 <= j + 1 /\ i <= k
        BY <1>11, <1>12, <2>1, <3>1
      <4>2. st.depth[st.queue[i + 1]] <= st.depth[st.queue[j + 1]]
        BY <1>1, <4>1 DEF InOrder
      <4>3. s.queue[i] = st.queue[i + 1] /\ s.queue[i] \in D
            /\ s.queue[j] = st.queue[j + 1] /\ s.queue[j] \in D
        BY <1>12, <1>13, <3>1, <4>1
      <4> QED
        BY <1>6, <4>2, <4>3
    <3>2. CASE j > k
      <4>1. s.depth[s.queue[j]] = d + 1
        BY <1>6, <1>12, <1>13, <3>2
      <4> QED
        BY <1>10, <1>14, <4>1
    <3> QED
      BY <1>12, <3>1, <3>2
  <2>2. ASSUME s.queue # <<>>, NEW n \in DOMAIN s.depth
        PROVE  s.depth[n] <= s.depth[s.queue[1]] + 1
    <3>1. 1 \in 1..Len(s.queue)
      BY <1>8, <1>12, <2>2, EmptySeq DEF Within
    <3>2. PICK m : m = s.queue[1]
      OBVIOUS
    <3>3. m \in D \cup found /\ d <= s.depth[m]
      BY <1>14, <3>1, <3>2
    <3>4. n \in D \cup found
      BY <1>6
    <3>5. PICK x, y : x = s.depth[n] /\ y = s.depth[m]
      OBVIOUS
    <3>6. x \in Nat /\ y \in Nat /\ x <= d + 1 /\ d <= y
      BY <1>10, <3>3, <3>4, <3>5
    <3>7. x <= y + 1
      BY <1>5, <3>6
    <3> QED
      BY <3>2, <3>5, <3>7
  <2> QED
    BY <2>1, <2>2 DEF InOrder
<1>16. DoneReaches(g, hops, s)
  <2> SUFFICES ASSUME NEW v \in D \cup found, ~Queued(s, v), s.depth[v] < hops,
                      NEW e \in g.edges, e.from = v
               PROVE  Reaches(s, v, e)
    BY <1>6 DEF DoneReaches
  <2>1. v \in D
    BY DEF GrownQueue
  <2>2. CASE v = u
    <3>1. e \in s.kept /\ e.to \in DOMAIN s.depth
      BY <2>2 DEF Grown
    <3>2. s.depth[v] = d /\ s.depth[e.to] <= d + 1
      BY <1>3, <1>5, <1>6, <1>10, <2>2, <3>1
    <3> QED
      BY <3>1, <3>2 DEF Reaches
  <2>3. CASE v # u
    <3>1. ~Queued(st, v)
      <4> SUFFICES ASSUME NEW i \in 1..Len(st.queue), st.queue[i] = v PROVE FALSE
        BY DEF Queued
      <4>1. i # 1
        BY <1>5, <2>3
      <4>2. i \in 2..Len(st.queue)
        BY <1>12, <1>11, <4>1
      <4> QED
        BY <4>2 DEF GrownQueue
    <3>2. st.depth[v] < hops
      BY <1>6, <2>1
    <3>3. Reaches(st, v, e)
      BY <1>1, <1>2, <2>1, <3>1, <3>2 DEF DoneReaches
    <3>4. e \in s.kept /\ e.to \in D /\ st.depth[e.to] <= st.depth[v] + 1
      BY <1>2, <3>3 DEF Reaches, Grown
    <3>5. s.depth[e.to] = st.depth[e.to] /\ s.depth[v] = st.depth[v] /\ e.to \in DOMAIN s.depth
      BY <1>6, <2>1, <3>4
    <3> QED
      BY <3>4, <3>5 DEF Reaches
  <2> QED
    BY <2>2, <2>3
<1>17. KeptIsNear(hops, s)
  <2> SUFFICES ASSUME NEW e \in s.kept PROVE e.from \in DOMAIN s.depth /\ s.depth[e.from] < hops
    BY DEF KeptIsNear
  <2>1. CASE e.from = u
    BY <1>3, <1>5, <1>6, <2>1
  <2>2. CASE e \in st.kept
    BY <1>1, <1>2, <1>6, <2>2 DEF KeptIsNear
  <2> QED
    BY <2>1, <2>2 DEF Grown
<1>18. DepthIsPath(g, a, s)
  <2> SUFFICES ASSUME NEW n \in D \cup found PROVE Path(g, a, n, s.depth[n])
    BY <1>6 DEF DepthIsPath
  <2>1. CASE n \in D
    BY <1>1, <1>2, <1>6, <2>1 DEF DepthIsPath
  <2>2. CASE n \in found
    <3>1. PICK e \in g.edges : e.from = u /\ e.to = n
      BY <2>2 DEF Grown
    <3>2. Path(g, a, u, d)
      BY <1>1, <1>2, <1>3, <1>5 DEF DepthIsPath
    <3>3. e.to \in g.nodes
      BY <2>2, <3>1 DEF Grown
    <3>4. Path(g, a, e.to, d + 1)
      BY <1>5, <3>1, <3>2, <3>3, PathStep
    <3> QED
      BY <1>6, <2>2, <3>1, <3>4
  <2> QED
    BY <2>1, <2>2
<1> QED
  BY <1>8, <1>15, <1>16, <1>17, <1>18 DEF LoopInv

\* A turn keeps the invariant and leaves one turn less.
LEMMA TurnKeeps ==
  ASSUME NEW g, Sound(g), IsFiniteSet(g.nodes), NEW a, NEW hops \in Nat,
         NEW st, LoopInv(g, a, hops, st), st.queue # <<>>
  PROVE  LoopInv(g, a, hops, Turn(g, hops, st)) /\ Left(g, Turn(g, hops, st)) = Left(g, st) - 1
<1>1. PICK s : s = Turn(g, hops, st)
  OBVIOUS
<1>2. /\ st.queue \in Seq(DOMAIN st.depth) /\ DOMAIN st.depth \subseteq g.nodes
      /\ st.kept \subseteq g.edges /\ DOMAIN st = Fields
  BY DEF LoopInv, Within
<1>3. IsFiniteSet(DOMAIN st.depth) /\ Cardinality(DOMAIN st.depth) \in Nat
  BY <1>2, FS_Subset, FS_CardinalityType
<1>4. Cardinality(g.nodes) \in Nat
  BY FS_CardinalityType
<1>5. CASE AtLastHop(st.depth[Head(st.queue)], hops)
  <2>1. s = [st EXCEPT !.queue = Tail(st.queue)]
    BY <1>1, <1>5 DEF Turn
  <2>2. s.depth = st.depth /\ s.kept = st.kept /\ DOMAIN s = Fields
    BY <1>2, <2>1
  <2>3. s.queue = Tail(st.queue)
    BY <1>2, <2>1 DEF Fields
  <2>4. LoopInv(g, a, hops, s)
    BY <1>5, <2>2, <2>3, LastHopKeeps
  <2>5. Len(s.queue) = Len(st.queue) - 1 /\ Len(st.queue) \in Nat
    BY <1>2, <2>3, HeadTailProperties, LenProperties
  <2>6. Left(g, s) = Left(g, st) - 1
    BY <1>3, <1>4, <2>2, <2>5 DEF Left
  <2> QED
    BY <1>1, <2>4, <2>6
<1>6. CASE ~AtLastHop(st.depth[Head(st.queue)], hops)
  <2>1. PICK u, found : Grown(g, st, s, u, found) /\ GrownQueue(st, s, found) /\ IsFiniteSet(found)
    BY <1>1, <1>2, <1>6, TurnGrows
  <2>2. u = Head(st.queue) /\ st.depth[u] \in 0..hops
    BY <1>2, <2>1, HeadTailProperties DEF Grown, LoopInv, Within
  <2>3. st.depth[u] < hops
    BY <1>6, <2>2 DEF AtLastHop
  <2>4. s.depth = [n \in DOMAIN s.depth |-> s.depth[n]] /\ DOMAIN s = Fields
    BY <1>1, <1>6 DEF Turn, Fields
  <2>5. LoopInv(g, a, hops, s)
    BY <2>1, <2>3, <2>4, GrownKeeps
  <2>6. PICK D : D = DOMAIN st.depth
    OBVIOUS
  <2>7. DOMAIN s.depth = D \cup found /\ D \cap found = {}
    BY <2>1, <2>6 DEF Grown
  <2>8. Cardinality(D \cup found) = Cardinality(D) + Cardinality(found)
    <3>1. Cardinality(D \cup found) = Cardinality(D) + Cardinality(found) - Cardinality(D \cap found)
      BY <1>3, <2>1, <2>6, FS_Union
    <3>2. Cardinality(D \cap found) = 0
      BY <2>7, FS_EmptySet
    <3>3. Cardinality(found) \in Nat /\ Cardinality(D) \in Nat
      BY <1>3, <2>1, <2>6, FS_CardinalityType
    <3> QED
      BY <3>1, <3>2, <3>3
  <2>9. Cardinality(found) \in Nat
    BY <2>1, FS_CardinalityType
  <2>10. Len(s.queue) = Len(st.queue) - 1 + Cardinality(found) /\ Len(st.queue) \in Nat
    BY <2>1 DEF GrownQueue
  <2>11. Left(g, s) = Left(g, st) - 1
    BY <1>3, <1>4, <2>6, <2>7, <2>8, <2>9, <2>10 DEF Left
  <2> QED
    BY <1>1, <2>5, <2>11
<1> QED
  BY <1>5, <1>6

(***************************************************************************)
(* The loop                                                                *)
(***************************************************************************)

\* The turns of the loop, up to n of them.
Turns(g, a, hops, f, n) ==
  f = [k \in 0..n |-> IF k = 0 THEN AtStart(a) ELSE Loop(g, hops, f[k - 1])]
AllTurns(g, a, hops, f) ==
  f = [n \in Nat |-> IF n = 0 THEN AtStart(a) ELSE Loop(g, hops, f[n - 1])]

LEMMA TurnsAt ==
  ASSUME NEW g, NEW a, NEW hops, NEW f, NEW n \in Nat, Turns(g, a, hops, f, n), NEW k \in 0..n
  PROVE  f[k] = IF k = 0 THEN AtStart(a) ELSE Loop(g, hops, f[k - 1])
BY DEF Turns

LEMMA TurnsAgree ==
  ASSUME NEW g, NEW a, NEW hops, NEW f, NEW n \in Nat, Turns(g, a, hops, f, n),
         NEW h, NEW m \in Nat, Turns(g, a, hops, h, m), NEW k \in Nat, k <= n, k <= m
  PROVE  f[k] = h[k]
<1> DEFINE Good == {i \in Nat : i <= n /\ i <= m => f[i] = h[i]}
<1>1. 0 \in Good
  BY TurnsAt
<1>2. ASSUME NEW i \in Nat, i \in Good PROVE i + 1 \in Good
  <2> SUFFICES ASSUME i + 1 <= n, i + 1 <= m PROVE f[i + 1] = h[i + 1]
    OBVIOUS
  <2>1. f[i] = h[i]
    BY <1>2
  <2>2. i + 1 \in 0..n /\ i + 1 \in 0..m /\ (i + 1) - 1 = i /\ i + 1 # 0
    OBVIOUS
  <2>3. f[i + 1] = Loop(g, hops, f[i])
    BY <2>2, TurnsAt
  <2>4. h[i + 1] = Loop(g, hops, h[i])
    BY <2>2, TurnsAt
  <2> QED
    BY <2>1, <2>3, <2>4
<1> HIDE DEF Good
<1>3. k \in Good
  BY <1>1, <1>2, NaturalsInduct
<1> QED
  BY <1>3 DEF Good

LEMMA TurnsExist ==
  ASSUME NEW g, NEW a, NEW hops
  PROVE  \A n \in Nat : \E f : Turns(g, a, hops, f, n)
<1> DEFINE Good == {n \in Nat : \E f : Turns(g, a, hops, f, n)}
<1>1. 0 \in Good
  <2>1. PICK f : f = [k \in 0..0 |-> AtStart(a)]
    OBVIOUS
  <2>2. f = [k \in 0..0 |-> IF k = 0 THEN AtStart(a) ELSE Loop(g, hops, f[k - 1])]
    BY <2>1
  <2> QED
    BY <2>2 DEF Turns
<1>2. ASSUME NEW n \in Nat, n \in Good PROVE n + 1 \in Good
  <2>1. PICK f : Turns(g, a, hops, f, n)
    BY <1>2
  <2>2. PICK h : h = [k \in 0..n+1 |-> IF k = 0 THEN AtStart(a) ELSE Loop(g, hops, f[k - 1])]
    OBVIOUS
  <2>3. \A k \in 0..n : h[k] = f[k]
    BY <2>1, <2>2, TurnsAt
  <2>4. \A k \in 0..n+1 : k # 0 => k - 1 \in 0..n
    OBVIOUS
  <2>5. h = [k \in 0..n+1 |-> IF k = 0 THEN AtStart(a) ELSE Loop(g, hops, h[k - 1])]
    BY <2>2, <2>3, <2>4
  <2> QED
    BY <2>5 DEF Turns
<1> HIDE DEF Good
<1>3. \A n \in Nat : n \in Good
  BY <1>1, <1>2, NaturalsInduct
<1> QED
  BY <1>3 DEF Good

LEMMA AllTurnsExist ==
  ASSUME NEW g, NEW a, NEW hops
  PROVE  \E f : AllTurns(g, a, hops, f)
<1> DEFINE Part(n) == CHOOSE f : Turns(g, a, hops, f, n)
<1>1. \A n \in Nat : Turns(g, a, hops, Part(n), n)
  BY TurnsExist
<1> HIDE DEF Part
<1>2. PICK f : f = [n \in Nat |-> Part(n)[n]]
  OBVIOUS
<1>3. ASSUME NEW n \in Nat
      PROVE  f[n] = IF n = 0 THEN AtStart(a) ELSE Loop(g, hops, f[n - 1])
  <2>1. CASE n = 0
    BY <1>1, <1>2, <2>1, TurnsAt
  <2>2. CASE n # 0
    <3>1. n - 1 \in Nat /\ n - 1 <= n /\ n \in 0..n
      BY <2>2
    <3>2. f[n] = Loop(g, hops, Part(n)[n - 1])
      BY <1>1, <1>2, <2>2, <3>1, TurnsAt
    <3>3. PICK m \in Nat : m = n - 1
      BY <3>1
    <3>4. Part(m)[m] = Part(n)[m]
      BY <1>1, <3>1, <3>3, TurnsAgree
    <3> QED
      BY <1>2, <2>2, <3>2, <3>3, <3>4
  <2> QED
    BY <2>1, <2>2
<1>4. f = [n \in Nat |-> IF n = 0 THEN AtStart(a) ELSE Loop(g, hops, f[n - 1])]
  BY <1>2, <1>3
<1> QED
  BY <1>4 DEF AllTurns

LEMMA SearchTurns ==
  ASSUME NEW g, NEW a, NEW hops
  PROVE  \E f : AllTurns(g, a, hops, f) /\ Search(g, a, hops) = f[Cardinality(g.nodes)]
<1>1. PICK f : f = CHOOSE turns : AllTurns(g, a, hops, turns)
  OBVIOUS
<1>2. AllTurns(g, a, hops, f)
  BY <1>1, AllTurnsExist
<1>3. Search(g, a, hops) = f[Cardinality(g.nodes)]
  BY <1>1 DEF Search, AllTurns
<1> QED
  BY <1>2, <1>3

\* The search ends: its queue is empty, and the invariant holds.
LEMMA SearchEndsWith ==
  ASSUME NEW g, Sound(g), IsFiniteSet(g.nodes), NEW a \in g.nodes, NEW hops \in Nat
  PROVE  LoopInv(g, a, hops, Search(g, a, hops)) /\ Search(g, a, hops).queue = <<>>
<1>1. PICK f : AllTurns(g, a, hops, f) /\ Search(g, a, hops) = f[Cardinality(g.nodes)]
  BY SearchTurns
<1>2. PICK max : max = Cardinality(g.nodes) /\ max \in Nat
  BY FS_CardinalityType
<1> DEFINE Good == {n \in Nat : /\ LoopInv(g, a, hops, f[n])
                                /\ f[n].queue = <<>> \/ Left(g, f[n]) = max - n}
<1>3. f[0] = AtStart(a) /\ \A n \in Nat : f[n + 1] = Loop(g, hops, f[n])
  <2>1. f[0] = AtStart(a)
    BY <1>1 DEF AllTurns
  <2>2. ASSUME NEW n \in Nat PROVE f[n + 1] = Loop(g, hops, f[n])
    <3>1. n + 1 \in Nat /\ n + 1 # 0 /\ (n + 1) - 1 = n
      OBVIOUS
    <3> QED
      BY <1>1, <3>1 DEF AllTurns
  <2> QED
    BY <2>1, <2>2
<1>4. 0 \in Good
  <2>1. LoopInv(g, a, hops, f[0])
    BY <1>3, AtStartKeeps
  <2>2. PICK st : st = AtStart(a)
    OBVIOUS
  <2>3. st.queue = <<a>> /\ DOMAIN st.depth = {a}
    BY <2>2 DEF AtStart
  <2>4. Cardinality({a}) = 1 /\ Len(<<a>>) = 1
    BY FS_Singleton
  <2>5. Left(g, st) = max - 0
    BY <1>2, <2>3, <2>4 DEF Left
  <2> QED
    <3>1. f[0] = st /\ 0 \in Nat
      BY <1>3, <2>2
    <3>2. Left(g, f[0]) = max - 0
      BY <2>5, <3>1
    <3> QED
      BY <2>1, <3>1, <3>2
<1>5. ASSUME NEW n \in Nat, n \in Good PROVE n + 1 \in Good
  <2>1. PICK st : st = f[n]
    OBVIOUS
  <2>2. LoopInv(g, a, hops, st) /\ (st.queue = <<>> \/ Left(g, st) = max - n)
    BY <1>5, <2>1
  <2>3. CASE st.queue = <<>>
    <3>1. f[n + 1] = st
      BY <1>3, <2>1, <2>3 DEF Loop
    <3> QED
      BY <2>2, <2>3, <3>1
  <2>4. CASE st.queue # <<>>
    <3>1. f[n + 1] = Turn(g, hops, st)
      BY <1>3, <2>1, <2>4 DEF Loop
    <3>2. PICK s : s = Turn(g, hops, st)
      OBVIOUS
    <3>3. LoopInv(g, a, hops, s) /\ Left(g, s) = Left(g, st) - 1
      BY <2>2, <2>4, <3>2, TurnKeeps
    <3>4. Left(g, s) = max - (n + 1)
      BY <1>2, <2>2, <2>4, <3>3
    <3> QED
      BY <3>1, <3>2, <3>3, <3>4
  <2> QED
    BY <2>3, <2>4
<1> HIDE DEF Good
<1>6. max \in Good
  BY <1>2, <1>4, <1>5, NaturalsInduct
<1>7. PICK st : st = f[max]
  OBVIOUS
<1>8. LoopInv(g, a, hops, st) /\ (st.queue = <<>> \/ Left(g, st) = 0)
  BY <1>2, <1>6, <1>7 DEF Good
<1>9. DOMAIN st.depth \subseteq g.nodes /\ st.queue \in Seq(DOMAIN st.depth)
  BY <1>8 DEF LoopInv, Within
<1>10. Cardinality(DOMAIN st.depth) <= max /\ Cardinality(DOMAIN st.depth) \in Nat
  BY <1>2, <1>9, FS_Subset, FS_CardinalityType
<1>11. Len(st.queue) \in Nat /\ (Len(st.queue) = 0 => st.queue = <<>>)
  BY <1>9, EmptySeq, LenProperties
<1>12. st.queue = <<>>
  BY <1>2, <1>8, <1>10, <1>11 DEF Left
<1> QED
  BY <1>1, <1>2, <1>7, <1>8, <1>12

(***************************************************************************)
(* What is found is the neighbourhood                                      *)
(***************************************************************************)

\* Along a path each node is found, no deeper than the path is long.
LEMMA PathsAreFound ==
  ASSUME NEW g, NEW a, NEW hops \in Nat, NEW st, LoopInv(g, a, hops, st), st.queue = <<>>,
         NEW k \in Nat, k <= hops, NEW n, Path(g, a, n, k)
  PROVE  n \in DOMAIN st.depth /\ st.depth[n] <= k
<1>1. PICK p \in [0..k -> g.nodes] :
        /\ p[0] = a /\ p[k] = n
        /\ \A i \in 0..k-1 : \E e \in g.edges : e.from = p[i] /\ e.to = p[i + 1]
  BY DEF Path
<1>2. /\ a \in DOMAIN st.depth /\ st.depth[a] = 0
      /\ (\A m \in DOMAIN st.depth : st.depth[m] \in Nat) /\ DoneReaches(g, hops, st)
  BY DEF LoopInv, Within
<1>3. \A u : ~Queued(st, u)
  BY EmptySeq DEF Queued
<1> DEFINE Good == {i \in Nat : i <= k => p[i] \in DOMAIN st.depth /\ st.depth[p[i]] <= i}
<1>4. 0 \in Good
  BY <1>1, <1>2
<1>5. ASSUME NEW i \in Nat, i \in Good PROVE i + 1 \in Good
  <2> SUFFICES ASSUME i + 1 <= k
               PROVE  p[i + 1] \in DOMAIN st.depth /\ st.depth[p[i + 1]] <= i + 1
    OBVIOUS
  <2>1. PICK u : u = p[i]
    OBVIOUS
  <2>2. u \in DOMAIN st.depth /\ st.depth[u] <= i /\ i \in 0..k-1 /\ st.depth[u] \in Nat
    BY <1>2, <1>5, <2>1
  <2>3. st.depth[u] < hops
    BY <2>2
  <2>4. PICK e \in g.edges : e.from = u /\ e.to = p[i + 1]
    BY <1>1, <2>1, <2>2
  <2>5. Reaches(st, u, e)
    BY <1>2, <1>3, <2>2, <2>3, <2>4 DEF DoneReaches
  <2>6. PICK m : m = p[i + 1]
    OBVIOUS
  <2>7. m \in DOMAIN st.depth /\ st.depth[m] <= st.depth[u] + 1
    BY <2>4, <2>5, <2>6 DEF Reaches
  <2>8. st.depth[m] <= i + 1
    BY <1>2, <2>2, <2>7
  <2> QED
    BY <2>6, <2>7, <2>8
<1> HIDE DEF Good
<1>6. k \in Good
  BY <1>4, <1>5, NaturalsInduct
<1> QED
  BY <1>1, <1>6 DEF Good

LEMMA FoundIsNeighbourhood ==
  ASSUME NEW g, NEW a, NEW hops \in Nat, NEW st, LoopInv(g, a, hops, st), st.queue = <<>>
  PROVE  /\ DOMAIN st.depth = Neighbourhood(g, a, hops).nodes
         /\ st.kept = Neighbourhood(g, a, hops).edges
<1>1. /\ DOMAIN st.depth \subseteq g.nodes /\ st.kept \subseteq g.edges
      /\ \A n \in DOMAIN st.depth : st.depth[n] \in 0..hops
  BY DEF LoopInv, Within
<1>2. DepthIsPath(g, a, st) /\ KeptIsNear(hops, st) /\ DoneReaches(g, hops, st)
  BY DEF LoopInv
<1>3. \A u : ~Queued(st, u)
  BY EmptySeq DEF Queued
<1>4. \A n : n \in DOMAIN st.depth <=> n \in g.nodes /\ \E k \in 0..hops : Path(g, a, n, k)
  <2>1. ASSUME NEW n \in DOMAIN st.depth PROVE \E k \in 0..hops : Path(g, a, n, k)
    BY <1>1, <1>2 DEF DepthIsPath
  <2>2. ASSUME NEW n, NEW k \in 0..hops, Path(g, a, n, k) PROVE n \in DOMAIN st.depth
    <3>1. k \in Nat /\ k <= hops
      OBVIOUS
    <3> QED
      BY <2>2, <3>1, PathsAreFound
  <2> QED
    BY <1>1, <2>1, <2>2
<1>5. \A e : e \in st.kept <=> e \in g.edges /\ \E k \in 0..hops-1 : Path(g, a, e.from, k)
  <2>1. ASSUME NEW e \in st.kept PROVE e \in g.edges /\ \E k \in 0..hops-1 : Path(g, a, e.from, k)
    <3>1. e.from \in DOMAIN st.depth /\ st.depth[e.from] < hops
      BY <1>2 DEF KeptIsNear
    <3>2. st.depth[e.from] \in 0..hops-1
      BY <1>1, <3>1
    <3> QED
      BY <1>1, <1>2, <3>1, <3>2 DEF DepthIsPath
  <2>2. ASSUME NEW e \in g.edges, NEW k \in 0..hops-1, Path(g, a, e.from, k) PROVE e \in st.kept
    <3>1. k \in Nat /\ k <= hops /\ k < hops
      OBVIOUS
    <3>2. e.from \in DOMAIN st.depth /\ st.depth[e.from] <= k
      BY <2>2, <3>1, PathsAreFound
    <3>3. st.depth[e.from] < hops
      BY <1>1, <3>1, <3>2
    <3> QED
      BY <1>2, <1>3, <3>2, <3>3 DEF DoneReaches, Reaches
  <2> QED
    BY <2>1, <2>2
<1> QED
  BY <1>4, <1>5 DEF Neighbourhood

LEMMA OneIsShown ==
  ASSUME NEW E, NEW e \in E
  PROVE  \E f \in OneBetweenEnds(E) :
           \A x \in OneBetweenEnds(E) : x.from = e.from /\ x.to = e.to <=> x = f
<1> DEFINE Between(d) == EdgeBetween(E, d.from, d.to)
<1>1. \A d \in E : Between(d) \in E /\ Between(d).from = d.from /\ Between(d).to = d.to
  BY DEF EdgeBetween
<1>2. \A x : x \in OneBetweenEnds(E) <=> \E d \in E : x = Between(d)
  BY DEF OneBetweenEnds
<1>3. \A d \in E : d.from = e.from /\ d.to = e.to => Between(d) = Between(e)
  OBVIOUS
<1> HIDE DEF Between
<1> QED
  BY <1>1, <1>2, <1>3

\* What localize shows of a graph that parseGraph leaves is the neighbourhood of
\* the procedure, or of Start, with one edge for each two ends: for every graph
\* and every number of hops (procedure-graph.js:60-89).
THEOREM LocalizeFinds ==
  ASSUME NEW g, Sound(g), IsFiniteSet(g.nodes), NEW a, Active(g, a) \in g.nodes, NEW hops \in Nat
  PROVE  Shows(LocalizeAt(g, a, hops), Neighbourhood(g, Active(g, a), hops))
<1>1. PICK b : b = Active(g, a)
  OBVIOUS
<1>2. PICK st : st = Search(g, b, hops)
  OBVIOUS
<1>3. LoopInv(g, b, hops, st) /\ st.queue = <<>>
  BY <1>1, <1>2, SearchEndsWith
<1>4. PICK hood : hood = Neighbourhood(g, b, hops)
  OBVIOUS
<1>5. DOMAIN st.depth = hood.nodes /\ st.kept = hood.edges
  BY <1>3, <1>4, FoundIsNeighbourhood
<1>6. PICK shown : shown = LocalizeAt(g, a, hops)
  OBVIOUS
<1>7. shown.nodes = hood.nodes /\ shown.edges = OneBetweenEnds(hood.edges)
  BY <1>1, <1>2, <1>5, <1>6 DEF LocalizeAt
<1>8. OneBetweenEnds(hood.edges) \subseteq hood.edges
  BY DEF OneBetweenEnds, EdgeBetween
<1>9. Shows(shown, hood)
  BY <1>7, <1>8, OneIsShown DEF Shows
<1> QED
  BY <1>1, <1>4, <1>6, <1>9

(***************************************************************************)
(* Every graph that calls leave behind                                     *)
(***************************************************************************)

FiniteGraphs == IsFiniteSet(graph.nodes) /\ \A p \in Proc : IsFiniteSet(current[p].nodes)

LEMMA EndFinite ==
  ASSUME ImproveInv, FiniteGraphs, NEW p \in Proc, End(p)
  PROVE  \A q \in Proc : IsFiniteSet(current'[q].nodes)
<1>1. current' = [current EXCEPT ![p] = EmptyGraph] /\ current \in [Proc -> Graph]
  BY DEF End, ImproveInv, ImproveTypeOK
<1>2. IsFiniteSet(EmptyGraph.nodes)
  BY FS_EmptySet DEF EmptyGraph
<1> QED
  BY <1>1, <1>2 DEF FiniteGraphs

LEMMA WriteGraphFinite ==
  ASSUME ImproveInv, FiniteGraphs, NEW p \in Proc, WriteGraph(p)
  PROVE  FiniteGraphs'
<1>1. current \in [Proc -> Graph]
  BY DEF ImproveInv, ImproveTypeOK
<1>2. IsFiniteSet(WithSteps(p).nodes)
  <2>1. PICK ns, a, b : ns = current[p].nodes /\ a = steps[p][1] /\ b = steps[p][2]
    OBVIOUS
  <2>2. IsFiniteSet(ns \cup {a})
    BY <2>1, FS_AddElement DEF FiniteGraphs
  <2>3. IsFiniteSet((ns \cup {a}) \cup {b})
    BY <2>2, FS_AddElement
  <2>4. WithSteps(p).nodes = (ns \cup {a}) \cup {b}
    BY <1>1, <2>1 DEF WithSteps, AddNode, Graph
  <2> QED
    BY <2>3, <2>4
<1>3. UpdateEdge(WithSteps(p), Learnt(p)).nodes = WithSteps(p).nodes
  BY <1>1 DEF UpdateEdge, WithSteps, AddNode, Graph
<1>4. IsFiniteSet(graph'.nodes)
  BY <1>2, <1>3 DEF WriteGraph, FiniteGraphs
<1>5. ASSUME NEW q \in Proc PROVE IsFiniteSet(current'[q].nodes)
  <2>1. CASE lesson[p] = None
    BY <2>1, EndFinite DEF WriteGraph
  <2>2. CASE lesson[p] # None
    <3>1. current' = [current EXCEPT ![p] = EmptyGraph]
      BY <2>2 DEF WriteGraph
    <3> QED
      BY <1>1, <3>1, FS_EmptySet DEF FiniteGraphs, EmptyGraph
  <2> QED
    BY <2>1, <2>2
<1> QED
  BY <1>4, <1>5 DEF FiniteGraphs

LEMMA FiniteKeeps ==
  ASSUME ImproveInv, FiniteGraphs, [Next]_vars
  PROVE  FiniteGraphs'
<1>1. ASSUME NEW p \in Proc, NEW l \in Lesson \cup {None}, NEW ok \in BOOLEAN,
             (\E ab \in Trajectory \cup {None} : CallImprove(p, l, ok, ab)) \/ CallCurate(p, l, ok)
      PROVE  FiniteGraphs'
  BY <1>1 DEF CallImprove, CallCurate, Begin, FiniteGraphs
<1>2. ASSUME NEW p \in Proc, ReadGraph(p) PROVE FiniteGraphs'
  <2>1. current' = [current EXCEPT ![p] = ParseGraph(graph)] /\ graph' = graph
    BY <1>2 DEF ReadGraph
  <2>2. current \in [Proc -> Graph] /\ ParseGraph(graph).nodes = graph.nodes
    BY DEF ImproveInv, ImproveTypeOK, ParseGraph
  <2> QED
    BY <2>1, <2>2 DEF FiniteGraphs
<1>3. ASSUME NEW p \in Proc, CurateThrows(p) \/ WritePlaybook(p) \/ Kill(p) PROVE FiniteGraphs'
  <2>1. End(p) /\ graph' = graph
    BY <1>3 DEF CurateThrows, WritePlaybook, Kill
  <2> QED
    BY <2>1, EndFinite DEF FiniteGraphs
<1>4. ASSUME NEW p \in Proc, ReadPlaybook(p) PROVE FiniteGraphs'
  BY <1>4 DEF ReadPlaybook, FiniteGraphs
<1>5. CASE UNCHANGED vars
  BY <1>5 DEF vars, FiniteGraphs
<1> QED
  BY <1>1, <1>2, <1>3, <1>4, <1>5, WriteGraphFinite DEF Next

\* For every graph that calls leave behind and every procedure, what localize
\* shows is what is at most so many edges away (procedure-graph.js:56-89).
THEOREM LocalizeAlwaysExact == Spec => []LocalizeExact
<1>1. Init => FiniteGraphs
  <2> SUFFICES ASSUME Init PROVE FiniteGraphs
    OBVIOUS
  <2>1. IsFiniteSet(graph.nodes)
    BY ImproveAssumption DEF Init
  <2>2. \A p \in Proc : current[p].nodes = {}
    BY DEF Init, EmptyGraph
  <2> QED
    BY <2>1, <2>2, FS_EmptySet DEF FiniteGraphs
<1>2. ImproveInv /\ FiniteGraphs /\ [Next]_vars => FiniteGraphs'
  BY FiniteKeeps
<1>3. ImproveInv /\ FiniteGraphs => LocalizeExact
  <2> SUFFICES ASSUME ImproveInv, FiniteGraphs, NEW a \in Procedure, NEW hops \in 0..2,
                      Active(ParseGraph(graph), a) \in ParseGraph(graph).nodes
               PROVE  Shows(LocalizeAt(ParseGraph(graph), a, hops),
                            Neighbourhood(ParseGraph(graph), Active(ParseGraph(graph), a), hops))
    BY DEF LocalizeExact
  <2>1. PICK g : g = ParseGraph(graph)
    OBVIOUS
  <2>2. Sound(g) /\ g.nodes = graph.nodes
    BY <2>1, ParseSound DEF ImproveInv, ImproveTypeOK, ParseGraph
  <2>3. IsFiniteSet(g.nodes) /\ hops \in Nat
    BY <2>2 DEF FiniteGraphs
  <2> QED
    BY <2>1, <2>2, <2>3, LocalizeFinds
<1> QED
  BY <1>1, <1>2, <1>3, ImproveInvariant, PTL DEF Spec
=============================================================================
