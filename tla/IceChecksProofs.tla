--------------------------- MODULE IceChecksProofs ---------------------------
(***************************************************************************)
(* Proofs about IceChecks, for any candidates, components, network,        *)
(* priorities and numbers of retransmissions.                              *)
(***************************************************************************)
EXTENDS IceChecks, FiniteSetTheorems, TLAPS

\* Zenon first: it is the faster of the two on the many leaves without arithmetic.
USE ZenonT(3), SMTT(30)

\* The pairs that an agent with the bases local may form, when its peer has the
\* bases remote.
Own(local, remote) ==
  {p \in Pairs : p[1] \in local /\ HostOf[p[2]] \in remote /\ Comp[p[1]] = Comp[p[2]]}

\* The check lists on the pairs P.
Lists(P) ==
  [local : SUBSET Addrs, role : Roles, state : {"Running", "Completed"},
   st : [Pairs -> PairStates], chk : SUBSET P, queue : Seq(P), valid : SUBSET P,
   selected : SUBSET P, uc : SUBSET P, failing : SUBSET Pairs,
   nominated : SUBSET Pairs, pending : SUBSET P,
   rtx : [Pairs -> 0..(MaxRetransmissions + 1)], tr : [Pairs -> Nat],
   canceled : [Pairs -> Nat], sentAs : [Pairs -> Roles],
   nominating : BOOLEAN, delay : BOOLEAN]

\* The check of p went through and its answer came back the way that it went.
Returned(p) ==
  /\ p \in Reach /\ HostOf[Seen[p]] = p[1]
  /\ Seen[<<HostOf[p[2]], Seen[p]>>] = p[2]

\* A check in progress has a transaction that is not canceled and is below the
\* bound of the retransmissions.
Tried(c, p) ==
  /\ c.canceled[p] <= c.tr[p]
  /\ c.st[p] = "InProgress" =>
       c.canceled[p] < c.tr[p] /\ c.rtx[p] <= MaxRetransmissions
  /\ c.st[p] = "Succeeded" => p \in c.valid

\* The selected entries are nominated, and there is one per component.
Concluded(c) ==
  /\ c.selected \subseteq Nominated(c)
  /\ \A k \in Components(c) : \E g \in c.selected : Comp[g[1]] = k

Attempts(c) == \A p \in Pairs : Tried(c, p)

Outcome(c) ==
  /\ \A p \in c.valid : Returned(p)
  /\ c.uc \subseteq c.valid /\ c.selected \subseteq c.valid
  /\ c.state = "Completed" => Concluded(c)

Good(P, c) == c \in Lists(P) /\ Attempts(c) /\ Outcome(c)

\* The agent of the greater tie-breaker: a conflict leaves it controlling.
Winner == CHOOSE a \in Agents : Tie[a] > Tie[Peer(a)]

\* The request m of the agent x, on the pair p that it may check.
RequestOf(m, x, P, uc) ==
  /\ m.type = "request" /\ m.id[1] = x /\ m.id[2] \in P /\ m.id[2] \in Reach
  /\ m.src = m.id[2][1] /\ m.dst = m.id[2][2]
  /\ m.uc \in BOOLEAN /\ m.role \in Roles
  /\ m.uc => m.id[2] \in uc

\* The response to a request of the agent x.
ResponseTo(m, x, P) ==
  /\ m.type = "response" /\ m.id[1] = x /\ m.id[2] \in P /\ m.id[2] \in Reach
  /\ m.src = HostOf[m.id[2][2]] /\ m.dst = Seen[m.id[2]]

OwnPairs(a) == Own(cl[a].local, cl[Peer(a)].local)

ListInv ==
  /\ \A a \in Agents : Good(OwnPairs(a), cl[a])
  /\ cl \in [Agents -> {cl[a] : a \in Agents}]
  /\ \A a \in Agents :
       /\ cl[a].local \cap cl[Peer(a)].local = {}
       /\ Components(cl[a]) = Components(cl[Peer(a)])
  /\ checks \in [Agents -> Nat] /\ timeouts \in [Agents -> Nat]

NetInv ==
  \A m \in net :
    \/ \E x \in Agents : RequestOf(m, x, OwnPairs(x), cl[x].uc)
    \/ \E x \in Agents : ResponseTo(m, x, OwnPairs(x))
    \/ m.type = "error" /\ m.id = NoId

\* A request sent in a role that its sender has given up belongs to a conflict that
\* is settled.
RoleInv ==
  \A m \in net : m.type = "request" /\ m.role # cl[m.id[1]].role =>
    cl[Winner].role = "Controlling" /\ cl[Peer(Winner)].role = "Controlled"

\* Nominated pairs are in use at one of the ends.
FromPeer(a, v) == \E g \in cl[Peer(a)].uc : Valid(g) = Mirror(v)

OriginInv ==
  \A a \in Agents :
    /\ \A v \in cl[a].nominated : FromPeer(a, v) \/ \E g \in cl[a].uc : Valid(g) = v
    /\ \A p \in cl[a].pending : FromPeer(a, Valid(p))

\* While both agents are controlling, the one that will give way has got no
\* response.
ConflictInv ==
  (\A a \in Agents : cl[a].role = "Controlling") =>
    /\ cl[Peer(Winner)].nominated = {}
    /\ \A m \in net : m.type = "response" => m.id[1] = Winner

IceInv == /\ ListInv /\ NetInv /\ RoleInv /\ OriginInv /\ ConflictInv
          /\ NominatedByController
-----------------------------------------------------------------------------
(* Induction and recursion, in the form in which a set takes the place of  *)
(* the predicate.                                                          *)

LEMMA LeastNat ==
  ASSUME NEW T, T \subseteq Nat, T # {}
  PROVE  \E x \in T : \A y \in T : x <= y
<1> DEFINE R == OpToRel(<, Nat)
<1>1. IsWellFoundedOn(R, Nat)
  BY NatLessThanWellFounded
<1>2. R = {ss \in Nat \X Nat : ss[1] < ss[2]}
  BY DEF OpToRel
<1> HIDE DEF R
<1>3. PICK x \in T : \A y \in T : ~ (<<y, x>> \in R)
  BY <1>1, WFMin
<1>4. ASSUME NEW y \in T PROVE x <= y
  <2>1. <<y, x>> \notin R
    BY <1>3
  <2>2. x \in Nat /\ y \in Nat
    OBVIOUS
  <2>3. ~ (y < x)
    BY <1>2, <2>1, <2>2
  <2> QED BY <2>2, <2>3
<1> QED
  BY <1>4

LEMMA Induction ==
  ASSUME NEW N \in Nat, NEW S, 0 \in S, \A n \in 1..N : n - 1 \in S => n \in S
  PROVE  0..N \subseteq S
<1> SUFFICES ASSUME ~ (0..N \subseteq S) PROVE FALSE
  OBVIOUS
<1> DEFINE T == {n \in 0..N : n \notin S}
<1>1. PICK x \in T : \A y \in T : x <= y
  <2>1. T \subseteq Nat /\ T # {}
    OBVIOUS
  <2> HIDE DEF T
  <2> QED BY <2>1, LeastNat
<1>2. x \in 1..N /\ x \notin S
  OBVIOUS
<1>3. x - 1 \in 0..N /\ ~ (x <= x - 1)
  BY <1>2
<1>4. x - 1 \in S
  BY <1>1, <1>3
<1> QED BY <1>2, <1>4

\* f is the function that recursion defines on 0..N, from the value x in S and the
\* step F, which does not leave S.
Closed(F, N, S) == \A n \in 1..N, y \in S : F[<<n, y>>] \in S
Iterates(f, x, F, N, S) ==
  f \in [0..N -> S] /\ f[0] = x /\ \A n \in 1..N : f[n] = F[<<n, f[n - 1]>>]

LEMMA Recursion ==
  ASSUME NEW N \in Nat, NEW S, NEW x \in S, NEW F, Closed(F, N, S)
  PROVE  \E f : Iterates(f, x, F, N, S)
<1> DEFINE T == {m \in 0..N : \E f : Iterates(f, x, F, m, S)}
<1>1. 0 \in T
  <2> DEFINE f == [n \in 0..0 |-> x]
  <2>1. Iterates(f, x, F, 0, S) /\ 0 \in 0..N
    BY DEF Iterates
  <2> HIDE DEF f
  <2> QED BY <2>1
<1>2. ASSUME NEW m \in 1..N, m - 1 \in T PROVE m \in T
  <2>1. PICK f : Iterates(f, x, F, m - 1, S)
    BY <1>2
  <2>2. f \in [0..(m - 1) -> S] /\ f[0] = x /\ \A n \in 1..(m - 1) : f[n] = F[<<n, f[n - 1]>>]
    BY <2>1 DEF Iterates
  <2> DEFINE g == [n \in 0..m |-> IF n = m THEN F[<<m, f[m - 1]>>] ELSE f[n]]
  <2>3. F[<<m, f[m - 1]>>] \in S
    BY <2>2 DEF Closed
  <2>4. g \in [0..m -> S] /\ g[0] = x
    BY <2>2, <2>3
  <2>5. ASSUME NEW n \in 1..m PROVE g[n] = F[<<n, g[n - 1]>>]
    <3>1. CASE n = m
      BY <3>1
    <3>2. CASE n # m
      <4>1. g[n] = f[n] /\ n \in 1..(m - 1) /\ g[n - 1] = f[n - 1]
        BY <3>2
      <4> QED BY <2>2, <4>1
    <3> QED BY <3>1, <3>2
  <2> HIDE DEF g
  <2>6. Iterates(g, x, F, m, S)
    BY <2>4, <2>5 DEF Iterates
  <2>7. m \in 0..N
    OBVIOUS
  <2> QED BY <2>6, <2>7
<1>3. 0..N \subseteq T
  <2> HIDE DEF T
  <2> QED BY <1>1, <1>2, Induction
<1>4. N \in T
  BY <1>3
<1> QED
  BY <1>4

-----------------------------------------------------------------------------
(* The constants.                                                          *)

LEMMA Peers ==
  \A a \in Agents : /\ Peer(a) \in Agents /\ Peer(a) # a /\ Peer(Peer(a)) = a
                    /\ \A b \in Agents : b = a \/ b = Peer(a)
<1>1. PICK x \in Agents, y \in Agents : x # y /\ Agents = {x, y}
  BY IceAssumption
<1>2. Peer(x) = y /\ Peer(y) = x
  BY <1>1 DEF Peer
<1> QED
  BY <1>1, <1>2

LEMMA WinnerFact == Winner \in Agents /\ Tie[Winner] > Tie[Peer(Winner)]
<1>1. PICK x \in Agents : TRUE
  BY IceAssumption
<1>2. /\ Peer(x) \in Agents /\ x # Peer(x) /\ Peer(Peer(x)) = x
      /\ Tie[x] \in Nat /\ Tie[Peer(x)] \in Nat /\ Tie[x] # Tie[Peer(x)]
  BY Peers, IceAssumption
<1>3. Tie[x] > Tie[Peer(x)] \/ Tie[Peer(x)] > Tie[Peer(Peer(x))]
  BY <1>2
<1>4. \E a \in Agents : Tie[a] > Tie[Peer(a)]
  BY <1>2, <1>3
<1> QED
  BY <1>4 DEF Winner

LEMMA FinitePairs == IsFiniteSet(Pairs) /\ \A S \in SUBSET Pairs : Cardinality(S) \in Nat
<1>1. IsFiniteSet(Addrs \X Addrs) /\ Pairs \subseteq Addrs \X Addrs
  BY IceAssumption, FS_Product
<1>2. IsFiniteSet(Pairs)
  BY <1>1, FS_Subset
<1> QED
  BY <1>2, FS_Subset, FS_CardinalityType

LEMMA PrioBound == \E B \in Nat : \A p \in Pairs : Prio[p] \in 0..B
<1> DEFINE N == Cardinality(Addrs)
<1>1. N \in Nat
  BY IceAssumption, FS_CardinalityType
<1>2. \A x \in Addrs : CandPrio[x] \in 1..N
  BY IceAssumption
<1> HIDE DEF N
<1>3. ASSUME NEW p \in Pairs PROVE Prio[p] \in 0..(2 * (N + 1) * N + 2 * N + 1)
  <2>1. p[1] \in Addrs /\ p[2] \in Addrs
    BY IceAssumption
  <2> DEFINE g == CandPrio[p[1]]
             d == CandPrio[p[2]]
             low == IF g < d THEN g ELSE d
             high == IF g > d THEN g ELSE d
             e == IF g > d THEN 1 ELSE 0
  <2>2. g \in 1..N /\ d \in 1..N
    BY <1>2, <2>1
  <2>3. low \in 0..N /\ high \in 0..N /\ e \in 0..1
    BY <1>1, <2>2
  <2>4. Prio[p] = 2 * (N + 1) * low + 2 * high + e
    BY DEF Prio, N
  <2> HIDE DEF low, high, e
  <2>5. 2 * (N + 1) * low \in 0..(2 * (N + 1) * N)
    <3>1. PICK k \in Nat : N = low + k
      <4>1. N - low \in Nat /\ N = low + (N - low)
        BY <1>1, <2>3
      <4> QED BY <4>1
    <3>2. PICK t \in Nat : t = 2 * (N + 1)
      BY <1>1
    <3>3. t * N = t * low + t * k
      BY <2>3, <3>1
    <3>4. t * low \in Nat /\ t * k \in Nat
      BY <2>3
    <3>5. t * low \in 0..(t * N)
      BY <3>3, <3>4
    <3> QED BY <3>2, <3>5
  <2>6. 2 * (N + 1) * N \in Nat
    BY <1>1
  <2> QED BY <1>1, <2>3, <2>4, <2>5, <2>6
<1>4. 2 * (N + 1) * N + 2 * N + 1 \in Nat
  BY <1>1
<1> QED
  BY <1>3, <1>4

LEMMA Greatest ==
  ASSUME NEW S, S # {}, NEW f, NEW B \in Nat, \A s \in S : f[s] \in 0..B
  PROVE  \E s \in S : \A t \in S : f[t] <= f[s]
<1> DEFINE T == {B - f[s] : s \in S}
<1>1. T \subseteq Nat /\ T # {}
  OBVIOUS
<1>2. PICK x \in T : \A y \in T : x <= y
  <2> HIDE DEF T
  <2> QED BY <1>1, LeastNat
<1>3. PICK s \in S : x = B - f[s]
  OBVIOUS
<1>4. ASSUME NEW t \in S PROVE f[t] <= f[s]
  <2>1. B - f[s] <= B - f[t] /\ f[s] \in 0..B /\ f[t] \in 0..B
    BY <1>2, <1>3
  <2> QED BY <2>1
<1> QED BY <1>4

\* A list that is not empty has a first element.
LEMMA FirstIn ==
  ASSUME NEW S, S \subseteq Pairs, S # {}
  PROVE  First(S) \in S
<1>1. PICK B \in Nat : \A p \in Pairs : Prio[p] \in 0..B
  BY PrioBound
<1>2. \E p \in S : \A q \in S : Prio[q] <= Prio[p]
  BY <1>1, Greatest
<1> QED BY <1>2 DEF First

-----------------------------------------------------------------------------
(* The loops.                                                              *)

LEMMA WithoutType ==
  ASSUME NEW P, NEW q \in Seq(P), NEW removed
  PROVE  Without(q, removed) \in Seq(P)
<1> DEFINE Step(n, s) == IF q[n] \in removed THEN s ELSE Append(s, q[n])
           Fun(k) == [i \in 0..Len(q) |-> IF i = 0 THEN <<>> ELSE Step(i, k[i - 1])]
           Kept == CHOOSE k : k = Fun(k)
           F == [z \in (1..Len(q)) \X Seq(P) |-> Step(z[1], z[2])]
<1>0. Without(q, removed) = Kept[Len(q)]
  BY DEF Without
<1>1. Len(q) \in Nat /\ <<>> \in Seq(P)
  OBVIOUS
<1>2. ASSUME NEW n \in 1..Len(q), NEW s \in Seq(P) PROVE Step(n, s) \in Seq(P)
  OBVIOUS
<1> HIDE DEF Step
<1>3. \A n \in 1..Len(q), s \in Seq(P) : F[<<n, s>>] = Step(n, s)
  OBVIOUS
<1>4. PICK f : Iterates(f, <<>>, F, Len(q), Seq(P))
  <2> HIDE DEF F
  <2>1. Closed(F, Len(q), Seq(P))
    BY <1>2, <1>3 DEF Closed
  <2> QED BY <1>1, <2>1, Recursion
<1> HIDE DEF F
<1>5. f = Fun(f)
  <2>1. /\ f \in [0..Len(q) -> Seq(P)] /\ f[0] = <<>>
        /\ \A n \in 1..Len(q) : f[n] = F[<<n, f[n - 1]>>]
    BY <1>4 DEF Iterates
  <2>2. ASSUME NEW n \in 0..Len(q), n # 0 PROVE f[n] = Step(n, f[n - 1])
    <3>1. n \in 1..Len(q) /\ n - 1 \in 0..Len(q)
      BY <1>1, <2>2
    <3> QED BY <1>3, <2>1, <3>1
  <2> QED BY <2>1, <2>2
<1>6. Kept = Fun(Kept)
  <2> HIDE DEF Fun
  <2> QED BY <1>5
<1> HIDE DEF Kept
<1> DEFINE T == {n \in 0..Len(q) : Kept[n] \in Seq(P)}
<1>7. 0..Len(q) \subseteq T
  <2>1. 0 \in T
    BY <1>1, <1>6
  <2>2. ASSUME NEW n \in 1..Len(q), n - 1 \in T PROVE n \in T
    <3>1. Kept[n] = Step(n, Kept[n - 1]) /\ n \in 0..Len(q)
      BY <1>1, <1>6
    <3> QED BY <1>2, <2>2, <3>1
  <2> HIDE DEF T
  <2> QED BY <1>1, <2>1, <2>2, Induction
<1>8. Len(q) \in T
  BY <1>1, <1>7
<1> QED BY <1>0, <1>8

LEMMA QueueType ==
  ASSUME NEW P, NEW q \in Seq(P), NEW p \in P
  PROVE  Queue(q, p) \in Seq(P)
  BY DEF Queue

LEMMA FirstComponentIn ==
  ASSUME NEW S, S \subseteq Pairs, S # {}
  PROVE  FirstComponent(S) \in S
<1> DEFINE T == {Comp[p[1]] : p \in S}
<1>1. \A p \in S : Comp[p[1]] \in Nat
  BY IceAssumption
<1>2. T \subseteq Nat /\ T # {}
  BY <1>1
<1>3. PICK x \in T : \A y \in T : x <= y
  <2> HIDE DEF T
  <2> QED BY <1>2, LeastNat
<1>4. PICK p \in S : x = Comp[p[1]]
  OBVIOUS
<1>5. \A r \in S : Comp[p[1]] <= Comp[r[1]]
  BY <1>3, <1>4
<1> QED BY <1>5 DEF FirstComponent

LEMMA QueueNominationsType ==
  ASSUME NEW P \in SUBSET Pairs, NEW queue \in Seq(P), NEW todo \in SUBSET P
  PROVE  QueueNominations(queue, todo) \in Seq(P)
<1> DEFINE N == Cardinality(todo)
           S == [queue : Seq(P), left : SUBSET todo]
           x == [queue |-> queue, left |-> todo]
           Step(s) == [queue |-> Queue(s.queue, FirstComponent(s.left)),
                       left |-> s.left \ {FirstComponent(s.left)}]
           Fun(k) == [n \in 0..N |-> IF n = 0 THEN x ELSE Step(k[n - 1])]
           After == CHOOSE k : k = Fun(k)
           F == [z \in (1..N) \X S |-> IF z[2].left = {} THEN z[2] ELSE Step(z[2])]
<1>0. QueueNominations(queue, todo) = After[N].queue
  BY DEF QueueNominations
<1>1. N \in Nat /\ x \in S
  BY FinitePairs
<1>2. ASSUME NEW s \in S, s.left # {}
      PROVE  /\ Step(s) \in S
             /\ Cardinality(Step(s).left) = Cardinality(s.left) - 1
  <2> DEFINE p == FirstComponent(s.left)
  <2>1. p \in s.left /\ IsFiniteSet(s.left)
    BY <1>2, FirstComponentIn, FinitePairs, FS_Subset
  <2>2. Cardinality(s.left \ {p}) = Cardinality(s.left) - 1
    <3> HIDE DEF p, S
    <3> QED BY <2>1, FS_RemoveElement
  <2>3. Queue(s.queue, p) \in Seq(P)
    BY <2>1, QueueType
  <2> QED BY <2>2, <2>3
<1> HIDE DEF Step
<1>3. ASSUME NEW n \in 1..N, NEW s \in S
      PROVE  F[<<n, s>>] = IF s.left = {} THEN s ELSE Step(s)
  OBVIOUS
<1>4. PICK f : Iterates(f, x, F, N, S)
  <2>1. Closed(F, N, S)
    <3> HIDE DEF F, S, N
    <3> QED BY <1>2, <1>3 DEF Closed
  <2> HIDE DEF F, S, N, x
  <2> QED BY <1>1, <2>1, Recursion
<1> HIDE DEF F, S, N, x
<1>5. \A n \in 1..N, s \in S : Cardinality(s.left) = N - (n - 1) => s.left # {}
  <2>1. Cardinality({}) = 0
    BY FS_EmptySet
  <2>2. \A n \in 1..N : N - (n - 1) # 0
    BY <1>1
  <2> QED BY <2>1, <2>2
<1>6. /\ f \in [0..N -> S] /\ f[0] = x /\ \A n \in 1..N : f[n] = F[<<n, f[n - 1]>>]
  BY <1>4 DEF Iterates
<1>7. Cardinality(x.left) = N - 0
  BY <1>1 DEF N, x
<1>8. ASSUME NEW n \in 1..N, NEW s \in S, Cardinality(s.left) = N - (n - 1)
      PROVE  /\ F[<<n, s>>] = Step(s) /\ Step(s) \in S
             /\ Cardinality(Step(s).left) = N - n
  <2>1. s.left # {}
    BY <1>5, <1>8
  <2>2. F[<<n, s>>] = Step(s)
    BY <1>3, <2>1
  <2>3. Step(s) \in S /\ Cardinality(Step(s).left) = Cardinality(s.left) - 1
    BY <1>2, <2>1
  <2>4. (N - (n - 1)) - 1 = N - n
    BY <1>1
  <2> QED BY <1>8, <2>2, <2>3, <2>4
<1>9. f = Fun(f)
  <2> DEFINE T == {n \in 0..N : Cardinality(f[n].left) = N - n}
  <2>1. 0..N \subseteq T
    <3>1. 0 \in T
      BY <1>1, <1>6, <1>7
    <3>2. ASSUME NEW n \in 1..N, n - 1 \in T PROVE n \in T
      <4>1. n - 1 \in 0..N /\ n \in 0..N
        BY <1>1
      <4>2. f[n - 1] \in S /\ Cardinality(f[n - 1].left) = N - (n - 1)
        BY <1>6, <3>2, <4>1
      <4>3. f[n] = Step(f[n - 1]) /\ Cardinality(Step(f[n - 1]).left) = N - n
        BY <1>6, <1>8, <4>2
      <4> QED BY <4>1, <4>3
    <3> HIDE DEF T
    <3> QED BY <1>1, <3>1, <3>2, Induction
  <2>2. ASSUME NEW n \in 0..N, n # 0 PROVE f[n] = Step(f[n - 1])
    <3>1. n \in 1..N /\ n - 1 \in 0..N
      BY <1>1, <2>2
    <3>2. f[n - 1] \in S /\ Cardinality(f[n - 1].left) = N - (n - 1)
      BY <1>6, <2>1, <3>1
    <3> QED BY <1>6, <1>8, <3>1, <3>2
  <2> QED BY <1>6, <2>2
<1>10. After = Fun(After)
  <2> HIDE DEF Fun
  <2> QED BY <1>9
<1> HIDE DEF After
<1> DEFINE T == {n \in 0..N : After[n] \in S /\ Cardinality(After[n].left) = N - n}
<1>11. 0..N \subseteq T
  <2>1. 0 \in T
    BY <1>1, <1>7, <1>10
  <2>2. ASSUME NEW n \in 1..N, n - 1 \in T PROVE n \in T
    <3>1. After[n] = Step(After[n - 1]) /\ n \in 0..N
      BY <1>1, <1>10
    <3>2. After[n - 1] \in S /\ Cardinality(After[n - 1].left) = N - (n - 1)
      BY <2>2
    <3>3. Step(After[n - 1]) \in S /\ Cardinality(Step(After[n - 1]).left) = N - n
      BY <1>8, <3>2
    <3> QED BY <3>1, <3>3
  <2> HIDE DEF T
  <2> QED BY <1>1, <2>1, <2>2, Induction
<1>12. N \in T
  BY <1>1, <1>11
<1>13. After[N] \in [queue : Seq(P), left : SUBSET todo]
  BY <1>12 DEF S
<1> QED BY <1>0, <1>13

\* Retransmissions that leave every check in progress within the bound.
Bounded(c) ==
  {r \in [Pairs -> 0..(MaxRetransmissions + 1)] :
     \A p \in Pairs : c.st[p] = "InProgress" => r[p] <= MaxRetransmissions}

\* The states of the loop of ConcludeAll.
Midway(P, c, chk0, left0) ==
  [chk : SUBSET chk0, queue : Seq(P), rtx : Bounded(c), left : SUBSET left0]

LEMMA RemoveFromListType ==
  ASSUME NEW P, NEW q \in Seq(P), NEW removed
  PROVE  RemoveFromList(q, removed) \in Seq(P)
  BY WithoutType DEF RemoveFromList

LEMMA ConcludePairsType ==
  ASSUME NEW P, NEW c, NEW chk0, NEW left0,
         NEW s \in Midway(P, c, chk0, left0)
  PROVE  ConcludePairs(c, s) \in Midway(P, c, chk0, left0)
<1> USE DEF Midway
<1> DEFINE g == CHOOSE g \in s.left : \A h \in s.left : Prio[Valid(h)] <= Prio[Valid(g)]
           idle == {p \in Pairs : c.st[p] \in {"Waiting", "Frozen"} /\ Comp[p[1]] = Comp[g[1]]}
           chk == RemoveFromSorted(s.chk, idle)
           rtx == [p \in Pairs |->
              IF /\ p \in chk /\ c.st[p] = "InProgress" /\ Comp[p[1]] = Comp[g[1]]
                 /\ Prio[p] < Prio[Valid(g)]
              THEN MaxRetransmissions ELSE s.rtx[p]]
<1>1. ConcludePairs(c, s) =
        [chk |-> chk, queue |-> RemoveFromList(s.queue, idle), rtx |-> rtx,
         left |-> s.left \ {g}]
  BY DEF ConcludePairs
<1>2. chk \subseteq chk0
  <2> HIDE DEF idle
  <2> QED BY DEF RemoveFromSorted
<1>3. rtx \in Bounded(c)
  <2>1. s.rtx \in [Pairs -> 0..(MaxRetransmissions + 1)] /\ MaxRetransmissions \in Nat
    BY IceAssumption DEF Bounded
  <2>2. \A p \in Pairs : c.st[p] = "InProgress" => s.rtx[p] <= MaxRetransmissions
    BY DEF Bounded
  <2> HIDE DEF g, idle, chk
  <2> QED BY <2>1, <2>2 DEF Bounded
<1>4. RemoveFromList(s.queue, idle) \in Seq(P)
  <2> HIDE DEF idle
  <2> QED BY RemoveFromListType
<1> HIDE DEF g, idle, chk, rtx
<1> QED BY <1>1, <1>2, <1>3, <1>4

\* d is c with fewer pairs to check.
Trimmed(P, c, d) ==
  \E chk \in SUBSET c.chk, queue \in Seq(P), rtx \in Bounded(c) :
    d = [c EXCEPT !.chk = chk, !.queue = queue, !.rtx = rtx]

LEMMA ConcludeAllFields ==
  ASSUME NEW P \in SUBSET Pairs, NEW c, c.valid \subseteq P, c.queue \in Seq(P),
         c.rtx \in Bounded(c)
  PROVE  Trimmed(P, c, ConcludeAll(c))
<1> DEFINE N == Cardinality(Nominated(c))
           S == Midway(P, c, c.chk, Nominated(c))
           x == [chk |-> c.chk, queue |-> c.queue, rtx |-> c.rtx, left |-> Nominated(c)]
           Fun(k) == [n \in 0..N |-> IF n = 0 THEN x ELSE ConcludePairs(c, k[n - 1])]
           After == CHOOSE k : k = Fun(k)
           F == [z \in (1..N) \X S |-> ConcludePairs(c, z[2])]
<1>0. ConcludeAll(c) = [c EXCEPT !.chk = After[N].chk, !.queue = After[N].queue,
                                 !.rtx = After[N].rtx]
  BY DEF ConcludeAll
<1>1. N \in Nat /\ x \in S
  BY FinitePairs DEF Nominated, Midway
<1>2. \A s \in S : ConcludePairs(c, s) \in S
  BY ConcludePairsType
<1>3. \A n \in 1..N, s \in S : F[<<n, s>>] = ConcludePairs(c, s)
  OBVIOUS
<1> HIDE DEF F, S, N, x
<1>4. PICK f : Iterates(f, x, F, N, S)
  <2>1. Closed(F, N, S)
    BY <1>2, <1>3 DEF Closed
  <2> QED BY <1>1, <2>1, Recursion
<1>5. f = Fun(f)
  <2>1. f \in [0..N -> S] /\ f[0] = x /\ \A n \in 1..N : f[n] = F[<<n, f[n - 1]>>]
    BY <1>4 DEF Iterates
  <2>2. ASSUME NEW n \in 0..N, n # 0 PROVE f[n] = ConcludePairs(c, f[n - 1])
    <3>1. n \in 1..N /\ n - 1 \in 0..N
      BY <1>1, <2>2
    <3> QED BY <1>3, <2>1, <3>1
  <2> QED BY <2>1, <2>2
<1>6. After = Fun(After)
  <2> HIDE DEF Fun
  <2> QED BY <1>5
<1> HIDE DEF After
<1> DEFINE T == {n \in 0..N : After[n] \in S}
<1>7. 0..N \subseteq T
  <2>1. 0 \in T
    BY <1>1, <1>6
  <2>2. ASSUME NEW n \in 1..N, n - 1 \in T PROVE n \in T
    <3>1. After[n] = ConcludePairs(c, After[n - 1]) /\ n \in 0..N
      BY <1>1, <1>6
    <3> QED BY <1>2, <2>2, <3>1
  <2> HIDE DEF T
  <2> QED BY <1>1, <2>1, <2>2, Induction
<1>8. N \in T
  BY <1>1, <1>7
<1>9. After[N].chk \subseteq c.chk /\ After[N].queue \in Seq(P) /\ After[N].rtx \in Bounded(c)
  BY <1>8 DEF S, Midway
<1> QED BY <1>0, <1>9 DEF Trimmed

-----------------------------------------------------------------------------
(* One check list: nominations and conclusion.                             *)

\* What no step on one check list but the handlers of messages changes.
Kept(c, d) ==
  /\ d.local = c.local /\ d.role = c.role /\ d.valid = c.valid
  /\ d.nominated = c.nominated /\ d.pending = c.pending /\ c.uc \subseteq d.uc
  /\ c.state = "Completed" => d.state = "Completed" /\ d.selected = c.selected

SameTries(c, d) == d.st = c.st /\ d.rtx = c.rtx /\ d.tr = c.tr /\ d.canceled = c.canceled

LEMMA KeptTwice == ASSUME NEW c, NEW d, NEW e, Kept(c, d), Kept(d, e) PROVE Kept(c, e)
  BY DEF Kept

LEMMA KeptSelf == ASSUME NEW c PROVE Kept(c, c) /\ SameTries(c, c)
  BY DEF Kept, SameTries

\* An outcome depends on few fields.
LEMMA SameOutcome ==
  ASSUME NEW c, NEW d, Outcome(c), d.valid = c.valid, d.nominated = c.nominated,
         d.local = c.local, d.state = c.state, d.selected = c.selected,
         d.uc \subseteq c.valid
  PROVE  Outcome(d)
  BY DEF Outcome, Concluded, Nominated, Components

LEMMA SameAttempts ==
  ASSUME NEW c, NEW d, Attempts(c), SameTries(c, d), c.valid \subseteq d.valid
  PROVE  Attempts(d)
  BY DEF Attempts, Tried, SameTries

LEMMA NominateGood ==
  ASSUME NEW P \in SUBSET Pairs, NEW c \in Lists(P), Outcome(c),
         NEW best \in SUBSET c.valid, NEW expired \in BOOLEAN
  PROVE  LET d == Nominate(c, best, expired)
         IN  d \in Lists(P) /\ Outcome(d) /\ Kept(c, d) /\ SameTries(c, d)
<1> DEFINE todo == best \ c.uc
           queue == QueueNominations(c.queue, todo)
           d1 == [c EXCEPT !.delay = TRUE]
           d2 == [c EXCEPT !.delay = FALSE, !.uc = c.uc \cup best, !.queue = queue,
                           !.nominating = TRUE]
<1>1. Nominate(c, best, expired) \in {c, d1, d2}
  BY DEF Nominate
<1>2. queue \in Seq(P)
  <2>1. c.queue \in Seq(P) /\ todo \in SUBSET P
    BY DEF Lists
  <2> HIDE DEF todo
  <2> QED BY <2>1, QueueNominationsType
<1> HIDE DEF queue, todo
<1>3. d1 \in Lists(P) /\ Kept(c, d1) /\ SameTries(c, d1)
  BY DEF Lists, Kept, SameTries
<1>4. d2 \in Lists(P) /\ Kept(c, d2) /\ SameTries(c, d2)
  BY <1>2 DEF Lists, Kept, SameTries
<1>5. Outcome(d1)
  <2>1. d1.valid = c.valid /\ d1.nominated = c.nominated /\ d1.local = c.local
        /\ d1.state = c.state /\ d1.selected = c.selected /\ d1.uc \subseteq c.valid
    BY DEF Lists, Outcome
  <2> HIDE DEF d1
  <2> QED BY <2>1, SameOutcome
<1>6. Outcome(d2)
  <2>1. d2.valid = c.valid /\ d2.nominated = c.nominated /\ d2.local = c.local
        /\ d2.state = c.state /\ d2.selected = c.selected /\ d2.uc \subseteq c.valid
    BY DEF Lists, Outcome
  <2> HIDE DEF d2
  <2> QED BY <2>1, SameOutcome
<1> HIDE DEF d1, d2
<1> QED BY <1>1, <1>3, <1>4, <1>5, <1>6, KeptSelf

LEMMA PerformNominationsGood ==
  ASSUME NEW P \in SUBSET Pairs, NEW c \in Lists(P), Outcome(c), NEW expired \in BOOLEAN
  PROVE  LET d == PerformNominations(c, expired)
         IN  d \in Lists(P) /\ Outcome(d) /\ Kept(c, d) /\ SameTries(c, d)
<1> DEFINE best == UNION {ToNominate(c, k) : k \in Components(c)}
<1>1. PerformNominations(c, expired) \in {c, Nominate(c, best, expired)}
  BY DEF PerformNominations
<1>2. best \in SUBSET c.valid
  BY DEF ToNominate
<1> HIDE DEF best
<1>3. LET d == Nominate(c, best, expired)
      IN  d \in Lists(P) /\ Outcome(d) /\ Kept(c, d) /\ SameTries(c, d)
  BY <1>2, NominateGood
<1> QED BY <1>1, <1>3, KeptSelf

LEMMA ConcludeAllGood ==
  ASSUME NEW P \in SUBSET Pairs, NEW c, Good(P, c)
  PROVE  LET d == ConcludeAll(c)
         IN  Good(P, d) /\ Kept(c, d) /\ d.state = c.state
<1> USE DEF Good
<1>1. c.valid \subseteq P /\ c.queue \in Seq(P) /\ c.rtx \in Bounded(c)
  <2>1. \A p \in Pairs : c.st[p] = "InProgress" => c.rtx[p] <= MaxRetransmissions
    BY DEF Attempts, Tried
  <2> QED BY <2>1 DEF Lists, Bounded
<1>2. PICK chk \in SUBSET c.chk, queue \in Seq(P), rtx \in Bounded(c) :
        ConcludeAll(c) = [c EXCEPT !.chk = chk, !.queue = queue, !.rtx = rtx]
  <2>1. Trimmed(P, c, ConcludeAll(c))
    BY <1>1, ConcludeAllFields
  <2> QED BY <2>1 DEF Trimmed
<1> DEFINE d == [c EXCEPT !.chk = chk, !.queue = queue, !.rtx = rtx]
<1>3. d \in Lists(P)
  BY DEF Lists, Bounded
<1>4. /\ d.st = c.st /\ d.rtx = rtx /\ d.tr = c.tr /\ d.canceled = c.canceled
      /\ d.valid = c.valid /\ d.nominated = c.nominated /\ d.local = c.local
      /\ d.state = c.state /\ d.selected = c.selected /\ d.uc = c.uc
      /\ d.role = c.role /\ d.pending = c.pending
  BY DEF Lists
<1> HIDE DEF d
<1>5. Attempts(d)
  BY <1>4 DEF Attempts, Tried, Bounded
<1>6. Outcome(d)
  BY <1>4, SameOutcome DEF Outcome
<1>7. Kept(c, d)
  BY <1>4 DEF Kept
<1>8. ConcludeAll(c) = d
  BY <1>2 DEF d
<1> QED BY <1>3, <1>4, <1>5, <1>6, <1>7, <1>8

\* A component with nominated entries has a first one.
LEMMA SelectCovers ==
  ASSUME NEW c, c.valid \subseteq Pairs, \A p \in c.valid : Returned(p),
         NEW g \in Nominated(c)
  PROVE  \E h \in Select(c) : Comp[h[1]] = Comp[g[1]]
<1> DEFINE S == {h \in Nominated(c) : Comp[h[1]] = Comp[g[1]]}
           f == [h \in S |-> Prio[Valid(h)]]
<1>1. PICK B \in Nat : \A p \in Pairs : Prio[p] \in 0..B
  BY PrioBound
<1>2. \A h \in S : Valid(h) \in Pairs
  BY NetworkAssumption DEF Nominated, Returned
<1>3. S # {} /\ \A h \in S : f[h] = Prio[Valid(h)] /\ f[h] \in 0..B
  BY <1>1, <1>2
<1>4. PICK h \in S : \A k \in S : f[k] <= f[h]
  <2> HIDE DEF S, f
  <2> QED BY <1>3, Greatest
<1>5. h \in Select(c)
  BY <1>3, <1>4 DEF Select
<1> QED BY <1>5

LEMMA CompleteGood ==
  ASSUME NEW P \in SUBSET Pairs, NEW c, Good(P, c), c.state = "Running", AllNominated(c)
  PROVE  Good(P, Complete(c)) /\ Kept(c, Complete(c))
<1> DEFINE stopped == {p \in c.chk : c.st[p] = "InProgress"}
           st == [p \in Pairs |-> IF p \in stopped THEN "Failed" ELSE c.st[p]]
           queue == Without(c.queue, stopped)
           d == [c EXCEPT !.state = "Completed", !.nominating = FALSE, !.delay = FALSE,
                          !.selected = Select(c), !.st = st, !.queue = queue]
<1>0. c \in Lists(P) /\ Attempts(c) /\ Outcome(c)
  BY DEF Good
<1>1. Complete(c) = d
  <2> DEFINE e == [c EXCEPT !.state = "Completed", !.nominating = FALSE, !.delay = FALSE,
                            !.selected = Select(c)]
  <2>1. e.chk = c.chk /\ e.st = c.st /\ e.queue = c.queue
    BY <1>0 DEF Lists
  <2>2. Complete(c) = [e EXCEPT !.st = st, !.queue = queue]
    BY <2>1 DEF Complete, StopRetransmissions
  <2> HIDE DEF st, queue
  <2>3. [e EXCEPT !.st = st, !.queue = queue] = d
    BY <1>0 DEF Lists
  <2> QED BY <2>2, <2>3
<1>2. st \in [Pairs -> PairStates] /\ queue \in Seq(P)
  BY <1>0, WithoutType DEF Lists, PairStates
<1>3. \A p \in Pairs : st[p] \in {"InProgress", "Succeeded"} => st[p] = c.st[p]
  OBVIOUS
<1>4. Select(c) \subseteq Nominated(c) /\ Nominated(c) \subseteq c.valid /\ c.valid \subseteq P
  BY <1>0 DEF Select, Nominated, Lists
<1> HIDE DEF st, queue
<1>5. d \in Lists(P)
  BY <1>0, <1>2, <1>4 DEF Lists
<1>6. /\ d.st = st /\ d.rtx = c.rtx /\ d.tr = c.tr /\ d.canceled = c.canceled
      /\ d.valid = c.valid /\ d.nominated = c.nominated /\ d.local = c.local
      /\ d.state = "Completed" /\ d.selected = Select(c) /\ d.uc = c.uc
      /\ d.role = c.role /\ d.pending = c.pending
  BY <1>0 DEF Lists
<1> HIDE DEF d
<1>7. Attempts(d)
  BY <1>0, <1>3, <1>6 DEF Attempts, Tried
<1>8. Concluded(d)
  <2>1. Nominated(d) = Nominated(c) /\ Components(d) = Components(c)
    BY <1>6 DEF Nominated, Components
  <2>2. ASSUME NEW k \in Components(c) PROVE \E h \in Select(c) : Comp[h[1]] = k
    <3>1. PICK g \in Nominated(c) : k = Comp[g[1]]
      BY DEF AllNominated
    <3>2. c.valid \subseteq Pairs /\ \A p \in c.valid : Returned(p)
      BY <1>0, <1>4 DEF Outcome
    <3> QED BY <3>1, <3>2, SelectCovers
  <2> QED BY <1>4, <1>6, <2>1, <2>2 DEF Concluded
<1>9. Outcome(d)
  BY <1>0, <1>4, <1>6, <1>8 DEF Outcome
<1>10. Kept(c, d)
  BY <1>6 DEF Kept
<1> QED BY <1>1, <1>5, <1>7, <1>9, <1>10 DEF Good

LEMMA ConcludeNominatedGood ==
  ASSUME NEW P \in SUBSET Pairs, NEW c, Good(P, c), c.state = "Running"
  PROVE  Good(P, ConcludeNominated(c)) /\ Kept(c, ConcludeNominated(c))
<1> DEFINE d == ConcludeAll(c)
<1>1. Good(P, d) /\ Kept(c, d) /\ d.state = "Running"
  BY ConcludeAllGood
<1>2. ConcludeNominated(c) = IF AllNominated(d) THEN Complete(d) ELSE d
  BY DEF ConcludeNominated, CompleteIfNominated
<1> HIDE DEF d
<1>3. CASE AllNominated(d)
  <2>1. Good(P, Complete(d)) /\ Kept(d, Complete(d))
    BY <1>1, <1>3, CompleteGood
  <2> QED BY <1>1, <1>2, <1>3, <2>1, KeptTwice
<1> QED BY <1>1, <1>2, <1>3

LEMMA ConcludeProcessingGood ==
  ASSUME NEW P \in SUBSET Pairs, NEW c, Good(P, c), NEW expired \in BOOLEAN
  PROVE  LET d == ConcludeProcessing(c, expired) IN Good(P, d) /\ Kept(c, d)
<1>1. CASE c.state # "Running"
  BY <1>1, KeptSelf DEF ConcludeProcessing
<1>2. CASE c.state = "Running"
  <2> DEFINE e == PerformNominations(c, expired)
  <2>1. e \in Lists(P) /\ Outcome(e) /\ Kept(c, e) /\ SameTries(c, e)
    BY PerformNominationsGood DEF Good
  <2>2. e.state = "Running"
    <3>1. e.state = c.state
      BY DEF PerformNominations, Nominate, Good, Lists
    <3> QED BY <1>2, <3>1
  <2>3. ConcludeProcessing(c, expired) =
          ConcludeNominated(IF c.role = "Controlling" THEN e ELSE c)
    BY <1>2 DEF ConcludeProcessing
  <2> HIDE DEF e
  <2>4. Good(P, e)
    <3>1. c.valid \subseteq e.valid /\ Attempts(c)
      BY <2>1 DEF Kept, Good
    <3> QED BY <2>1, <3>1, SameAttempts DEF Good
  <2>5. Good(P, ConcludeNominated(e)) /\ Kept(e, ConcludeNominated(e))
    BY <2>2, <2>4, ConcludeNominatedGood
  <2>6. Good(P, ConcludeNominated(c)) /\ Kept(c, ConcludeNominated(c))
    BY <1>2, ConcludeNominatedGood
  <2> QED BY <2>1, <2>3, <2>5, <2>6, KeptTwice
<1> QED BY <1>1, <1>2

-----------------------------------------------------------------------------
(* One check list: what is sent.                                           *)

Sent(out, a, P, uc, role) == \A m \in out : RequestOf(m, a, P, uc) /\ m.role = role

LEMMA SentMore ==
  ASSUME NEW out, NEW a, NEW P, NEW uc, NEW more, NEW role, uc \subseteq more,
         Sent(out, a, P, uc, role)
  PROVE  Sent(out, a, P, more, role)
  BY DEF Sent, RequestOf

LEMMA RequestSent ==
  ASSUME NEW P \in SUBSET Pairs, NEW c \in Lists(P), NEW a, NEW p \in P, NEW k
  PROVE  Sent(Request(c, a, p, k), a, P, c.uc, c.role)
<1> DEFINE uc == c.role = "Controlling" /\ p \in c.uc
           m == Message("request", p[1], p[2], <<a, p, k>>, uc, c.role)
<1>1. Request(c, a, p, k) = Send(m)
  BY DEF Request
<1>2. /\ m.type = "request" /\ m.src = p[1] /\ m.dst = p[2] /\ m.id = <<a, p, k>>
      /\ m.uc = uc /\ m.role = c.role
  BY DEF Message
<1>3. p = <<p[1], p[2]>>
  BY IceAssumption
<1>4. c.role \in Roles /\ uc \in BOOLEAN /\ (uc => p \in c.uc)
  BY DEF Lists
<1> HIDE DEF m, uc
<1>5. m.id[1] = a /\ m.id[2] = p
  BY <1>2
<1>6. ASSUME p \in Reach PROVE RequestOf(m, a, P, c.uc) /\ m.role = c.role
  BY <1>2, <1>4, <1>5, <1>6 DEF RequestOf
<1>7. ASSUME NEW n \in Send(m) PROVE n = m /\ p \in Reach
  BY <1>2, <1>3 DEF Send
<1> QED BY <1>1, <1>6, <1>7 DEF Sent

LEMMA NewTransactionGood ==
  ASSUME NEW P \in SUBSET Pairs, NEW c, Good(P, c), NEW p \in Pairs
  PROVE  LET d == NewTransaction(c, p)
         IN  Good(P, d) /\ Kept(c, d) /\ d.uc = c.uc
<1> DEFINE tr == [c.tr EXCEPT ![p] = c.tr[p] + 1]
           rtx == [c.rtx EXCEPT ![p] = 0]
           st == [c.st EXCEPT ![p] = "InProgress"]
           sentAs == [c.sentAs EXCEPT ![p] = c.role]
           d == [c EXCEPT !.tr = tr, !.rtx = rtx, !.st = st, !.sentAs = sentAs]
<1>0. c \in Lists(P) /\ Attempts(c) /\ Outcome(c)
  BY DEF Good
<1>1. NewTransaction(c, p) = d
  BY <1>0 DEF NewTransaction, Lists
<1>2. tr \in [Pairs -> Nat] /\ rtx \in [Pairs -> 0..(MaxRetransmissions + 1)]
  <2>1. /\ c.tr \in [Pairs -> Nat] /\ c.rtx \in [Pairs -> 0..(MaxRetransmissions + 1)]
        /\ c.tr[p] + 1 \in Nat /\ 0 \in 0..(MaxRetransmissions + 1)
    BY <1>0, IceAssumption DEF Lists
  <2> QED BY <2>1
<1>3. st \in [Pairs -> PairStates] /\ sentAs \in [Pairs -> Roles]
  BY <1>0 DEF Lists, PairStates
<1>4. ASSUME NEW q \in Pairs
      PROVE  /\ c.canceled[q] <= tr[q]
             /\ st[q] = "InProgress" => c.canceled[q] < tr[q] /\ rtx[q] <= MaxRetransmissions
             /\ st[q] = "Succeeded" => q \in c.valid
  <2>1. /\ c.tr \in [Pairs -> Nat] /\ c.rtx \in [Pairs -> 0..(MaxRetransmissions + 1)]
        /\ c.st \in [Pairs -> PairStates] /\ c.canceled[q] \in Nat /\ MaxRetransmissions \in Nat
    BY <1>0, IceAssumption DEF Lists
  <2>2. Tried(c, q)
    BY <1>0 DEF Attempts
  <2>3. CASE q = p
    <3>1. tr[q] = c.tr[q] + 1 /\ rtx[q] = 0 /\ st[q] = "InProgress" /\ c.tr[q] \in Nat
      BY <2>1, <2>3
    <3>2. c.canceled[q] <= tr[q] /\ c.canceled[q] < tr[q] /\ rtx[q] <= MaxRetransmissions
      BY <2>1, <2>2, <3>1 DEF Tried
    <3> QED BY <3>1, <3>2
  <2>4. CASE q # p
    <3>1. tr[q] = c.tr[q] /\ rtx[q] = c.rtx[q] /\ st[q] = c.st[q]
      BY <2>1, <2>4
    <3> QED BY <2>2, <3>1 DEF Tried
  <2> QED BY <2>3, <2>4
<1> HIDE DEF tr, rtx, st, sentAs
<1>5. d \in Lists(P)
  BY <1>0, <1>2, <1>3 DEF Lists
<1>6. /\ d.st = st /\ d.rtx = rtx /\ d.tr = tr /\ d.canceled = c.canceled
      /\ d.valid = c.valid /\ d.nominated = c.nominated /\ d.local = c.local
      /\ d.state = c.state /\ d.selected = c.selected /\ d.uc = c.uc
      /\ d.role = c.role /\ d.pending = c.pending
  BY <1>0 DEF Lists
<1> HIDE DEF d
<1>7. Attempts(d)
  BY <1>4, <1>6 DEF Attempts, Tried
<1>8. Outcome(d)
  BY <1>0, <1>6, SameOutcome DEF Outcome
<1>9. Kept(c, d)
  BY <1>6 DEF Kept
<1> QED BY <1>1, <1>5, <1>6, <1>7, <1>8, <1>9 DEF Good

LEMMA NominateAlternateGood ==
  ASSUME NEW P \in SUBSET Pairs, NEW c \in Lists(P), Outcome(c), NEW p \in Pairs
  PROVE  LET d == NominateAlternate(c, p)
         IN  d \in Lists(P) /\ Outcome(d) /\ Kept(c, d) /\ SameTries(c, d)
<1> DEFINE e == [c EXCEPT !.failing = c.failing \cup {p}, !.nominating = FALSE]
<1>1. NominateAlternate(c, p) \in {c, PerformNominations(e, FALSE)}
  BY DEF NominateAlternate
<1>2. e \in Lists(P) /\ Kept(c, e) /\ SameTries(c, e)
  BY DEF Lists, Kept, SameTries
<1>3. Outcome(e)
  <2>1. e.valid = c.valid /\ e.nominated = c.nominated /\ e.local = c.local
        /\ e.state = c.state /\ e.selected = c.selected /\ e.uc = c.uc
    BY DEF Lists
  <2> HIDE DEF e
  <2> QED BY <2>1, SameOutcome DEF Outcome
<1> HIDE DEF e
<1> DEFINE d == PerformNominations(e, FALSE)
<1>4. d \in Lists(P) /\ Outcome(d) /\ Kept(e, d) /\ SameTries(e, d)
  BY <1>2, <1>3, PerformNominationsGood
<1> HIDE DEF d
<1>5. Kept(c, d) /\ SameTries(c, d)
  BY <1>2, <1>4, KeptTwice DEF SameTries
<1> QED BY <1>1, <1>4, <1>5, KeptSelf DEF d

\* The check list of s follows c, and s.out are requests of a on its pairs.
Issued(s, c, a, P) ==
  Good(P, s.cl) /\ Kept(c, s.cl) /\ Sent(s.out, a, P, s.cl.uc, c.role)

LEMMA IssuedNothing ==
  ASSUME NEW P \in SUBSET Pairs, NEW c, NEW d, Good(P, d), Kept(c, d), NEW a
  PROVE  Issued(Sends(d, {}), c, a, P)
<1>1. Sends(d, {}).cl = d /\ Sends(d, {}).out = {}
  BY DEF Sends
<1>2. Sent({}, a, P, d.uc, c.role)
  BY DEF Sent
<1> QED BY <1>1, <1>2 DEF Issued

LEMMA IssuedSends ==
  ASSUME NEW P \in SUBSET Pairs, NEW c, NEW d, Good(P, d), Kept(c, d), NEW a,
         NEW out, Sent(out, a, P, d.uc, c.role)
  PROVE  Issued(Sends(d, out), c, a, P)
<1>1. Sends(d, out).cl = d /\ Sends(d, out).out = out
  BY DEF Sends
<1> QED BY <1>1 DEF Issued

\* A retransmission counted, and the check given up when there were too many.
LEMMA SendAgainIssued ==
  ASSUME NEW P \in SUBSET Pairs, NEW c, Good(P, c), NEW a, NEW p \in P,
         c.st[p] = "InProgress"
  PROVE  Issued(SendAgain(NominateAlternate([c EXCEPT !.rtx[p] = @ + 1], p), a, p), c, a, P)
<1> DEFINE rtx == [c.rtx EXCEPT ![p] = c.rtx[p] + 1]
           e == [c EXCEPT !.rtx = rtx]
           d == NominateAlternate(e, p)
           st == [d.st EXCEPT ![p] = "Failed"]
           f == [d EXCEPT !.st = st]
<1>0. /\ c \in Lists(P) /\ Attempts(c) /\ Outcome(c) /\ p \in Pairs /\ MaxRetransmissions \in Nat
  BY IceAssumption DEF Good
<1>1. [c EXCEPT !.rtx[p] = @ + 1] = e
  BY <1>0 DEF Lists
<1>2. rtx \in [Pairs -> 0..(MaxRetransmissions + 1)]
  <2>1. c.rtx \in [Pairs -> 0..(MaxRetransmissions + 1)] /\ c.rtx[p] <= MaxRetransmissions
    BY <1>0 DEF Lists, Attempts, Tried
  <2>2. c.rtx[p] + 1 \in 0..(MaxRetransmissions + 1)
    BY <1>0, <2>1
  <2> QED BY <2>1, <2>2
<1>3. \A q \in Pairs : q # p => rtx[q] = c.rtx[q]
  BY <1>0 DEF Lists
<1> HIDE DEF rtx
<1>4. e \in Lists(P) /\ Kept(c, e)
  BY <1>0, <1>2 DEF Lists, Kept
<1>5. /\ e.valid = c.valid /\ e.nominated = c.nominated /\ e.local = c.local
      /\ e.state = c.state /\ e.selected = c.selected /\ e.uc = c.uc /\ e.st = c.st
      /\ e.tr = c.tr /\ e.canceled = c.canceled /\ e.rtx = rtx
  BY <1>0 DEF Lists
<1> HIDE DEF e
<1>6. Outcome(e)
  BY <1>0, <1>5, SameOutcome DEF Outcome
<1>7. d \in Lists(P) /\ Outcome(d) /\ Kept(e, d) /\ SameTries(e, d)
  BY <1>0, <1>4, <1>6, NominateAlternateGood
<1> HIDE DEF d
<1>8. Kept(c, d)
  BY <1>4, <1>7, KeptTwice
<1>9. /\ d.st = c.st /\ d.tr = c.tr /\ d.canceled = c.canceled /\ d.rtx = rtx
      /\ d.valid = c.valid /\ d.role = c.role
  BY <1>5, <1>7, <1>8 DEF SameTries, Kept
<1>10. CASE d.rtx[p] > MaxRetransmissions
  <2>1. SendAgain(d, a, p) = Sends(f, {})
    BY <1>7, <1>10 DEF SendAgain, Lists
  <2>2. st \in [Pairs -> PairStates]
    BY <1>7 DEF Lists, PairStates
  <2>3. st[p] = "Failed" /\ \A q \in Pairs : q # p => st[q] = c.st[q]
    BY <1>0, <1>7, <1>9 DEF Lists
  <2> HIDE DEF st
  <2>4. f \in Lists(P)
    BY <1>7, <2>2 DEF Lists
  <2>5. /\ f.valid = d.valid /\ f.nominated = d.nominated /\ f.local = d.local
        /\ f.state = d.state /\ f.selected = d.selected /\ f.uc = d.uc /\ f.st = st
        /\ f.tr = d.tr /\ f.canceled = d.canceled /\ f.rtx = d.rtx /\ f.role = d.role
        /\ f.pending = d.pending
    BY <1>7 DEF Lists
  <2> HIDE DEF f
  <2>6. Outcome(f)
    BY <1>7, <2>5, SameOutcome DEF Outcome
  <2>7. Kept(d, f)
    BY <2>5 DEF Kept
  <2>8. ASSUME NEW q \in Pairs PROVE Tried(f, q)
    <3>1. Tried(c, q)
      BY <1>0 DEF Attempts
    <3>2. f.canceled = c.canceled /\ f.tr = c.tr /\ f.rtx = rtx /\ f.valid = c.valid /\ f.st = st
      BY <1>9, <2>5
    <3> QED BY <1>3, <2>3, <3>1, <3>2 DEF Tried
  <2>9. Good(P, f) /\ Kept(c, f)
    BY <1>8, <2>4, <2>6, <2>7, <2>8, KeptTwice DEF Good, Attempts
  <2> QED BY <1>1, <2>1, <2>9, IssuedNothing DEF d
<1>11. CASE ~ (d.rtx[p] > MaxRetransmissions)
  <2>1. SendAgain(d, a, p) = Sends(d, Request(d, a, p, FindTransaction(d, p)))
    BY <1>11 DEF SendAgain
  <2>2. rtx[p] <= MaxRetransmissions
    BY <1>0, <1>2, <1>9, <1>11
  <2>3. ASSUME NEW q \in Pairs PROVE Tried(d, q)
    <3>1. Tried(c, q)
      BY <1>0 DEF Attempts
    <3> QED BY <1>3, <1>9, <2>2, <3>1 DEF Tried
  <2>4. Good(P, d)
    BY <1>7, <2>3 DEF Good, Attempts
  <2>5. Sent(Request(d, a, p, FindTransaction(d, p)), a, P, d.uc, c.role)
    BY <1>7, <1>9, RequestSent
  <2> QED BY <1>1, <1>8, <2>1, <2>4, <2>5, IssuedSends DEF d
<1> QED BY <1>10, <1>11

LEMMA SendBindingRequestIssued ==
  ASSUME NEW P \in SUBSET Pairs, NEW c, Good(P, c), NEW a, NEW p \in P
  PROVE  Issued(SendBindingRequest(c, a, p), c, a, P)
<1>1. CASE c.st[p] # "InProgress"
  <2> DEFINE d == NewTransaction(c, p)
             out == Request(c, a, p, c.tr[p] + 1)
  <2>1. Good(P, d) /\ Kept(c, d) /\ d.uc = c.uc
    BY NewTransactionGood
  <2>2. Sent(out, a, P, c.uc, c.role)
    BY RequestSent DEF Good
  <2>3. SendBindingRequest(c, a, p) = Sends(d, out)
    BY <1>1 DEF SendBindingRequest
  <2> HIDE DEF d, out
  <2> QED BY <2>1, <2>2, <2>3, IssuedSends
<1>2. CASE c.st[p] = "InProgress" /\ FindTransaction(c, p) = 0
  <2>1. SendBindingRequest(c, a, p) = Sends(c, {})
    BY <1>2 DEF SendBindingRequest
  <2> QED BY <2>1, IssuedNothing, KeptSelf
<1>3. CASE c.st[p] = "InProgress" /\ FindTransaction(c, p) # 0
  <2>1. SendBindingRequest(c, a, p) =
          SendAgain(NominateAlternate([c EXCEPT !.rtx[p] = @ + 1], p), a, p)
    BY <1>3 DEF SendBindingRequest
  <2> QED BY <1>3, <2>1, SendAgainIssued
<1> QED BY <1>1, <1>2, <1>3

LEMMA IssuedLater ==
  ASSUME NEW P, NEW c, NEW d, NEW a, NEW s, Kept(c, d), Issued(s, d, a, P)
  PROVE  Issued(s, c, a, P)
<1>1. Kept(c, s.cl)
  BY KeptTwice DEF Issued
<1>2. d.role = c.role
  BY DEF Kept
<1> QED BY <1>1, <1>2 DEF Issued

\* A change to the states of pairs, the queue and the pairs to check.
With(c, st, queue, chk) == [c EXCEPT !.st = st, !.queue = queue, !.chk = chk]

LEMMA FieldsGood ==
  ASSUME NEW P \in SUBSET Pairs, NEW c, Good(P, c),
         NEW st \in [Pairs -> PairStates], NEW queue \in Seq(P), NEW chk \in SUBSET P,
         \A p \in Pairs : st[p] \in {"InProgress", "Succeeded"} => st[p] = c.st[p]
  PROVE  Good(P, With(c, st, queue, chk)) /\ Kept(c, With(c, st, queue, chk))
<1> DEFINE d == With(c, st, queue, chk)
<1> USE DEF With
<1>0. c \in Lists(P) /\ Attempts(c) /\ Outcome(c)
  BY DEF Good
<1>1. d \in Lists(P)
  BY <1>0 DEF Lists
<1>2. /\ d.st = st /\ d.rtx = c.rtx /\ d.tr = c.tr /\ d.canceled = c.canceled
      /\ d.valid = c.valid /\ d.nominated = c.nominated /\ d.local = c.local
      /\ d.state = c.state /\ d.selected = c.selected /\ d.uc = c.uc
      /\ d.role = c.role /\ d.pending = c.pending
  BY <1>0 DEF Lists
<1> HIDE DEF d
<1>3. Attempts(d)
  BY <1>0, <1>2 DEF Attempts, Tried
<1>4. Outcome(d)
  BY <1>0, <1>2, SameOutcome DEF Outcome
<1>5. Kept(c, d)
  BY <1>2 DEF Kept
<1> QED BY <1>1, <1>3, <1>4, <1>5 DEF Good, d

LEMMA SendCheckIssued ==
  ASSUME NEW P \in SUBSET Pairs, NEW c, Good(P, c), NEW a
  PROVE  Issued(SendCheck(c, a), c, a, P)
<1> DEFINE waiting == {p \in c.chk : c.st[p] = "Waiting"}
           frozen == {p \in c.chk : c.st[p] = "Frozen"}
           best == First(IF waiting # {} THEN waiting ELSE frozen)
           popped == [c EXCEPT !.queue = Tail(c.queue)]
           thawed == [c EXCEPT !.st = ComputePairsStates(c.st, c.chk)]
           done == ConcludeProcessing(c, FALSE)
<1>0. /\ c \in Lists(P) /\ c.chk \in SUBSET P /\ c.st \in [Pairs -> PairStates]
      /\ c.queue \in Seq(P)
  BY DEF Good, Lists
<1>1. \/ c.queue # <<>> /\ SendCheck(c, a) = SendBindingRequest(popped, a, Head(c.queue))
      \/ SendCheck(c, a) = Sends(c, {})
      \/ SendCheck(c, a) = Sends(thawed, {})
      \/ waiting \cup frozen # {} /\ SendCheck(c, a) = SendBindingRequest(c, a, best)
      \/ SendCheck(c, a) = Sends(done, {})
  BY DEF SendCheck
<1>2. ASSUME c.queue # <<>> PROVE Issued(SendBindingRequest(popped, a, Head(c.queue)), c, a, P)
  <2>1. Tail(c.queue) \in Seq(P) /\ Head(c.queue) \in P
    BY <1>0, <1>2
  <2>2. popped = With(c, c.st, Tail(c.queue), c.chk)
    BY <1>0 DEF Lists, With
  <2> HIDE DEF popped
  <2>3. Good(P, popped) /\ Kept(c, popped)
    <3>1. PICK q \in Seq(P) : q = Tail(c.queue)
      BY <2>1
    <3>2. Good(P, With(c, c.st, q, c.chk)) /\ Kept(c, With(c, c.st, q, c.chk))
      BY <1>0, FieldsGood
    <3> QED BY <2>2, <3>1, <3>2
  <2>4. Issued(SendBindingRequest(popped, a, Head(c.queue)), popped, a, P)
    BY <2>1, <2>3, SendBindingRequestIssued
  <2> QED BY <2>3, <2>4, IssuedLater
<1>3. Issued(Sends(c, {}), c, a, P)
  BY IssuedNothing, KeptSelf
<1>4. Issued(Sends(thawed, {}), c, a, P)
  <2> DEFINE st == ComputePairsStates(c.st, c.chk)
  <2>1. /\ st \in [Pairs -> PairStates]
        /\ \A p \in Pairs : st[p] \in {"InProgress", "Succeeded"} => st[p] = c.st[p]
    BY <1>0 DEF ComputePairsStates, PairStates
  <2> HIDE DEF st
  <2>2. thawed = With(c, st, c.queue, c.chk)
    BY <1>0 DEF Lists, With, st
  <2>3. Good(P, thawed) /\ Kept(c, thawed)
    BY <1>0, <2>1, <2>2, FieldsGood
  <2> HIDE DEF thawed
  <2> QED BY <2>3, IssuedNothing
<1>5. ASSUME waiting \cup frozen # {} PROVE Issued(SendBindingRequest(c, a, best), c, a, P)
  <2> DEFINE S == IF waiting # {} THEN waiting ELSE frozen
  <2>1. S \subseteq P /\ S # {} /\ best = First(S)
    BY <1>0, <1>5
  <2>2. best \in P
    <3> HIDE DEF S, best
    <3> QED BY <2>1, FirstIn
  <2> HIDE DEF best
  <2> QED BY <2>2, SendBindingRequestIssued
<1>6. Issued(Sends(done, {}), c, a, P)
  <2>1. Good(P, done) /\ Kept(c, done)
    BY ConcludeProcessingGood
  <2> HIDE DEF done
  <2> QED BY <2>1, IssuedNothing
<1> HIDE DEF waiting, frozen, best, popped, thawed, done
<1> QED BY <1>1, <1>2, <1>3, <1>4, <1>5, <1>6

LEMMA RunTimersIssued ==
  ASSUME NEW P \in SUBSET Pairs, NEW c, Good(P, c), NEW a, NEW r, NEW ta \in BOOLEAN
  PROVE  Issued(RunTimers(c, a, r, ta), c, a, P)
<1> DEFINE s == Retransmit(c, a, r)
           t == SendCheck(s.cl, a)
           u == [t EXCEPT !.out = t.out \cup s.out]
<1>1. Issued(s, c, a, P)
  <2>1. CASE r \in Due(c)
    <3>1. r \in P
      BY <2>1 DEF Due, Good, Lists
    <3> QED BY <2>1, <3>1, SendBindingRequestIssued DEF Retransmit
  <2>2. CASE r \notin Due(c)
    BY <2>2, IssuedNothing, KeptSelf DEF Retransmit
  <2> QED BY <2>1, <2>2
<1>2. RunTimers(c, a, r, ta) = IF ta THEN u ELSE s
  BY DEF RunTimers, SendMore
<1> HIDE DEF s
<1>3. Good(P, s.cl) /\ Kept(c, s.cl) /\ Sent(s.out, a, P, s.cl.uc, c.role)
  BY <1>1 DEF Issued
<1>4. Issued(t, s.cl, a, P)
  BY <1>3, SendCheckIssued
<1>5. u.cl = t.cl /\ u.out = t.out \cup s.out
  <2>1. DOMAIN t = {"cl", "out"}
    BY DEF SendCheck, SendBindingRequest, SendAgain, Sends
  <2> HIDE DEF t
  <2> QED BY <2>1
<1> HIDE DEF t, u
<1>6. Issued(t, c, a, P)
  BY <1>3, <1>4, IssuedLater
<1>7. s.cl.uc \subseteq t.cl.uc
  BY <1>4 DEF Issued, Kept
<1>8. Sent(s.out, a, P, t.cl.uc, c.role)
  BY <1>3, <1>7, SentMore
<1>9. Issued(u, c, a, P)
  BY <1>5, <1>6, <1>8 DEF Issued, Sent
<1> QED BY <1>1, <1>2, <1>9

LEMMA ProcessedIssued ==
  ASSUME NEW P \in SUBSET Pairs, NEW c, Good(P, c), NEW a, NEW expired \in BOOLEAN,
         NEW r, NEW ta \in BOOLEAN
  PROVE  Issued(Processed(c, a, expired, r, ta), c, a, P)
<1> DEFINE d == ConcludeProcessing(c, TRUE)
<1>1. Good(P, d) /\ Kept(c, d)
  BY ConcludeProcessingGood
<1>2. Processed(c, a, expired, r, ta) \in
        {RunTimers(c, a, r, ta), Sends(d, {}), RunTimers(d, a, r, ta)}
  BY DEF Processed, RunUnlessCompleted
<1> HIDE DEF d
<1>3. Issued(RunTimers(c, a, r, ta), c, a, P)
  BY RunTimersIssued
<1>4. Issued(Sends(d, {}), c, a, P)
  BY <1>1, IssuedNothing
<1>5. Issued(RunTimers(d, a, r, ta), c, a, P)
  BY <1>1, RunTimersIssued, IssuedLater
<1> QED BY <1>2, <1>3, <1>4, <1>5

-----------------------------------------------------------------------------
(* One check list: the handlers of messages.                               *)

\* The transaction found is one that was created, and it is found when the canceled
\* one is not the last.
LEMMA TransactionFound ==
  ASSUME NEW c, NEW p, c.tr[p] \in Nat, c.canceled[p] \in Nat
  PROVE  /\ FindTransaction(c, p) \in 0..c.tr[p]
         /\ c.canceled[p] < c.tr[p] => FindTransaction(c, p) # 0
<1> DEFINE n == c.tr[p]
           live == (1..n) \ {c.canceled[p]}
           f == [k \in live |-> k]
<1>1. FindTransaction(c, p) =
        IF live = {} THEN 0 ELSE CHOOSE k \in live : \A j \in live : j <= k
  BY DEF FindTransaction
<1>2. c.canceled[p] < n => n \in live
  OBVIOUS
<1>3. \A k \in live : k \in 1..n /\ f[k] = k /\ f[k] \in 0..n
  OBVIOUS
<1>4. n \in Nat
  OBVIOUS
<1> HIDE DEF live, n, f
<1>5. ASSUME live # {} PROVE \E k \in live : \A j \in live : j <= k
  <2>1. PICK k \in live : \A j \in live : f[j] <= f[k]
    BY <1>3, <1>4, <1>5, Greatest
  <2> QED BY <1>3, <2>1
<1>6. ASSUME live # {} PROVE FindTransaction(c, p) \in live
  BY <1>1, <1>5, <1>6
<1>7. CASE live = {}
  <2>1. FindTransaction(c, p) = 0 /\ 0 \in 0..n /\ ~ (c.canceled[p] < n)
    BY <1>1, <1>2, <1>4, <1>7
  <2> QED BY <2>1 DEF n
<1>8. CASE live # {}
  <2>1. FindTransaction(c, p) \in 1..n
    BY <1>3, <1>6, <1>8
  <2>2. FindTransaction(c, p) \in 0..n /\ FindTransaction(c, p) # 0
    BY <1>4, <2>1
  <2> QED BY <2>2 DEF n
<1> QED BY <1>7, <1>8

LEMMA TriggerGood ==
  ASSUME NEW P \in SUBSET Pairs, NEW c, Good(P, c), NEW p \in P
  PROVE  Good(P, Trigger(c, p)) /\ Kept(c, Trigger(c, p))
<1> DEFINE st == [c.st EXCEPT ![p] = "Waiting"]
           again == With(c, st, Queue(c.queue, p), c.chk \cup {p})
           k == FindTransaction(c, p)
           canceled == [c.canceled EXCEPT ![p] = k]
           d == [again EXCEPT !.canceled = canceled]
<1>0. /\ c \in Lists(P) /\ c.st \in [Pairs -> PairStates] /\ c.queue \in Seq(P)
      /\ c.chk \in SUBSET P /\ c.canceled \in [Pairs -> Nat] /\ c.tr \in [Pairs -> Nat]
      /\ p \in Pairs
  BY DEF Good, Lists
<1>1. st \in [Pairs -> PairStates] /\ st[p] = "Waiting" /\ \A q \in Pairs : q # p => st[q] = c.st[q]
  BY <1>0 DEF PairStates
<1>2. Queue(c.queue, p) \in Seq(P) /\ c.chk \cup {p} \in SUBSET P
  BY <1>0, QueueType
<1>3. [c EXCEPT !.st[p] = "Waiting", !.queue = Queue(@, p), !.chk = @ \cup {p}] = again
  BY <1>0 DEF Lists, With
<1>4. Good(P, again) /\ Kept(c, again)
  <2>1. \A q \in Pairs : st[q] \in {"InProgress", "Succeeded"} => st[q] = c.st[q]
    BY <1>1
  <2>2. PICK q \in Seq(P) : q = Queue(c.queue, p)
    BY <1>2
  <2>3. PICK chk \in SUBSET P : chk = c.chk \cup {p}
    BY <1>2
  <2> HIDE DEF st
  <2>4. Good(P, With(c, st, q, chk)) /\ Kept(c, With(c, st, q, chk))
    BY <1>1, <2>1, FieldsGood
  <2> QED BY <2>2, <2>3, <2>4
<1>5. again.st = st /\ again.canceled = c.canceled /\ again.tr = c.tr
  BY <1>0 DEF Lists, With
<1>6. Trigger(c, p) \in {again, d, c}
  <2>1. [again EXCEPT !.canceled[p] = k] = d
    BY <1>4, <1>5 DEF Good, Lists
  <2> HIDE DEF again, d
  <2> QED BY <1>3, <2>1 DEF Trigger
<1>7. canceled \in [Pairs -> Nat] /\ \A q \in Pairs : canceled[q] <= c.tr[q]
  <2>1. k \in 0..c.tr[p]
    BY <1>0, TransactionFound
  <2>2. k \in Nat /\ k <= c.tr[p]
    BY <1>0, <2>1
  <2> HIDE DEF k
  <2>3. /\ canceled \in [Pairs -> Nat] /\ canceled[p] = k
        /\ \A q \in Pairs : q # p => canceled[q] = c.canceled[q]
    BY <1>0, <2>2
  <2>4. \A q \in Pairs : c.canceled[q] <= c.tr[q]
    BY DEF Good, Attempts, Tried
  <2> QED BY <2>2, <2>3, <2>4
<1>8. ASSUME NEW q \in Pairs, q # p PROVE canceled[q] = c.canceled[q]
  BY <1>0, <1>8
<1> HIDE DEF st, again, canceled, k
<1>9. d \in Lists(P)
  BY <1>4, <1>7 DEF Good, Lists
<1>10. /\ d.st = again.st /\ d.rtx = again.rtx /\ d.tr = again.tr /\ d.canceled = canceled
       /\ d.valid = again.valid /\ d.nominated = again.nominated /\ d.local = again.local
       /\ d.state = again.state /\ d.selected = again.selected /\ d.uc = again.uc
       /\ d.role = again.role /\ d.pending = again.pending
  BY <1>4 DEF Good, Lists
<1> HIDE DEF d
<1>11. ASSUME NEW q \in Pairs PROVE Tried(d, q)
  <2>1. Tried(again, q)
    BY <1>4 DEF Good, Attempts
  <2>2. d.canceled[q] <= d.tr[q]
    BY <1>5, <1>7, <1>10
  <2>3. CASE q = p
    <3>1. d.st[q] = "Waiting"
      BY <1>1, <1>5, <1>10, <2>3
    <3> QED BY <2>2, <3>1 DEF Tried
  <2>4. CASE q # p
    <3>1. d.canceled[q] = again.canceled[q]
      BY <1>5, <1>8, <1>10, <2>4
    <3> QED BY <1>10, <2>1, <3>1 DEF Tried
  <2> QED BY <2>3, <2>4
<1>12. Outcome(d)
  BY <1>4, <1>10, SameOutcome DEF Good, Outcome
<1>13. Kept(again, d)
  BY <1>10 DEF Kept
<1>14. Good(P, d) /\ Kept(c, d)
  BY <1>4, <1>9, <1>11, <1>12, <1>13, KeptTwice DEF Good, Attempts
<1> QED BY <1>4, <1>6, <1>14, KeptSelf

\* What a message may do to a check list: the pairs in V may become nominated and
\* those in Q may wait for their check to succeed.
Follows(c, d, V, Q) ==
  /\ d.local = c.local /\ c.uc \subseteq d.uc
  /\ d.nominated \subseteq c.nominated \cup V /\ d.pending \subseteq c.pending \cup Q
  /\ c.state = "Completed" => d.state = "Completed" /\ d.selected = c.selected

LEMMA FollowsKept ==
  ASSUME NEW c, NEW d, NEW e, NEW f, NEW V, NEW Q, Kept(c, d), Follows(d, e, V, Q), Kept(e, f)
  PROVE  Follows(c, f, V, Q)
  BY DEF Follows, Kept

\* A change to the marks of pairs.
Marked(c, nominated, pending, failing) ==
  [c EXCEPT !.nominated = nominated, !.pending = pending, !.failing = failing]

Widens(P, c, nominated, pending, failing, V, Q) ==
  /\ nominated \in SUBSET Pairs /\ pending \in SUBSET P /\ failing \in SUBSET Pairs
  /\ c.nominated \subseteq nominated /\ nominated \subseteq c.nominated \cup V
  /\ pending \subseteq c.pending \cup Q

LEMMA MarkedGood ==
  ASSUME NEW P \in SUBSET Pairs, NEW c, Good(P, c),
         NEW nominated, NEW pending, NEW failing, NEW V, NEW Q,
         Widens(P, c, nominated, pending, failing, V, Q)
  PROVE  LET d == Marked(c, nominated, pending, failing)
         IN  Good(P, d) /\ Follows(c, d, V, Q) /\ d.role = c.role
<1> DEFINE d == Marked(c, nominated, pending, failing)
<1> USE DEF Marked, Widens
<1>0. c \in Lists(P) /\ Attempts(c) /\ Outcome(c)
  BY DEF Good
<1>1. d \in Lists(P)
  BY <1>0 DEF Lists
<1>2. /\ d.st = c.st /\ d.rtx = c.rtx /\ d.tr = c.tr /\ d.canceled = c.canceled
      /\ d.valid = c.valid /\ d.nominated = nominated /\ d.local = c.local
      /\ d.state = c.state /\ d.selected = c.selected /\ d.uc = c.uc
      /\ d.role = c.role /\ d.pending = pending
  BY <1>0 DEF Lists
<1> HIDE DEF d
<1>3. Attempts(d)
  BY <1>0, <1>2, SameAttempts DEF SameTries
<1>4. Outcome(d)
  <2>1. Nominated(c) \subseteq Nominated(d) /\ Components(d) = Components(c)
    BY <1>2 DEF Nominated, Components
  <2>2. c.state = "Completed" => Concluded(d)
    BY <1>0, <1>2, <2>1 DEF Outcome, Concluded
  <2> QED BY <1>0, <1>2, <2>2 DEF Outcome
<1>5. Follows(c, d, V, Q)
  BY <1>2 DEF Follows
<1> QED BY <1>1, <1>2, <1>3, <1>4, <1>5 DEF Good, d

\* A request for a pair of which the check has succeeded nominates what that check
\* validated: the base of a pair is not an address of another base.
LEMMA ValidPair ==
  ASSUME NEW c, \A g \in c.valid : Returned(g) /\ g \in Pairs, NEW p \in c.valid,
         HostOf[p[1]] = p[1]
  PROVE  PossibleValidPair(c, p) = Valid(p)
<1> DEFINE entries == {g \in c.valid : p \in {g, Valid(g)}}
<1>1. ASSUME NEW g \in c.valid, Valid(g) = p PROVE g = p
  <2>1. p[1] = Seen[g] /\ p[2] = g[2]
    BY <1>1 DEF Valid
  <2>2. HostOf[Seen[g]] = g[1]
    BY DEF Returned
  <2>3. g = <<g[1], g[2]>> /\ p = <<p[1], p[2]>>
    BY IceAssumption
  <2> QED BY <2>1, <2>2, <2>3
<1>2. entries = {p}
  BY <1>1
<1>3. {Valid(g) : g \in entries} = {Valid(p)} /\ entries # {}
  BY <1>2
<1>4. PossibleValidPair(c, p) = First({Valid(p)})
  <2>1. PossibleValidPair(c, p) =
          IF entries = {} THEN p ELSE First({Valid(g) : g \in entries})
    BY DEF PossibleValidPair
  <2> HIDE DEF entries
  <2> QED BY <1>3, <2>1
<1>5. Valid(p) \in Pairs
  BY NetworkAssumption DEF Returned
<1>6. First({Valid(p)}) \in {Valid(p)}
  <2> DEFINE S == {Valid(p)}
  <2>1. S \in SUBSET Pairs /\ S # {}
    BY <1>5
  <2> HIDE DEF S
  <2>2. First(S) \in S
    BY <2>1, FirstIn
  <2> QED BY <2>2 DEF S
<1> QED BY <1>4, <1>6

\* What a message about the pair q may do: nominate it only if on.
Allowed(c, d, q, on) ==
  \E V \in SUBSET {Valid(q)}, Q \in SUBSET {q} :
    Follows(c, d, V, Q) /\ (on \/ (V = {} /\ Q = {}))

LEMMA NominateOnRequestGood ==
  ASSUME NEW P \in SUBSET Pairs, NEW c, Good(P, c), NEW p \in P, HostOf[p[1]] = p[1],
         NEW uc \in BOOLEAN
  PROVE  LET d == NominateOnRequest(c, p, uc)
         IN  /\ Good(P, d) /\ d.role = c.role
             /\ Allowed(c, d, p, uc /\ c.role = "Controlled")
<1> DEFINE d == NominateOnRequest(c, p, uc)
<1>0. c \in Lists(P) /\ Attempts(c) /\ Outcome(c) /\ p \in Pairs
  BY DEF Good
<1>1. ASSUME d = c PROVE Good(P, d) /\ d.role = c.role /\ Follows(c, d, {}, {})
  <2>1. Follows(c, c, {}, {})
    BY DEF Follows
  <2> HIDE DEF d
  <2> QED BY <1>1, <2>1
<1>2. ASSUME uc, c.role = "Controlled", c.st[p] = "Succeeded"
      PROVE  Good(P, d) /\ d.role = c.role /\ Follows(c, d, {Valid(p)}, {})
  <2>1. p \in c.valid
    BY <1>0, <1>2 DEF Attempts, Tried
  <2>2. PossibleValidPair(c, p) = Valid(p) /\ Valid(p) \in Pairs
    <3>1. \A g \in c.valid : Returned(g) /\ g \in Pairs
      BY <1>0 DEF Outcome, Lists
    <3> QED BY <2>1, <3>1, ValidPair, NetworkAssumption DEF Returned
  <2>3. d = [c EXCEPT !.nominated = c.nominated \cup {Valid(p)}]
    BY <1>2, <2>2 DEF NominateOnRequest
  <2>4. PICK n \in SUBSET Pairs : n = c.nominated \cup {Valid(p)}
    BY <1>0, <2>2 DEF Lists
  <2>5. [c EXCEPT !.nominated = n] = Marked(c, n, c.pending, c.failing)
    BY <1>0 DEF Lists, Marked
  <2>6. c.pending \in SUBSET P /\ c.failing \in SUBSET Pairs
    BY <1>0 DEF Lists
  <2> DEFINE e == Marked(c, n, c.pending, c.failing)
  <2>7. Good(P, e) /\ Follows(c, e, {Valid(p)}, {}) /\ e.role = c.role
    <3>1. PICK V, Q : V = {Valid(p)} /\ Q = {}
      OBVIOUS
    <3>2. PICK q \in SUBSET P, f \in SUBSET Pairs : q = c.pending /\ f = c.failing
      BY <2>6
    <3>3. Widens(P, c, n, q, f, V, Q)
      BY <2>4, <3>1, <3>2 DEF Widens
    <3>4. LET x == Marked(c, n, q, f) IN Good(P, x) /\ Follows(c, x, V, Q) /\ x.role = c.role
      BY <3>3, MarkedGood
    <3> QED BY <3>1, <3>2, <3>4
  <2> HIDE DEF d, e
  <2>8. d = e
    BY <2>3, <2>4, <2>5 DEF e
  <2> QED BY <2>7, <2>8
<1>3. ASSUME uc, c.role = "Controlled", c.st[p] \in {"Waiting", "Frozen", "InProgress"}
      PROVE  Good(P, d) /\ d.role = c.role /\ Follows(c, d, {}, {p})
  <2>1. c.st[p] # "Succeeded"
    BY <1>3
  <2>3. d = [c EXCEPT !.pending = c.pending \cup {p}]
    BY <1>3, <2>1 DEF NominateOnRequest
  <2>4. PICK n \in SUBSET P : n = c.pending \cup {p}
    BY <1>0 DEF Lists
  <2>5. [c EXCEPT !.pending = n] = Marked(c, c.nominated, n, c.failing)
    BY <1>0 DEF Lists, Marked
  <2>6. c.nominated \in SUBSET Pairs /\ c.failing \in SUBSET Pairs
    BY <1>0 DEF Lists
  <2> DEFINE e == Marked(c, c.nominated, n, c.failing)
  <2>7. Good(P, e) /\ Follows(c, e, {}, {p}) /\ e.role = c.role
    <3>1. PICK V, Q : V = {} /\ Q = {p}
      OBVIOUS
    <3>2. PICK q \in SUBSET Pairs, f \in SUBSET Pairs : q = c.nominated /\ f = c.failing
      BY <2>6
    <3>3. Widens(P, c, q, n, f, V, Q)
      BY <2>4, <3>1, <3>2 DEF Widens
    <3>4. LET x == Marked(c, q, n, f) IN Good(P, x) /\ Follows(c, x, V, Q) /\ x.role = c.role
      BY <3>3, MarkedGood
    <3> QED BY <3>1, <3>2, <3>4
  <2> HIDE DEF d, e
  <2>8. d = e
    BY <2>3, <2>4, <2>5 DEF e
  <2> QED BY <2>7, <2>8
<1>4. \/ d = c
      \/ uc /\ c.role = "Controlled" /\ c.st[p] = "Succeeded"
      \/ uc /\ c.role = "Controlled" /\ c.st[p] \in {"Waiting", "Frozen", "InProgress"}
  BY DEF NominateOnRequest
<1> HIDE DEF d
<1>5. /\ Good(P, d) /\ d.role = c.role
      /\ \E V \in SUBSET {Valid(p)}, Q \in SUBSET {p} :
           Follows(c, d, V, Q) /\ ((uc /\ c.role = "Controlled") \/ (V = {} /\ Q = {}))
  <2>1. /\ {} \in SUBSET {Valid(p)} /\ {Valid(p)} \in SUBSET {Valid(p)}
        /\ {} \in SUBSET {p} /\ {p} \in SUBSET {p}
    OBVIOUS
  <2>2. CASE d = c
    BY <1>1, <2>1, <2>2
  <2>3. CASE uc /\ c.role = "Controlled" /\ c.st[p] = "Succeeded"
    BY <1>2, <2>1, <2>3
  <2>4. CASE uc /\ c.role = "Controlled" /\ c.st[p] \in {"Waiting", "Frozen", "InProgress"}
    BY <1>3, <2>1, <2>4
  <2> QED BY <1>4, <2>2, <2>3, <2>4
<1>6. Allowed(c, d, p, uc /\ c.role = "Controlled")
  BY <1>5 DEF Allowed
<1> QED BY <1>5, <1>6 DEF d

SameMarks(c, d) ==
  /\ d.local = c.local /\ d.uc = c.uc /\ d.nominated = c.nominated
  /\ d.pending = c.pending /\ d.state = c.state /\ d.selected = c.selected

LEMMA RoleGood ==
  ASSUME NEW P \in SUBSET Pairs, NEW c, Good(P, c), NEW role \in Roles
  PROVE  LET d == [c EXCEPT !.role = role]
         IN  Good(P, d) /\ d.role = role /\ SameMarks(c, d)
<1> DEFINE d == [c EXCEPT !.role = role]
<1>0. c \in Lists(P) /\ Attempts(c) /\ Outcome(c)
  BY DEF Good
<1>1. d \in Lists(P)
  BY <1>0 DEF Lists
<1>2. /\ d.st = c.st /\ d.rtx = c.rtx /\ d.tr = c.tr /\ d.canceled = c.canceled
      /\ d.valid = c.valid /\ d.nominated = c.nominated /\ d.local = c.local
      /\ d.state = c.state /\ d.selected = c.selected /\ d.uc = c.uc
      /\ d.role = role /\ d.pending = c.pending
  BY <1>0 DEF Lists
<1> HIDE DEF d
<1>3. Attempts(d)
  BY <1>0, <1>2, SameAttempts DEF SameTries
<1>4. Outcome(d)
  BY <1>0, <1>2, SameOutcome DEF Outcome
<1>5. Good(P, d) /\ d.role = role /\ SameMarks(c, d)
  BY <1>1, <1>2, <1>3, <1>4 DEF Good, SameMarks
<1> QED BY <1>5 DEF d

\* The receiver of m sees it on the pair q.
Arrives(m, q) == q = <<HostOf[m.dst], Seen[<<m.src, m.dst>>]>> /\ HostOf[q[1]] = q[1]

LEMMA OnRequestGood ==
  ASSUME NEW P \in SUBSET Pairs, NEW c, Good(P, c), NEW a, NEW m, NEW q \in P, Arrives(m, q),
         m.uc \in BOOLEAN, NEW role \in Roles, role = RoleOnRequest(c, a, m.role),
         NEW s, s = OnRequest(c, a, m)
  PROVE  /\ Good(P, s.cl) /\ s.cl.role = role
         /\ Allowed(c, s.cl, q, m.uc /\ role = "Controlled")
<1> DEFINE c0 == [c EXCEPT !.role = role]
           c1 == Trigger(c0, q)
           c2 == NominateOnRequest(c1, q, m.uc)
           d == ConcludeProcessing(c2, FALSE)
<1>2. s.cl = d
  <2>1. role # "error"
    BY DEF Roles
  <2> QED BY <2>1 DEF OnRequest, Arrives
<1>3. Good(P, c0) /\ c0.role = role /\ SameMarks(c, c0)
  BY RoleGood
<1> HIDE DEF c0
<1>4. Good(P, c1) /\ Kept(c0, c1)
  BY <1>3, TriggerGood
<1>5. c1.role = role
  BY <1>3, <1>4 DEF Kept
<1> HIDE DEF c1
<1>6. Good(P, c2) /\ c2.role = c1.role /\ Allowed(c1, c2, q, m.uc /\ c1.role = "Controlled")
  BY <1>4, NominateOnRequestGood DEF Arrives
<1> HIDE DEF c2
<1>7. Good(P, d) /\ Kept(c2, d)
  BY <1>6, ConcludeProcessingGood
<1> HIDE DEF d
<1>8. d.role = role
  BY <1>5, <1>6, <1>7 DEF Kept
<1>9. Allowed(c, d, q, m.uc /\ role = "Controlled")
  <2>1. PICK V \in SUBSET {Valid(q)}, Q \in SUBSET {q} :
          Follows(c1, c2, V, Q) /\ ((m.uc /\ role = "Controlled") \/ (V = {} /\ Q = {}))
    BY <1>5, <1>6 DEF Allowed
  <2>2. Follows(c0, d, V, Q)
    BY <1>4, <1>7, <2>1, FollowsKept
  <2>3. Follows(c, d, V, Q)
    BY <1>3, <2>2 DEF Follows, SameMarks
  <2> QED BY <2>1, <2>3 DEF Allowed
<1> QED BY <1>2, <1>7, <1>8, <1>9

LEMMA SucceedGood ==
  ASSUME NEW P \in SUBSET Pairs, NEW c, Good(P, c), NEW p \in P, Returned(p)
  PROVE  LET d == Succeed(c, p)
         IN  Good(P, d) /\ d.role = c.role /\ SameMarks(c, d)
<1> DEFINE thawed == {q \in c.chk \ {p} :
             c.st[q] = "Frozen" /\ Foundation(q) = Foundation(p)}
           After(q) == CASE q = p -> "Succeeded"
                         [] q \in thawed -> "Waiting"
                         [] q = Valid(p) /\ q # p /\ c.st[q] = "None" -> "Frozen"
                         [] OTHER -> c.st[q]
           st == [q \in Pairs |-> After(q)]
           d == [c EXCEPT !.valid = c.valid \cup {p}, !.st = st]
<1>0. c \in Lists(P) /\ Attempts(c) /\ Outcome(c) /\ p \in Pairs
  BY DEF Good
<1>1. Succeed(c, p) = d
  BY DEF Succeed
<1>2. ASSUME NEW q \in Pairs
      PROVE  /\ st[q] = After(q) /\ After(q) \in {"Succeeded", "Waiting", "Frozen", c.st[q]}
             /\ After(q) = "Succeeded" => q = p \/ c.st[q] = "Succeeded"
             /\ After(q) = "InProgress" => c.st[q] = "InProgress"
  <2>1. st[q] = After(q)
    OBVIOUS
  <2>2. CASE q = p
    <3>1. After(q) = "Succeeded"
      BY <2>2
    <3> HIDE DEF After, st
    <3> QED BY <2>1, <2>2, <3>1
  <2>3. CASE q # p /\ q \in thawed
    <3>1. After(q) = "Waiting"
      BY <2>3
    <3> HIDE DEF After, st
    <3> QED BY <2>1, <2>3, <3>1
  <2>4. CASE q # p /\ q \notin thawed /\ q = Valid(p) /\ c.st[q] = "None"
    <3>1. After(q) = "Frozen"
      BY <2>4
    <3> HIDE DEF After, st
    <3> QED BY <2>1, <2>4, <3>1
  <2>5. CASE q # p /\ q \notin thawed /\ ~ (q = Valid(p) /\ c.st[q] = "None")
    <3>1. After(q) = c.st[q]
      BY <2>5
    <3> HIDE DEF After, st
    <3> QED BY <2>1, <2>5, <3>1
  <2> QED BY <2>2, <2>3, <2>4, <2>5
<1>3. \A q \in Pairs : After(q) \in PairStates
  <2>1. \A q \in Pairs : c.st[q] \in PairStates
    BY <1>0 DEF Lists
  <2> HIDE DEF After, st
  <2> QED BY <1>2, <2>1 DEF PairStates
<1>4. st \in [Pairs -> PairStates]
  <2> HIDE DEF After
  <2> QED BY <1>3
<1> HIDE DEF st, After
<1>5. d \in Lists(P)
  BY <1>0, <1>4 DEF Lists
<1>6. /\ d.st = st /\ d.rtx = c.rtx /\ d.tr = c.tr /\ d.canceled = c.canceled
      /\ d.valid = c.valid \cup {p} /\ d.nominated = c.nominated /\ d.local = c.local
      /\ d.state = c.state /\ d.selected = c.selected /\ d.uc = c.uc
      /\ d.role = c.role /\ d.pending = c.pending
  BY <1>0 DEF Lists
<1> HIDE DEF d
<1>7. Attempts(d)
  <2>1. ASSUME NEW q \in Pairs PROVE Tried(d, q)
    <3>1. Tried(c, q)
      BY <1>0 DEF Attempts
    <3>2. d.st[q] = "Succeeded" => q \in d.valid
      BY <1>2, <1>6, <3>1 DEF Tried
    <3>3. d.st[q] = "InProgress" => c.st[q] = "InProgress"
      BY <1>2, <1>6
    <3> QED BY <1>6, <3>1, <3>2, <3>3 DEF Tried
  <2> QED BY <2>1 DEF Attempts
<1>8. Outcome(d)
  <2>1. Nominated(c) \subseteq Nominated(d) /\ Components(d) = Components(c)
    BY <1>6 DEF Nominated, Components
  <2>2. c.state = "Completed" => Concluded(d)
    BY <1>0, <1>6, <2>1 DEF Outcome, Concluded
  <2> QED BY <1>0, <1>6, <2>2 DEF Outcome
<1> QED BY <1>1, <1>5, <1>6, <1>7, <1>8 DEF Good, SameMarks

\* What the response to a check of p may do: nominate what it validates only if on.
Answered(c, d, p, on) ==
  \E V \in SUBSET {Valid(p)} : Follows(c, d, V, {}) /\ (on \/ V = {})

\* The nomination of p was decided here, or asked for by the peer.
Awaited(c, p) ==
  \/ c.role = "Controlling" /\ p \in c.uc
  \/ c.role = "Controlled" /\ p \in c.pending

LEMMA NominateOnResponseGood ==
  ASSUME NEW P \in SUBSET Pairs, NEW c, Good(P, c), NEW p \in P, Returned(p)
  PROVE  LET d == NominateOnResponse(c, p)
         IN  Good(P, d) /\ d.role = c.role /\ Answered(c, d, p, Awaited(c, p))
<1> DEFINE d == NominateOnResponse(c, p)
<1>0. c \in Lists(P) /\ c.role \in Roles /\ Valid(p) \in Pairs
  BY NetworkAssumption DEF Good, Lists, Returned
<1>1. PICK n \in SUBSET Pairs, f \in SUBSET Pairs, q \in SUBSET P :
        /\ n = c.nominated \cup {Valid(p)} /\ f = c.failing \ {Valid(p)}
        /\ q = c.pending \ {p}
  BY <1>0 DEF Lists
<1>2. PICK f0 \in SUBSET Pairs, q0 \in SUBSET P : f0 = c.failing /\ q0 = c.pending
  BY <1>0 DEF Lists
<1> DEFINE x == Marked(c, n, q0, f)
           y == Marked(c, n, q, f0)
<1>3. \/ d = c
      \/ Awaited(c, p) /\ d = x
      \/ Awaited(c, p) /\ d = y
  <2>1. CASE c.role = "Controlling" /\ p \in c.uc
    <3>1. d = [c EXCEPT !.failing = f, !.nominated = n]
      BY <1>1, <2>1 DEF NominateOnResponse
    <3>2. [c EXCEPT !.failing = f, !.nominated = n] = x
      BY <1>0, <1>2 DEF Marked, Lists
    <3> HIDE DEF d, x
    <3> QED BY <2>1, <3>1, <3>2 DEF Awaited
  <2>2. CASE c.role = "Controlled" /\ p \in c.pending
    <3>1. d = [c EXCEPT !.nominated = n, !.pending = q]
      BY <1>1, <2>2 DEF NominateOnResponse
    <3>2. [c EXCEPT !.nominated = n, !.pending = q] = y
      BY <1>0, <1>2 DEF Marked, Lists
    <3> HIDE DEF d, y
    <3> QED BY <2>2, <3>1, <3>2 DEF Awaited
  <2>3. CASE ~ Awaited(c, p)
    BY <2>3 DEF NominateOnResponse, Awaited
  <2> QED BY <2>1, <2>2, <2>3 DEF Awaited
<1>4. PICK V, Q : V = {Valid(p)} /\ Q = {}
  OBVIOUS
<1>5. Widens(P, c, n, q0, f, V, Q) /\ Widens(P, c, n, q, f0, V, Q)
  BY <1>1, <1>2, <1>4 DEF Widens
<1>6. Good(P, x) /\ Follows(c, x, V, Q) /\ x.role = c.role
  BY <1>5, MarkedGood
<1>7. Good(P, y) /\ Follows(c, y, V, Q) /\ y.role = c.role
  BY <1>5, MarkedGood
<1> HIDE DEF d, x, y
<1>8. ASSUME NEW z, Follows(c, z, V, Q), Awaited(c, p)
      PROVE  Answered(c, z, p, Awaited(c, p))
  BY <1>4, <1>8 DEF Answered
<1>9. Answered(c, c, p, Awaited(c, p))
  BY DEF Answered, Follows
<1>10. Good(P, d) /\ d.role = c.role /\ Answered(c, d, p, Awaited(c, p))
  BY <1>3, <1>6, <1>7, <1>8, <1>9
<1> QED BY <1>10 DEF d

LEMMA OnResponseGood ==
  ASSUME NEW P \in SUBSET Pairs, NEW c, Good(P, c), NEW a, NEW m, NEW p \in P,
         p = m.id[2], p \in Reach, m.src = HostOf[p[2]], m.dst = Seen[p],
         NEW s, s = OnResponse(c, a, m)
  PROVE  Good(P, s.cl) /\ s.cl.role = c.role /\ Answered(c, s.cl, p, Awaited(c, p))
<1> DEFINE way == <<HostOf[m.dst], Seen[<<m.src, m.dst>>]>>
           failed == [c EXCEPT !.st[p] = "Failed"]
           c1 == Succeed(c, p)
           c2 == NominateOnResponse(c1, p)
           d == ConcludeProcessing(c2, FALSE)
<1>0. c \in Lists(P) /\ p \in Pairs
  BY DEF Good
<1>1. s.cl = IF way # p THEN failed ELSE d
  BY DEF OnResponse
<1>2. Good(P, failed) /\ failed.role = c.role /\ Answered(c, failed, p, Awaited(c, p))
  <2>1. PICK st : st = [c.st EXCEPT ![p] = "Failed"]
    OBVIOUS
  <2>2. PICK queue \in Seq(P), chk \in SUBSET P : queue = c.queue /\ chk = c.chk
    BY <1>0 DEF Lists
  <2>3. failed = With(c, st, queue, chk)
    BY <1>0, <2>1, <2>2 DEF With, Lists
  <2>4. /\ st \in [Pairs -> PairStates]
        /\ \A q \in Pairs : st[q] \in {"InProgress", "Succeeded"} => st[q] = c.st[q]
    <3>1. c.st \in [Pairs -> PairStates] /\ "Failed" \in PairStates
      BY <1>0 DEF Lists, PairStates
    <3> QED BY <2>1, <3>1
  <2> HIDE DEF failed
  <2>5. Good(P, failed) /\ Kept(c, failed)
    BY <2>3, <2>4, FieldsGood
  <2>6. failed.role = c.role /\ Follows(c, failed, {}, {})
    BY <2>5 DEF Kept, Follows
  <2> QED BY <2>5, <2>6 DEF Answered
<1>3. ASSUME way = p PROVE Good(P, d) /\ d.role = c.role /\ Answered(c, d, p, Awaited(c, p))
  <2>1. Returned(p)
    <3>1. HostOf[Seen[p]] = p[1] /\ Seen[<<HostOf[p[2]], Seen[p]>>] = p[2]
      BY <1>3
    <3> QED BY <3>1 DEF Returned
  <2>2. Good(P, c1) /\ c1.role = c.role /\ SameMarks(c, c1)
    BY <2>1, SucceedGood
  <2>3. Awaited(c1, p) <=> Awaited(c, p)
    BY <2>2 DEF Awaited, SameMarks
  <2> HIDE DEF c1
  <2>4. Good(P, c2) /\ c2.role = c1.role /\ Answered(c1, c2, p, Awaited(c1, p))
    BY <2>1, <2>2, NominateOnResponseGood
  <2> HIDE DEF c2
  <2>5. Good(P, d) /\ Kept(c2, d)
    BY <2>4, ConcludeProcessingGood
  <2> HIDE DEF d
  <2>6. PICK V \in SUBSET {Valid(p)} : Follows(c1, c2, V, {}) /\ (Awaited(c, p) \/ V = {})
    BY <2>3, <2>4 DEF Answered
  <2>7. Follows(c1, d, V, {})
    BY <2>5, <2>6, KeptSelf, FollowsKept
  <2>8. Follows(c, d, V, {})
    BY <2>2, <2>7 DEF Follows, SameMarks
  <2>9. d.role = c.role
    BY <2>2, <2>4, <2>5 DEF Kept
  <2> QED BY <2>5, <2>6, <2>8, <2>9 DEF Answered
<1> QED BY <1>1, <1>2, <1>3

-----------------------------------------------------------------------------
(* Both agents: a step of one of them, seen as a change of its check list  *)
(* to d and the messages out that it sends.                                *)

\* The messages are requests in the role of d, responses or errors.
Posted(out, a, d) ==
  \A m \in out :
    \/ RequestOf(m, a, OwnPairs(a), d.uc) /\ m.role = d.role
    \/ \E x \in Agents : ResponseTo(m, x, OwnPairs(x))
    \/ m.type = "error" /\ m.id = NoId

\* What is nominated is in use: at the peer unless the agent is controlling.
Justified(a, d, V, Q) ==
  /\ \A v \in V : \/ FromPeer(a, v)
                  \/ d.role = "Controlling" /\ \E g \in cl[a].uc : Valid(g) = v
  /\ \A p \in Q : FromPeer(a, Valid(p))

\* A role changes only to settle a conflict.
Settles(a, d) ==
  \/ d.role = cl[a].role
  \/ /\ cl[a].role = cl[Peer(a)].role /\ d.role # cl[a].role
     /\ d.role = "Controlling" <=> a = Winner

\* While the conflict of two controlling agents lasts, no response is sent and only
\* the winner may nominate.
Quiet(a, d, V, out) ==
  d.role = "Controlling" /\ cl[Peer(a)].role = "Controlling" =>
    (V = {} \/ a = Winner) /\ \A m \in out : m.type # "response"

\* The step of the agent a.
Takes(a, d, out, V, Q) ==
  /\ cl' = [cl EXCEPT ![a] = d] /\ net' = net \cup out
  /\ checks' \in [Agents -> Nat] /\ timeouts' \in [Agents -> Nat]
  /\ Good(OwnPairs(a), d) /\ Follows(cl[a], d, V, Q)
  /\ Posted(out, a, d) /\ Justified(a, d, V, Q) /\ Settles(a, d) /\ Quiet(a, d, V, out)

LEMMA StepLists ==
  ASSUME ListInv, NEW a \in Agents, NEW d, NEW out, NEW V, NEW Q, Takes(a, d, out, V, Q)
  PROVE  /\ cl'[a] = d /\ cl'[Peer(a)] = cl[Peer(a)]
         /\ \A x \in Agents : /\ cl'[x].local = cl[x].local /\ cl[x].uc \subseteq cl'[x].uc
                              /\ OwnPairs(x)' = OwnPairs(x)
         /\ ListInv'
<1> DEFINE b == Peer(a)
<1>0. /\ cl' = [cl EXCEPT ![a] = d] /\ checks' \in [Agents -> Nat]
      /\ timeouts' \in [Agents -> Nat] /\ Good(OwnPairs(a), d) /\ Follows(cl[a], d, V, Q)
  BY DEF Takes
<1>1. b \in Agents /\ b # a /\ Peer(b) = a /\ \A x \in Agents : x = a \/ x = b
  BY Peers
<1>2. DOMAIN cl = Agents
  BY DEF ListInv
<1>3. cl'[a] = d /\ cl'[b] = cl[b]
  BY <1>0, <1>1, <1>2
<1>4. DOMAIN cl' = Agents /\ cl' = [x \in Agents |-> cl'[x]]
  BY <1>0, <1>2
<1> HIDE DEF b
<1>5. ASSUME NEW x \in Agents PROVE cl'[x].local = cl[x].local /\ cl[x].uc \subseteq cl'[x].uc
  BY <1>0, <1>1, <1>3 DEF Follows
<1>6. ASSUME NEW x \in Agents PROVE OwnPairs(x)' = OwnPairs(x)
  BY <1>5, Peers DEF OwnPairs
<1>7. ASSUME NEW x \in Agents PROVE Good(OwnPairs(x)', cl'[x])
  <2>1. Good(OwnPairs(x), cl'[x])
    BY <1>0, <1>1, <1>3 DEF ListInv
  <2> QED BY <1>6, <2>1
<1>8. ASSUME NEW x \in Agents
      PROVE  /\ cl'[x].local \cap cl'[Peer(x)].local = {}
             /\ Components(cl'[x]) = Components(cl'[Peer(x)])
  BY <1>5, Peers DEF ListInv, Components
<1>9. cl' \in [Agents -> {cl'[x] : x \in Agents}]
  BY <1>4
<1>10. ListInv'
  BY <1>0, <1>7, <1>8, <1>9 DEF ListInv
<1> QED BY <1>1, <1>3, <1>5, <1>6, <1>10 DEF b

LEMMA StepNet ==
  ASSUME ListInv, NetInv, NEW a \in Agents, NEW d, NEW out, NEW V, NEW Q,
         Takes(a, d, out, V, Q)
  PROVE  NetInv'
<1>1. /\ cl'[a] = d
      /\ \A x \in Agents : cl[x].uc \subseteq cl'[x].uc /\ OwnPairs(x)' = OwnPairs(x)
  BY StepLists
<1>2. net' = net \cup out /\ Posted(out, a, d)
  BY DEF Takes
<1>3. ASSUME NEW m, NEW x \in Agents, RequestOf(m, x, OwnPairs(x), cl[x].uc)
      PROVE  RequestOf(m, x, OwnPairs(x)', cl'[x].uc)
  BY <1>1, <1>3 DEF RequestOf
<1>4. ASSUME NEW m, NEW x \in Agents, ResponseTo(m, x, OwnPairs(x))
      PROVE  ResponseTo(m, x, OwnPairs(x)')
  BY <1>1, <1>4
<1>5. ASSUME NEW m, RequestOf(m, a, OwnPairs(a), d.uc)
      PROVE  RequestOf(m, a, OwnPairs(a)', cl'[a].uc)
  BY <1>1, <1>5
<1>6. ASSUME NEW m \in net \cup out
      PROVE  \/ \E x \in Agents : RequestOf(m, x, OwnPairs(x)', cl'[x].uc)
             \/ \E x \in Agents : ResponseTo(m, x, OwnPairs(x)')
             \/ m.type = "error" /\ m.id = NoId
  <2>1. CASE m \in net
    BY <1>3, <1>4, <2>1 DEF NetInv
  <2>2. CASE m \in out
    BY <1>2, <1>4, <1>5, <2>2 DEF Posted
  <2> QED BY <2>1, <2>2
<1> QED BY <1>2, <1>6 DEF NetInv

LEMMA StepOrigin ==
  ASSUME ListInv, OriginInv, NEW a \in Agents, NEW d, NEW out, NEW V, NEW Q,
         Takes(a, d, out, V, Q)
  PROVE  /\ \A x \in Agents : \A v : FromPeer(x, v) => FromPeer(x, v)'
         /\ OriginInv'
<1>1. /\ cl'[a] = d /\ cl'[Peer(a)] = cl[Peer(a)]
      /\ \A x \in Agents : cl[x].uc \subseteq cl'[x].uc
  BY StepLists
<1>2. Follows(cl[a], d, V, Q) /\ Justified(a, d, V, Q)
  BY DEF Takes
<1>3. ASSUME NEW x \in Agents, NEW v, FromPeer(x, v) PROVE FromPeer(x, v)'
  BY <1>1, <1>3, Peers DEF FromPeer
<1>4. ASSUME NEW x \in Agents, NEW v, \E g \in cl[x].uc : Valid(g) = v
      PROVE  \E g \in cl'[x].uc : Valid(g) = v
  BY <1>1, <1>4
<1>5. ASSUME NEW v \in cl'[a].nominated
      PROVE  FromPeer(a, v)' \/ \E g \in cl'[a].uc : Valid(g) = v
  <2>1. v \in cl[a].nominated \/ v \in V
    BY <1>1, <1>2 DEF Follows
  <2>2. FromPeer(a, v) \/ \E g \in cl[a].uc : Valid(g) = v
    BY <1>2, <2>1 DEF Justified, OriginInv
  <2> QED BY <1>3, <1>4, <2>2
<1>6. ASSUME NEW p \in cl'[a].pending PROVE FromPeer(a, Valid(p))'
  <2>1. p \in cl[a].pending \/ p \in Q
    BY <1>1, <1>2 DEF Follows
  <2>2. FromPeer(a, Valid(p))
    BY <1>2, <2>1 DEF Justified, OriginInv
  <2> QED BY <1>3, <2>2
<1> DEFINE b == Peer(a)
<1>7. b \in Agents /\ cl'[b] = cl[b] /\ \A x \in Agents : x = a \/ x = b
  BY <1>1, Peers
<1> HIDE DEF b
<1>8. ASSUME NEW v \in cl'[b].nominated
      PROVE  FromPeer(b, v)' \/ \E g \in cl'[b].uc : Valid(g) = v
  <2>1. FromPeer(b, v) \/ \E g \in cl[b].uc : Valid(g) = v
    BY <1>7 DEF OriginInv
  <2> QED BY <1>3, <1>4, <1>7, <2>1
<1>9. ASSUME NEW p \in cl'[b].pending PROVE FromPeer(b, Valid(p))'
  <2>1. FromPeer(b, Valid(p))
    BY <1>7 DEF OriginInv
  <2> QED BY <1>3, <1>7, <2>1
<1>10. OriginInv'
  BY <1>5, <1>6, <1>7, <1>8, <1>9 DEF OriginInv
<1> QED BY <1>3, <1>10

\* The conflict is settled: the winner of the tie-break is controlling.
Settled == cl[Winner].role = "Controlling" /\ cl[Peer(Winner)].role = "Controlled"

\* A step leaves the roles alone, or settles the conflict.
LEMMA StepRoles ==
  ASSUME IceInv, NEW a \in Agents, NEW d, NEW out, NEW V, NEW Q, Takes(a, d, out, V, Q)
  PROVE  /\ \/ \A x \in Agents : cl'[x].role = cl[x].role
            \/ Settled' /\ cl[a].role = cl[Peer(a)].role
         /\ RoleInv'
<1>1. cl'[a] = d /\ cl'[Peer(a)] = cl[Peer(a)] /\ Good(OwnPairs(a), d)
  BY StepLists DEF IceInv, Takes
<1>2. Settles(a, d) /\ Posted(out, a, d) /\ net' = net \cup out
  BY DEF Takes
<1>3. \A x \in Agents : cl[x].role \in {"Controlling", "Controlled"}
  BY DEF IceInv, ListInv, Good, Lists, Roles
<1>4. d.role \in {"Controlling", "Controlled"}
  BY <1>1 DEF Good, Lists, Roles
<1>5. /\ Peer(a) \in Agents /\ Peer(Peer(a)) = a /\ Peer(a) # a
      /\ \A x \in Agents : x = a \/ x = Peer(a)
  BY Peers
<1>6. CASE d.role = cl[a].role
  <2>1. \A x \in Agents : cl'[x].role = cl[x].role
    BY <1>1, <1>5, <1>6
  <2>2. Winner \in Agents /\ Peer(Winner) \in Agents
    BY WinnerFact, Peers
  <2>3. ASSUME NEW m \in net', m.type = "request", m.role # cl'[m.id[1]].role PROVE Settled'
    <3>1. CASE m \in net
      <4>1. m.id[1] \in Agents
        BY <2>3, <3>1 DEF IceInv, NetInv, RequestOf, ResponseTo
      <4>2. Settled
        BY <2>1, <2>3, <3>1, <4>1 DEF IceInv, RoleInv, Settled
      <4> QED BY <2>1, <2>2, <4>2 DEF Settled
    <3>2. CASE m \in out
      <4>1. m.role = d.role /\ m.id[1] = a
        BY <1>2, <2>3, <3>2 DEF Posted, RequestOf, ResponseTo
      <4> QED BY <1>1, <2>3, <4>1
    <3> QED BY <1>2, <2>3, <3>1, <3>2
  <2> QED BY <2>1, <2>3 DEF RoleInv, Settled
<1>7. CASE d.role # cl[a].role
  <2>1. cl[a].role = cl[Peer(a)].role /\ (d.role = "Controlling" <=> a = Winner)
    BY <1>2, <1>7 DEF Settles
  <2>2. Settled'
    <3>1. CASE a = Winner
      BY <1>1, <1>3, <1>5, <1>7, <2>1, <3>1 DEF Settled
    <3>2. CASE a # Winner
      <4>1. Peer(a) = Winner /\ Peer(Winner) = a
        BY <1>5, <3>2, WinnerFact
      <4>2. d.role = "Controlled" /\ cl[Peer(a)].role = "Controlling"
        BY <1>3, <1>4, <1>7, <2>1, <3>2
      <4> QED BY <1>1, <4>1, <4>2 DEF Settled
    <3> QED BY <3>1, <3>2
  <2> QED BY <2>1, <2>2 DEF RoleInv, Settled
<1> QED BY <1>6, <1>7

LEMMA StepConflict ==
  ASSUME IceInv, NEW a \in Agents, NEW d, NEW out, NEW V, NEW Q, Takes(a, d, out, V, Q)
  PROVE  ConflictInv'
<1> SUFFICES ASSUME \A x \in Agents : cl'[x].role = "Controlling"
             PROVE  /\ cl'[Peer(Winner)].nominated = {}
                    /\ \A m \in net' : m.type = "response" => m.id[1] = Winner
  BY DEF ConflictInv
<1>1. cl'[a] = d /\ cl'[Peer(a)] = cl[Peer(a)] /\ Follows(cl[a], d, V, Q)
  BY StepLists DEF IceInv, Takes
<1>2. Winner \in Agents /\ Peer(Winner) \in Agents /\ Peer(a) \in Agents
  BY WinnerFact, Peers
<1>3. \A x \in Agents : cl[x].role = "Controlling"
  <2>1. ~ Settled'
    BY <1>2 DEF Settled
  <2> QED BY <2>1, StepRoles
<1>4. /\ cl[Peer(Winner)].nominated = {}
      /\ \A m \in net : m.type = "response" => m.id[1] = Winner
  BY <1>3 DEF IceInv, ConflictInv
<1>5. (V = {} \/ a = Winner) /\ \A m \in out : m.type # "response"
  BY <1>1, <1>2, <1>3 DEF Takes, Quiet
<1>6. cl'[Peer(Winner)].nominated = {}
  <2>1. CASE a = Winner
    BY <1>1, <1>4, <2>1
  <2>2. CASE a # Winner
    <3>1. a = Peer(Winner) /\ V = {}
      BY <1>2, <1>5, <2>2, Peers
    <3> QED BY <1>1, <1>4, <3>1 DEF Follows
  <2> QED BY <2>1, <2>2
<1>7. \A m \in net' : m.type = "response" => m.id[1] = Winner
  BY <1>4, <1>5 DEF Takes
<1> QED BY <1>6, <1>7

LEMMA StepNominated ==
  ASSUME IceInv, NEW a \in Agents, NEW d, NEW out, NEW V, NEW Q, Takes(a, d, out, V, Q)
  PROVE  NominatedByController'
<1>1. cl'[a] = d /\ cl'[Peer(a)] = cl[Peer(a)]
  BY StepLists DEF IceInv
<1>2. Follows(cl[a], d, V, Q) /\ Justified(a, d, V, Q) /\ Settles(a, d)
  BY DEF Takes
<1>3. \A x \in Agents : \A v : FromPeer(x, v) => FromPeer(x, v)'
  BY StepOrigin DEF IceInv
<1>4. ASSUME NEW x \in Agents, cl[x].role = "Controlled", NEW v \in cl[x].nominated
      PROVE  FromPeer(x, v)
  BY <1>4 DEF IceInv, NominatedByController, FromPeer
<1>5. ASSUME d.role = "Controlled", NEW v \in d.nominated PROVE FromPeer(a, v)
  <2>1. v \in cl[a].nominated \/ v \in V
    BY <1>2 DEF Follows
  <2>2. CASE v \in V
    BY <1>2, <1>5, <2>2 DEF Justified
  <2>3. CASE v \in cl[a].nominated /\ d.role = cl[a].role
    BY <1>4, <1>5, <2>3
  <2>4. CASE d.role # cl[a].role
    <3>1. cl[a].role = cl[Peer(a)].role /\ a # Winner
      BY <1>2, <1>5, <2>4 DEF Settles
    <3>2. a = Peer(Winner) /\ \A x \in Agents : x = a \/ x = Peer(a)
      BY <3>1, WinnerFact, Peers
    <3>3. cl[a].role = "Controlling"
      BY <1>5, <2>4 DEF IceInv, ListInv, Good, Lists, Roles
    <3>4. cl[a].nominated = {}
      BY <3>1, <3>2, <3>3 DEF IceInv, ConflictInv
    <3> QED BY <2>1, <2>2, <3>4
  <2> QED BY <2>1, <2>2, <2>3, <2>4
<1>6. ASSUME NEW x \in Agents, cl'[x].role = "Controlled", NEW v \in cl'[x].nominated
      PROVE  FromPeer(x, v)'
  <2>1. CASE x = a
    BY <1>1, <1>3, <1>5, <1>6, <2>1
  <2>2. CASE x # a
    <3>1. cl'[x] = cl[x]
      BY <1>1, <2>2, Peers
    <3> QED BY <1>3, <1>4, <1>6, <3>1
  <2> QED BY <2>1, <2>2
<1> QED BY <1>6 DEF NominatedByController, FromPeer

\* What a step of an agent means for both.
LEMMA StepInv ==
  ASSUME IceInv, NEW a \in Agents, NEW d, NEW out, NEW V, NEW Q, Takes(a, d, out, V, Q)
  PROVE  /\ IceInv'
         /\ \A x, y \in Agents : cl[x].role # cl[y].role => cl'[x].role # cl'[y].role
         /\ \A x \in Agents : cl[x].state = "Completed" =>
              cl'[x].state = "Completed" /\ cl'[x].selected = cl[x].selected
<1>1. IceInv'
  BY StepLists, StepNet, StepOrigin, StepRoles, StepConflict, StepNominated DEF IceInv
<1>2. ASSUME NEW x \in Agents, NEW y \in Agents, cl[x].role # cl[y].role
      PROVE  cl'[x].role # cl'[y].role
  <2>1. cl[a].role # cl[Peer(a)].role
    BY <1>2, Peers
  <2>2. \A z \in Agents : cl'[z].role = cl[z].role
    BY <2>1, StepRoles
  <2> QED BY <1>2, <2>2
<1>3. cl'[a] = d /\ cl'[Peer(a)] = cl[Peer(a)] /\ Follows(cl[a], d, V, Q)
  BY StepLists DEF IceInv, Takes
<1>4. ASSUME NEW x \in Agents, cl[x].state = "Completed"
      PROVE  cl'[x].state = "Completed" /\ cl'[x].selected = cl[x].selected
  BY <1>3, <1>4, Peers DEF Follows
<1> QED BY <1>1, <1>2, <1>4

-----------------------------------------------------------------------------
(* The steps of the agents.                                                *)

LEMMA OwnPairsType == \A a \in Agents : OwnPairs(a) \in SUBSET Pairs
  BY DEF OwnPairs, Own

\* The transactions that a call creates are counted by a number.
LEMMA CreatedType == \A c, d : Created(c, d) \in Nat
<1> TAKE c, d
<1> DEFINE S == {p \in Pairs : d.tr[p] > c.tr[p]}
<1>1. S \in SUBSET Pairs
  OBVIOUS
<1>2. Created(c, d) = Cardinality(S)
  BY DEF Created
<1> HIDE DEF S
<1> QED BY <1>1, <1>2, FinitePairs

LEMMA ProcessTakes ==
  ASSUME IceInv, NEW a \in Agents, Process(a)
  PROVE  \E d, out : Takes(a, d, out, {}, {})
<1>1. PICK expired \in BOOLEAN, ta \in BOOLEAN, r \in Due(cl[a]) \cup {NoPair} :
        ProcessTimed(a, expired, r, ta)
  BY DEF Process
<1>2. PICK s : s = Processed(cl[a], a, expired, r, ta)
  OBVIOUS
<1>3. /\ r # NoPair => timeouts[a] > 0
      /\ Created(cl[a], s.cl) <= checks[a]
      /\ cl' = [cl EXCEPT ![a] = s.cl] /\ net' = net \cup s.out
      /\ checks' = [checks EXCEPT ![a] = @ - Created(cl[a], s.cl)]
      /\ timeouts' = IF r = NoPair THEN timeouts ELSE [timeouts EXCEPT ![a] = @ - 1]
  BY <1>1, <1>2 DEF ProcessTimed
<1>4. Good(OwnPairs(a), cl[a]) /\ checks \in [Agents -> Nat] /\ timeouts \in [Agents -> Nat]
  BY DEF IceInv, ListInv
<1>5. Issued(s, cl[a], a, OwnPairs(a))
  BY <1>2, <1>4, OwnPairsType, ProcessedIssued
<1>6. checks' \in [Agents -> Nat]
  <2>1. PICK n \in Nat : n = Created(cl[a], s.cl)
    BY CreatedType
  <2>2. checks[a] - n \in Nat
    BY <1>3, <1>4, <2>1
  <2> QED BY <1>3, <1>4, <2>1, <2>2
<1>7. timeouts' \in [Agents -> Nat]
  BY <1>3, <1>4
<1>8. Good(OwnPairs(a), s.cl) /\ Follows(cl[a], s.cl, {}, {}) /\ s.cl.role = cl[a].role
  BY <1>5 DEF Issued, Kept, Follows
<1>9. Posted(s.out, a, s.cl) /\ \A m \in s.out : m.type # "response"
  BY <1>5, <1>8 DEF Issued, Sent, Posted, RequestOf
<1>10. Justified(a, s.cl, {}, {}) /\ Settles(a, s.cl) /\ Quiet(a, s.cl, {}, s.out)
  BY <1>8, <1>9 DEF Justified, Settles, Quiet
<1>11. Takes(a, s.cl, s.out, {}, {})
  BY <1>3, <1>6, <1>7, <1>8, <1>9, <1>10 DEF Takes
<1> QED BY <1>11

\* A request is received by the peer of its sender, on a pair of its own.
LEMMA RequestReceived ==
  ASSUME IceInv, NEW a \in Agents, NEW m, HostOf[m.dst] \in cl[a].local,
         NEW x \in Agents, RequestOf(m, x, OwnPairs(x), cl[x].uc)
  PROVE  LET q == <<HostOf[m.dst], Seen[<<m.src, m.dst>>]>>
         IN  /\ x = Peer(a) /\ m.id[2] = <<m.src, m.dst>>
             /\ q \in OwnPairs(a) /\ HostOf[q[1]] = q[1]
             /\ m.uc => FromPeer(a, Valid(q))
<1>1. PICK p : p = m.id[2]
  OBVIOUS
<1>2. /\ p \in Pairs /\ p \in Reach /\ m.src = p[1] /\ m.dst = p[2]
      /\ m.uc => p \in cl[x].uc
      /\ p[1] \in cl[x].local /\ HostOf[p[2]] \in cl[Peer(x)].local /\ Comp[p[1]] = Comp[p[2]]
  BY <1>1 DEF RequestOf, OwnPairs, Own
<1>3. p = <<p[1], p[2]>> /\ p[1] \in Addrs /\ p[2] \in Addrs
  BY <1>2, IceAssumption
<1>4. x = Peer(a)
  <2>1. x # a
    BY <1>2 DEF IceInv, ListInv
  <2> QED BY <2>1, Peers
<1>5. Seen[p] \in Addrs /\ HostOf[p[2]] \in Addrs
  BY <1>2, <1>3, IceAssumption
<1>6. PICK q : q = <<HostOf[p[2]], Seen[p]>>
  OBVIOUS
<1>7. q[1] = HostOf[p[2]] /\ q[2] = Seen[p]
  BY <1>6
<1>8. /\ q \in Pairs /\ HostOf[Seen[p]] = p[1] /\ HostOf[HostOf[p[2]]] = HostOf[p[2]]
      /\ Comp[HostOf[p[2]]] = Comp[p[2]] /\ Comp[HostOf[Seen[p]]] = Comp[Seen[p]]
  BY <1>2, <1>3, <1>5, <1>6, NetworkAssumption
<1>9. q \in OwnPairs(a)
  <2>1. q[1] \in cl[a].local /\ HostOf[q[2]] \in cl[Peer(a)].local
    BY <1>2, <1>4, <1>7, <1>8
  <2>2. Comp[q[1]] = Comp[q[2]]
    BY <1>2, <1>7, <1>8
  <2> QED BY <1>8, <2>1, <2>2 DEF OwnPairs, Own
<1>10. ASSUME m.uc PROVE FromPeer(a, Valid(q))
  <2>1. p \in cl[x].uc
    BY <1>2, <1>10
  <2>2. Seen[<<HostOf[p[2]], Seen[p]>>] = p[2]
    BY <2>1 DEF IceInv, ListInv, Good, Outcome, Returned
  <2>3. Valid(q) = <<p[2], Seen[p]>>
    BY <1>6, <1>7, <2>2 DEF Valid
  <2>4. Valid(p) = Mirror(Valid(q))
    BY <2>3 DEF Valid, Mirror
  <2> QED BY <1>4, <2>1, <2>4 DEF FromPeer
<1>11. q = <<HostOf[m.dst], Seen[<<m.src, m.dst>>]>>
  BY <1>2, <1>3, <1>6
<1> QED BY <1>1, <1>2, <1>3, <1>4, <1>7, <1>8, <1>9, <1>10, <1>11

\* The role in which a request is answered.
LEMMA RequestRoles ==
  ASSUME IceInv, NEW a \in Agents, NEW m \in net, NEW x \in Agents, x = Peer(a),
         RequestOf(m, x, OwnPairs(x), cl[x].uc),
         NEW role, role = RoleOnRequest(cl[a], a, m.role), role # "error"
  PROVE  /\ role \in Roles
         /\ \/ role = cl[a].role
            \/ /\ cl[a].role = cl[x].role /\ role # cl[a].role
               /\ role = "Controlling" <=> a = Winner
         /\ ~ (role = "Controlling" /\ cl[x].role = "Controlling")
<1>1. /\ cl[a].role \in {"Controlling", "Controlled"}
      /\ cl[x].role \in {"Controlling", "Controlled"}
  BY DEF IceInv, ListInv, Good, Lists, Roles
<1>2. m.type = "request" /\ m.id[1] = x /\ m.role \in {"Controlling", "Controlled"}
  BY DEF RequestOf, Roles
<1>3. /\ Tie[a] \in Nat /\ Tie[x] \in Nat /\ Tie[a] # Tie[x] /\ a = Peer(x) /\ a # x
      /\ Tie[a] >= Tie[x] <=> a = Winner
  <2>1. Tie[a] \in Nat /\ Tie[x] \in Nat /\ Tie[a] # Tie[x] /\ a = Peer(x) /\ a # x
    BY Peers, IceAssumption
  <2>2. a = Winner \/ x = Winner
    BY WinnerFact, Peers
  <2>3. CASE a = Winner
    <3>1. Tie[a] > Tie[x]
      BY <2>3, WinnerFact
    <3> QED BY <2>1, <2>3, <3>1
  <2>4. CASE x = Winner
    <3>1. Tie[x] > Tie[a]
      BY <2>1, <2>4, WinnerFact
    <3>2. ~ (Tie[a] >= Tie[x]) /\ a # Winner
      BY <2>1, <2>4, <3>1
    <3> QED BY <2>1, <3>2
  <2> QED BY <2>2, <2>3, <2>4
<1>4. role = IF cl[a].role # m.role THEN cl[a].role
             ELSE IF cl[a].role = "Controlling"
             THEN IF a = Winner THEN "error" ELSE "Controlled"
             ELSE IF a = Winner THEN "Controlling" ELSE "error"
  BY <1>3 DEF RoleOnRequest
<1>5. ASSUME m.role # cl[x].role
      PROVE  IF a = Winner THEN cl[a].role = "Controlling" /\ cl[x].role = "Controlled"
             ELSE cl[x].role = "Controlling" /\ cl[a].role = "Controlled"
  <2>1. cl[Winner].role = "Controlling" /\ cl[Peer(Winner)].role = "Controlled"
    BY <1>2, <1>5 DEF IceInv, RoleInv
  <2>2. a # Winner => x = Winner /\ Peer(Winner) = a
    BY <1>3, WinnerFact, Peers
  <2> QED BY <2>1, <2>2
<1> QED BY <1>1, <1>2, <1>4, <1>5 DEF Roles

LEMMA RequestTakes ==
  ASSUME IceInv, NEW a \in Agents, NEW m \in net, Receive(a, m),
         NEW x \in Agents, RequestOf(m, x, OwnPairs(x), cl[x].uc)
  PROVE  \E d, out, V, Q : Takes(a, d, out, V, Q)
<1>1. PICK q, p : q = <<HostOf[m.dst], Seen[<<m.src, m.dst>>]>> /\ p = m.id[2]
  OBVIOUS
<1>2. m.type = "request" /\ m.uc \in BOOLEAN /\ HostOf[m.dst] \in cl[a].local
  BY DEF RequestOf, Receive
<1>3. /\ x = Peer(a) /\ p = <<m.src, m.dst>> /\ q \in OwnPairs(a) /\ HostOf[q[1]] = q[1]
      /\ m.uc => FromPeer(a, Valid(q))
  BY <1>1, <1>2, RequestReceived
<1>4. PICK role : role = RoleOnRequest(cl[a], a, m.role)
  OBVIOUS
<1>5. PICK s : s = OnRequest(cl[a], a, m)
  OBVIOUS
<1>6. /\ cl' = [cl EXCEPT ![a] = s.cl] /\ net' = net \cup s.out
      /\ checks' = checks /\ timeouts' = timeouts
  <2>1. Handled(cl[a], a, m) = s
    BY <1>2, <1>5 DEF Handled
  <2> QED BY <2>1 DEF Receive
<1>7. /\ Good(OwnPairs(a), cl[a]) /\ OwnPairs(a) \in SUBSET Pairs
      /\ checks \in [Agents -> Nat] /\ timeouts \in [Agents -> Nat]
  BY OwnPairsType DEF IceInv, ListInv
<1>8. CASE role = "error"
  <2>1. PICK e : e = Message("error", q[1], q[2], NoId, FALSE, "none")
    OBVIOUS
  <2>2. s.cl = cl[a] /\ s.out = Send(e)
    BY <1>1, <1>4, <1>5, <1>8, <2>1 DEF OnRequest, ErrorId
  <2>3. \A n \in s.out : n.type = "error" /\ n.id = NoId
    BY <2>1, <2>2 DEF Send, Message
  <2>4. Follows(cl[a], s.cl, {}, {}) /\ Posted(s.out, a, s.cl)
    BY <2>2, <2>3 DEF Follows, Posted
  <2>5. Justified(a, s.cl, {}, {}) /\ Settles(a, s.cl) /\ Quiet(a, s.cl, {}, s.out)
    BY <2>2, <2>3 DEF Justified, Settles, Quiet
  <2>6. Takes(a, s.cl, s.out, {}, {})
    BY <1>6, <1>7, <2>2, <2>4, <2>5 DEF Takes
  <2> QED BY <2>6
<1>9. CASE role # "error"
  <2>1. /\ role \in Roles
        /\ \/ role = cl[a].role
           \/ /\ cl[a].role = cl[x].role /\ role # cl[a].role
              /\ role = "Controlling" <=> a = Winner
        /\ ~ (role = "Controlling" /\ cl[x].role = "Controlling")
    BY <1>3, <1>4, <1>9, RequestRoles
  <2>2. PICK P, c : P = OwnPairs(a) /\ c = cl[a]
    OBVIOUS
  <2>3. /\ Good(OwnPairs(a), s.cl) /\ s.cl.role = role
        /\ Allowed(cl[a], s.cl, q, m.uc /\ role = "Controlled")
    <3>1. /\ P \in SUBSET Pairs /\ Good(P, c) /\ q \in P /\ Arrives(m, q)
          /\ role = RoleOnRequest(c, a, m.role) /\ s = OnRequest(c, a, m)
      BY <1>1, <1>3, <1>4, <1>5, <1>7, <2>2 DEF Arrives
    <3>2. Good(P, s.cl) /\ s.cl.role = role /\ Allowed(c, s.cl, q, m.uc /\ role = "Controlled")
      BY <1>2, <2>1, <3>1, OnRequestGood
    <3> QED BY <2>2, <3>2
  <2>4. PICK V \in SUBSET {Valid(q)}, Q \in SUBSET {q} :
          /\ Follows(cl[a], s.cl, V, Q)
          /\ (m.uc /\ role = "Controlled") \/ (V = {} /\ Q = {})
    BY <2>3 DEF Allowed
  <2>5. PICK e : e = Message("response", q[1], q[2], m.id, FALSE, "none")
    OBVIOUS
  <2>6. s.out = Send(e)
    BY <1>1, <1>4, <1>5, <1>9, <2>5 DEF OnRequest
  <2>7. ResponseTo(e, x, OwnPairs(x))
    <3>1. /\ e.type = "response" /\ e.id = m.id /\ e.src = q[1] /\ e.dst = q[2]
      BY <2>5 DEF Message
    <3>2. q[1] = HostOf[p[2]] /\ q[2] = Seen[p]
      BY <1>1, <1>3
    <3> QED BY <1>1, <3>1, <3>2 DEF RequestOf, ResponseTo
  <2>8. Posted(s.out, a, s.cl)
    BY <2>6, <2>7 DEF Posted, Send
  <2>9. Justified(a, s.cl, V, Q)
    BY <1>3, <2>4 DEF Justified
  <2>10. Settles(a, s.cl) /\ Quiet(a, s.cl, V, s.out)
    BY <1>3, <2>1, <2>3 DEF Settles, Quiet
  <2>11. Takes(a, s.cl, s.out, V, Q)
    BY <1>6, <1>7, <2>3, <2>4, <2>8, <2>9, <2>10 DEF Takes
  <2> QED BY <2>11
<1> QED BY <1>8, <1>9

LEMMA ResponseTakes ==
  ASSUME IceInv, NEW a \in Agents, NEW m \in net, Receive(a, m),
         NEW x \in Agents, ResponseTo(m, x, OwnPairs(x))
  PROVE  \E d, out, V, Q : Takes(a, d, out, V, Q)
<1>1. PICK p : p = m.id[2]
  OBVIOUS
<1>2. /\ m.type = "response" /\ m.id[1] = x /\ p \in OwnPairs(x) /\ p \in Reach
      /\ m.src = HostOf[p[2]] /\ m.dst = Seen[p] /\ HostOf[m.dst] \in cl[a].local
  BY <1>1 DEF ResponseTo, Receive
<1>3. x = a
  <2>1. HostOf[m.dst] = p[1] /\ p[1] \in cl[x].local
    BY <1>2, NetworkAssumption DEF OwnPairs, Own
  <2>2. x # Peer(a)
    BY <1>2, <2>1 DEF IceInv, ListInv
  <2> QED BY <2>2, Peers
<1>4. PICK s : s = OnResponse(cl[a], a, m)
  OBVIOUS
<1>5. /\ cl' = [cl EXCEPT ![a] = s.cl] /\ net' = net \cup s.out
      /\ checks' = checks /\ timeouts' = timeouts
  <2>1. Handled(cl[a], a, m) = s
    BY <1>2, <1>4 DEF Handled
  <2> QED BY <2>1 DEF Receive
<1>6. /\ Good(OwnPairs(a), cl[a]) /\ OwnPairs(a) \in SUBSET Pairs
      /\ checks \in [Agents -> Nat] /\ timeouts \in [Agents -> Nat]
  BY OwnPairsType DEF IceInv, ListInv
<1>7. s.out = {}
  BY <1>4 DEF OnResponse
<1>8. /\ Good(OwnPairs(a), s.cl) /\ s.cl.role = cl[a].role
      /\ Answered(cl[a], s.cl, p, Awaited(cl[a], p))
  <2>1. PICK P, c : P = OwnPairs(a) /\ c = cl[a]
    OBVIOUS
  <2>2. /\ P \in SUBSET Pairs /\ Good(P, c) /\ p \in P /\ p \in Reach /\ p = m.id[2]
        /\ m.src = HostOf[p[2]] /\ m.dst = Seen[p] /\ s = OnResponse(c, a, m)
    BY <1>1, <1>2, <1>3, <1>4, <1>6, <2>1
  <2>3. Good(P, s.cl) /\ s.cl.role = c.role /\ Answered(c, s.cl, p, Awaited(c, p))
    BY <2>2, OnResponseGood
  <2> QED BY <2>1, <2>3
<1>9. PICK V \in SUBSET {Valid(p)} :
        Follows(cl[a], s.cl, V, {}) /\ (Awaited(cl[a], p) \/ V = {})
  BY <1>8 DEF Answered
<1>10. Justified(a, s.cl, V, {})
  <2>1. ASSUME Awaited(cl[a], p)
        PROVE  \/ FromPeer(a, Valid(p))
               \/ s.cl.role = "Controlling" /\ \E g \in cl[a].uc : Valid(g) = Valid(p)
    BY <1>8, <2>1 DEF Awaited, IceInv, OriginInv
  <2> QED BY <1>9, <2>1 DEF Justified
<1>11. Posted(s.out, a, s.cl) /\ Settles(a, s.cl)
  BY <1>7, <1>8 DEF Posted, Settles
<1>12. Quiet(a, s.cl, V, s.out)
  <2>1. ASSUME cl[a].role = "Controlling", cl[Peer(a)].role = "Controlling" PROVE a = Winner
    <3>1. \A y \in Agents : cl[y].role = "Controlling"
      BY <2>1, Peers
    <3> QED BY <1>2, <1>3, <3>1 DEF IceInv, ConflictInv
  <2> QED BY <1>7, <1>8, <2>1 DEF Quiet
<1>13. Takes(a, s.cl, s.out, V, {})
  BY <1>5, <1>6, <1>8, <1>9, <1>10, <1>11, <1>12 DEF Takes
<1> QED BY <1>13

LEMMA ErrorTakes ==
  ASSUME IceInv, NEW a \in Agents, NEW m \in net, Receive(a, m),
         m.type = "error", m.id = NoId
  PROVE  \E d, out, V, Q : Takes(a, d, out, V, Q)
<1>1. PICK s : s = OnError(cl[a], a, m)
  OBVIOUS
<1>2. s.cl = cl[a] /\ s.out = {}
  BY <1>1 DEF OnError
<1>3. /\ cl' = [cl EXCEPT ![a] = s.cl] /\ net' = net \cup s.out
      /\ checks' = checks /\ timeouts' = timeouts
  <2>1. Handled(cl[a], a, m) = s
    BY <1>1 DEF Handled
  <2> QED BY <2>1 DEF Receive
<1>4. Follows(cl[a], s.cl, {}, {}) /\ Posted(s.out, a, s.cl)
  BY <1>2 DEF Follows, Posted
<1>5. Justified(a, s.cl, {}, {}) /\ Settles(a, s.cl) /\ Quiet(a, s.cl, {}, s.out)
  BY <1>2 DEF Justified, Settles, Quiet
<1>6. Takes(a, s.cl, s.out, {}, {})
  BY <1>2, <1>3, <1>4, <1>5 DEF Takes, IceInv, ListInv
<1> QED BY <1>6

LEMMA NextStep ==
  ASSUME IceInv, Next
  PROVE  /\ IceInv'
         /\ \A x, y \in Agents : cl[x].role # cl[y].role => cl'[x].role # cl'[y].role
         /\ \A x \in Agents : cl[x].state = "Completed" =>
              cl'[x].state = "Completed" /\ cl'[x].selected = cl[x].selected
<1>1. PICK a \in Agents : Process(a) \/ \E m \in net : Receive(a, m)
  BY DEF Next
<1>2. \E d, out, V, Q : Takes(a, d, out, V, Q)
  <2>1. CASE Process(a)
    BY <2>1, ProcessTakes
  <2>2. ASSUME NEW m \in net, Receive(a, m) PROVE \E d, out, V, Q : Takes(a, d, out, V, Q)
    <3>1. \/ \E x \in Agents : RequestOf(m, x, OwnPairs(x), cl[x].uc)
          \/ \E x \in Agents : ResponseTo(m, x, OwnPairs(x))
          \/ m.type = "error" /\ m.id = NoId
      BY DEF IceInv, NetInv
    <3> QED BY <2>2, <3>1, RequestTakes, ResponseTakes, ErrorTakes
  <2> QED BY <1>1, <2>1, <2>2
<1>3. PICK d, out, V, Q : Takes(a, d, out, V, Q)
  BY <1>2
<1> QED BY <1>3, StepInv

-----------------------------------------------------------------------------
(* The initial states.                                                     *)

LEMMA CheckListGood ==
  ASSUME NEW P \in SUBSET Pairs, NEW local \in SUBSET Addrs, NEW remote,
         NEW role \in Roles, FormedPairs(local, remote) \in SUBSET P
  PROVE  LET c == CheckList(local, remote, role)
         IN  /\ Good(P, c) /\ c.local = local /\ c.role = role
             /\ c.uc = {} /\ c.nominated = {} /\ c.pending = {}
<1> DEFINE chk == FormedPairs(local, remote)
           none == [p \in Pairs |-> IF p \in chk THEN "Frozen" ELSE "None"]
           st == ComputePairsStates(none, chk)
           zero == [p \in Pairs |-> 0]
           c == CheckList(local, remote, role)
<1>1. \A p \in Pairs : none[p] \in {"Frozen", "None"}
  OBVIOUS
<1>2. /\ st \in [Pairs -> {"Waiting", "Frozen", "None"}]
  <2> HIDE DEF none, chk
  <2> QED BY <1>1 DEF ComputePairsStates
<1>3. /\ c.local = local /\ c.role = role /\ c.state = "Running" /\ c.st = st
      /\ c.uc = {} /\ c.nominated = {} /\ c.pending = {} /\ c.valid = {}
      /\ c.selected = {} /\ c.tr = zero /\ c.canceled = zero
  BY DEF CheckList
<1>4. c \in Lists(P)
  <2>1. zero \in [Pairs -> 0..(MaxRetransmissions + 1)] /\ zero \in [Pairs -> Nat]
    BY IceAssumption
  <2>2. st \in [Pairs -> PairStates]
    <3> HIDE DEF st
    <3> QED BY <1>2 DEF PairStates
  <2>3. [p \in Pairs |-> role] \in [Pairs -> Roles] /\ << >> \in Seq(P)
    OBVIOUS
  <2>4. PICK sentAs \in [Pairs -> Roles] : sentAs = [p \in Pairs |-> role]
    BY <2>3
  <2>5. c = [local |-> local, role |-> role, state |-> "Running", st |-> st,
             chk |-> chk, queue |-> << >>, valid |-> {}, selected |-> {}, uc |-> {},
             failing |-> {}, nominated |-> {}, pending |-> {}, rtx |-> zero, tr |-> zero,
             canceled |-> zero, sentAs |-> sentAs, nominating |-> FALSE, delay |-> FALSE]
    BY <2>4 DEF CheckList
  <2>6. chk \in SUBSET P
    OBVIOUS
  <2> HIDE DEF c, st, zero, chk
  <2> QED BY <2>1, <2>2, <2>3, <2>5, <2>6 DEF Lists
<1>5. Attempts(c)
  <2>1. ASSUME NEW p \in Pairs PROVE Tried(c, p)
    <3>1. c.tr[p] = 0 /\ c.canceled[p] = 0
      BY <1>3
    <3>2. c.st[p] \notin {"InProgress", "Succeeded"}
      <4> HIDE DEF c, st
      <4> QED BY <1>2, <1>3
    <3> HIDE DEF c
    <3> QED BY <3>1, <3>2 DEF Tried
  <2> QED BY <2>1 DEF Attempts
<1> HIDE DEF c
<1>6. Outcome(c)
  BY <1>3 DEF Outcome
<1>7. /\ Good(P, c) /\ c.local = local /\ c.role = role
      /\ c.uc = {} /\ c.nominated = {} /\ c.pending = {}
  BY <1>3, <1>4, <1>5, <1>6 DEF Good
<1> QED BY <1>7 DEF c

LEMMA InitInv == Init => IceInv
<1> SUFFICES ASSUME Init PROVE IceInv
  OBVIOUS
<1>1. PICK u \in Setups :
        /\ cl = [a \in Agents |-> CheckList(u.local[a], u.remote[a], u.role[a])]
        /\ checks = u.checks /\ timeouts = u.timeouts
  BY DEF Init
<1>2. net = {}
  BY DEF Init
<1>3. /\ u.local \in [Agents -> SUBSET Addrs] /\ u.remote \in [Agents -> SUBSET Addrs]
      /\ u.role \in [Agents -> Roles] /\ u.checks \in [Agents -> Nat]
      /\ u.timeouts \in [Agents -> Nat]
  BY IceAssumption
<1> DEFINE P(a) == Own(u.local[a], u.local[Peer(a)])
<1>4. ASSUME NEW a \in Agents
      PROVE  /\ u.local[a] \cap u.local[Peer(a)] = {}
             /\ \A x \in u.remote[a] : HostOf[x] \in u.local[Peer(a)]
             /\ FormedPairs(u.local[a], u.remote[a]) \subseteq Pairs
             /\ {Comp[x] : x \in u.local[a]} = {Comp[x] : x \in u.local[Peer(a)]}
  BY Peers, SetupAssumption
<1>5. ASSUME NEW a \in Agents
      PROVE  /\ Good(P(a), cl[a]) /\ cl[a].local = u.local[a] /\ cl[a].role = u.role[a]
             /\ cl[a].uc = {} /\ cl[a].nominated = {} /\ cl[a].pending = {}
  <2>1. cl[a] = CheckList(u.local[a], u.remote[a], u.role[a])
    BY <1>1
  <2>2. FormedPairs(u.local[a], u.remote[a]) \in SUBSET P(a)
    BY <1>4 DEF FormedPairs, Own
  <2>3. P(a) \in SUBSET Pairs /\ u.local[a] \in SUBSET Addrs /\ u.role[a] \in Roles
    BY <1>3 DEF Own
  <2>4. PICK own \in SUBSET Pairs, local \in SUBSET Addrs, role \in Roles :
          own = P(a) /\ local = u.local[a] /\ role = u.role[a]
    BY <2>3
  <2>5. PICK remote : remote = u.remote[a]
    OBVIOUS
  <2> HIDE DEF P
  <2>6. FormedPairs(local, remote) \in SUBSET own
    BY <2>2, <2>4, <2>5
  <2>7. LET c == CheckList(local, remote, role)
        IN  /\ Good(own, c) /\ c.local = local /\ c.role = role
            /\ c.uc = {} /\ c.nominated = {} /\ c.pending = {}
    BY <2>6, CheckListGood
  <2> QED BY <2>1, <2>4, <2>5, <2>7
<1>6. ASSUME NEW a \in Agents PROVE OwnPairs(a) = P(a)
  BY <1>5, Peers DEF OwnPairs
<1> HIDE DEF P
<1>7. ListInv
  <2>1. \A a \in Agents : Good(OwnPairs(a), cl[a])
    BY <1>5, <1>6
  <2>2. cl \in [Agents -> {cl[a] : a \in Agents}]
    <3>1. cl = [a \in Agents |-> cl[a]]
      BY <1>1
    <3> QED BY <3>1
  <2>3. \A a \in Agents : /\ cl[a].local \cap cl[Peer(a)].local = {}
                          /\ Components(cl[a]) = Components(cl[Peer(a)])
    <3> TAKE a \in Agents
    <3>1. cl[a].local = u.local[a] /\ cl[Peer(a)].local = u.local[Peer(a)]
      BY <1>5, Peers
    <3>2. Components(cl[a]) = Components(cl[Peer(a)])
      BY <1>4, <3>1 DEF Components
    <3> QED BY <1>4, <3>1, <3>2
  <2> QED BY <1>1, <1>3, <2>1, <2>2, <2>3 DEF ListInv
<1>8. NetInv /\ RoleInv
  BY <1>2 DEF NetInv, RoleInv
<1>9. OriginInv /\ NominatedByController
  BY <1>5 DEF OriginInv, NominatedByController
<1>10. ConflictInv
  BY <1>2, <1>5, WinnerFact, Peers DEF ConflictInv
<1> QED BY <1>7, <1>8, <1>9, <1>10 DEF IceInv

LEMMA IceInvariant == Spec => []IceInv
<1>1. IceInv /\ [Next]_vars => IceInv'
  <2> SUFFICES ASSUME IceInv, [Next]_vars PROVE IceInv'
    OBVIOUS
  <2>1. CASE Next
    BY <2>1, NextStep
  <2>2. CASE UNCHANGED vars
    BY <2>2 DEF vars, IceInv, ListInv, NetInv, RoleInv, OriginInv, ConflictInv,
                NominatedByController, FromPeer, OwnPairs
  <2> QED BY <2>1, <2>2
<1> QED BY <1>1, InitInv, PTL DEF Spec

-----------------------------------------------------------------------------
(* The theorems.                                                           *)

\* The fields of the check lists keep their types: the retransmissions of a check
\* stay within the bound, and a canceled transaction is one that was created.
THEOREM TypeCorrect == Spec => []TypeOK
<1>1. IceInv => TypeOK
  <2> SUFFICES ASSUME IceInv, NEW a \in Agents
               PROVE  LET c == cl[a] IN
                      /\ c.role \in Roles /\ c.state \in {"Running", "Completed"}
                      /\ c.st \in [Pairs -> PairStates] /\ c.sentAs \in [Pairs -> Roles]
                      /\ c.chk \subseteq Pairs /\ c.queue \in Seq(Pairs)
                      /\ c.valid \subseteq Pairs /\ c.selected \subseteq c.valid
                      /\ c.uc \subseteq Pairs /\ c.failing \subseteq Pairs
                      /\ c.nominated \subseteq Pairs /\ c.pending \subseteq Pairs
                      /\ \A p \in Pairs :
                           /\ c.rtx[p] \in 0..(MaxRetransmissions + 1)
                           /\ c.st[p] = "InProgress" => c.rtx[p] <= MaxRetransmissions
                           /\ c.canceled[p] \in 0..c.tr[p]
                      /\ c.nominating \in BOOLEAN /\ c.delay \in BOOLEAN
                      /\ checks[a] \in Nat /\ timeouts[a] \in Nat
    BY DEF TypeOK
  <2>1. PICK c : c = cl[a]
    OBVIOUS
  <2>2. Good(OwnPairs(a), c) /\ OwnPairs(a) \in SUBSET Pairs
    BY <2>1, OwnPairsType DEF IceInv, ListInv
  <2>3. /\ c.role \in Roles /\ c.state \in {"Running", "Completed"}
        /\ c.st \in [Pairs -> PairStates] /\ c.sentAs \in [Pairs -> Roles]
        /\ c.chk \subseteq Pairs /\ c.queue \in Seq(OwnPairs(a)) /\ c.valid \subseteq Pairs
        /\ c.uc \subseteq Pairs /\ c.failing \subseteq Pairs
        /\ c.nominated \subseteq Pairs /\ c.pending \subseteq Pairs
        /\ c.rtx \in [Pairs -> 0..(MaxRetransmissions + 1)]
        /\ c.tr \in [Pairs -> Nat] /\ c.canceled \in [Pairs -> Nat]
        /\ c.nominating \in BOOLEAN /\ c.delay \in BOOLEAN
    BY <2>2 DEF Good, Lists
  <2>4. c.selected \subseteq c.valid
    BY <2>2 DEF Good, Outcome
  <2>5. c.queue \in Seq(Pairs)
    BY <2>2, <2>3
  <2>6. ASSUME NEW p \in Pairs
        PROVE  /\ c.rtx[p] \in 0..(MaxRetransmissions + 1)
               /\ c.st[p] = "InProgress" => c.rtx[p] <= MaxRetransmissions
               /\ c.canceled[p] \in 0..c.tr[p]
    <3>1. Tried(c, p)
      BY <2>2 DEF Good, Attempts
    <3> QED BY <2>3, <3>1 DEF Tried
  <2>7. checks[a] \in Nat /\ timeouts[a] \in Nat
    BY DEF IceInv, ListInv
  <2> QED BY <2>1, <2>3, <2>4, <2>5, <2>6, <2>7
<1> QED BY <1>1, IceInvariant, PTL

\* A pair whose check is in progress has a transaction to retransmit: the error "No
\* transaction found for InProgress pair" of ice_send_binding_request() never shows.
THEOREM TransactionKnown == Spec => []InProgressHasTransaction
<1>1. IceInv => InProgressHasTransaction
  <2> SUFFICES ASSUME IceInv, NEW a \in Agents, NEW p \in Pairs, cl[a].st[p] = "InProgress"
               PROVE  FindTransaction(cl[a], p) # 0
    BY DEF InProgressHasTransaction
  <2>1. PICK c : c = cl[a]
    OBVIOUS
  <2>2. Good(OwnPairs(a), c)
    BY <2>1 DEF IceInv, ListInv
  <2>3. c.tr[p] \in Nat /\ c.canceled[p] \in Nat /\ c.canceled[p] < c.tr[p]
    BY <2>1, <2>2 DEF Good, Lists, Attempts, Tried
  <2>4. FindTransaction(c, p) # 0
    BY <2>3, TransactionFound
  <2> QED BY <2>1, <2>4
<1> QED BY <1>1, IceInvariant, PTL

\* A controlled agent nominates only pairs that the controlling agent has decided to
\* use, in whatever order requests and responses arrive.
THEOREM ControllerDecides == Spec => []NominatedByController
<1>1. IceInv => NominatedByController
  BY DEF IceInv
<1> QED BY <1>1, IceInvariant, PTL

\* Once the agents have different roles they never have the same role again.
THEOREM RolesStaySettled == Spec => RolesSettle
<1> DEFINE A == \A a, b \in Agents : cl[a].role # cl[b].role => cl'[a].role # cl'[b].role
<1>1. IceInv /\ [Next]_vars => [A]_vars
  <2> SUFFICES ASSUME IceInv, Next PROVE A
    OBVIOUS
  <2> QED BY NextStep
<1> HIDE DEF A
<1>2. Spec => [][A]_vars
  BY <1>1, IceInvariant, PTL DEF Spec
<1> QED
  BY <1>2 DEF RolesSettle, A

\* A check list that has completed stays completed and keeps the pairs it selected,
\* whatever arrives afterwards.
THEOREM SelectionKept == Spec => SelectionStable
<1> DEFINE A == \A a \in Agents : cl[a].state = "Completed" =>
                  cl'[a].state = "Completed" /\ cl'[a].selected = cl[a].selected
<1>1. IceInv /\ [Next]_vars => [A]_vars
  <2> SUFFICES ASSUME IceInv, Next PROVE A
    OBVIOUS
  <2> QED BY NextStep
<1> HIDE DEF A
<1>2. Spec => [][A]_vars
  BY <1>1, IceInvariant, PTL DEF Spec
<1> QED
  BY <1>2 DEF SelectionStable, A

-----------------------------------------------------------------------------
(* Agreement.                                                              *)

\* The check that validated a pair can be told from the pair.
LEMMA ValidInjective ==
  ASSUME NEW g \in Pairs, NEW h \in Pairs, Returned(g), Returned(h), Valid(g) = Valid(h)
  PROVE  g = h
<1>1. Seen[g] = Seen[h] /\ g[2] = h[2]
  BY DEF Valid
<1>2. g[1] = h[1]
  BY <1>1 DEF Returned
<1> QED BY <1>1, <1>2, IceAssumption

\* Mirrored pairs are of one component.
LEMMA MirrorComponent ==
  ASSUME NEW g \in Pairs, NEW h \in Pairs, Returned(h), Comp[g[1]] = Comp[g[2]],
         Valid(g) = Mirror(Valid(h))
  PROVE  Comp[g[1]] = Comp[h[1]]
<1>1. g[2] = Seen[h]
  BY DEF Valid, Mirror
<1>2. HostOf[Seen[h]] = h[1] /\ Seen[h] \in Addrs
  BY IceAssumption DEF Returned
<1>3. Comp[HostOf[Seen[h]]] = Comp[Seen[h]]
  BY <1>2, NetworkAssumption
<1> QED BY <1>1, <1>2, <1>3

\* When both agents have concluded, each selected the mirror image of what the other
\* selected, as long as one of them made the nominations, one per component.
THEOREM PairsAgree == Spec => []Agreement
<1>1. IceInv => Agreement
  <2> SUFFICES ASSUME IceInv, NEW a \in Agents, NEW b \in Agents, a # b,
                      cl[a].state = "Completed", cl[b].state = "Completed",
                      \A p, q \in cl[a].uc : Comp[p[1]] = Comp[q[1]] => p = q,
                      cl[b].uc = {}
               PROVE  {Valid(g) : g \in cl[a].selected} = {Mirror(Valid(g)) : g \in cl[b].selected}
    BY DEF Agreement
  <2>1. Peer(a) = b /\ Peer(b) = a
    BY Peers
  <2>2. ASSUME NEW x \in Agents, cl[x].state = "Completed"
        PROVE  /\ cl[x].selected \subseteq cl[x].valid
               /\ \A g \in cl[x].selected : Valid(g) \in cl[x].nominated
               /\ \A k \in Components(cl[x]) : \E g \in cl[x].selected : Comp[g[1]] = k
    BY <2>2 DEF IceInv, ListInv, Good, Outcome, Concluded, Nominated
  <2>3. ASSUME NEW x \in Agents, NEW g \in cl[x].valid
        PROVE  /\ g \in Pairs /\ Returned(g) /\ Comp[g[1]] = Comp[g[2]]
               /\ Comp[g[1]] \in Components(cl[x])
    <3>1. Good(OwnPairs(x), cl[x])
      BY <2>3 DEF IceInv, ListInv
    <3>2. g \in OwnPairs(x) /\ Returned(g)
      BY <2>3, <3>1 DEF Good, Outcome, Lists
    <3>3. g \in Pairs /\ g[1] \in cl[x].local /\ Comp[g[1]] = Comp[g[2]]
      BY <3>2 DEF OwnPairs, Own
    <3> QED BY <3>2, <3>3 DEF Components
  <2>4. ASSUME NEW x \in Agents PROVE cl[x].uc \subseteq cl[x].valid
    BY <2>4 DEF IceInv, ListInv, Good, Outcome
  <2>5. Components(cl[a]) = Components(cl[b])
    BY <2>1 DEF IceInv, ListInv
  <2>6. ASSUME NEW h \in cl[b].selected
        PROVE  \E g \in cl[a].uc : Valid(g) = Mirror(Valid(h)) /\ Comp[g[1]] = Comp[h[1]]
    <3>1. Valid(h) \in cl[b].nominated /\ h \in cl[b].valid
      BY <2>2
    <3>2. PICK g \in cl[a].uc : Valid(g) = Mirror(Valid(h))
      BY <2>1, <3>1 DEF IceInv, OriginInv, FromPeer
    <3>3. g \in Pairs /\ h \in Pairs /\ Returned(h) /\ Comp[g[1]] = Comp[g[2]]
      BY <2>3, <2>4, <3>1
    <3>4. Comp[g[1]] = Comp[h[1]]
      BY <3>2, <3>3, MirrorComponent
    <3> QED BY <3>2, <3>4
  <2>7. ASSUME NEW g \in cl[a].selected PROVE g \in cl[a].uc
    <3>1. Valid(g) \in cl[a].nominated /\ g \in cl[a].valid
      BY <2>2
    <3>2. PICK h \in cl[a].uc : Valid(h) = Valid(g)
      BY <2>1, <3>1 DEF IceInv, OriginInv, FromPeer
    <3>3. g \in Pairs /\ h \in Pairs /\ Returned(g) /\ Returned(h)
      BY <2>3, <2>4, <3>1
    <3> QED BY <3>2, <3>3, ValidInjective
  <2>8. ASSUME NEW g \in cl[a].selected
        PROVE  \E h \in cl[b].selected : Valid(g) = Mirror(Valid(h))
    <3>1. Comp[g[1]] \in Components(cl[b])
      BY <2>2, <2>3, <2>5
    <3>2. PICK h \in cl[b].selected : Comp[h[1]] = Comp[g[1]]
      BY <2>2, <3>1
    <3>3. PICK f \in cl[a].uc : Valid(f) = Mirror(Valid(h)) /\ Comp[f[1]] = Comp[h[1]]
      BY <2>6
    <3>4. f = g
      BY <2>7, <3>2, <3>3
    <3> QED BY <3>3, <3>4
  <2>9. ASSUME NEW h \in cl[b].selected
        PROVE  \E g \in cl[a].selected : Valid(g) = Mirror(Valid(h))
    <3>1. PICK f \in cl[a].uc : Valid(f) = Mirror(Valid(h)) /\ Comp[f[1]] = Comp[h[1]]
      BY <2>6
    <3>2. Comp[h[1]] \in Components(cl[a])
      BY <2>2, <2>3, <2>5
    <3>3. PICK g \in cl[a].selected : Comp[g[1]] = Comp[h[1]]
      BY <2>2, <3>2
    <3>4. f = g
      BY <2>7, <3>1, <3>3
    <3> QED BY <3>1, <3>4
  <2> QED BY <2>8, <2>9
<1> QED BY <1>1, IceInvariant, PTL
=============================================================================
