------------------------------- MODULE IceChecks -------------------------------
(***************************************************************************)
(* The connectivity checks of src/voip/ice.c: two agents, each with one    *)
(* check list, exchange STUN binding requests and responses, nominate one  *)
(* pair of candidates per component and conclude.                          *)
(*                                                                         *)
(* A pair is <<local address, remote address>>.  The messages sent form a  *)
(* set that only grows: a message may be received never, late, out of      *)
(* order or several times.  Timers expire at any time.  Lists sorted by    *)
(* priority are sets, read with First.  Losing pairs, forced relay, the    *)
(* legacy integrity modes and the TURN channels are left out, and both     *)
(* agents have paired their candidates before the first message.           *)
(***************************************************************************)
EXTENDS Integers, Sequences, FiniteSets, Functions

CONSTANTS
  Agents,      \* the two agents
  Addrs,       \* transport addresses
  Pairs,       \* the pairs <<local, remote>> that may come up
  Setups,      \* the situations to start from: records with the fields
               \* local, remote, role, checks, timeouts, each a function on
               \* Agents: the bases of the local candidates, the candidates
               \* that the peer signalled, the role that signalling gave, and
               \* bounds on the transactions and the timers that expire
  Seen,        \* [pairs -> Addrs]: the source address that the receiver sees
  Reach,       \* set of <<base, address>>: datagrams that are delivered
  HostOf,      \* [Addrs -> Addrs]: the base that receives what an address is sent
  Comp,        \* [Addrs -> Nat]: component identifiers
  Found,       \* [Addrs -> foundations]
  Relay,       \* the addresses of relayed candidates
  CandPrio,    \* [Addrs -> Nat]: candidate priorities, all different
  Tie,         \* [Agents -> Nat]: the tie-breakers
  MaxRetransmissions,            \* ICE_MAX_RETRANSMISSIONS
  MaxNominationRetransmissions   \* ICE_MAX_RETRANSMISSIONS_FOR_NOMINATIONS

Roles == {"Controlling", "Controlled"}
PairStates == {"None", "Frozen", "Waiting", "InProgress", "Succeeded", "Failed"}
NoPair == <<>>
NoId == <<>>

\* The tie-breakers, 64 random bits each, are taken to be different.
ASSUME IceAssumption ==
  /\ \E x, y \in Agents : x # y /\ Agents = {x, y}
  /\ IsFiniteSet(Addrs)
  /\ Setups \subseteq [local : [Agents -> SUBSET Addrs],
                       remote : [Agents -> SUBSET Addrs], role : [Agents -> Roles],
                       checks : [Agents -> Nat], timeouts : [Agents -> Nat]]
  /\ Pairs \subseteq Addrs \X Addrs
  /\ Seen \in [Pairs -> Addrs] /\ Reach \subseteq Pairs /\ HostOf \in [Addrs -> Addrs]
  /\ Relay \subseteq Addrs
  /\ Comp \in [Addrs -> Nat] /\ DOMAIN Found = Addrs
  /\ CandPrio \in [Addrs -> 1..Cardinality(Addrs)]
  /\ \A x, y \in Addrs : CandPrio[x] = CandPrio[y] => x = y
  /\ Tie \in [Agents -> Nat] /\ \A x, y \in Agents : x # y => Tie[x] # Tie[y]
  /\ MaxRetransmissions \in Nat /\ MaxNominationRetransmissions \in Nat

VARIABLES
  cl,         \* [Agents -> check list]
  net,        \* the messages sent
  checks,     \* [Agents -> Nat]: transactions that may still be created
  timeouts    \* [Agents -> Nat]: retransmission timers that may still expire

vars == <<cl, net, checks, timeouts>>

Peer(a) == CHOOSE b \in Agents : b # a

\* local_componentIDs.
Components(c) == {Comp[x] : x \in c.local}

\* ice_compute_pair_priority() on small numbers; the last bit, which depends
\* on the role, tells no two pairs of one check list apart.
Prio ==
  [p \in Pairs |->
     LET g == CandPrio[p[1]]
         d == CandPrio[p[2]]
         low == IF g < d THEN g ELSE d
         high == IF g > d THEN g ELSE d
     IN  2 * (Cardinality(Addrs) + 1) * low + 2 * high + (IF g > d THEN 1 ELSE 0)]

\* The first element of a list sorted by decreasing pair priority.
First(S) == CHOOSE p \in S : \A q \in S : Prio[q] <= Prio[p]

\* The pair that a check sent on g validates: the source address that the
\* peer saw, reported in XOR-MAPPED-ADDRESS, replaces the base.
Valid(g) == <<Seen[g], g[2]>>

\* What is sent back to the address that the receiver sees reaches the base it
\* came from, if anything; addresses that one base receives for are of one
\* component.  The pairs that come up are in Pairs.
ASSUME NetworkAssumption ==
  /\ \A x \in Addrs : HostOf[HostOf[x]] = HostOf[x] /\ Comp[HostOf[x]] = Comp[x]
  /\ \A p \in Reach : /\ HostOf[Seen[p]] = p[1] /\ Valid(p) \in Pairs
                       /\ <<HostOf[p[2]], Seen[p]>> \in Pairs

Foundation(p) == <<Found[p[1]], Found[p[2]]>>

\* Per foundation the first pair of the list starts the checks.
ComputePairsStates(st, chk) ==
  [p \in Pairs |->
     IF p \in chk /\ p = First({q \in chk : Foundation(q) = Foundation(p)})
     THEN "Waiting" ELSE st[p]]

\* Candidates of one component are paired; reflexive ones are replaced by
\* their bases, which leaves one pair per base and remote candidate.
FormedPairs(local, remote) ==
  {p \in local \X remote : Comp[p[1]] = Comp[p[2]]}

\* The agents have bases of their own, signalled addresses of the other's bases
\* only, and use the same components.
ASSUME SetupAssumption ==
  \A u \in Setups : \A a, b \in Agents : a # b =>
    /\ u.local[a] \cap u.local[b] = {}
    /\ \A x \in u.remote[a] : HostOf[x] \in u.local[b]
    /\ FormedPairs(u.local[a], u.remote[a]) \subseteq Pairs
    /\ {Comp[x] : x \in u.local[a]} = {Comp[x] : x \in u.local[b]}

CheckList(local, remote, role) ==
  LET chk == FormedPairs(local, remote) IN
  [local |-> local, role |-> role, state |-> "Running",
   st |-> ComputePairsStates(
            [p \in Pairs |-> IF p \in chk THEN "Frozen" ELSE "None"], chk),
   chk |-> chk,          \* check_list
   queue |-> <<>>,       \* triggered_checks_queue
   valid |-> {},         \* valid_list: the pairs generated_from
   selected |-> {},      \* the entries of valid with selected set
   uc |-> {},            \* pairs with use_candidate
   failing |-> {},       \* pairs with nomination_failing
   nominated |-> {},     \* pairs with is_nominated
   pending |-> {},       \* pairs with nomination_pending
   rtx |-> [p \in Pairs |-> 0],       \* retransmissions
   tr |-> [p \in Pairs |-> 0],        \* number of transactions created
   canceled |-> [p \in Pairs |-> 0],  \* the transaction canceled, or 0
   sentAs |-> [p \in Pairs |-> role],  \* the role of the last transaction
   nominating |-> FALSE, \* nomination_in_progress
   delay |-> FALSE]      \* nomination_delay_running

Init ==
  /\ net = {}
  /\ \E u \in Setups :
       /\ cl = [a \in Agents |-> CheckList(u.local[a], u.remote[a], u.role[a])]
       /\ checks = u.checks /\ timeouts = u.timeouts

-----------------------------------------------------------------------------
(* Helpers on one check list c.                                            *)

Queue(q, p) == IF p \in Range(q) THEN q ELSE Append(q, p)

\* The most recent transaction of p that is not canceled, or 0.
FindTransaction(c, p) ==
  LET live == (1..c.tr[p]) \ {c.canceled[p]}
  IN  IF live = {} THEN 0 ELSE CHOOSE k \in live : \A j \in live : j <= k

\* The entry to nominate for component k: the first one of which the
\* nomination is not failing.
ToNominate(c, k) ==
  {g \in c.valid \ c.failing :
     /\ Comp[g[1]] = k
     /\ \A h \in c.valid \ c.failing : Comp[h[1]] = k => Prio[Valid(h)] <= Prio[Valid(g)]}

\* The entries are kept in the order of local_componentIDs.
FirstComponent(S) == CHOOSE p \in S : \A q \in S : Comp[p[1]] <= Comp[q[1]]

\* ice_check_list_nominate() queues the entries component by component.
QueueNominations(queue, todo) ==
  LET after[n \in 0..Cardinality(todo)] ==
        IF n = 0 THEN [queue |-> queue, left |-> todo]
        ELSE LET p == FirstComponent(after[n - 1].left)
             IN  [queue |-> Queue(after[n - 1].queue, p), left |-> after[n - 1].left \ {p}]
  IN  after[Cardinality(todo)].queue

\* The entries in best are to be used.
Nominate(c, best, expired) ==
  LET todo == best \ c.uc
      needMoreTime == \E g \in best : g[1] \in Relay \/ g[2] \in Relay
  IN  IF todo = {} THEN c
      ELSE IF needMoreTime /\ ~expired
      THEN [c EXCEPT !.delay = TRUE]
      ELSE [c EXCEPT !.delay = FALSE, !.uc = @ \cup best,
                     !.queue = QueueNominations(@, todo), !.nominating = TRUE]

PerformNominations(c, expired) ==
  IF c.nominating \/ \E k \in Components(c) : \A g \in c.valid : Comp[g[1]] # k THEN c
  ELSE Nominate(c, UNION {ToNominate(c, k) : k \in Components(c)}, expired)

\* The elements of q that are not removed.
Without(q, removed) ==
  LET kept[i \in 0..Len(q)] ==
        IF i = 0 THEN <<>>
        ELSE IF q[i] \in removed THEN kept[i - 1] ELSE Append(kept[i - 1], q[i])
  IN  kept[Len(q)]

\* The loop that removes pairs from a list stops after it removed the head:
\* the element that follows has no predecessor then.
RemoveFromList(q, removed) ==
  IF q # <<>> /\ Head(q) \in removed THEN Tail(q)
  ELSE Without(q, removed)

RemoveFromSorted(S, removed) ==
  IF S # {} /\ First(S) \in removed THEN S \ {First(S)} ELSE S \ removed

\* The valid entries that are nominated.
Nominated(c) == {g \in c.valid : Valid(g) \in c.nominated}

\* What the nomination of the first entry in s.left stops in its component.
ConcludePairs(c, s) ==
  LET g == CHOOSE g \in s.left : \A h \in s.left : Prio[Valid(h)] <= Prio[Valid(g)]
      idle == {p \in Pairs : c.st[p] \in {"Waiting", "Frozen"} /\ Comp[p[1]] = Comp[g[1]]}
      chk == RemoveFromSorted(s.chk, idle)
  IN  [chk |-> chk,
       queue |-> RemoveFromList(s.queue, idle),
       rtx |-> [p \in Pairs |->
          IF /\ p \in chk /\ c.st[p] = "InProgress" /\ Comp[p[1]] = Comp[g[1]]
             /\ Prio[p] < Prio[Valid(g)]
          THEN MaxRetransmissions ELSE s.rtx[p]],
       left |-> s.left \ {g}]

\* The loop over the nominated entries.
ConcludeAll(c) ==
  LET after[n \in 0..Cardinality(Nominated(c))] ==
        IF n = 0 THEN [chk |-> c.chk, queue |-> c.queue, rtx |-> c.rtx,
                       left |-> Nominated(c)]
        ELSE ConcludePairs(c, after[n - 1])
      s == after[Cardinality(Nominated(c))]
  IN  [c EXCEPT !.chk = s.chk, !.queue = s.queue, !.rtx = s.rtx]

\* Faulty variant: the best valid entry is selected, nominated or not.
SelectBestValid(c) ==
  {g \in c.valid :
     \A h \in c.valid : Comp[h[1]] = Comp[g[1]] => Prio[Valid(h)] <= Prio[Valid(g)]}

\* ice_check_list_select_candidates(): the first nominated entry per component.
Select(c) ==
  {g \in Nominated(c) :
     \A h \in Nominated(c) : Comp[h[1]] = Comp[g[1]] => Prio[Valid(h)] <= Prio[Valid(g)]}

\* ice_check_list_stop_retransmissions().
StopRetransmissions(c) ==
  LET stopped == {p \in c.chk : c.st[p] = "InProgress"}
  IN  [c EXCEPT !.st = [p \in Pairs |-> IF p \in stopped THEN "Failed" ELSE @[p]],
                !.queue = Without(@, stopped)]

Complete(c) ==
  StopRetransmissions(
    [c EXCEPT !.state = "Completed", !.nominating = FALSE, !.delay = FALSE,
              !.selected = Select(c)])

\* Every component has an entry that is nominated.
AllNominated(c) == Components(c) \subseteq {Comp[g[1]] : g \in Nominated(c)}

\* What remains to do once the nominations are made.
CompleteIfNominated(c) == IF AllNominated(c) THEN Complete(c) ELSE c
ConcludeNominated(c) == CompleteIfNominated(ConcludeAll(c))

\* Faulty variant: a check list that has completed is concluded again.
ConcludeProcessingAgain(c, expired) ==
  ConcludeNominated(
    IF c.role = "Controlling" THEN PerformNominations(c, expired) ELSE c)

ConcludeProcessing(c, expired) ==
  IF c.state # "Running" THEN c
  ELSE ConcludeNominated(
         IF c.role = "Controlling" THEN PerformNominations(c, expired) ELSE c)

-----------------------------------------------------------------------------
(* Binding requests.                                                       *)

Message(type, src, dst, id, uc, role) ==
  [type |-> type, src |-> src, dst |-> dst, id |-> id, uc |-> uc, role |-> role]

\* Messages that the network does not deliver are not kept.
Send(m) == IF <<m.src, m.dst>> \in Reach THEN {m} ELSE {}

Request(c, a, p, k) ==
  Send(Message("request", p[1], p[2], <<a, p, k>>,
               c.role = "Controlling" /\ p \in c.uc, c.role))

\* A check list and what it sends.
Sends(c, out) == [cl |-> c, out |-> out]

\* The first transmission of a check.
NewTransaction(c, p) ==
  [c EXCEPT !.tr[p] = @ + 1, !.rtx[p] = 0, !.st[p] = "InProgress", !.sentAs[p] = c.role]

\* Faulty variant: the retransmissions are counted after the comparison.
SendBindingRequestLate(c, a, p) ==
  IF c.st[p] # "InProgress"
  THEN Sends(NewTransaction(c, p), Request(c, a, p, c.tr[p] + 1))
  ELSE IF c.rtx[p] > MaxRetransmissions
  THEN Sends([c EXCEPT !.st[p] = "Failed"], {})
  ELSE Sends([c EXCEPT !.rtx[p] = @ + 1], Request(c, a, p, FindTransaction(c, p)))

\* A nomination that is retransmitted too often makes room for another one.
NominateAlternate(c, p) ==
  IF /\ c.role = "Controlling" /\ p \in c.uc /\ p \notin c.failing
     /\ c.rtx[p] > MaxNominationRetransmissions
  THEN PerformNominations([c EXCEPT !.failing = @ \cup {p}, !.nominating = FALSE], FALSE)
  ELSE c

SendAgain(c, a, p) ==
  IF c.rtx[p] > MaxRetransmissions
  THEN Sends([c EXCEPT !.st[p] = "Failed"], {})
  ELSE Sends(c, Request(c, a, p, FindTransaction(c, p)))

\* ice_send_binding_request(): the new check list and what is sent.
SendBindingRequest(c, a, p) ==
  IF c.st[p] # "InProgress"
  THEN Sends(NewTransaction(c, p), Request(c, a, p, c.tr[p] + 1))
  ELSE IF FindTransaction(c, p) = 0 THEN Sends(c, {})
  ELSE SendAgain(NominateAlternate([c EXCEPT !.rtx[p] = @ + 1], p), a, p)

\* Pairs of which the retransmission timer may have expired.
Due(c) ==
  {p \in c.chk : c.st[p] = "InProgress" /\ (c.nominating => p \in c.uc)}

\* The check sent when the timer ta has expired.
SendCheck(c, a) ==
  LET waiting == {p \in c.chk : c.st[p] = "Waiting"}
      frozen == {p \in c.chk : c.st[p] = "Frozen"}
      retransmitted == {p \in c.chk :
        c.st[p] = "InProgress" /\ c.rtx[p] <= MaxRetransmissions}
  IN  IF c.queue # <<>>
      THEN SendBindingRequest([c EXCEPT !.queue = Tail(@)], a, Head(c.queue))
      ELSE IF c.state # "Running" THEN Sends(c, {})
      ELSE IF frozen = c.chk
      THEN Sends([c EXCEPT !.st = ComputePairsStates(@, c.chk)], {})
      ELSE IF waiting \cup frozen # {}
      THEN SendBindingRequest(c, a, First(IF waiting # {} THEN waiting ELSE frozen))
      ELSE IF retransmitted = {} THEN Sends(ConcludeProcessing(c, FALSE), {})
      ELSE Sends(c, {})

\* The retransmission timer of the pair r, then ta.
Retransmit(c, a, r) ==
  IF r \in Due(c) THEN SendBindingRequest(c, a, r) ELSE Sends(c, {})
SendMore(s, a) == [SendCheck(s.cl, a) EXCEPT !.out = @ \cup s.out]
RunTimers(c, a, r, ta) ==
  IF ta THEN SendMore(Retransmit(c, a, r), a) ELSE Retransmit(c, a, r)

\* ice_check_list_process() when some timers have expired: the one of the
\* nomination delay, the retransmission timer of the pair r (two pairs that
\* expire at once are two calls) and ta.
RunUnlessCompleted(c, a, r, ta) ==
  IF c.state = "Completed" THEN Sends(c, {}) ELSE RunTimers(c, a, r, ta)
Processed(c, a, expired, r, ta) ==
  IF expired THEN RunUnlessCompleted(ConcludeProcessing(c, TRUE), a, r, ta)
  ELSE RunTimers(c, a, r, ta)

\* The transactions created by a call.
Created(c, d) == Cardinality({p \in Pairs : d.tr[p] > c.tr[p]})

\* A call that finds these timers expired.
ProcessTimed(a, expired, r, ta) ==
  /\ expired => cl[a].delay /\ cl[a].state = "Running"
  /\ r # NoPair => timeouts[a] > 0
  /\ \E s \in {Processed(cl[a], a, expired, r, ta)} :
       /\ Created(cl[a], s.cl) <= checks[a]
       /\ cl' = [cl EXCEPT ![a] = s.cl]
       /\ net' = net \cup s.out
       /\ checks' = [checks EXCEPT ![a] = @ - Created(cl[a], s.cl)]
  /\ timeouts' = IF r = NoPair THEN timeouts ELSE [timeouts EXCEPT ![a] = @ - 1]

Process(a) ==
  \E expired, ta \in BOOLEAN, r \in Due(cl[a]) \cup {NoPair} :
    ProcessTimed(a, expired, r, ta)

-----------------------------------------------------------------------------
(* Messages received.                                                      *)

\* Faulty variant: both agents give way.
RoleOnRequestNoTie(c, a, role) ==
  IF c.role # role THEN c.role
  ELSE IF c.role = "Controlling" THEN "Controlled" ELSE "Controlling"

\* Faulty variant: a conflict is always left to the peer.
RoleOnRequestErrors(c, a, role) == IF c.role # role THEN c.role ELSE "error"

\* The role an agent has after a request of its peer, or the answer "error".
RoleOnRequest(c, a, role) ==
  IF c.role # role THEN c.role
  ELSE IF c.role = "Controlling"
  THEN IF Tie[a] >= Tie[Peer(a)] THEN "error" ELSE "Controlled"
  ELSE IF Tie[a] >= Tie[Peer(a)] THEN "Controlling" ELSE "error"

\* Faulty variant: the canceled check is not set up again.
TriggerInProgress(c, p) ==
  LET again == [c EXCEPT !.st[p] = "Waiting", !.queue = Queue(@, p), !.chk = @ \cup {p}]
      k == FindTransaction(c, p)
  IN  IF p \notin c.chk \/ c.st[p] \in {"Waiting", "Frozen", "Failed"} THEN again
      ELSE IF c.st[p] = "InProgress" /\ c.canceled[p] = 0 /\ k # 0
      THEN [c EXCEPT !.canceled[p] = k]
      ELSE c

\* ice_trigger_connectivity_check_on_binding_request().
Trigger(c, p) ==
  LET again == [c EXCEPT !.st[p] = "Waiting", !.queue = Queue(@, p), !.chk = @ \cup {p}]
      k == FindTransaction(c, p)
  IN  IF p \notin c.chk \/ c.st[p] \in {"Waiting", "Frozen", "Failed"} THEN again
      ELSE IF c.st[p] = "InProgress" /\ c.canceled[p] = 0 /\ k # 0
      THEN [again EXCEPT !.canceled[p] = k]
      ELSE c

\* ice_lookup_possible_valid_pair(), or the pair itself.
PossibleValidPair(c, p) ==
  LET entries == {g \in c.valid : p \in {g, Valid(g)}}
  IN  IF entries = {} THEN p ELSE First({Valid(g) : g \in entries})

\* Faulty variant: a nomination that comes before the own check has
\* succeeded is forgotten.
NominateOnRequestNow(c, p, uc) ==
  IF uc /\ c.role = "Controlled" /\ c.st[p] = "Succeeded"
  THEN [c EXCEPT !.nominated = @ \cup {PossibleValidPair(c, p)}] ELSE c

NominateOnRequest(c, p, uc) ==
  IF ~uc \/ c.role # "Controlled" THEN c
  ELSE CASE c.st[p] = "Succeeded" ->
              [c EXCEPT !.nominated = @ \cup {PossibleValidPair(c, p)}]
         [] c.st[p] \in {"Waiting", "Frozen", "InProgress"} ->
              [c EXCEPT !.pending = @ \cup {p}]
         [] OTHER -> c

\* The transaction identifier of an error response: the one that
\* ms_stun_message_create() draws, which no request has.
ErrorId(id) == NoId

\* A request received at the base h from the address s.
OnRequest(c, a, m) ==
  LET h == HostOf[m.dst]
      s == Seen[<<m.src, m.dst>>]
      role == RoleOnRequest(c, a, m.role)
      c1 == Trigger([c EXCEPT !.role = role], <<h, s>>)
      c2 == NominateOnRequest(c1, <<h, s>>, m.uc)
  IN  IF role = "error"
      THEN [cl |-> c, out |-> Send(Message("error", h, s, ErrorId(m.id), FALSE, "none"))]
      ELSE [cl |-> ConcludeProcessing(c2, FALSE),
            out |-> Send(Message("response", h, s, m.id, FALSE, "none"))]

\* ice_construct_valid_pair() and ice_update_pair_states_on_binding_response().
Succeed(c, p) ==
  LET v == Valid(p)
      thawed == {q \in c.chk \ {p} :
        c.st[q] = "Frozen" /\ Foundation(q) = Foundation(p)}
  IN  [c EXCEPT !.valid = @ \cup {p},
                !.st = [q \in Pairs |->
                   CASE q = p -> "Succeeded"
                     [] q \in thawed -> "Waiting"
                     [] q = v /\ q # p /\ @[q] = "None" -> "Frozen"
                     [] OTHER -> @[q]]]

\* Faulty variant: a controlled agent nominates every pair that succeeds.
NominateOnResponseAny(c, p) ==
  IF c.role = "Controlling" /\ p \notin c.uc THEN c
  ELSE [c EXCEPT !.nominated = @ \cup {Valid(p)}, !.pending = @ \ {p}]

NominateOnResponse(c, p) ==
  CASE c.role = "Controlling" /\ p \in c.uc ->
         [c EXCEPT !.failing = @ \ {Valid(p)}, !.nominated = @ \cup {Valid(p)}]
    [] c.role = "Controlled" /\ p \in c.pending ->
         [c EXCEPT !.nominated = @ \cup {Valid(p)}, !.pending = @ \ {p}]
    [] OTHER -> c

\* A response received at the base h from the address s: it must come the
\* way that the request went.
OnResponse(c, a, m) ==
  LET p == m.id[2]
      way == <<HostOf[m.dst], Seen[<<m.src, m.dst>>]>>
  IN  [cl |-> IF way # p THEN [c EXCEPT !.st[p] = "Failed"]
              ELSE ConcludeProcessing(NominateOnResponse(Succeed(c, p), p), FALSE),
       out |-> {}]

\* Error 487 (Role Conflict): ignored when the transaction is not known;
\* otherwise the pair is checked again, in the role opposite to the one in
\* which its last transaction was sent.
OnError(c, a, m) ==
  LET p == m.id[2]
      role == CHOOSE r \in Roles : r # c.sentAs[p]
      c1 == [c EXCEPT !.role = role, !.st[p] = "Waiting", !.queue = Queue(@, p)]
  IN  [cl |-> IF m.id = NoId THEN c ELSE ConcludeProcessing(c1, FALSE), out |-> {}]

\* ice_handle_stun_packet().
Handled(c, a, m) ==
  CASE m.type = "request" -> OnRequest(c, a, m)
    [] m.type = "response" -> OnResponse(c, a, m)
    [] m.type = "error" -> OnError(c, a, m)

Receive(a, m) ==
  /\ HostOf[m.dst] \in cl[a].local
  /\ \E s \in {Handled(cl[a], a, m)} :
       /\ cl' = [cl EXCEPT ![a] = s.cl]
       /\ net' = net \cup s.out
  /\ UNCHANGED <<checks, timeouts>>

Next ==
  \E a \in Agents :
    \/ Process(a)
    \/ \E m \in net : Receive(a, m)

Spec == Init /\ [][Next]_vars

-----------------------------------------------------------------------------
(* Properties.                                                             *)

\* The fields of the check lists have their types: a check in progress was
\* retransmitted at most MaxRetransmissions times, and a canceled
\* transaction is one that was created.
TypeOK ==
  \A a \in Agents : LET c == cl[a] IN
    /\ c.role \in Roles /\ c.state \in {"Running", "Completed"}
    /\ c.st \in [Pairs -> PairStates] /\ c.sentAs \in [Pairs -> Roles]
    /\ c.chk \subseteq Pairs /\ c.queue \in Seq(Pairs) /\ c.valid \subseteq Pairs
    /\ c.selected \subseteq c.valid
    /\ c.uc \subseteq Pairs /\ c.failing \subseteq Pairs
    /\ c.nominated \subseteq Pairs /\ c.pending \subseteq Pairs
    /\ \A p \in Pairs :
         /\ c.rtx[p] \in 0..(MaxRetransmissions + 1)
         /\ c.st[p] = "InProgress" => c.rtx[p] <= MaxRetransmissions
         /\ c.canceled[p] \in 0..c.tr[p]
    /\ c.nominating \in BOOLEAN /\ c.delay \in BOOLEAN
    /\ checks[a] \in Nat /\ timeouts[a] \in Nat

Mirror(v) == <<v[2], v[1]>>

\* When both agents have concluded, media flows on the same pair of
\* addresses in both directions: what one selected is the mirror image of
\* what the other selected, whatever was lost, late or duplicated, as long
\* as one agent has made the nominations, one per component.
Agreement ==
  \A a, b \in Agents :
    /\ a # b /\ cl[a].state = "Completed" /\ cl[b].state = "Completed"
    /\ \A p, q \in cl[a].uc : Comp[p[1]] = Comp[q[1]] => p = q
    /\ cl[b].uc = {}
    => {Valid(g) : g \in cl[a].selected} = {Mirror(Valid(g)) : g \in cl[b].selected}

\* A controlled agent nominates no pair that the controlling agent has not
\* decided to use, also when it learns of the nomination before its own
\* check of the pair has succeeded.
NominatedByController ==
  \A a \in Agents : cl[a].role = "Controlled" =>
    \A v \in cl[a].nominated : \E g \in cl[Peer(a)].uc : Valid(g) = Mirror(v)

\* A pair whose check is in progress has a transaction to retransmit
\* (the error "No transaction found for InProgress pair" never shows).
InProgressHasTransaction ==
  \A a \in Agents, p \in Pairs :
    cl[a].st[p] = "InProgress" => FindTransaction(cl[a], p) # 0

\* Once the agents have different roles they never have the same role again,
\* although requests sent before the conflict was settled still arrive.
RolesSettle ==
  [][\A a, b \in Agents : cl[a].role # cl[b].role => cl'[a].role # cl'[b].role]_vars

\* A check list that has completed stays completed and keeps the pairs it
\* selected, whatever arrives afterwards.
SelectionStable ==
  [][\A a \in Agents : cl[a].state = "Completed" =>
        cl'[a].state = "Completed" /\ cl'[a].selected = cl[a].selected]_vars
====
