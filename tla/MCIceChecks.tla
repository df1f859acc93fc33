------------------------------ MODULE MCIceChecks ------------------------------
(***************************************************************************)
(* Instances of IceChecks: networks between the agents "A" and "B".  The   *)
(* networks have no address in common, so that one instance holds several. *)
(***************************************************************************)
EXTENDS IceChecks

TwoAgents == {"A", "B"}
Both(x, y) == [a \in TwoAgents |-> IF a = "A" THEN x ELSE y]
Ties == Both(2, 1)

Ordinary == Both("Controlling", "Controlled")
Opposite == Both("Controlled", "Controlling")
BothControlling == Both("Controlling", "Controlling")
BothControlled == Both("Controlled", "Controlled")

Setup(la, lb, roles, nchecks, ntimeouts) ==
  [local |-> Both(la, lb), remote |-> Both(lb, la), role |-> roles,
   checks |-> nchecks, timeouts |-> ntimeouts]

\* Networks that are open.
\* Star: A has one address and B two; every address reaches every other one.
\* Components: both agents have an address for RTP and one for RTCP, of the
\* same foundation: the second pair is frozen until the first one succeeds.
OpenAddrs == {"a", "b1", "b2", "g1", "g2", "h1", "h2"}
Star == {"a"} \X {"b1", "b2"} \cup {"b1", "b2"} \X {"a"}
TwoComponents == {<<"g1", "h1">>, <<"g2", "h2">>, <<"h1", "g1">>, <<"h2", "g2">>}
OpenPairs == Star \cup TwoComponents
OpenSeen == [p \in OpenPairs |-> p[1]]
OpenHost == [x \in OpenAddrs |-> x]
OpenComp == [x \in OpenAddrs |-> IF x \in {"g2", "h2"} THEN 2 ELSE 1]
OpenFound == [x \in OpenAddrs |->
  CASE x \in {"g1", "g2"} -> "g" [] x \in {"h1", "h2"} -> "h" [] OTHER -> x]
OpenPrio == [x \in OpenAddrs |->
  CASE x = "g1" -> 7 [] x = "h1" -> 6 [] x = "a" -> 5 [] x = "b1" -> 4 [] x = "b2" -> 3
    [] x = "g2" -> 2 [] x = "h2" -> 1]
OpenSetups ==
  {Setup({"a"}, {"b1", "b2"}, Ordinary, Both(4, 2), Both(0, 0)),
   Setup({"a"}, {"b1", "b2"}, Ordinary, Both(4, 1), Both(1, 0)),
   Setup({"g1", "g2"}, {"h1", "h2"}, Ordinary, Both(4, 2), Both(0, 0))}

\* Two more networks.
\* Direct: c and d reach each other; the roles are in order or in conflict.
\* Translated: A has the address e and is behind an address translator.  B, at
\* f, sees it as n, cannot reach e and was told of e only: n is a peer
\* reflexive candidate on both sides.  f is a relayed candidate.
NetAddrs == {"c", "d", "e", "n", "f"}
NetReach == {<<"c", "d">>, <<"d", "c">>, <<"e", "f">>, <<"f", "n">>}
NetPairs == NetReach \cup {<<"n", "f">>, <<"f", "e">>}
NetSeen == [p \in NetPairs |-> IF p[1] = "e" THEN "n" ELSE p[1]]
NetHost == [x \in NetAddrs |-> IF x = "n" THEN "e" ELSE x]
NetComp == [x \in NetAddrs |-> 1]
NetFound == [x \in NetAddrs |-> x]
NetPrio == [x \in NetAddrs |->
  CASE x = "c" -> 5 [] x = "d" -> 4 [] x = "e" -> 3 [] x = "f" -> 2 [] x = "n" -> 1]
NetRelay == {"f"}

Direct(roles, ntimeouts) == Setup({"c"}, {"d"}, roles, Both(4, 4), ntimeouts)
Translated(roles, ntimeouts) == Setup({"e"}, {"f"}, roles, Both(4, 4), ntimeouts)
NetSetups ==
  {Direct(r, Both(1, 1)) : r \in {BothControlling, BothControlled}}
  \cup {Direct(Ordinary, Both(2, 0)), Direct(Opposite, Both(1, 0)),
        Translated(Ordinary, Both(1, 0))}
StuckSetups == {Translated(BothControlled, Both(1, 1))}
====
