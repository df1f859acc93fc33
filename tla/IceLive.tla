-------------------------------- MODULE IceLive --------------------------------
(***************************************************************************)
(* IceChecks with a network that loses nothing: every message that can be  *)
(* delivered is received at least once.  It may still be late, out of      *)
(* order and duplicated.                                                   *)
(***************************************************************************)
EXTENDS IceChecks

VARIABLE read   \* the messages received at least once

liveVars == <<vars, read>>

LiveInit == Init /\ read = {}

LiveProcess(a) == Process(a) /\ UNCHANGED read

\* The socket of a is read and gives m.
Read(a, m) == HostOf[m.dst] \in cl[a].local /\ read' = read \cup {m}

LiveReceive(a, m) == Receive(a, m) /\ Read(a, m)

LiveNext ==
  \E a \in Agents :
    \/ LiveProcess(a)
    \/ \E m \in net : LiveReceive(a, m)

\* A call of ice_check_list_process() that finds ta and the nomination delay
\* expired, and no retransmission timer, would change something.
CanProcess(a) ==
  LET c == cl[a]
      s == Processed(c, a, c.delay /\ c.state = "Running", NoPair, TRUE)
  IN  Created(c, s.cl) <= checks[a] /\ s.cl # c

\* The application reads the socket and calls ice_check_list_process() at every
\* iteration of its main loop: neither is put off for ever while a message is
\* unread or the call would change something.  The second is weak fairness
\* of LiveProcess, with CanProcess in the place of ENABLED.
FairSpec ==
  /\ LiveInit /\ [][LiveNext]_liveVars
  /\ \A a \in Agents :
       /\ WF_read(\E m \in net \ read : Read(a, m))
       /\ []<>~CanProcess(a) \/ []<><<LiveProcess(a)>>_vars

-----------------------------------------------------------------------------
(* Properties.                                                             *)

\* Both check lists complete, unless a retransmission timer expired more
\* often than allowed and a pair failed.
Completes ==
  <>(\A a \in Agents : cl[a].state = "Completed")
  \/ <>(\E a \in Agents, p \in Pairs : cl[a].rtx[p] > MaxRetransmissions)

\* A role conflict is repaired in the end: the agents come to have
\* different roles.
ConflictRepaired ==
  <>(\A a, b \in Agents : a # b => cl[a].role # cl[b].role)
====
