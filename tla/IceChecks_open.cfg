CONSTANTS
  Agents <- TwoAgents
  Addrs <- OpenAddrs
  Pairs <- OpenPairs
  Setups <- OpenSetups
  Seen <- OpenSeen
  Reach <- OpenPairs
  HostOf <- OpenHost
  Comp <- OpenComp
  Found <- OpenFound
  Relay = {}
  CandPrio <- OpenPrio
  Tie <- Ties
  MaxRetransmissions = 1
  MaxNominationRetransmissions = 0
SPECIFICATION Spec
INVARIANTS
  Agreement
  NominatedByController
PROPERTIES
  SelectionStable
