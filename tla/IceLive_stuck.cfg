CONSTANTS
  Agents <- TwoAgents
  Addrs <- NetAddrs
  Pairs <- NetPairs
  Setups <- StuckSetups
  Seen <- NetSeen
  Reach <- NetReach
  HostOf <- NetHost
  Comp <- NetComp
  Found <- NetFound
  Relay <- NetRelay
  CandPrio <- NetPrio
  Tie <- Ties
  MaxRetransmissions = 1
  MaxNominationRetransmissions = 0
SPECIFICATION FairSpec
PROPERTIES
  ConflictRepaired
