CONSTANTS
  Agents <- TwoAgents
  Addrs <- NetAddrs
  Pairs <- NetPairs
  Setups <- NetSetups
  Seen <- NetSeen
  Reach <- NetReach
  HostOf <- NetHost
  Comp <- NetComp
  Found <- NetFound
  Relay <- NetRelay
  CandPrio <- NetPrio
  Tie <- Ties
  MaxRetransmissions = 1
  MaxNominationRetransmissions = 0
SPECIFICATION FairSpec
INVARIANTS
  TypeOK
  InProgressHasTransaction
PROPERTIES
  RolesSettle
  ConflictRepaired
  Completes
