CONSTANTS
  owner1 = owner1
  operator1 = operator1
  admin1 = admin1
  Discord = {owner1}
  Console <- MCConsole
  Rank <- MCRank
  Op = {"stop_backend", "save_world"}
  Key = {k1}
  Owner = {a1, a2}
  Lease = 1
  MaxJobs = 3
  MaxNow = 2
  MaxEvents = 6
  MaxRefused = 1
SYMMETRY Symmetry
SPECIFICATION Spec
INVARIANTS OneJobPerRequest TrailMatchesJob LeaseMatchesStatus WorkedByLeaseholder
PROPERTIES ImplementsScopeLock LiveLeaseEndsByOwner
