SPECIFICATION Spec
CONSTANTS
  Processes = {p, q}
  Files = {f}
  Requests = {r1, r2}
  Profiles = {urgent, budget}
  Terms <- AllTerms
  Offers <- SomeOffers
  Windows = {3}
  Skews <- FewSkews
  MARGIN = 1
  MAX_SKEW = 2
  MAX_AGE = 2
  MAX_DURATION = 4
  UINT256_MAX = 24999
  BPS_DENOMINATOR = 10000
  MAX_PROVIDER_BOND_BPS = 10000
  LastTime = 4
  MaxDeployments = 2
  MaxDeals = 2
SYMMETRY AnyName
INVARIANTS SignedIsCreatable MirrorsContract OneDealPerIdentity
CHECK_DEADLOCK FALSE
