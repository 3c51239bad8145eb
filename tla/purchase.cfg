SPECIFICATION ProfilesSpec
CONSTANTS
  Addresses = {a1}
  Nobody = Nobody
  MaxProfile = 2
  ProfileCalls = {h1}
INVARIANT PurchaseGoesOn
CHECK_DEADLOCK FALSE
