SPECIFICATION FairSpec
CONSTANTS
  Objects = {"old", "new"}
  Names = {"n1"}
  NameOf <- MCNameOf
  Caps = {"both", "a", "b"}
  CapsOf <- MCCapsOf
  None = "none"
  Limit <- MCLimit
  Calls = {k1, k2}
  MaxSetups <- MCMaxSetups
CHECK_DEADLOCK FALSE
INVARIANTS CallsInv IndexExact RegistryInv
PROPERTIES CallsEnd
