SPECIFICATION FairSpec
CONSTANTS
  Services = {"a", "b", "off"}
  Names = {"a", "b"}
  NameOf <- MCNameOf
  Configs <- MCConfigs
  Calls = {"c1", "bad"}
  Rejected <- MCRejected
CHECK_DEADLOCK FALSE
INVARIANTS CascadeInv
PROPERTIES PriorityRespected CallsEnd
