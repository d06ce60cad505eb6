SPECIFICATION FairSpec
CONSTANTS
  Deliveries = {"d1", "d2"}
  Keys = {"k1", "k2"}
  KeyOf <- KeyOfDuplicates
  Agents = {"a1"}
  Fallback = "fallback"
  Intents = {"act", "unknown"}
  Providers <- CapabilityOfA1
  Slots = {"s1", "s2"}
  MaxRetries <- RetryA1
  DependencyGraphs <- AnyDependencies
  LlmOutcomes = {"answered", "raised"}
  PublishOutcomes = {"sent"}
  MayCancel = FALSE
PROPERTIES ImplementsService AcceptedIsAnswered
