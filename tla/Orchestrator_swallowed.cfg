SPECIFICATION Spec
CONSTANTS
  Deliveries = {"d1"}
  Keys = {"k1", "k2"}
  KeyOf <- KeyOfDistinct
  Agents = {"a1"}
  Fallback = "fallback"
  Intents = {"act", "unknown"}
  Providers <- CapabilityOfA1
  Slots = {"s1"}
  MaxRetries <- RetryA1
  DependencyGraphs <- NoDependencies
  LlmOutcomes = {"answered", "raised"}
  PublishOutcomes = {"sent", "raised", "sentThenRaised"}
  MayCancel = FALSE
INVARIANT SuccessNeedsWork
