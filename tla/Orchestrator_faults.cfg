SPECIFICATION Spec
CONSTANTS
  Deliveries = {"d1"}
  Keys = {"k1", "k2"}
  KeyOf <- KeyOfDistinct
  Agents = {"a1"}
  Fallback = "fallback"
  Intents = {"act", "unknown"}
  Providers <- CapabilityOfA1
  Slots = {s1, s2, s3}
  s1 = s1
  s2 = s2
  s3 = s3
  MaxRetries <- RetryA1
  DependencyGraphs <- AnyDependencies
  LlmOutcomes = {"answered", "raised"}
  PublishOutcomes = {"sent", "dropped", "raised", "sentThenRaised"}
  MayCancel = TRUE
SYMMETRY SlotSymmetry
INVARIANTS WorkflowInv DependenciesFirst ReportsHonest
PROPERTIES SucceededNeverRerun ImplementsService
