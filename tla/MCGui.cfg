SPECIFICATION MCSpec
CONSTANTS
  Versions <- SomeVersions
  Days <- SomeDays
INVARIANTS
  NoLostWakeUp
  OfferIsNewer
  BundleIsOfToday
PROPERTIES
  SamplesFlow
  OutageIsShown
