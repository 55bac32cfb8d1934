SPECIFICATION Spec
CONSTANT
  MaxSessions = 3
INVARIANTS
  HeaderIsOneSession
  QuietMeansLoaded
PROPERTY
  WrittenSessionIsLoaded
