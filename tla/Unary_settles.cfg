SPECIFICATION TransportsSpec
CONSTANTS
  Bodies <- UnaryBodies
INVARIANT BodyAsSent MessageIsTheServers
INVARIANT TwirpOutcome
PROPERTY KeepsContract
