SPECIFICATION TransportsSpec
CONSTANTS
  Bodies <- UnaryBodies
INVARIANT ResolvesWhenComplete
