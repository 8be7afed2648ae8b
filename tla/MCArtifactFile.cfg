CONSTANT Call = {a, b, c}
SPECIFICATION FileSpec
CHECK_DEADLOCK FALSE
PROPERTY ImplementsArtifact
