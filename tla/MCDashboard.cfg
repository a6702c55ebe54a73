CONSTANTS
  Tables = {"users", "roles", "ingestion"}
  Stores = {"pgvector", "bedrock_kb"}
  MaxOps = 2
SPECIFICATION Spec
INVARIANTS TypeOK FormKept SavedIsShown CompletedWasAdded
