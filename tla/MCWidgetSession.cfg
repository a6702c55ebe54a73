SPECIFICATION FairSpec
CONSTANTS
  Tabs = {tab1, tab2}
  Users = {alice, bob}
  MaxTokens = 2
  Nobody = Nobody
INVARIANTS
  TypeOK
  ChatAsShown
  StorageAgrees
PROPERTIES
  SessionKept
