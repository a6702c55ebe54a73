SPECIFICATION Spec
CONSTANTS
  Tabs = {tab1}
  Users = {alice}
  MaxTokens = 2
  Nobody = Nobody
INVARIANT NoSudden401
