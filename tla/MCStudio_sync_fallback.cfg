SPECIFICATION StudioSpec
CONSTANTS
  Desks = {"deployments"}
  \* deployments
  Slots = {s1, s2}
  Lists = {l1, l2}
  Cases <- MCCases
  None = None
  MaxReleases = 2
  KeptDeployments = 2
  \* access
  Apps = {a1}
  Emails = {ann}
  Admins = {}
  Tokens = {t1, t2}
  Nobody = Nobody
  MaxSessions = 1
  MaxInvites = 1
  \* editor
  Paths = {index, page}
  Contents = {c1, c2}
  Blank = Blank
  Entrance = index
  MaxRequests = 1
  \* publication
  Authors = {bob}
  Plans = {p1, p2}
  Unset = Unset
  LastRelease = 2
  LastRevision = 2
  MaxPlans = 1
  \* chat
  Nonces = {n1, n2}
  Foreign = Foreign
  NoNonce = NoNonce
  MaxExchanges = 3
  MaxChatLog = 2
  MaxReplies = 2
  \* gateway
  NoRun = NoRun
  Environments <- MCEnvironments
  \* contract
  Absent = Absent
  Artifacts <- MCArtifacts
  Grantable <- MCGrantable
  Users = {ann}
  MaxGrants = 2
PROPERTY
  SyncFallsBack
CHECK_DEADLOCK FALSE
