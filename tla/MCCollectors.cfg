CONSTANTS
  director = director
  p1 = p1
  p2 = p2
  v1 = v1
  v2 = v2
  Products <- MCProducts
  Director = director
  Versions <- MCVersions
  MaxEdits = 2
  None = None
  Names = {n1, n2}
  Certs = {c1, c2}
  BadPEM = BadPEM
  Absent = Absent
  MaxChanges = 3
  Small = {s1}
  Far = {f1}
  Texts = {t1}
  NoJson = NoJson
  MaxRows = 2
  MaxWidth = 5
  Properties = {x1, x2}
  Other = other
  Values = {w1, w2}
  MaxParts = 3
  Differences = 2
SPECIFICATION SpecAll
SYMMETRY Symmetry
INVARIANTS
  TypeOK
  DataAccountsForProducts
  QuietDataIsDeployedData
  FilesHaveTheirOwnNames
  PartTypeOK
  CollectedIsCurrent
  MatchesReference
  NothingSensitiveLeaves
  CredentialsAsGiven
  SkipTlsPrecedence
  UrlPrecedence
  MadeAsConfigured
CHECK_DEADLOCK FALSE
