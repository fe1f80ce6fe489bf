SPECIFICATION Spec
CONSTANTS
  ad = ad
  ok = ok
  ip4 = ip4
  ip6 = ip6
  dns = dns
  doh = doh
  typo = typo
  Name <- MCName
  Pattern = {}
  PatternHits = {}
  Keyword = {}
  KeywordIn = {}
  AiThreat = {}
  MeshThreat = {}
  StrictName = {}
  TrackerName = {}
  Ip <- MCIp
  Ipv4 = {ip4}
  NoIp = NoIp
  Upstream <- MCUpstream
  Query = {q1, q2}
  Question <- MCQuestion
  Qtype = {A}
  Client = {c1}
  Doh = {doh}
  SocketAddr = {dns}
  Cloudflare = dns
  RuleStates <- MCRuleStates
  NoAsk = NoAsk
  NoAnswer = NoAnswer
  Writer = {w1}
  Capacity = 1
  Hidden = Hidden
  NoRow = NoRow
CHECK_DEADLOCK FALSE
INVARIANTS
  TypeOK
  LockDiscipline
  CacheIsUpstreams
  LogAgreesWithAnswer
  LookupsCountedOnce
PROPERTY KeepsContract
SYMMETRY MCQuerySymmetry
