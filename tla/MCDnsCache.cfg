SPECIFICATION Spec
CONSTANTS
  ad = ad
  ok = ok
  ip4 = ip4
  ip6 = ip6
  dns = dns
  doh = doh
  typo = typo
  Name <- MCName
  Pattern = {}
  PatternHits = {}
  Keyword = {}
  KeywordIn = {}
  AiThreat = {}
  MeshThreat = {}
  StrictName = {}
  TrackerName = {}
  Ip <- MCIp
  Ipv4 = {ip4}
  NoIp = NoIp
  Upstream <- MCUpstream
  Query = {q1, q2, q3}
  Question <- MCQuestionCase
  Qtype = {A, AAAA}
  Client = {c1}
  Doh = {doh}
  SocketAddr = {dns}
  Cloudflare = dns
  RuleStates <- MCOpenRules
  NoAsk = NoAsk
  NoAnswer = NoAnswer
  Writer = {}
  Capacity = 2
  Hidden = Hidden
  NoRow = NoRow
CHECK_DEADLOCK FALSE
INVARIANTS
  CacheIsLru
  OtherTypeWasAskedFor
SYMMETRY MCQuerySymmetry
