SPECIFICATION Spec
CONSTANTS
  ad = ad
  hole = hole
  home = home
  lan = lan
  u1 = u1
  u2 = u2
  good = good
  bad = bad
  plain = plain
  custom = custom
  Name = {ad, hole}
  Pattern = {good}
  PatternHits = {}
  Keyword = {}
  KeywordIn = {}
  AiThreat = {}
  MeshThreat = {}
  StrictName = {}
  TrackerName = {}
  Ip = {home, lan}
  Ipv4 = {home, lan}
  NoIp = NoIp
  Upstream = {}
  Url = {u1, u2}
  Expr = {good, bad}
  Settings = {plain, custom}
  DefaultUrl = u1
  DefaultSettings = plain
  PiHole <- MCPiHole
  Loopback = home
  Pages <- MCPages
  Absent = Absent
  Torn = Torn
  Call = {c1, c2, c3}
  Ops <- MCFewOps
  NoOp = NoOp
  MaxDeaths = 1
  MaxErrors = 0
CHECK_DEADLOCK FALSE
INVARIANT AckedRulesSurvive
