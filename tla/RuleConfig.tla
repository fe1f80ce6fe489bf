------------------------------ MODULE RuleConfig ------------------------------
(***************************************************************************)
(* What the engine keeps of the user's rules: in memory (the part of       *)
(* struct Blocklist that changes) and in the config file or a backup       *)
(* (BlocklistConfig), rust-dns-engine/src/blocklist.rs, and what a request *)
(* of the control API makes of them, rust-dns-engine/src/api.rs.           *)
(*                                                                         *)
(* Two abstractions of data.  The vectors of URLs and of regular           *)
(* expressions are sets: their order decides nothing.  The nine fields     *)
(* that only a restore writes, and that every copy takes over one by one,  *)
(* are one value, settings.                                                *)
(***************************************************************************)
EXTENDS Blocklist

CONSTANTS
    Url,             \* addresses of gravity lists
    Expr,            \* strings offered as regular expressions
    Settings,        \* values of the nine fields
    DefaultUrl, DefaultSettings,
    PiHole,          \* "pi.hole"
    Loopback,        \* "127.0.0.1"
    Pages,           \* Pages[u]: the bodies u may serve, an error page among them
    Absent, Torn     \* no config file; one that serde_json does not parse

ASSUME ConfigAssumption ==
    /\ Pattern \subseteq Expr
    /\ DefaultUrl \in Url
    /\ DefaultSettings \in Settings
    /\ PiHole \in Spelling
    /\ Loopback \in Ip
    /\ Pages \in [Url -> SUBSET SUBSET Spelling]

Mapping == [Spelling -> Ip \cup {NoIp}]

\* Whether a sync was ever recorded.
Stamp == {"never", "synced"}

Store == [urls      : SUBSET Url,
          blacklist : SUBSET Spelling,
          whitelist : SUBSET Spelling,
          regex     : SUBSET Pattern,
          mapping   : Mapping,
          settings  : Settings,
          lastSync  : Stamp,
          domains   : SUBSET Spelling]

Config == [enabled_urls     : SUBSET Url,
           custom_blacklist : SUBSET Spelling,
           custom_whitelist : SUBSET Spelling,
           regex_blacklist  : SUBSET Expr,
           local_mappings   : Mapping,
           settings         : Settings,
           last_sync        : Stamp]

ASSUME FileAssumption == Absent \notin Config /\ Torn \notin Config

DefaultConfig ==
    [enabled_urls     |-> {DefaultUrl},
     custom_blacklist |-> {},
     custom_whitelist |-> {},
     regex_blacklist  |-> {},
     local_mappings   |-> [d \in Spelling |-> IF d = PiHole THEN Loopback ELSE NoIp],
     settings         |-> DefaultSettings,
     last_sync        |-> "never"]

\* save_config, and the body of a backup.
ToConfig(s) ==
    [enabled_urls     |-> s.urls,
     custom_blacklist |-> s.blacklist,
     custom_whitelist |-> s.whitelist,
     regex_blacklist  |-> s.regex,
     local_mappings   |-> s.mapping,
     settings         |-> s.settings,
     last_sync        |-> s.lastSync]

\* Mutant: expressions are taken over whether they compile or not.
FromConfigUnchecked(c, domains) ==
    [urls |-> c.enabled_urls, blacklist |-> c.custom_blacklist, whitelist |-> c.custom_whitelist,
     regex |-> c.regex_blacklist, mapping |-> c.local_mappings, settings |-> c.settings,
     lastSync |-> c.last_sync, domains |-> domains]

\* The store a config describes, over the gravity domains at hand.  Expressions
\* that do not compile are dropped silently.
FromConfig(c, domains) ==
    [urls      |-> c.enabled_urls,
     blacklist |-> c.custom_blacklist,
     whitelist |-> c.custom_whitelist,
     regex     |-> c.regex_blacklist \cap Pattern,
     mapping   |-> c.local_mappings,
     settings  |-> c.settings,
     lastSync  |-> c.last_sync,
     domains   |-> domains]

\* new_with_path: anything but a config that parses is silently the default one,
\* and the gravity domains start out empty.
Load(f) == FromConfig(IF f \in {Absent, Torn} THEN DefaultConfig ELSE f, {})

-----------------------------------------------------------------------------
(***************************************************************************)
(* The requests of the control API that concern the rules.                 *)
(***************************************************************************)

Op == [kind : {"blacklist", "whitelist"}, add : BOOLEAN, item : Spelling]
        \cup [kind : {"regex"}, add : BOOLEAN, item : Expr]
        \cup [kind : {"gravity"}, add : BOOLEAN, item : Url]
        \cup [kind : {"local"}, add : BOOLEAN, item : Spelling, ip : Ip]
        \cup [kind : {"restore"}, config : Config]
        \cup [kind : {"read", "sync", "unrouted"}]

Editing == {"blacklist", "whitelist", "regex", "gravity", "local", "restore"}

\* Any action but "add" removes.
Edited(S, o, x) == IF o.add THEN S \cup {x} ELSE S \ {x}

\* The store after one editing request.
Changed(s, o) ==
    CASE o.kind = "blacklist" -> [s EXCEPT !.blacklist = Edited(@, o, Lower(o.item))]
      [] o.kind = "whitelist" -> [s EXCEPT !.whitelist = Edited(@, o, Lower(o.item))]
      [] o.kind = "regex"     -> [s EXCEPT !.regex = Edited(@, o, o.item) \cap Pattern]
      [] o.kind = "gravity"   -> [s EXCEPT !.urls = Edited(@, o, o.item)]
      [] o.kind = "local"     -> [s EXCEPT !.mapping[Lower(o.item)] =
                                      IF o.add THEN o.ip ELSE NoIp]
      [] o.kind = "restore"   -> FromConfig(o.config, s.domains)

\* The domains the body of a list contributes.
Lines(page) == {Lower(d) : d \in page}

\* The store after a sync that found these domains.
Synced(s, found) == [s EXCEPT !.domains = found, !.lastSync = "synced"]

=============================================================================
