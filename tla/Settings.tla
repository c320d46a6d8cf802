------------------------------ MODULE Settings ------------------------------
(* The settings (internal/config) up to a core that can be built from them: the
   file is read and built section by section, the first mistake refusing all of
   it; a command, never the service, lays the overlay of the repository it
   stands in over it; and core.New registers the catalogue, checks the rules
   and wires the runners.

   Of a file, one part at a time departs from the shipped one. Numbers and
   durations are small integers, Bad standing for text that does not parse. *)
EXTENDS Integers, Sequences, FiniteSets, SequencesExt
CONSTANTS Tools,    \* tools of an MCP server
          Effects,  \* effects
          Servers,  \* ids of MCP servers, "agent-device" among them or not
          None
VARIABLES part,     \* the part of the file that departs from the shipped one
          file,     \* what it says there
          overlay,  \* the repository's own file
          role,     \* "service" or "command"
          stage,    \* the next step
          cfg,      \* what was built so far
          global    \* history: what Load returned
vars == <<part, file, overlay, role, stage, cfg, global>>

Bad == -2
\* The numbers of the file with the least that is accepted, and what a missing
\* one stands for; max_parallel and port have a most, for which 2 stands.
Least == [shutdown_grace |-> 1, health_probe_every |-> 0, max_parallel |-> 0, budget_usd |-> 1, match_limit |-> 1,
          timeout |-> 1, frame_ttl |-> 1, restart_limit |-> 0, stop_grace |-> 1, port |-> 0, flush |-> 1, compact |-> 1,
          buffer_limit |-> 1, max_entries |-> 1, max_bytes |-> 1, ttl |-> 1, retention_keep |-> 0, retention_every |-> 1,
          backup_every |-> 1, backup_keep |-> 1, quality_minimum_samples |-> 1, health_stale_after |-> 1]
Fields == DOMAIN Least
Of == [core |-> {"shutdown_grace", "health_probe_every"},
       orchestrator |-> {"max_parallel", "budget_usd", "match_limit", "timeout", "frame_ttl", "restart_limit", "stop_grace", "port"},
       metrics |-> {"flush", "compact", "buffer_limit"}, result_cache |-> {"max_entries", "max_bytes", "ttl"},
       retention |-> {"retention_keep", "retention_every"}, backup |-> {"backup_every", "backup_keep"},
       selector |-> {"quality_minimum_samples", "health_stale_after"}]
AcceptedPositive(key, n) == n # Bad /\ n >= 0 /\ (key \in {"max_parallel", "port"} => n <= 2)
Accepted(key, n) == n # Bad /\ n >= Least[key] /\ (key \in {"max_parallel", "port"} => n <= 2)

\* A capability: its id and the input its subject is read from, if there is
\* one. An implementation: its id, its capability and the input it bounds.
\* Every capability has one input that is a string and one that is an integer.
Cap(id, subject) == [id |-> id, subject |-> subject]
Impl(id, cap, bound) == [id |-> id, cap |-> cap, bound |-> bound]
\* The shipped file, of which these are the parts told apart.
Shipped ==
  [number |-> None, retired |-> FALSE, unknown |-> FALSE, contract |-> "current",
   runners |-> <<"omp">>, process |-> None, path |-> "unset", apps |-> {}, serials |-> << >>,
   caps |-> <<Cap("c1", "string"), Cap("c2", "none")>>, impls |-> <<Impl("i1", "c1", "int"), Impl("i2", "c2", "none")>>,
   repos |-> <<[id |-> "r1", path |-> "p1", abs |-> TRUE, scale |-> "small"]>>, rules |-> << >>,
   servers |-> << >>, profile |-> None, sensitive |-> {"s1"}]
\* What a runner can run, and the implementations it serves unless told otherwise.
Runs == [omp |-> {"c1"}, local |-> {"c1"}, tokensave |-> {"c2"}, other |-> {}]
Serves == [omp |-> {"i1"}, local |-> {"i1"}, tokensave |-> {"i2"}, other |-> {}]
\* What the orchestrator's card may ask for.
Askable == {"c1", "c2"}

Server(id) ==
  [id : {id}, dotted : BOOLEAN, way : {"url", "command", "both", "neither"}, expose : {"off", "raw", "on"}, chat : BOOLEAN,
   tools : SUBSET Tools, effects : SUBSET Effects,
   narrow : {None} \cup [tool : Tools, effects : SUBSET Effects, when : {None} \cup SUBSET Effects]]
Pointer(id) == [id |-> id, dotted |-> FALSE, way |-> "url", expose |-> "off", chat |-> FALSE, tools |-> {}, effects |-> {}, narrow |-> None]
Raw(id) == [Pointer(id) EXCEPT !.expose = "raw", !.tools = Tools, !.effects = Effects]
SameRules == [cap : {"c1"}, repo : {"", "r1", "r2"}, prefer : {"i1", "i2", "i3"}]
CapLists == {<<Cap("c1", x)>> : x \in {"none", "half", "stray", "int"}}
              \cup {Append(Shipped.caps, Cap(c, "none")) : c \in {"c1", "c3"}} \cup {Shipped.caps}
ImplLists == {<<Impl("i1", c, b)>> : c \in {"c1", "c2"}, b \in {"none", "int", "string", "stray"}}
               \cup {Shipped.impls, Append(Shipped.impls, Impl("i1", "c2", "none"))}
ServerLists == {<<s>> : s \in UNION {Server(id) : id \in Servers}} \cup {<<Raw(a), Pointer(b)>> : a, b \in Servers}
\* What each part may say in place of the shipped file.
Departures ==
  [numbers |-> [number : Fields \X ({Bad} \cup -1 .. 3)],
   top |-> [retired : BOOLEAN, unknown : BOOLEAN, contract : {"current", "earlier", "missing", "newer", "retired"}],
   wiring |-> [runners : SeqOf(DOMAIN Runs, 2),
               process : {None} \cup [persistent : BOOLEAN, idle : BOOLEAN, each : BOOLEAN, project : BOOLEAN, port : BOOLEAN]],
   lists |-> [path : {"unset", "absolute", "relative"}, apps : SUBSET {"*", "x", "y"}, serials : SeqOf({"", "*", "d1", "d2"}, 2)],
   catalogue |-> [caps : CapLists, impls : ImplLists, rules : SeqOf(SameRules, 2)],
   servers |-> [servers : ServerLists],
   profiles |-> [servers : {<<s>> : s \in UNION {{Raw(id), Pointer(id)} : id \in Servers}},
                 profile : [mode : {"atenea_only", "hybrid", "other"}, direct : SUBSET (Servers \cup {"*"}), catalogs : SUBSET Servers]],
   overlay |-> [repos : {Shipped.repos, Append(Shipped.repos, [id |-> "r2", path |-> "p2", abs |-> FALSE, scale |-> ""])},
                rules : SeqOf([cap : {"c1"}, repo : {"", "r1", "r2"}, prefer : {"i1"}], 1)]]
Parts == DOMAIN Departures
FilesOf(p) == {[k \in DOMAIN Shipped |-> IF k \in DOMAIN d THEN d[k] ELSE Shipped[k]] : d \in Departures[p]}

NoOverlay == [there |-> "no", root |-> "p1", name |-> "r1", keys |-> "ours", blocks |-> 0, scale |-> None, rules |-> << >>, sensitive |-> None]
Overlays ==
  [there : {"file"}, root : {"p1", "p2", "p3"}, name : {"r1", "r3"}, keys : {"ours"}, blocks : 0 .. 2,
   scale : {"large", "other"}, sensitive : {None, {"s2"}},
   rules : SeqOf([cap : {"c1", "c9"}, repo : {"", "r1"}, prefer : {"i1", "i9"}], 1)
             \cup SeqOf([cap : {"c1"}, repo : {"", "r1"}, prefer : {"i1", "i9"}], 2)]
    \cup {[NoOverlay EXCEPT !.there = "folder"], [NoOverlay EXCEPT !.there = "off", !.sensitive = {"s2"}], [NoOverlay EXCEPT !.there = "file", !.keys = "refused"]}

Init ==
  /\ part \in Parts /\ role \in IF part \in {"overlay", "numbers"} THEN {"service", "command"} ELSE {"service"}
  /\ file \in FilesOf(part) \cup (IF part = "top" THEN {None} ELSE {})
  /\ overlay \in IF part = "overlay" THEN Overlays ELSE {NoOverlay}
  /\ stage = "load" /\ cfg = None /\ global = None

Refuse == stage' = "refused" /\ cfg' = None /\ UNCHANGED global
Goes(next) == stage' = next /\ UNCHANGED <<cfg, global>>
Step(at, ok, next) == stage = at /\ (IF ok THEN Goes(next) ELSE Refuse) /\ UNCHANGED <<part, file, overlay, role>>

-----------------------------------------------------------------------------
(* Load and parse *)

\* resolvePath and Load: only the default path may hold no file.
Load(named) ==
  /\ stage = "load"
  /\ IF file = None /\ named THEN Refuse ELSE stage' = "top" /\ cfg' = (IF file = None THEN Shipped ELSE file) /\ UNCHANGED global
  /\ UNCHANGED <<part, file, overlay, role>>
ParseTop == Step("top", ~cfg.retired /\ ~cfg.unknown /\ cfg.contract \in {"current", "earlier"}, "core")

\* The number of the file that lies in this section, and the lists beside it.
NumbersOf(section) == cfg.number # None /\ cfg.number[1] \in Of[section] => Accepted(cfg.number[1], cfg.number[2])
Number(key) == IF cfg.number # None /\ cfg.number[1] = key THEN cfg.number[2] ELSE 1
BuildCore == Step("core", NumbersOf("core"), "orchestrator")
\* settingsPath, fileDesktop.build and fileAndroid.build
PathOK == cfg.path # "relative"
AppsOK == "*" \in cfg.apps => cfg.apps = {"*"}
SerialsOK == /\ ToSet(cfg.serials) \cap {"", "*"} = {}
             /\ Cardinality(ToSet(cfg.serials)) = Len(cfg.serials)
\* fileManagedProcess.build
ProcessOK(p) ==
  p # None => /\ ~(p.persistent /\ p.idle)
              /\ p.each <=> p.project
              /\ ~(p.each /\ p.port)
RunnersOK == /\ \A i \in DOMAIN cfg.runners : cfg.runners[i] # "other"
             /\ Cardinality(ToSet(cfg.runners)) = Len(cfg.runners)
BuildOrchestrator == Step("orchestrator", NumbersOf("orchestrator") /\ RunnersOK /\ ProcessOK(cfg.process) /\ PathOK, "keeping")
BuildKeeping == Step("keeping", \A s \in {"metrics", "result_cache", "retention", "backup"} : NumbersOf(s), "selector")
BuildSelector == Step("selector", AppsOK /\ SerialsOK /\ NumbersOf("selector"), "catalogue")

\* fileCapability.build with buildSubject; the rest of a record is its own affair.
CapabilityOK(c) == c.subject \in {"none", "string"}
BuildCatalogue == Step("catalogue", \A i \in DOMAIN cfg.caps : CapabilityOK(cfg.caps[i]), "servers")

\* fileMCPServer.build
ServerOK(s) ==
  /\ ~s.dotted /\ s.way \in {"url", "command"} /\ s.expose \in {"off", "raw"}
  /\ s.expose = "off" => ~s.chat /\ s.tools = {} /\ s.effects = {} /\ s.narrow = None
  /\ s.expose = "raw" => /\ s.tools # {} /\ s.effects # {}
                         /\ s.narrow # None => /\ s.narrow.tool \in s.tools /\ s.narrow.effects # {}
                                               /\ s.narrow.when # {}
\* EffectsFor: a rule that matches the arguments, then the tool's own, then the server's.
EffectsFor(s, tool, matches) ==
  IF s.narrow = None \/ s.narrow.tool # tool THEN s.effects
  ELSE IF matches /\ s.narrow.when # None THEN s.narrow.when ELSE s.narrow.effects
Ids(list) == {list[i].id : i \in DOMAIN list}
Once(list) == Cardinality(Ids(list)) = Len(list)
BuildServers == Step("servers", (\A i \in DOMAIN cfg.servers : ServerOK(cfg.servers[i])) /\ Once(cfg.servers), "profiles")

\* validateDesktopProfiles and ValidateDesktopProfiles
Exposed(id) == {cfg.servers[i].expose : i \in {j \in DOMAIN cfg.servers : cfg.servers[j].id = id}}
ProfileOK(p) ==
  p # None =>
    /\ p.mode \in {"atenea_only", "hybrid"} /\ ("*" \in p.direct => p.direct = {"*"})
    /\ \A id \in p.direct \ {"*"} : Exposed(id) = {"on"}
    /\ \A id \in p.catalogs : Exposed(id) = {"raw"} \/ (id = "agent-device" /\ Exposed(id) = {})
\* The shipped profiles give agent-device a catalogue, too.
BuildProfiles ==
  /\ stage = "profiles"
  /\ IF ProfileOK(cfg.profile) /\ Exposed("agent-device") # {"off"}
       THEN stage' = "overlay" /\ global' = cfg /\ UNCHANGED cfg
       ELSE Refuse
  /\ UNCHANGED <<part, file, overlay, role>>
\* FilterDesktopMCPServers
Direct == IF cfg.profile = None \/ cfg.profile.mode # "hybrid" THEN {}
          ELSE {id \in Ids(cfg.servers) : Exposed(id) = {"on"} /\ ("*" \in cfg.profile.direct \/ id \in cfg.profile.direct)}

-----------------------------------------------------------------------------
(* The overlay *)

Mine == {i \in DOMAIN cfg.repos : cfg.repos[i].path = overlay.root /\ \A j \in 1 .. i - 1 : cfg.repos[j].path # overlay.root}
MyId == IF Mine # {} THEN cfg.repos[CHOOSE i \in Mine : TRUE].id ELSE overlay.name
\* localRepositories: the block patches the repository of this path, or adds it.
RepositoryOK == /\ overlay.blocks <= 1
                /\ overlay.blocks = 1 => /\ (Mine = {} => overlay.name \notin Ids(cfg.repos))
                                         /\ overlay.scale # "other"
Scaled(r) == IF overlay.scale = None THEN r ELSE [r EXCEPT !.scale = overlay.scale]
LocalRepositories ==
  IF overlay.blocks = 0 THEN cfg.repos
  ELSE IF Mine # {} THEN [i \in DOMAIN cfg.repos |-> IF i \in Mine THEN Scaled(cfg.repos[i]) ELSE cfg.repos[i]]
  ELSE Append(cfg.repos, Scaled([id |-> overlay.name, path |-> overlay.root, abs |-> TRUE, scale |-> ""]))
\* localRules: of this repository only, and in place of the rule it repeats.
RuleOK(r) == overlay.blocks = 1 /\ r.prefer \in Ids(cfg.impls) /\ r.repo \in {"", MyId}
Scoped(r) == [r EXCEPT !.repo = MyId]
Repeats(r, old) == old.cap = r.cap /\ old.repo = r.repo
MergeBehind(rules, r) == Append(rules, Scoped(r))
Merge(rules, r) ==
  LET s == Scoped(r)
      i == SelectInSeq(rules, LAMBDA old : Repeats(s, old)) IN
  IF i = 0 THEN Append(rules, s) ELSE [rules EXCEPT ![i] = s]
LocalRules == FoldLeft(Merge, cfg.rules, overlay.rules)
LocalSensitive == IF overlay.sensitive = None THEN cfg.sensitive ELSE cfg.sensitive \cup overlay.sensitive
\* withLocal and applyLocal; the service loads no overlay.
OverlayOK == /\ overlay.there = "file" /\ overlay.keys = "ours" /\ RepositoryOK
             /\ \A i \in DOMAIN overlay.rules : RuleOK(overlay.rules[i])
ApplyLocal ==
  /\ stage = "overlay"
  /\ IF role = "service" \/ overlay.there \in {"no", "off"} THEN Goes("register")
     ELSE IF ~OverlayOK THEN Refuse
     ELSE /\ cfg' = [cfg EXCEPT !.repos = LocalRepositories, !.rules = LocalRules, !.sensitive = LocalSensitive]
          /\ stage' = "register" /\ UNCHANGED global
  /\ UNCHANGED <<part, file, overlay, role>>

-----------------------------------------------------------------------------
(* core.New, up to its state on disk *)

\* AddCapability, AddImplementation and AddRepository
Register ==
  Step("register", /\ Once(cfg.caps) /\ Once(cfg.impls) /\ Once(cfg.repos)
                   /\ \A i \in DOMAIN cfg.impls : /\ cfg.impls[i].cap \in Ids(cfg.caps)
                                                  /\ cfg.impls[i].bound \in {"none", "int"}, "rules")
\* selector.New and checkRules
CapOf(id) == {cfg.impls[i].cap : i \in {j \in DOMAIN cfg.impls : cfg.impls[j].id = id}}
RuleMeansSomething(r) == /\ r.cap \in Ids(cfg.caps) /\ CapOf(r.prefer) = {r.cap}
                         /\ r.repo = "" \/ r.repo \in Ids(cfg.repos)
CheckRules ==
  Step("rules", /\ \A i, j \in DOMAIN cfg.rules : i # j => ~Repeats(cfg.rules[i], cfg.rules[j])
                /\ \A i \in DOMAIN cfg.rules : RuleMeansSomething(cfg.rules[i]), "runners")
\* buildRunners: a supervised one has its process, which only a shared one may
\* be; then checkReach, checkDispatch and checkAskable.
Attached == ToSet(cfg.runners)
Launches == /\ "tokensave" \in Attached => cfg.process # None
            /\ cfg.process # None => ~cfg.process.each
Reaches == \A a, b \in Attached : a # b => Serves[a] \cap Serves[b] = {}
Dispatches == \A a \in Attached : \A id \in Serves[a] : CapOf(id) \subseteq Runs[a]
BuildRunners == Step("runners", Launches /\ Reaches /\ Dispatches /\ Ids(cfg.caps) \subseteq Askable, "ground")
\* groundedRepositories: a service stands nowhere.
Ground == Step("ground", role = "service" => \A i \in DOMAIN cfg.repos : cfg.repos[i].abs, "built")

\* The jobs, measuring and copying being on, that buildLanes gives to the clock, with their beats.
Beats == {Number("flush"), Number("compact"), Number("backup_every")}
           \cup (IF Number("retention_keep") > 0 THEN {Number("retention_every")} ELSE {})
           \cup (IF Number("health_probe_every") > 0 /\ role = "service" /\ cfg.servers # << >> THEN {Number("health_probe_every")} ELSE {})

Next ==
  \/ \E named \in BOOLEAN : Load(named)
  \/ ParseTop \/ BuildCore \/ BuildOrchestrator \/ BuildKeeping \/ BuildSelector \/ BuildCatalogue \/ BuildServers \/ BuildProfiles
  \/ ApplyLocal \/ Register \/ CheckRules \/ BuildRunners \/ Ground
Spec == Init /\ [][Next]_vars

-----------------------------------------------------------------------------
\* A core that was built can do what it was told: every beat of its clock and
\* every bound its parts rely on is one they can work with, every raw tool is
\* on an allow list and has effects whatever its arguments, no client is sent
\* past Atenea to a raw server, and every rule and every attached
\* implementation leads to one runner that can run it.
BuiltIsSound ==
  stage = "built" =>
    /\ \A b \in Beats : b > 0
    /\ \A k \in {"backup_keep", "buffer_limit", "max_entries", "max_bytes", "ttl", "budget_usd", "timeout", "health_stale_after"} : Number(k) > 0
    /\ Number("restart_limit") >= 0
    /\ \A i \in DOMAIN cfg.servers : LET s == cfg.servers[i] IN
         \A t \in s.tools, m \in BOOLEAN : s.expose = "raw" /\ EffectsFor(s, t, m) # {}
    /\ \A id \in Direct : Exposed(id) # {"raw"}
    /\ \A i \in DOMAIN cfg.rules : CapOf(cfg.rules[i].prefer) = {cfg.rules[i].cap}
    /\ \A id \in Ids(cfg.impls) : Cardinality({a \in Attached : id \in Serves[a]}) <= 1
    /\ \A a \in Attached, id \in Ids(cfg.impls) : id \in Serves[a] => CapOf(id) \subseteq Runs[a]
    /\ cfg.path # "relative" /\ \A i \in DOMAIN cfg.serials : cfg.serials[i] \notin {"", "*"}
    /\ role = "service" => cfg = global

\* A repository's own file reaches nothing but that repository: the other
\* repositories, the rules about them, what may be run and what is offered stay
\* as the machine's file has them; nothing it calls sensitive is taken off the
\* list; and two rules never speak of the same thing because of it.
OverlayStaysHome ==
  stage \notin {"refused", "load"} /\ global # None =>
    /\ \A f \in DOMAIN Shipped \ {"repos", "rules", "sensitive"} : cfg[f] = global[f]
    /\ global.sensitive \subseteq cfg.sensitive
    /\ \A i \in DOMAIN global.repos : /\ cfg.repos[i].id = global.repos[i].id /\ cfg.repos[i].path = global.repos[i].path
                                      /\ cfg.repos[i] # global.repos[i] => cfg.repos[i].path = overlay.root
    /\ \A i \in DOMAIN cfg.rules : cfg.rules[i] \notin ToSet(global.rules) =>
         \E j \in DOMAIN cfg.repos : cfg.repos[j].id = cfg.rules[i].repo /\ cfg.repos[j].path = overlay.root
    /\ Once(global.repos) => Once(cfg.repos)
    /\ (\A i, j \in DOMAIN global.rules : i # j => ~Repeats(global.rules[i], global.rules[j])) =>
         \A i, j \in DOMAIN cfg.rules : i # j => ~Repeats(cfg.rules[i], cfg.rules[j])

\* What is built is sound, and the part of it that came from a repository's own
\* file stays that repository's.
SettingsAreSound == BuiltIsSound /\ OverlayStaysHome
=============================================================================
