------------------------------ MODULE Startup ------------------------------
(***************************************************************************)
(* main, from flag.Parse to the start of the controller: flags over        *)
(* environment over defaults, the three ways to configure zones, the       *)
(* construction of the providers and the preflight check.                  *)
(*                                                                         *)
(* A value is the string a person typed; Numeral says which strings parse  *)
(* as a number, a duration or a Boolean, and as what.  The part of an      *)
(* EXTERNAL_DNS_RFC2136_ZONE_ variable after the prefix is the sequence of *)
(* its words between underscores.  Time is counted in seconds.             *)
(***************************************************************************)
EXTENDS Integers, Sequences, FiniteSets

CONSTANTS
  FlagInputs,    \* the command lines: option -> the value given, or NotGiven
  EnvInputs,     \* the environments: option -> the value of its variable, "" if unset
  ZoneInputs,    \* the sets of zone variables, each [key, val]
  YamlInputs,    \* the files: whether it can be read and parsed, and its zone entries
  Rank,          \* the names of zones that occur in them: name -> place in the alphabet
  Numeral,       \* the strings that parse, with their values
  Files,         \* the readable secret files: path -> trimmed content
  MaxDelay       \* bound: how long a server may take to answer

NotGiven == "(not given)"

\* The options with a text, which are empty by default except for the algorithm.
TextOption ==
  {"rfc2136Host", "rfc2136Zone", "rfc2136TSIGKey", "rfc2136TSIGSecret",
   "rfc2136TSIGSecretFile", "rfc2136TSIGAlg", "rfc2136ConfigFile"}

\* The options with a number, and their defaults.
Default ==
  [ rfc2136Port |-> 53, rfc2136MinTTL |-> 0, rfc2136Timeout |-> 10, interval |-> 60,
    debounce |-> 5, backoffBase |-> 5, backoffMax |-> 300, skipPreflight |-> 0 ]
NumberOption == DOMAIN Default

ASSUME InputsAssumption ==
  /\ FlagInputs \subseteq [TextOption \cup NumberOption -> STRING]
  /\ EnvInputs \subseteq [TextOption \cup NumberOption -> STRING]
  /\ \A s \in DOMAIN Numeral : Numeral[s] \in Int
ASSUME RankAssumption == \A n \in DOMAIN Rank : Rank[n] \in Nat
ASSUME MaxDelayAssumption == MaxDelay \in Nat \ {0}

VARIABLES
  flag, env, environ, yaml,   \* the inputs, which never change
  pc,        \* "parse", "scan", "select", "preflight", "running" or "exit"
  status,    \* the exit status
  unread,    \* the zone variables that os.Environ has yet to yield
  configs,   \* zone name -> the ZoneConfig put together so far
  mode,      \* "none", "single", "env" or "file"
  zones,     \* the configurations of the providers, in order
  left,      \* seconds until the context of the preflight check expires
  answers,   \* history: how the servers answered the preflight queries
  durations  \* the durations the controller runs with

inputs == <<flag, env, environ, yaml>>
vars == <<inputs, pc, status, unread, configs, mode, zones, left, answers, durations>>

-----------------------------------------------------------------------------
(* Settings. *)

\* envOr: a variable that is empty counts as unset.
Text(o) ==
  IF flag[o] # NotGiven THEN flag[o]
  ELSE IF env[o] = "" /\ o = "rfc2136TSIGAlg" THEN "hmac-sha256"
  ELSE env[o]

\* envOrInt, envOrInt64, envOrBool, envOrDuration: a variable that does not
\* parse counts as unset.
Number(o) ==
  IF flag[o] # NotGiven THEN Numeral[flag[o]]
  ELSE IF env[o] \in DOMAIN Numeral THEN Numeral[env[o]]
  ELSE Default[o]

applyDefaults(d, default) == IF d <= 0 THEN default ELSE d

-----------------------------------------------------------------------------
(* Zone configurations. *)

ZeroConfig ==
  [ Host |-> "", Zone |-> "", TSIGKey |-> "", TSIGSecret |-> "", TSIGSecretFile |-> "",
    TSIGAlg |-> "", Port |-> 0, MinTTL |-> 0, Timeout |-> 0 ]

\* suffix, field, and whether the value has to parse.
zoneFieldSetters ==
  << [suffix |-> <<"TSIG", "SECRET", "FILE">>, field |-> "TSIGSecretFile", parsed |-> FALSE],
     [suffix |-> <<"TSIG", "SECRET">>, field |-> "TSIGSecret", parsed |-> FALSE],
     [suffix |-> <<"TSIG", "KEY">>, field |-> "TSIGKey", parsed |-> FALSE],
     [suffix |-> <<"TSIG", "ALG">>, field |-> "TSIGAlg", parsed |-> FALSE],
     [suffix |-> <<"MIN", "TTL">>, field |-> "MinTTL", parsed |-> TRUE],
     [suffix |-> <<"TIMEOUT">>, field |-> "Timeout", parsed |-> TRUE],
     [suffix |-> <<"HOST">>, field |-> "Host", parsed |-> FALSE],
     [suffix |-> <<"PORT">>, field |-> "Port", parsed |-> TRUE],
     [suffix |-> <<"ZONE">>, field |-> "Zone", parsed |-> FALSE] >>

HasSuffix(key, s) ==
  Len(key) > Len(s) /\ SubSeq(key, Len(key) - Len(s) + 1, Len(key)) = s

Matching(key) == {k \in DOMAIN zoneFieldSetters : HasSuffix(key, zoneFieldSetters[k].suffix)}

\* The first setter that matches, and the name in front of its suffix.
SetterOf(key) == zoneFieldSetters[CHOOSE k \in Matching(key) : \A j \in Matching(key) : k <= j]

\* Fault injection: the name ends at the first underscore.
NameOf_FirstWord(key) == <<key[1]>>

NameOf(key) == SubSeq(key, 1, Len(key) - Len(SetterOf(key).suffix))

\* The variable sets a field of a named zone.
Known(key) == Matching(key) # {} /\ NameOf(key) # <<"">>

\* os.Environ yields finitely many variables, and each key once.
ASSUME ZoneInputsAssumption ==
  \A e \in ZoneInputs :
    /\ IsFiniteSet(e)
    /\ \A v \in e : v.key \in Seq(STRING) /\ v.val \in STRING
    /\ \A v, w \in e : v.key = w.key => v = w
    /\ \A v \in e : Known(v.key) => NameOf(v.key) \in DOMAIN Rank
ASSUME NamesAssumption == DOMAIN Rank \subseteq Seq(STRING) \ {<<>>, <<"">>}

\* yamlZoneEntry; the Go fields have these types, and a missing one is zero.
YamlEntry ==
  [ Host : STRING, Zone : STRING, TSIGKey : STRING, TSIGSecret : STRING,
    TSIGSecretFile : STRING, TSIGAlg : STRING, Port : Int, MinTTL : Int, Timeout : STRING ]
ASSUME YamlInputsAssumption ==
  \A y \in YamlInputs : y.parses \in BOOLEAN /\ y.zones \in Seq(YamlEntry)

\* A secret file takes precedence over a secret.
Secret(zc) == IF zc.TSIGSecretFile = "" THEN zc.TSIGSecret ELSE Files[zc.TSIGSecretFile]

Complete(zc) ==
  zc.Host # "" /\ zc.Zone # "" /\ (zc.TSIGSecretFile = "" \/ zc.TSIGSecretFile \in DOMAIN Files)

Resolved(zc) == [zc EXCEPT !.TSIGSecret = Secret(zc), !.TSIGSecretFile = ""]

\* What an entry of the file has to satisfy.
ValidEntry(z) ==
  /\ Complete(z)
  /\ z.TSIGSecret = "" \/ z.TSIGSecretFile = ""
  /\ z.Timeout = "" \/ z.Timeout \in DOMAIN Numeral

FromEntry(z) == [Resolved(z) EXCEPT !.Timeout = IF @ = "" THEN 0 ELSE Numeral[@]]

\* Fault injection: the timeout has no default.
New_NoTimeout(zc) == [zc EXCEPT !.Port = IF @ = 0 THEN 53 ELSE @]

\* The defaults of rfc2136.New, which NewMulti calls for every zone.
New(zc) ==
  [zc EXCEPT !.Port = IF @ = 0 THEN 53 ELSE @, !.Timeout = IF @ <= 0 THEN 10 ELSE @]

NewMulti(zcs) == [k \in DOMAIN zcs |-> New(zcs[k])]

-----------------------------------------------------------------------------
Init ==
  /\ flag \in FlagInputs
  /\ env \in EnvInputs
  /\ environ \in ZoneInputs
  /\ yaml \in YamlInputs
  /\ pc = "parse"
  /\ status = 0
  /\ unread = environ
  /\ configs = <<>>
  /\ mode = "none"
  /\ zones = <<>>
  /\ left = 0
  /\ answers = <<>>
  /\ durations = <<>>

Exit(s) == pc' = "exit" /\ status' = s

\* flag.Parse ends the program on a value that does not parse.
Parse ==
  /\ pc = "parse"
  /\ IF \A o \in NumberOption : flag[o] \in DOMAIN Numeral \cup {NotGiven}
       THEN pc' = "scan" /\ UNCHANGED status
       ELSE Exit(2)
  /\ UNCHANGED <<inputs, unread, configs, mode, zones, left, answers, durations>>

(* loadZoneConfigsFromEnv *)

\* A variable without a known field, or without a name, is passed over.
ScanIgnored(v) ==
  /\ pc = "scan" /\ v \in unread
  /\ ~Known(v.key)
  /\ unread' = unread \ {v}
  /\ UNCHANGED <<inputs, pc, status, configs, mode, zones, left, answers, durations>>

\* The configuration of a name, new if this is its first variable.
ConfigOf(name) == IF name \in DOMAIN configs THEN configs[name] ELSE ZeroConfig

ScanField(v) ==
  /\ pc = "scan" /\ v \in unread
  /\ Known(v.key)
  /\ LET s == SetterOf(v.key)
         n == NameOf(v.key)
         val == IF s.parsed THEN Numeral[v.val] ELSE v.val
     IN  IF s.parsed /\ v.val \notin DOMAIN Numeral
           THEN Exit(1) /\ UNCHANGED <<unread, configs>>
           ELSE /\ unread' = unread \ {v}
                /\ configs' = [m \in DOMAIN configs \cup {n} |->
                     IF m = n THEN [ConfigOf(n) EXCEPT ![s.field] = val] ELSE configs[m]]
                /\ UNCHANGED <<pc, status>>
  /\ UNCHANGED <<inputs, mode, zones, left, answers, durations>>

\* All variables are read: an incomplete zone ends the program in every mode.
ScanReturns ==
  /\ pc = "scan" /\ unread = {}
  /\ IF \A n \in DOMAIN configs : Complete(configs[n])
       THEN pc' = "select" /\ UNCHANGED status
       ELSE Exit(1)
  /\ UNCHANGED <<inputs, unread, configs, mode, zones, left, answers, durations>>

\* The result of sort.Strings on a set of names.
Sorted(names) ==
  {s \in [1 .. Cardinality(names) -> names] :
     \A j, k \in DOMAIN s : j < k => Rank[s[j]] < Rank[s[k]]}

EnvConfigs == {[k \in DOMAIN s |-> Resolved(configs[s[k]])] : s \in Sorted(DOMAIN configs)}

-----------------------------------------------------------------------------
(* Mode selection and the construction of the providers. *)

\* Fault injection: a zone without a host goes unnoticed.
singleZoneFlagsSet_HostOnly == Text("rfc2136Host") # ""

singleZoneFlagsSet == Text("rfc2136Host") # "" \/ Text("rfc2136Zone") # ""
envModeActive == DOMAIN configs # {}

Build(m, zcs) ==
  /\ mode' = m
  /\ zones' = NewMulti(zcs)
  /\ pc' = "preflight"
  /\ left' = Number("rfc2136Timeout")
  /\ UNCHANGED status

Reject == Exit(1) /\ UNCHANGED <<mode, zones, left>>

SelectFile ==
  /\ pc = "select"
  /\ Text("rfc2136ConfigFile") # ""
  /\ IF \/ singleZoneFlagsSet
        \/ envModeActive
        \/ ~yaml.parses
        \/ \E k \in DOMAIN yaml.zones : ~ValidEntry(yaml.zones[k])
       THEN Reject
       ELSE Build("file", [k \in DOMAIN yaml.zones |-> FromEntry(yaml.zones[k])])
  /\ UNCHANGED <<inputs, unread, configs, answers, durations>>

SelectEnv ==
  /\ pc = "select"
  /\ Text("rfc2136ConfigFile") = ""
  /\ envModeActive
  /\ IF singleZoneFlagsSet THEN Reject ELSE \E zcs \in EnvConfigs : Build("env", zcs)
  /\ UNCHANGED <<inputs, unread, configs, answers, durations>>

SingleConfig ==
  [ Host |-> Text("rfc2136Host"), Port |-> Number("rfc2136Port"), Zone |-> Text("rfc2136Zone"),
    TSIGKey |-> Text("rfc2136TSIGKey"), TSIGSecret |-> Text("rfc2136TSIGSecret"),
    TSIGSecretFile |-> Text("rfc2136TSIGSecretFile"), TSIGAlg |-> Text("rfc2136TSIGAlg"),
    MinTTL |-> Number("rfc2136MinTTL"), Timeout |-> Number("rfc2136Timeout") ]

\* The last two cases: both flags are needed, and a secret given twice is refused.
SelectSingle ==
  /\ pc = "select"
  /\ Text("rfc2136ConfigFile") = "" /\ ~envModeActive
  /\ IF /\ Complete(SingleConfig)
        /\ SingleConfig.TSIGSecret = "" \/ SingleConfig.TSIGSecretFile = ""
       THEN Build("single", <<Resolved(SingleConfig)>>)
       ELSE Reject
  /\ UNCHANGED <<inputs, unread, configs, answers, durations>>

-----------------------------------------------------------------------------
(* Docker client, preflight and the start of the controller. *)

\* External: source.NewDockerSource rejects its settings.
DockerFails ==
  /\ pc = "preflight" /\ answers = <<>>
  /\ Exit(1)
  /\ UNCHANGED <<inputs, unread, configs, mode, zones, left, answers, durations>>

\* External: a server's answer to the SOA query: after how long, how long the slowest
\* of dialing, writing and reading took, and NOERROR or not.
Answer ==
  {a \in [delay : 1 .. MaxDelay, phase : 1 .. MaxDelay, ok : BOOLEAN] :
     a.phase <= a.delay /\ a.delay <= 3 * a.phase}

\* The client's timeout is that of each phase; only the context limits the whole.
InTime(zc, a) == a.phase <= zc.Timeout

\* Preflight of the next zone, under the one context that all zones share.
Query ==
  /\ pc = "preflight"
  /\ Number("skipPreflight") = 0
  /\ Len(answers) < Len(zones)
  /\ \E a \in Answer :
       /\ answers' = Append(answers, a)
       /\ left' = left - a.delay
       /\ IF InTime(zones[Len(answers) + 1], a) /\ a.delay <= left /\ a.ok
            THEN UNCHANGED <<pc, status>>
            ELSE Exit(1)
  /\ UNCHANGED <<inputs, unread, configs, mode, zones, durations>>

\* Fault injection: one zone that answers is enough.
Preflighted_FirstZone == answers # <<>> \/ zones = <<>>

Preflighted == Len(answers) = Len(zones)

\* controller.New and its defaults; the durations are checked again here.
Start ==
  /\ pc = "preflight"
  /\ Number("skipPreflight") # 0 \/ Preflighted
  /\ pc' = "running"
  /\ durations' = [o \in {"interval", "debounce", "backoffBase", "backoffMax"} |->
                     applyDefaults(Number(o), Default[o])]
  /\ UNCHANGED <<inputs, status, unread, configs, mode, zones, left, answers>>

-----------------------------------------------------------------------------
Next ==
  \/ Parse
  \/ \E v \in unread : ScanIgnored(v) \/ ScanField(v)
  \/ ScanReturns
  \/ SelectFile \/ SelectEnv \/ SelectSingle
  \/ DockerFails \/ Query \/ Start

Spec == Init /\ [][Next]_vars

-----------------------------------------------------------------------------
(* Properties. *)

Started == pc \in {"preflight", "running"}

\* Every variable has the type its comment gives it; a provider never has an
\* unresolved secret file, nor a timeout that would expire at once, and the durations
\* are what Controller assumes of them.
TypeOK ==
  /\ pc \in {"parse", "scan", "select", "preflight", "running", "exit"}
  /\ status \in 0 .. 2
  /\ unread \subseteq environ
  /\ mode \in {"none", "single", "env", "file"}
  /\ left \in Int
  /\ \A k \in DOMAIN zones : /\ zones[k].TSIGSecretFile = ""
                             /\ zones[k].Timeout > 0
                             /\ zones[k].Host # "" /\ zones[k].Zone # ""
  /\ answers \in Seq(Answer)
  /\ \A o \in DOMAIN durations : durations[o] > 0

\* The variables that set one field of a zone: one or none.
Setting(name, suffix) == {v \in environ : v.key = name \o suffix}

\* The text of a field, "" if it is not set, and the number of a field, 0 if it is not.
Given(name, suffix) ==
  IF Setting(name, suffix) = {} THEN "" ELSE (CHOOSE v \in Setting(name, suffix) : TRUE).val
GivenNumber(name, suffix) ==
  IF Setting(name, suffix) = {} THEN 0
  ELSE Numeral[(CHOOSE v \in Setting(name, suffix) : TRUE).val]

\* The configuration that the variables of one zone ask for.
AsGiven(n) ==
  LET file == Given(n, <<"TSIG", "SECRET", "FILE">>)
  IN  [ Host |-> Given(n, <<"HOST">>),
        Port |-> GivenNumber(n, <<"PORT">>),
        Zone |-> Given(n, <<"ZONE">>),
        TSIGKey |-> Given(n, <<"TSIG", "KEY">>),
        TSIGSecret |-> IF file # "" THEN Files[file] ELSE Given(n, <<"TSIG", "SECRET">>),
        TSIGSecretFile |-> "",
        TSIGAlg |-> Given(n, <<"TSIG", "ALG">>),
        MinTTL |-> GivenNumber(n, <<"MIN", "TTL">>),
        Timeout |-> GivenNumber(n, <<"TIMEOUT">>) ]

Fields == {zoneFieldSetters[k].suffix : k \in DOMAIN zoneFieldSetters}

\* openspec/specs/rfc2136-provider: variables are grouped by name and the zones
\* are in alphabetical order.  Whatever order os.Environ yields them in, and
\* however names and fields share words, each named zone gets its own values, all
\* nine of them with a secret from its file included, and nobody else's.
EnvZonesAsGiven ==
  mode = "env" /\ Started =>
    LET named == {n \in DOMAIN Rank : \E v \in environ : \E f \in Fields : v.key = n \o f}
    IN  \E s \in Sorted(named) :
          /\ DOMAIN zones = DOMAIN s
          /\ \A k \in DOMAIN s : zones[k] = New(AsGiven(s[k]))

\* README.md, "Mode exclusivity": a daemon that starts in one mode was given
\* neither zones nor hosts in another.
NoSilentMix ==
  Started =>
    /\ mode \in {"env", "file"} => Text("rfc2136Host") = "" /\ Text("rfc2136Zone") = ""
    /\ mode \in {"single", "file"} =>
         ~\E v \in environ : Known(v.key)
    /\ mode \in {"single", "env"} => Text("rfc2136ConfigFile") = ""

\* The same, as openspec/specs/rfc2136-provider has it: the TSIG flags of the single
\* zone beside another mode are a conflict too.
NoSilentMixWithTSIG ==
  Started /\ mode \in {"env", "file"} =>
    Text("rfc2136TSIGKey") = "" /\ Text("rfc2136TSIGSecret") = ""

\* A daemon that runs without --skip-preflight has had an answer without an
\* error from the server of every zone, each within that zone's own timeout.
Verified ==
  pc = "running" /\ Number("skipPreflight") = 0 =>
    \A k \in DOMAIN zones :
      k \in DOMAIN answers /\ answers[k].ok /\ InTime(zones[k], answers[k])

\* rfc2136.go: a timeout of "0 uses defaultTimeout (10s)".  The preflight check only
\* stops a daemon when a server is at fault, by the timeout that its zone has.
HealthyStarts ==
  pc = "exit" /\ answers # <<>> =>
    \E k \in DOMAIN answers : ~answers[k].ok \/ ~InTime(zones[k], answers[k])

\* openspec/specs/rfc2136-provider: the file "defines one or more zones"; no
\* daemon runs, and calls itself ready, without any zone to manage.
ManagesSomething == pc = "running" => zones # <<>>
=============================================================================
