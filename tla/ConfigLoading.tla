---------------------------- MODULE ConfigLoading ----------------------------
(***************************************************************************)
(* The configuration of the client: PlainConfig and its sections, each     *)
(* loaded from the configuration file, the command line and the            *)
(* environment, and validated (src/source/config/Config.cpp), in the order *)
(* Config::init does it.                                                   *)
(*                                                                         *)
(* A section is a function of its fields; what the file or the command     *)
(* line gives for it is a function on some of those fields, and loading is *)
(* given @@ section.  A field is a short string: "" for a value that is    *)
(* missing or empty, "true" or "false" for a flag, and otherwise the only  *)
(* thing Validate() tells of it ("gone" is a path that is no valid file,   *)
(* "unsafe" one whose permissions are refused).  An empty string in the    *)
(* file for a field that ignores it is a field not given.                  *)
(***************************************************************************)
EXTENDS Naturals, Sequences

VARIABLES
  focus,      \* the sections this start of the client configures away from the plain ones
  loading,    \* how far Config::init has come
  config      \* PlainConfig: section -> field -> value

cvars == <<focus, loading, config>>

(* What is given replaces the fields of the section (the operator of the   *)
(* module TLC, defined here so that it can be reasoned about).             *)
given @@ section ==
  [f \in DOMAIN given \cup DOMAIN section |-> IF f \in DOMAIN given THEN given[f] ELSE section[f]]
Only(given, fields) == [f \in DOMAIN given \cap fields |-> given[f]]
Is(given, field, value) == field \in DOMAIN given /\ given[field] = value

-----------------------------------------------------------------------------
(* The sections as declared. *)
NoJobs == [enabled |-> "true"]
NoTunneling == [enabled |-> "true", notify |-> "true", token |-> "", region |-> "", port |-> ""]
NoDefender == [enabled |-> "false", interval |-> "positive"]
NoProvisioning == [enabled |-> "false", template |-> "", parameters |-> "", csr |-> "", deviceKey |-> ""]
NoRuntime == [completed |-> "false", cert |-> "", key |-> "", thingName |-> ""]
NoProxy == [enabled |-> "false", host |-> "", port |-> "", auth |-> "", user |-> "", password |-> ""]
NoPubSub == [enabled |-> "false", publish |-> "", subscribe |-> ""]
NoSampleShadow == [enabled |-> "false", name |-> "", input |-> "", output |-> ""]
NoConfigShadow == [enabled |-> "false"]
NoSecureElement == [enabled |-> "false", lib |-> "", pin |-> ""]
NoSensors == [enabled |-> "false", settings |-> << >>]
NoLog == [level |-> "3", type |-> "stdout", file |-> "default", sdk |-> "false", sdkLevel |-> "trace"]
NoIdentity == [endpoint |-> "", cert |-> "", key |-> "", rootCa |-> "", thingName |-> ""]

Defaults ==
  [identity |-> NoIdentity, mqtt |-> [keepAlive |-> 0, pingTimeout |-> 0], log |-> NoLog,
   jobs |-> NoJobs, tunneling |-> NoTunneling, defender |-> NoDefender,
   provisioning |-> NoProvisioning, runtime |-> NoRuntime, proxy |-> NoProxy,
   pubSub |-> NoPubSub, sampleShadow |-> NoSampleShadow, configShadow |-> NoConfigShadow,
   secureElement |-> NoSecureElement, sensors |-> NoSensors]

-----------------------------------------------------------------------------
(* Loading a section from JSON starts from a fresh one.  Some sections read *)
(* the other fields only when the file enables them.                       *)
WhenEnabled(section, given) ==
  IF (given @@ section).enabled = "true" THEN given @@ section
                                         ELSE Only(given, {"enabled"}) @@ section

(* A value the log parsers refuse ends the load: the fields after it keep  *)
(* their defaults, and the caller ignores the result.                      *)
ReadOrder == <<"level", "type", "file", "sdk", "sdkLevel">>
ReadBefore(given) ==
  {ReadOrder[i] : i \in {i \in 1..Len(ReadOrder) : \A j \in 1..i : ~Is(given, ReadOrder[j], "unknown")}}

LogFromJson(given) ==
  LET read == Only(given, ReadBefore(given)) @@ NoLog IN
  IF read.type = "file" THEN read ELSE [read EXCEPT !.file = NoLog.file]

JobsFromJson(given) == given @@ NoJobs
TunnelingFromJson(given) == given @@ NoTunneling
DefenderFromJson(given) == given @@ NoDefender
ProvisioningFromJson(given) == WhenEnabled(NoProvisioning, given)
PubSubFromJson(given) == WhenEnabled(NoPubSub, given)
SampleShadowFromJson(given) == WhenEnabled(NoSampleShadow, given)
ConfigShadowFromJson(given) == given @@ NoConfigShadow
SecureElementFromJson(given) == WhenEnabled(NoSecureElement, given)
SensorsFromJson(settings) ==
  [enabled |-> IF \E i \in 1..Len(settings) : settings[i].enabled = "true" THEN "true" ELSE "false",
   settings |-> settings]
RuntimeFromJson(given) ==
  IF Is(given, "completed", "true") THEN given @@ NoRuntime ELSE NoRuntime

(* The proxy's own file is loaded into the section; a port that is no      *)
(* number ends the load.                                                   *)
ProxyFromJson(section, given) ==
  IF Is(given, "enabled", "true")
  THEN IF Is(given, "port", "unknown") THEN Only(given, {"enabled", "host"}) @@ section
                                       ELSE given @@ section
  ELSE Only(given, {"enabled"}) @@ section

(* The root CA is taken only if it exists.                                 *)
IdentityFromJson(section, given) ==
  IF Is(given, "rootCa", "gone") THEN Only(given, DOMAIN given \ {"rootCa"}) @@ section
                                 ELSE given @@ section

(* PlainConfig::LoadFromJson: a section the document does not have stays.  *)
LoadFromJson(c, doc) ==
  LET Section(name, loaded(_)) == IF name \in DOMAIN doc THEN loaded(doc[name]) ELSE c[name] IN
  [c EXCEPT
    !.identity = IF "identity" \in DOMAIN doc THEN IdentityFromJson(@, doc.identity) ELSE @,
    !.log = Section("log", LogFromJson),
    !.jobs = Section("jobs", JobsFromJson),
    !.tunneling = Section("tunneling", TunnelingFromJson),
    !.defender = Section("defender", DefenderFromJson),
    !.provisioning = Section("provisioning", ProvisioningFromJson),
    !.runtime = Section("runtime", RuntimeFromJson),
    !.pubSub = Section("pubSub", PubSubFromJson),
    !.sampleShadow = Section("sampleShadow", SampleShadowFromJson),
    !.configShadow = Section("configShadow", ConfigShadowFromJson),
    !.secureElement = Section("secureElement", SecureElementFromJson),
    !.sensors = Section("sensors", SensorsFromJson)]

-----------------------------------------------------------------------------
(* Loading from the command line changes the section in place, whatever    *)
(* enables it; a value that does not parse refuses the whole configuration.*)
LogFromCli(section, given) == given @@ section
JobsFromCli(section, given) == given @@ section
TunnelingFromCli(section, given) == given @@ section
DefenderFromCli(section, given) == given @@ section
ProvisioningFromCli(section, given) == given @@ section
PubSubFromCli(section, given) == given @@ section
ConfigShadowFromCli(section, given) == given @@ section
SecureElementFromCli(section, given) == given @@ section
(* Without an output file the default one is created, enabled or not.      *)
SampleShadowFromCli(section, given, created) ==
  LET loaded == given @@ section IN
  IF loaded.output = "" THEN [loaded EXCEPT !.output = created] ELSE loaded

(* createShadowOutputFile leaves no path when the permissions do not hold,  *)
(* and fails when the directory or the file cannot be created.             *)
CreatedOutputs == {"file", "", "failed"}

LoadFromCliArgs(c, name, given, created) ==
  LET OfSection(load(_, _), section) == load(c[section], IF section = name THEN given ELSE << >>) IN
  [c EXCEPT
    !.identity = IF name # "identity" THEN @
                 ELSE IF Is(given, "rootCa", "gone") THEN Only(given, DOMAIN given \ {"rootCa"}) @@ @
                 ELSE given @@ @,
    !.mqtt = IF name = "mqtt" THEN given @@ @ ELSE @,
    !.tunneling = OfSection(TunnelingFromCli, "tunneling"),
    !.log = OfSection(LogFromCli, "log"),
    !.jobs = OfSection(JobsFromCli, "jobs"),
    !.defender = OfSection(DefenderFromCli, "defender"),
    !.provisioning = OfSection(ProvisioningFromCli, "provisioning"),
    !.pubSub = OfSection(PubSubFromCli, "pubSub"),
    !.sampleShadow = SampleShadowFromCli(@, IF name = "sampleShadow" THEN given ELSE << >>, created),
    !.configShadow = OfSection(ConfigShadowFromCli, "configShadow"),
    !.secureElement = OfSection(SecureElementFromCli, "secureElement")]

-----------------------------------------------------------------------------
(* Validate(), section by section. *)
ValidMqtt(m) ==
  /\ m.keepAlive = 0 \/ m.keepAlive \in 30..1200
  /\ (IF m.pingTimeout = 0 THEN 3000 ELSE m.pingTimeout)
       < (IF m.keepAlive = 0 THEN 1200 ELSE m.keepAlive) * 1000

ValidIdentity(c) ==
  /\ c.identity.rootCa # "unsafe"
  /\ c.identity.endpoint # ""
  /\ c.identity.cert \notin {"", "gone"}
  /\ c.secureElement.enabled # "true" => c.identity.key \notin {"", "gone"}
  /\ c.identity.thingName # ""

ValidTunneling(t) ==
  \/ t.enabled # "true"
  \/ t.notify = "true"
  \/ t.token # "" /\ t.region # "" /\ t.port = "valid"

ValidDefender(d) == d.enabled = "true" => d.interval = "positive"

ValidProvisioning(p) ==
  p.enabled = "true" => p.template # "" /\ p.csr # "gone" /\ p.deviceKey # "gone"

ValidRuntime(r) ==
  r.completed = "true" /\ r.cert # "" /\ r.key # "" /\ r.thingName # ""

(* Without an authentication method the error is logged and the section is *)
(* accepted.                                                               *)
ValidProxy(p) ==
  p.enabled = "true" =>
    /\ p.host = "private"
    /\ p.port = "valid"
    /\ p.auth = "UserNameAndPassword" => p.user # "" /\ p.password # ""

ValidPubSub(p) == p.enabled = "true" => p.publish # "" /\ p.subscribe # ""

ValidSampleShadow(s) ==
  s.enabled = "true" => s.name # "" /\ s.input \in {"", "file"} /\ s.output \in {"", "file"}

ValidSecureElement(s) == s.enabled = "true" => s.lib # "" /\ s.pin # ""

(* A sensor with a setting that is not valid is disabled by validation     *)
(* itself; the section is valid if one sensor stays enabled, or if there   *)
(* are none.                                                               *)
MaxSensorSize == 2       \* MAX_SENSOR_SIZE, 10 in the code
KeptSensors(settings) ==
  IF Len(settings) > MaxSensorSize THEN [i \in 1..Len(settings) |-> [settings[i] EXCEPT !.enabled = "false"]]
  ELSE [i \in 1..Len(settings) |->
          IF settings[i].kind = "valid" THEN settings[i] ELSE [settings[i] EXCEPT !.enabled = "false"]]
ValidSensors(s) ==
  \/ s.settings = << >>
  \/ \E i \in 1..Len(s.settings) : KeptSensors(s.settings)[i].enabled = "true"

Validate(c) ==
  /\ ValidMqtt(c.mqtt)
  /\ ValidIdentity(c)
  /\ ValidDefender(c.defender)
  /\ ValidTunneling(c.tunneling)
  /\ ValidProvisioning(c.provisioning)
  /\ ValidPubSub(c.pubSub)
  /\ ValidSampleShadow(c.sampleShadow)
  /\ ValidSecureElement(c.secureElement)
  /\ ValidSensors(c.sensors)

-----------------------------------------------------------------------------
(* What the file and the command line may give.  A start of the client     *)
(* departs from the plain configuration in the sections of its focus.      *)
Choices(fields) ==
  UNION {{g \in [S -> UNION {fields[f] : f \in S}] : \A f \in S : g[f] \in fields[f]} :
           S \in SUBSET DOMAIN fields}

Flag == {"true", "false"}
Sensors == {[enabled |-> "true", kind |-> "valid"], [enabled |-> "true", kind |-> "invalid"],
            [enabled |-> "false", kind |-> "valid"]}

InFile ==
  [identity |-> [endpoint |-> {"endpoint"}, cert |-> {"claim", "gone"}, key |-> {"claim"},
                 rootCa |-> {"file", "gone", "unsafe"}, thingName |-> {"thing"}],
   log |-> [level |-> {"5", "unknown"}, type |-> {"file", "unknown"}, file |-> {"given"}, sdk |-> {"true"}],
   jobs |-> [enabled |-> Flag],
   tunneling |-> [enabled |-> Flag],
   defender |-> [enabled |-> Flag, interval |-> {"positive", "zero"}],
   pubSub |-> [enabled |-> Flag, publish |-> {"topic"}, subscribe |-> {"topic"}],
   sampleShadow |-> [enabled |-> Flag, name |-> {"name"}, input |-> {"gone"}, output |-> {"unsafe"}],
   configShadow |-> [enabled |-> Flag],
   secureElement |-> [enabled |-> {"true"}, lib |-> {"lib"}, pin |-> {"pin"}]]

ProvisioningFiles ==
  LET Enabling(more) == more @@ [enabled |-> "true", template |-> "template"] IN
  {[enabled |-> "true"], Enabling(<< >>), Enabling([parameters |-> "bad"]), Enabling([csr |-> "file"]),
   Enabling([csr |-> "file", deviceKey |-> "file"])}

OnCommandLine ==
  [mqtt |-> [keepAlive |-> {29, 30, 1200, 1201, 65536}, pingTimeout |-> {29999, 30000, 1199999, 1200000}],
   identity |-> [endpoint |-> {"endpoint"}, cert |-> {"claim", "gone"}, key |-> {"claim"}],
   log |-> [level |-> {"5", "unknown"}, file |-> {"given"}],
   jobs |-> [enabled |-> Flag],
   tunneling |-> [enabled |-> Flag, notify |-> {"false"}, region |-> {"region"}, port |-> {"valid", "invalid"}],
   defender |-> [enabled |-> Flag, interval |-> {"positive", "zero", "unknown"}],
   provisioning |-> [csr |-> {"file", "gone"}],
   pubSub |-> [enabled |-> Flag, publish |-> {"topic"}, subscribe |-> {"topic"}],
   sampleShadow |-> [enabled |-> {"true"}, name |-> {"name"}, output |-> {"file"}],
   configShadow |-> [enabled |-> Flag],
   secureElement |-> [enabled |-> {"true"}]]

FileChoices == [provisioning |-> ProvisioningFiles] @@ [s \in DOMAIN InFile |-> Choices(InFile[s])]
CliChoices == [s \in DOMAIN OnCommandLine |-> Choices(OnCommandLine[s])]

ProxyFiles ==
  Choices([enabled |-> Flag, host |-> {"private", "public"}, port |-> {"valid", "unknown"},
           auth |-> {"UserNameAndPassword"}, user |-> {"user"}, password |-> {"password"}])

Plain ==
  [identity |-> [endpoint |-> "endpoint", cert |-> "claim", key |-> "claim", thingName |-> "thing"],
   jobs |-> [enabled |-> "true"], tunneling |-> [enabled |-> "false"]]

Focuses ==
  {{s} : s \in (DOMAIN InFile \cup {"mqtt", "proxy", "sensors"}) \ {"secureElement"}}
    \cup {{"provisioning", "secureElement"}}

(* A document gives the plain sections, and anything for those in focus.   *)
Documents ==
  LET varied == focus \cap DOMAIN FileChoices IN
  {Only(Plain, DOMAIN Plain \ focus) @@ given :
     given \in {g \in [varied -> UNION {FileChoices[s] : s \in varied}] :
                  \A s \in varied : g[s] \in FileChoices[s]}}
  \cup (IF "sensors" \in focus
        THEN {Plain @@ [sensors |-> s] : s \in UNION {[1..n -> Sensors] : n \in 1..MaxSensorSize + 1}}
        ELSE {})

-----------------------------------------------------------------------------
(* Config::init *)
LoadInit ==
  /\ focus = {}
  /\ loading = "start"
  /\ config = Defaults

(* The operator starts the client: CheckTerminalArgs and ParseCliArgs find *)
(* nothing to refuse.  A later start departs in the same sections (a bound *)
(* of the model).                                                          *)
ParseCliArgs ==
  /\ loading = "start"
  /\ focus' \in IF focus = {} THEN Focuses ELSE {focus}
  /\ loading' = "file"
  /\ UNCHANGED config

(* An option that is unknown, given twice or without its value ends the    *)
(* start, and so does a configuration file that is named but missing.      *)
RefuseCliArgs ==
  /\ loading \in {"start", "file"}
  /\ loading' = "refused"
  /\ UNCHANGED <<focus, config>>

(* ParseConfigFile of the essential configuration.  Without a file at the  *)
(* default path the defaults stay; a file that is too large or not JSON    *)
(* ends the start.                                                         *)
ParseConfigFile ==
  /\ loading = "file"
  /\ loading' = "cli"
  /\ config' \in {LoadFromJson(config, doc) : doc \in Documents} \cup {config}
  /\ UNCHANGED focus

(* A number must fit the type it is converted to; a log level or an        *)
(* interval must be readable.                                              *)
Unreadable(name, given) ==
  IF name = "mqtt" THEN "keepAlive" \in DOMAIN given /\ given.keepAlive > 65535
                   ELSE \E f \in DOMAIN given : given[f] = "unknown"

(* A value of the command line that cannot be converted, and a default     *)
(* output file that cannot be created, end the start.                      *)
LoadCliArgs ==
  /\ loading = "cli"
  /\ \E created \in IF "sampleShadow" \in focus THEN CreatedOutputs ELSE {"file"},
        s \in (focus \cap DOMAIN OnCommandLine) \cup {"none"} :
       \E given \in IF s = "none" THEN {<< >>} ELSE CliChoices[s] :
         LET loaded == LoadFromCliArgs(config, s, given, created) IN
         IF Unreadable(s, given) \/ loaded.sampleShadow.output = "failed"
         THEN loading' = "refused" /\ UNCHANGED config
         ELSE loading' = "environment" /\ config' = loaded
  /\ UNCHANGED focus

(* LoadFromEnvironment: the access token of a tunnel without notifications.*)
LoadFromEnvironment ==
  /\ loading = "environment"
  /\ loading' = "runtime"
  /\ config' \in {[config EXCEPT !.tunneling.token = t] :
                    t \in IF "tunneling" \in focus THEN {"", "token"} ELSE {config.tunneling.token}}
  /\ UNCHANGED focus

(* ValidateAndStoreRuntimeConfig *)
StoreRuntimeConfig_NonEmpty(c) ==
  LET Stored(old, new) == IF new = "" THEN old ELSE new IN
  [c EXCEPT !.identity.cert = Stored(@, c.runtime.cert), !.identity.key = Stored(@, c.runtime.key),
            !.identity.thingName = Stored(@, c.runtime.thingName)]
StoreRuntimeConfig(c) ==
  IF ValidRuntime(c.runtime)
  THEN [c EXCEPT !.identity.cert = c.runtime.cert, !.identity.key = c.runtime.key,
                 !.identity.thingName = c.runtime.thingName]
  ELSE c

(* The runtime configuration a provisioning left behind, if it is a        *)
(* document at all, is loaded into the configuration and, if it is         *)
(* complete, replaces the identity; otherwise the start goes on.           *)
ParseRuntimeConfig(file) ==
  /\ loading = "runtime"
  /\ loading' = "proxy"
  /\ config' = IF file = << >> THEN config
               ELSE StoreRuntimeConfig(LoadFromJson(config, [runtime |-> file]))
  /\ UNCHANGED focus

(* The proxy configuration, if there is a file; one that is enabled and    *)
(* not valid ends the start.                                               *)
ParseProxyConfig ==
  /\ loading = "proxy"
  /\ \/ loading' = "validate" /\ UNCHANGED config
     \/ /\ "proxy" \in focus
        /\ \E given \in ProxyFiles :
             /\ config' = [config EXCEPT !.proxy = ProxyFromJson(@, given)]
             /\ loading' = IF ValidProxy(config'.proxy) THEN "validate" ELSE "refused"
  /\ UNCHANGED focus

ValidateConfig ==
  /\ loading = "validate"
  /\ loading' = IF Validate(config) THEN "accepted" ELSE "refused"
  /\ config' = [config EXCEPT !.sensors.settings = KeptSensors(@)]
  /\ UNCHANGED focus

LoadNext(runtimeFile) ==
  \/ ParseCliArgs \/ RefuseCliArgs \/ ParseConfigFile \/ LoadCliArgs \/ LoadFromEnvironment
  \/ ParseRuntimeConfig(runtimeFile) \/ ParseProxyConfig \/ ValidateConfig
=============================================================================
