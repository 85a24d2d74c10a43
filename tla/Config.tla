------------------------------- MODULE Config -------------------------------
(***************************************************************************)
(* From the command line to the collectors: what collect of cmd/collect.go *)
(* does with flags, environment and config file up to the point where the  *)
(* executor starts. viper looks a setting up by flag, environment, file    *)
(* and default; two settings have a second name, and handleAliases decides *)
(* by looking at some of the sources whether one name stands for the other.*)
(*                                                                         *)
(* viper is vendored: an alias sends every lookup of the one key to the    *)
(* other, and moves the value the file has for it over the other's.        *)
(***************************************************************************)
EXTENDS Naturals, FiniteSets

CONSTANT Differences  \* bound: settings that differ from a usual command line

VARIABLES
  at,         \* where collect is
  given,      \* what each source says of each setting
  setting,    \* the same, after registerAlias moved values of the file
  alias,      \* keys that stand for their second name
  validEnvType, \* is env-type, in lower case, one of the five?
  created,    \* was the tar file created?
  collectors  \* the collectors made

vars == <<at, given, setting, alias, validEnvType, created, collectors>>

Required == {"url", "env-type", "output-dir"}
User == {"username", "password"}
Client == {"client-id", "client-secret"}
Usage == {"cf-api-url", "usage-service-url", "usage-service-client-id",
          "usage-service-client-secret"}
Switches == {"insecure-skip-tls-verify", "skip-ssl-validation",
             "with-credhub-info", "operational-data-only"}
Strings == Required \cup {"target"} \cup User \cup Client \cup Usage
Keys == Strings \cup Switches

(* What one source may say: nothing, "" or false, a value or true. An      *)
(* empty environment variable says nothing.                                *)
Sayings == {"unset", "off", "on"}
Settings(key) ==
  [flag : Sayings, file : Sayings,
   env : IF key \in Strings THEN Sayings \ {"off"} ELSE Sayings]
ByFlag == [flag |-> "on", env |-> "unset", file |-> "unset"]
ByNothing == [flag |-> "unset", env |-> "unset", file |-> "unset"]

realKey(key) ==
  IF key \notin alias THEN key
  ELSE IF key = "url" THEN "target" ELSE "skip-ssl-validation"

(* viper's find: flag, environment, file, and the default of the flag,     *)
(* which is "" or false.                                                   *)
Get(key) ==
  LET s == setting[realKey(key)]
  IN IF s.flag # "unset" THEN s.flag
     ELSE IF s.env # "unset" THEN s.env
     ELSE IF s.file # "unset" THEN s.file ELSE "off"
Has(key) == Get(key) = "on"

-----------------------------------------------------------------------------
(* A usual command line, with or without the usage service, but for some   *)
(* settings.                                                               *)
Usual(usage) ==
  [key \in Keys |->
     IF key \in Required \cup User \cup (IF usage THEN Usage ELSE {})
     THEN ByFlag ELSE ByNothing]

Init ==
  /\ at = "start"
  /\ \E usage \in BOOLEAN : \E different \in SUBSET Keys :
       /\ Cardinality(different) <= Differences
       /\ \E how \in [different ->
                        [flag : Sayings, env : Sayings, file : Sayings]] :
            /\ \A key \in different : how[key] \in Settings(key)
            /\ given = [key \in Keys |-> IF key \in different THEN how[key]
                                          ELSE Usual(usage)[key]]
  /\ setting = given
  /\ alias = {}
  /\ validEnvType \in BOOLEAN
  /\ created = FALSE
  /\ collectors = {}

Go(place) == at' = place /\ UNCHANGED <<given, validEnvType>>
Fail == Go("failed") /\ UNCHANGED <<setting, alias, created, collectors>>

UsesFile == \E key \in Keys : given[key].file # "unset"

ReadConfigFile ==
  /\ at = "start"
  /\ \/ Go("read") /\ UNCHANGED <<setting, alias, created, collectors>>
     \/ UsesFile /\ Fail

(* registerAlias moves what the file says under the first name.            *)
Moved(from, to) ==
  IF setting[from].file = "unset" THEN setting
  ELSE [setting EXCEPT ![to].file = setting[from].file,
                       ![from].file = "unset"]

(* Variant: only the flags are looked at.                                  *)
AliasSkipTlsByFlags ==
  \/ given["insecure-skip-tls-verify"].flag = "unset"
  \/ given["skip-ssl-validation"].flag # "unset"

(* Variant: the second name is used only where the first says nothing.     *)
AliasUrlUnlessSet == given["url"] = ByNothing

AliasUrl == ~Has("url")
AliasSkipTls ==
  \/ /\ given["insecure-skip-tls-verify"].flag = "unset"
     /\ given["insecure-skip-tls-verify"].env = "unset"
  \/ given["skip-ssl-validation"].flag # "unset"

HandleAliases ==
  /\ at = "read"
  /\ alias' = {key \in {"url", "insecure-skip-tls-verify"} :
                 IF key = "url" THEN AliasUrl ELSE AliasSkipTls}
  /\ setting' = [key \in Keys |->
       IF key \in {"url", "target"}
       THEN (IF AliasUrl THEN Moved("url", "target") ELSE setting)[key]
       ELSE (IF AliasSkipTls
             THEN Moved("insecure-skip-tls-verify", "skip-ssl-validation")
             ELSE setting)[key]]
  /\ Go("aliased")
  /\ UNCHANGED <<created, collectors>>

HasAll(keys) == \A key \in keys : Has(key)

verifyRequiredConfig == HasAll(Required)

validateCredConfig == HasAll(User) \/ HasAll(Client)

validateAndNormalizeEnvType == validEnvType
Validates ==
  verifyRequiredConfig /\ validateCredConfig /\ validateAndNormalizeEnvType

Reject ==
  /\ at = "aliased" /\ ~Validates
  /\ Fail

(* The file is created (a failure of which is in CollectCommand), before   *)
(* the usage service settings were looked at.                              *)
CreateFile ==
  /\ at = "aliased" /\ Validates
  /\ created' = TRUE
  /\ Go("consumption")
  /\ UNCHANGED <<setting, alias, collectors>>

Make(collector, wanted, place) ==
  /\ collectors' = IF wanted THEN collectors \cup {collector} ELSE collectors
  /\ Go(place)
  /\ UNCHANGED <<setting, alias, created>>

RemoveFile ==
  /\ created' = FALSE
  /\ Go("failed")
  /\ UNCHANGED <<setting, alias, collectors>>

anyUsageServiceConfigsProvided == \E key \in Usage : Has(key)

(* Variant: the two identifiers of the client are not looked at.           *)
validateUsageServiceUrls == Has("cf-api-url") /\ Has("usage-service-url")

validateUsageServiceConfig == HasAll(Usage)

(* An incomplete configuration, a URL that does not parse, a CF API that   *)
(* does not name its UAA.                                                  *)
MakeConsumptionCollectorFails ==
  /\ at = "consumption" /\ anyUsageServiceConfigsProvided
  /\ RemoveFile

MakeConsumptionCollector ==
  /\ at = "consumption"
  /\ anyUsageServiceConfigsProvided => validateUsageServiceConfig
  /\ Make("consumption", anyUsageServiceConfigsProvided, "core")

MakeCoreConsumptionCollector ==
  /\ at = "core"
  /\ Make("core counts",
          anyUsageServiceConfigsProvided \/ Has("operational-data-only"),
          "credhub")

(* The BOSH credentials cannot be had, or the CredHub client not be made.  *)
MakeCredhubCollectorFails ==
  /\ at = "credhub" /\ Has("with-credhub-info")
  /\ RemoveFile

MakeCredhubCollector ==
  /\ at = "credhub"
  /\ Make("credhub", Has("with-credhub-info"), "made")

Next ==
  \/ ReadConfigFile \/ HandleAliases \/ Reject \/ CreateFile
  \/ MakeConsumptionCollector \/ MakeConsumptionCollectorFails
  \/ MakeCoreConsumptionCollector
  \/ MakeCredhubCollector \/ MakeCredhubCollectorFails

Spec == Init /\ [][Next]_vars

-----------------------------------------------------------------------------
(* Types; the file is there while, and only while, collectors are made.    *)
TypeOK ==
  /\ at \in {"start", "read", "aliased", "consumption", "core", "credhub",
             "made", "failed"}
  /\ \A key \in Keys : given[key] \in Settings(key)
  /\ alias \subseteq {"url", "insecure-skip-tls-verify"}
  /\ collectors \subseteq {"consumption", "core counts", "credhub"}
  /\ created <=> at \in {"consumption", "core", "credhub", "made"}

(* Of six places that may say whether TLS is validated the first one to    *)
(* speak decides: a flag before the environment before the file, and of    *)
(* two flags the second name, of two variables or lines the first.         *)
SpeaksFirst(says) ==
  LET speakers == {i \in DOMAIN says : says[i] # "unset"}
  IN IF speakers = {} THEN "off"
     ELSE says[CHOOSE i \in speakers : \A j \in speakers : i <= j]

SkipTlsPrecedence ==
  at \notin {"start", "read", "failed"} =>
    LET first == given["insecure-skip-tls-verify"]
        second == given["skip-ssl-validation"]
    IN Get("insecure-skip-tls-verify") =
         SpeaksFirst(<<second.flag, first.flag, first.env, second.env,
                       first.file, second.file>>)

(* The URL is the one given as url if that is not ""; else the one of     *)
(* target, but a url of the file, an empty one too, hides its target.      *)
UrlPrecedence ==
  at \notin {"start", "read", "failed"} =>
    LET url == given["url"]
        target == given["target"]
        said == SpeaksFirst(<<url.flag, url.env, url.file>>)
    IN /\ Has("url") <=>
            \/ said = "on"
            \/ SpeaksFirst(<<target.flag, target.env, url.file, target.file>>)
                 = "on"
       /\ said = "on" => realKey("url") = "url"

(* The executor starts only with what can be collected with: a URL by      *)
(* either name, a whole pair of credentials, a known environment type; and *)
(* a usage service of which something is set has everything set, whichever *)
(* sources the settings came from. Core counts come along with it.         *)
MadeAsConfigured ==
  at = "made" =>
    LET said(key) == SpeaksFirst(<<given[key].flag, given[key].env,
                                   given[key].file>>) = "on"
    IN /\ said("url") \/ said("target") \/ given["url"].file = "on"
       /\ \A key \in {"env-type", "output-dir"} : said(key)
       /\ \A key \in User : said(key) \/ \A k \in Client : said(k)
       /\ validEnvType
       /\ \A key \in Usage : said(key) <=> "consumption" \in collectors
       /\ "core counts" \in collectors <=>
            "consumption" \in collectors \/ said("operational-data-only")
       /\ "credhub" \in collectors <=> said("with-credhub-info")
=============================================================================
