---------------------------- MODULE MCCollectors ----------------------------
(***************************************************************************)
(* Making the collectors and what each of them collects: five parts of one *)
(* collection that share no state. A behaviour is one of a single part,    *)
(* which the subject names; the others stand still.                        *)
(*                                                                         *)
(* A director and two products in two versions, and an operator who acts   *)
(* twice: enough to stage a change and apply it within one collection. Two *)
(* certificates, while CredHub changes three times. Every CSV of up to two *)
(* rows and five columns over three kinds of field. Every operation on     *)
(* every small body: two properties, lists and credentials of up to three  *)
(* entries or parts. Any two settings of two usual command lines, in every *)
(* way they may be given.                                                  *)
(***************************************************************************)
EXTENDS OpsManagerCollector, TLC

CONSTANTS
  director, p1, p2, v1, v2,
  Names, Certs, BadPEM, Absent, MaxChanges,
  Small, Far, Texts, NoJson, MaxRows, MaxWidth,
  Properties, Other, Values, MaxParts,
  Differences

MCProducts == {director, p1, p2}
MCVersions == {v1, v2}
Symmetry == Permutations({p1, p2}) \cup Permutations(MCVersions)

VARIABLES
  subject, \* the part
  at,      \* where it is, if it is not the Ops Manager collector
  listed, position, infos, output, credhub, current, changes,
  records, counts, json,
  op, answer, part, returned,
  given, setting, alias, validEnvType, created, collectors

Credhub == INSTANCE CredhubService
Csv == INSTANCE CoreCounts
Service == INSTANCE OpsManagerService
Command == INSTANCE Config

credhubVars == <<listed, position, infos, output, credhub, current, changes>>
csvVars == <<records, counts, json>>
serviceVars == <<op, answer, part, returned>>
commandVars == <<given, setting, alias, validEnvType, created, collectors>>
allVars == <<subject, at, vars, credhubVars, csvVars, serviceVars, commandVars>>

OpsManagerStill ==
  /\ Init
  /\ ~operationalOnly
  /\ deployed = staged /\ \A p \in Products : staged[p] = None
CredhubStill ==
  /\ listed = None /\ position = None /\ infos = None /\ output = None
  /\ credhub = None /\ current = None /\ changes = None
CsvStill == records = None /\ counts = None /\ json = None
ServiceStill == op = None /\ answer = None /\ part = None /\ returned = None
CommandStill ==
  /\ given = None /\ setting = None /\ alias = None
  /\ validEnvType = None /\ created = None /\ collectors = None

-----------------------------------------------------------------------------
InitAll ==
  /\ subject \in {"ops manager", "credhub", "csv", "service", "command"}
  /\ IF subject = "ops manager" THEN Init /\ at = None ELSE OpsManagerStill
  /\ IF subject = "credhub" THEN Credhub!Init ELSE CredhubStill
  /\ IF subject = "csv" THEN Csv!Init ELSE CsvStill
  /\ IF subject = "service" THEN Service!Init ELSE ServiceStill
  /\ IF subject = "command" THEN Command!Init ELSE CommandStill

NextAll ==
  \/ /\ subject = "ops manager" /\ Next
     /\ UNCHANGED <<at, credhubVars, csvVars, serviceVars, commandVars>>
     /\ UNCHANGED subject
  \/ /\ subject = "credhub" /\ Credhub!Next
     /\ UNCHANGED <<subject, vars, csvVars, serviceVars, commandVars>>
  \/ /\ subject = "csv" /\ Csv!Next
     /\ UNCHANGED <<subject, vars, credhubVars, serviceVars, commandVars>>
  \/ /\ subject = "service" /\ Service!Next
     /\ UNCHANGED <<subject, vars, credhubVars, csvVars, commandVars>>
  \/ /\ subject = "command" /\ Command!Next
     /\ UNCHANGED <<subject, vars, credhubVars, csvVars, serviceVars>>

SpecAll == InitAll /\ [][NextAll]_allVars

(* The names and the bounds are finite, no output is not one, and what is  *)
(* not named is not named.                                                 *)
ASSUME PartsAssumption ==
  /\ IsFiniteSet(Names)
  /\ MaxChanges \in Nat /\ MaxRows \in Nat
  /\ MaxWidth \in Nat /\ MaxParts \in Nat
  /\ Other # "type"
  /\ Absent \notin [type : {"director"}, dataType : {"certificates"},
                    content : Seq([name : Names, cert : Certs])]
  /\ NoJson \notin [type : {""}, dataType : {"core_counts"},
                    content : Seq(Csv!CoreCount)]

-----------------------------------------------------------------------------
(* The types of the part that moves.                                       *)
PartTypeOK ==
  /\ subject = "credhub" => Credhub!TypeOK
  /\ subject = "csv" => Csv!TypeOK
  /\ subject = "service" => Service!TypeOK
  /\ subject = "command" => Command!TypeOK

(* CredhubService: success is every certificate listed, with a version     *)
(* that was its newest one during the collection.                          *)
CollectedIsCurrent == subject = "credhub" => Credhub!CollectedIsCurrent

(* CoreCounts: the conversion of a CSV is what its rows mean.              *)
MatchesReference == subject = "csv" => Csv!MatchesReference

(* OpsManagerService: only what is named leaves, or what is no secret.     *)
NothingSensitiveLeaves == subject = "service" => Service!NothingSensitiveLeaves

(* OpsManagerService: CredHub is asked with the credentials given last.    *)
CredentialsAsGiven == subject = "service" => Service!CredentialsAsGiven

(* Config: the first of six places that speaks of TLS validation decides.  *)
SkipTlsPrecedence == subject = "command" => Command!SkipTlsPrecedence

(* Config: the URL is the one of url, or else the one of target.           *)
UrlPrecedence == subject = "command" => Command!UrlPrecedence

(* Config: the collectors made are those that were configured, wholly.     *)
MadeAsConfigured == subject = "command" => Command!MadeAsConfigured
=============================================================================
