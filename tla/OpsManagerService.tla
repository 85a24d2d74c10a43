------------------------- MODULE OpsManagerService --------------------------
(***************************************************************************)
(* The requests of opsmanager.Service that do more than pass a body on:    *)
(* what each strips from the answer before it may leave the foundation,    *)
(* and the parsing of the BOSH credentials that CredHub is then asked with.*)
(*                                                                         *)
(* A body is abstracted to what the operations tell apart. Those that      *)
(* unmarshal it into a struct see an object: its keys, and the content of  *)
(* the one key the struct has (null and empty are one). A property and an  *)
(* authority are functions from their fields to values, an installation is *)
(* the set of its keys, the diagnostic report the set of keys of its       *)
(* director_configuration; credentials are the parts between blanks, each  *)
(* split at "=".                                                           *)
(***************************************************************************)
EXTENDS Naturals, Sequences, FiniteSets

CONSTANTS
  Properties, \* names of properties
  Other,      \* a key, a field or a word that the code does not name
  Values,     \* values of a credential, without blanks or "="
  MaxParts    \* bound: entries of a list, parts of the credentials

VARIABLES
  at,      \* where the operation is
  op,      \* the operation
  answer,  \* the body that came
  part,    \* BoshCredentials: the part to look at
  returned \* what it returns: a body, the credentials so far, or <<>>

vars == <<at, op, answer, part, returned>>

allowedTypes == {"integer", "boolean", "dropdown_select",
                 "multi_select_options", "selector", "vm_type_dropdown",
                 "disk_type_dropdown"}
otherTypes == {"secret", "string", "rsa_cert_credentials"}
propertyFields == {"type", "value", "configurable", "credential", "optional"}
caFields == {"guid", "issuer", "created_on", "expires_on", "active"}
StructKey == [ProductProperties |-> "properties",
              Installations |-> "installations",
              CertificateAuthorities |-> "certificate_authorities"]

allowedPropertyType(type) == type \in allowedTypes

Keys == {"BOSH_CLIENT", "BOSH_CLIENT_SECRET", "BOSH_ENVIRONMENT"}
NoCredential == [key \in Keys |-> "none"]
Parts == {<<w>> : w \in Keys \cup {Other}}
           \cup ((Keys \cup {Other}) \X Values)
           \cup (Keys \X Values \X Values)

(* The objects Ops Manager may answer with, and what is in them; NotAnObject*)
(* is a director_configuration that is absent, null or a list.             *)
Fields(keys) == [field \in keys |-> "given"]
Property ==
  UNION {{Fields(keys)} \cup
         {[field \in keys \cup {"type"} |->
             IF field = "type" THEN type ELSE "given"] :
            type \in {"integer", "selector", "secret", "string"}} :
           keys \in SUBSET {"value", Other}}
Installation == SUBSET {"user_name", "id", Other}
Authority == {Fields(caFields), Fields(caFields \cup {"cert_pem"}),
              Fields({"guid"})}
ListsOf(entries) == UNION {[1..n -> entries] : n \in 0..MaxParts}
ContentsOf(o) ==
  CASE o = "ProductProperties" ->
         UNION {[names -> Property] : names \in SUBSET Properties}
    [] o = "Installations" -> ListsOf(Installation)
    [] o = "CertificateAuthorities" -> ListsOf(Authority)
Objects(o) ==
  [keys : {{StructKey[o]} \cup more : more \in SUBSET {Other}},
   content : ContentsOf(o)]
  \cup [keys : SUBSET {Other}, content : {<<>>}]
NotAnObject == {"not an object"}

Bodies(o) ==
  CASE o \in DOMAIN StructKey -> Objects(o)
    [] o = "DiagnosticReport" ->
         (SUBSET {"ntp_servers", Other}) \cup {NotAnObject}
    [] o = "BoshCredentials" -> ListsOf(Parts) \ {<<>>}
    [] o = "Reader" -> {{Other}}

Operations == {"ProductProperties", "Installations", "CertificateAuthorities",
               "DiagnosticReport", "BoshCredentials", "Reader"}

(* json.Unmarshal into a struct and json.Marshal of it: every field of the *)
(* struct is written, as it came or as its zero value, and no other field. *)
ThroughStruct(fields, object) ==
  [field \in fields |-> IF field \in DOMAIN object THEN object[field] ELSE "zero"]

(* Variant: what is known to be secret is deleted, the rest is kept.       *)
DeleteSecretProperties(ps) ==
  LET read == [name \in DOMAIN ps |-> ThroughStruct(propertyFields, ps[name])]
  IN [name \in {p \in DOMAIN ps : read[p].type # "secret"} |-> read[name]]

(* What each operation leaves of the content or the report.                *)
RedactProperties(ps) ==
  LET read == [name \in DOMAIN ps |-> ThroughStruct(propertyFields, ps[name])]
  IN [name \in {p \in DOMAIN ps : allowedPropertyType(read[p].type)} |->
        read[name]]

RedactInstallations(is) == [i \in DOMAIN is |-> is[i] \ {"user_name"}]
RedactAuthorities(cas) ==
  [i \in DOMAIN cas |-> ThroughStruct(caFields, cas[i])]
RedactReport(config) == config \ {"ntp_servers"}

StructOf(o, content) == [keys |-> {StructKey[o]}, content |-> content]
Redact(o, body) ==
  CASE o = "ProductProperties" -> StructOf(o, RedactProperties(body.content))
    [] o = "Installations" -> StructOf(o, RedactInstallations(body.content))
    [] o = "CertificateAuthorities" ->
         StructOf(o, RedactAuthorities(body.content))
    [] o = "DiagnosticReport" -> RedactReport(body)
    [] o = "Reader" -> body

(* strings.Split(part, "=")[1]: of a value that has a "=" in it, what is   *)
(* before it.                                                              *)
ValueOf(keyValueParts) == keyValueParts[2]

-----------------------------------------------------------------------------
Init ==
  /\ at = "request"
  /\ op \in Operations
  /\ answer = <<>> /\ part = 1 /\ returned = <<>>

(* makeRequest: Curl fails, the status is not 200, the body is cut short;  *)
(* or the body is no JSON of the kind the operation unmarshals.            *)
RequestFails ==
  /\ at = "request"
  /\ at' = "failed"
  /\ UNCHANGED <<op, answer, part, returned>>

Respond ==
  /\ at = "request"
  /\ answer' \in Bodies(op)
  /\ IF op = "BoshCredentials"
     THEN at' = "parsing" /\ returned' = NoCredential
     ELSE at' = "done" /\ returned' = Redact(op, answer')
  /\ UNCHANGED <<op, part>>

Parsing == at = "parsing" /\ part <= Len(answer)

(* Variant: the parse stops at the first part that is no assignment.       *)
StopAtPlainPart ==
  /\ Parsing
  /\ Len(answer[part]) < 2 \/ answer[part][1] \notin Keys
  /\ part' = Len(answer) + 1
  /\ UNCHANGED <<at, op, answer, returned>>

(* A part without "=" and a key nobody asks for are passed over.           *)
PassOverPart ==
  /\ Parsing
  /\ Len(answer[part]) < 2 \/ answer[part][1] \notin Keys
  /\ part' = part + 1
  /\ UNCHANGED <<at, op, answer, returned>>

TakePart ==
  /\ Parsing
  /\ Len(answer[part]) >= 2 /\ answer[part][1] \in Keys
  /\ returned' = [returned EXCEPT ![answer[part][1]] = ValueOf(answer[part])]
  /\ part' = part + 1
  /\ UNCHANGED <<at, op, answer>>

(* No error for a credential that did not appear: it is empty.             *)
Parsed ==
  /\ at = "parsing" /\ part > Len(answer)
  /\ at' = "done"
  /\ UNCHANGED <<op, answer, part, returned>>

Next == RequestFails \/ Respond \/ PassOverPart \/ TakePart \/ Parsed

Spec == Init /\ [][Next]_vars

-----------------------------------------------------------------------------
(* Types; a failed operation returns nothing, a parse never runs past the  *)
(* parts.                                                                  *)
TypeOK ==
  /\ at \in {"request", "parsing", "done", "failed"}
  /\ op \in Operations
  /\ at = "failed" => returned = <<>>
  /\ op = "BoshCredentials" => part \in 1..Len(answer) + 1
  /\ at = "parsing" => returned \in [Keys -> Values \cup {"none"}]

(* Of what is unmarshalled into a struct its fields leave, each as it came *)
(* or, if it did not come, as the zero value; and nothing else does.       *)
OnlyFields(fields, came, sent) ==
  /\ DOMAIN sent = fields
  /\ \A field \in fields :
       sent[field] = IF field \in DOMAIN came THEN came[field] ELSE "zero"

(* Nothing an operator would mind leaves: a property whose type is missing *)
(* or not on the list, known or new, the name of who applied changes, the  *)
(* servers of the director, the body of an authority's certificate, a key  *)
(* nobody thought of beside these. What is to leave does: every property   *)
(* of the other types and every entry of a list, in its order, with the    *)
(* fields that are named; of installations and the report, with the rest.  *)
NothingSensitiveLeaves ==
  at = "done" =>
    /\ op \in DOMAIN StructKey => returned.keys = {StructKey[op]}
    /\ CASE op = "ProductProperties" ->
              LET came == answer.content
                  sent == returned.content
              IN /\ \A p \in DOMAIN came :
                      p \in DOMAIN sent <=>
                        /\ "type" \in DOMAIN came[p]
                        /\ came[p].type \notin otherTypes
                 /\ \A p \in DOMAIN sent :
                      /\ p \in DOMAIN came
                      /\ OnlyFields(propertyFields, came[p], sent[p])
         [] op = "Installations" ->
              /\ Len(returned.content) = Len(answer.content)
              /\ \A i \in 1..Len(answer.content) :
                   /\ "user_name" \notin returned.content[i]
                   /\ returned.content[i] \subseteq answer.content[i]
                   /\ answer.content[i] \subseteq
                        returned.content[i] \cup {"user_name"}
         [] op = "CertificateAuthorities" ->
              /\ Len(returned.content) = Len(answer.content)
              /\ \A i \in 1..Len(answer.content) :
                   OnlyFields(caFields, answer.content[i], returned.content[i])
         [] op = "DiagnosticReport" ->
              /\ "ntp_servers" \notin returned
              /\ answer \subseteq returned \cup {"ntp_servers"}
         [] OTHER -> TRUE

(* CredHub is asked with the credentials Ops Manager gave, wherever they   *)
(* stand among words, other variables and repetitions: each is the value   *)
(* its variable was given last (whole, unless it has a "=" in it), and is  *)
(* missing only if none was given.                                         *)
CredentialsAsGiven ==
  at = "done" /\ op = "BoshCredentials" =>
    \A key \in Keys :
      LET given == {i \in 1..Len(answer) :
                      Len(answer[i]) > 1 /\ answer[i][1] = key}
      IN IF given = {} THEN returned[key] = "none"
         ELSE \E i \in given :
                /\ \A j \in given : j <= i
                /\ Len(answer[i]) = 2 => answer[i] = <<key, returned[key]>>
=============================================================================
