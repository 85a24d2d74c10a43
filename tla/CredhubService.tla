--------------------------- MODULE CredhubService ---------------------------
(***************************************************************************)
(* The CredHub collector (credhub/): Certificates lists the certificates   *)
(* and then reads each by name, one request at a time, while whoever else  *)
(* uses CredHub rotates, deletes and creates certificates.                 *)
(*                                                                         *)
(* CredHub is external: a certificate is the sequence of its versions, the *)
(* newest first, and /api/v1/data answers with that sequence, or with an   *)
(* error for a name that does not exist any more.                          *)
(***************************************************************************)
EXTENDS Naturals, Sequences, FiniteSets

CONSTANTS
  Names,     \* names of certificates
  Certs,     \* what a version that can be parsed tells: dates and issuer
  BadPEM,    \* a version that cannot
  Absent,    \* no certificate of that name
  MaxChanges \* bound: how many times CredHub changes

VARIABLES
  at,       \* where Certificates is
  listed,   \* the names the list had, in its order
  position, \* of the certificate to read next
  infos,    \* certificateInfos
  output,   \* what is marshalled, or Absent
  credhub,  \* the versions of each certificate, or Absent
  current,  \* history: per name, the newest versions it had since the list
  changes   \* changes made so far

vars == <<at, listed, position, infos, output, credhub, current, changes>>

AnyVersion == Certs \cup {BadPEM}
Newest(versions) == IF versions \in {Absent, <<>>} THEN {} ELSE {Head(versions)}
Existing == {name \in Names : credhub[name] # Absent}
Listings ==
  {s \in [1..Cardinality(Existing) -> Existing] :
     \A name \in Existing : \E i \in DOMAIN s : s[i] = name}
Fail == at' = "failed" /\ UNCHANGED <<listed, position, infos, output>>
Now == [name \in Names |-> Newest(credhub[name])]

-----------------------------------------------------------------------------
Init ==
  /\ at = "list"
  /\ listed = <<>> /\ position = 1 /\ infos = <<>> /\ output = Absent
  /\ credhub \in [Names -> {Absent, <<>>} \cup {<<v>> : v \in AnyVersion}]
  /\ current = [name \in Names |-> {}]
  /\ changes = 0

(* The request, reading its body and parsing it may each fail.             *)
ListCertificates ==
  /\ at = "list"
  /\ \/ /\ listed' \in Listings
        /\ at' = "read"
        /\ current' = Now
        /\ UNCHANGED <<position, infos, output>>
     \/ Fail /\ UNCHANGED current
  /\ UNCHANGED <<credhub, changes>>

(* Variant: the version the answer ends with.                              *)
OldestOf(versions) == versions[Len(versions)]

(* parsedDataResponse["data"][0]                                           *)
CertificateOf(versions) == versions[1]

(* An answer without versions is indexed out of range.                     *)
ReadWithoutVersions ==
  /\ at = "read" /\ position <= Len(listed)
  /\ credhub[listed[position]] = <<>>
  /\ at' = "panicked"
  /\ UNCHANGED <<listed, position, infos, output, credhub, current, changes>>

(* Variant: a certificate that cannot be read is passed over.              *)
SkipUnreadable ==
  /\ at = "read" /\ position <= Len(listed)
  /\ position' = position + 1
  /\ UNCHANGED <<at, listed, infos, output, credhub, current, changes>>

ReadFails ==
  /\ at = "read" /\ position <= Len(listed)
  /\ Fail
  /\ UNCHANGED <<credhub, current, changes>>

ReadCertificate ==
  /\ at = "read" /\ position <= Len(listed)
  /\ LET name == listed[position]
         versions == credhub[name]
     IN /\ versions \notin {Absent, <<>>}
        /\ CertificateOf(versions) # BadPEM
        /\ infos' = Append(infos, [name |-> name,
                                   cert |-> CertificateOf(versions)])
  /\ position' = position + 1
  /\ UNCHANGED <<at, listed, output, credhub, current, changes>>

DataOf(certificates) ==
  [type |-> "director", dataType |-> "certificates", content |-> certificates]

(* The nil slice of no certificates is written as null, here <<>>.         *)
Marshal ==
  /\ at = "read" /\ position > Len(listed)
  /\ at' = "collected"
  /\ output' = DataOf(infos)
  /\ UNCHANGED <<listed, position, infos, credhub, current, changes>>

Change(name, versions) ==
  /\ changes < MaxChanges
  /\ at \in {"list", "read"}
  /\ credhub' = [credhub EXCEPT ![name] = versions]
  /\ changes' = changes + 1
  /\ current' = IF at = "list" THEN current
                ELSE [current EXCEPT ![name] = @ \cup Newest(versions)]
  /\ UNCHANGED <<at, listed, position, infos, output>>

Rotate(name) == /\ credhub[name] # Absent
                /\ \E v \in AnyVersion : Change(name, <<v>> \o credhub[name])
Delete(name) == credhub[name] # Absent /\ Change(name, Absent)
Create(name) == /\ credhub[name] = Absent
                /\ \E v \in AnyVersion : Change(name, <<v>>)

Next ==
  \/ ListCertificates \/ ReadWithoutVersions \/ ReadFails \/ ReadCertificate
  \/ Marshal
  \/ \E name \in Names : Rotate(name) \/ Delete(name) \/ Create(name)

Spec == Init /\ [][Next]_vars

-----------------------------------------------------------------------------
(* Types; there is an output exactly when the collection succeeded.        *)
TypeOK ==
  /\ at \in {"list", "read", "collected", "failed", "panicked"}
  /\ \A i \in 1..Len(listed) : listed[i] \in Names
  /\ position \in 1..Len(listed) + 1
  /\ Len(infos) = position - 1
  /\ changes \in 0..MaxChanges
  /\ \A i \in 1..Len(infos) : infos[i].cert \in Certs
  /\ output # Absent <=> at = "collected"

(* Success is every certificate of the list, in its order, and with a      *)
(* version that was the certificate's newest one at some moment of the     *)
(* collection, whatever was rotated, deleted or created again between the  *)
(* requests.                                                               *)
CollectedIsCurrent ==
  at = "collected" =>
    /\ Len(output.content) = Len(listed)
    /\ \A i \in 1..Len(listed) :
         /\ output.content[i].name = listed[i]
         /\ output.content[i].cert \in current[listed[i]]
=============================================================================
