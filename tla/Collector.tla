------------------------------ MODULE Collector ------------------------------
(***************************************************************************)
(* operations.CollectExecutor.Collect: one pass over the data collectors   *)
(* that writes the archive (the tar file) of a foundation.                 *)
(*                                                                         *)
(* Each data set of the archive is a directory of data files closed by a   *)
(* "metadata" file that lists the name and the MD5 of every data file.     *)
(* The collectors behind the executor are the environment: a call to one   *)
(* returns any of the lists the constants allow, fails, or panics.         *)
(***************************************************************************)
EXTENDS Naturals, Sequences

CONSTANTS
  Names,              \* names of data files: "<product type>_<data type>"
  RefusedNames,       \* names with a "." or a "/" in them
  Bodies,             \* contents of data files
  Foundations,        \* foundation ids: GUIDs of the deployed director, or ""
  CollectionIds,      \* UUIDs
  OpsManagerLists,    \* what the Ops Manager collector may return
  CredhubLists,       \* what the CredHub collector may return: one file
  UsageLists,         \* what the usage service collector may return
  CoreLists,          \* what the core counts collector may return
  Metadata,           \* the name of the metadata file
  Truncated,          \* the body of an entry whose write failed half way
  None                \* a value not there yet

DataFiles == [name : Names, body : Bodies]

IsListing(list) ==
  /\ list \in Seq(DataFiles)
  /\ \A i, j \in 1..Len(list) : list[i].name = list[j].name => i = j

MD5(body) == [md5 |-> body]
DigestOf(file) == [name |-> file.name, sum |-> MD5(file.body)]
Digests == [name : Names, sum : {MD5(b) : b \in Bodies}]

MetadataValues == [collectionId : CollectionIds, foundationId : Foundations,
                   fileDigests : Seq(Digests)]

(* Data names never clash with the metadata file, one collector never      *)
(* returns two files of one name (Ops Manager has one product of a type),  *)
(* and the CredHub collector returns a file or an error.                   *)
ASSUME NamesAssumption ==
  /\ Metadata \notin Names
  /\ Truncated \notin Bodies
  /\ Truncated \notin MetadataValues
  /\ None \notin CollectionIds \cup Foundations
  /\ \A list \in OpsManagerLists \cup CredhubLists \cup UsageLists \cup CoreLists :
       IsListing(list)
  /\ \A om \in OpsManagerLists, ch \in CredhubLists : \A i \in 1..Len(om), j \in 1..Len(ch) :
       om[i].name # ch[j].name
  /\ <<>> \notin CredhubLists

(* Nothing that is there is None.                                          *)
ASSUME NoneAssumption ==
  /\ None \notin CollectionIds \X Foundations
  /\ None \notin [of : CollectionIds \X Foundations, files : SUBSET DataFiles]

VARIABLES
  config,       \* the collectors NewCollector was given, and the flag
  step,         \* where Collect is
  source,       \* the collector whose call or data is being handled
  pending,      \* the data of that collector still to be added
  collectionId, \* the UUID of this collection
  foundationId, \* the foundation id the Ops Manager collector returned
  digests,      \* FileDigests of the three Metadata values
  archive,      \* the entries of the tar file, in order
  writer,       \* the tar.Writer: open, broken by a write error, sealed, closed
  outcome       \* how Collect ended

vars == <<config, step, source, pending, collectionId, foundationId,
          digests, archive, writer, outcome>>

Sources == {"opsmanager", "credhub", "usage_service", "core_consumption"}
DataSets == {"opsmanager", "usage_service", "core_consumption"}

(* Variant: every collector has a directory of its own.                    *)
DirectoryPerCollector(s) == s

DataSetOf(s) == IF s = "credhub" THEN "opsmanager" ELSE s

Configs == {c \in [operationalOnly : BOOLEAN, credhub : BOOLEAN,
                   usage : BOOLEAN, core : BOOLEAN] :
              c.core = (c.usage \/ c.operationalOnly)}

ListsOf(s) == CASE s = "opsmanager" ->
                     IF config.operationalOnly THEN {<<>>} ELSE OpsManagerLists
                [] s = "credhub" -> CredhubLists
                [] s = "usage_service" -> UsageLists
                [] s = "core_consumption" -> CoreLists

MetadataOf(d) == [collectionId |-> collectionId, foundationId |-> foundationId,
                  fileDigests |-> digests[d]]

DataEntry(d, file) == [dataSet |-> d, name |-> file.name, body |-> file.body]
MetadataEntry(d) == [dataSet |-> d, name |-> Metadata, body |-> MetadataOf(d)]

-----------------------------------------------------------------------------
(* The order in which Collect visits its collectors.                       *)

AtClose == [step |-> "close", source |-> "core_consumption"]
AtCore == IF config.core THEN [step |-> "collect", source |-> "core_consumption"]
                         ELSE AtClose
AtUsage == IF config.usage THEN [step |-> "collect", source |-> "usage_service"]
                           ELSE AtCore

AtOpsManagerMetadata ==
  IF config.operationalOnly THEN AtUsage
                            ELSE [step |-> "metadata", source |-> "opsmanager"]
AtCredhub == IF config.credhub THEN [step |-> "collect", source |-> "credhub"]
                               ELSE AtOpsManagerMetadata

AfterData(s) == CASE s = "opsmanager" -> AtCredhub
                  [] s = "credhub" -> AtOpsManagerMetadata
                  [] OTHER -> [step |-> "metadata", source |-> s]
AfterMetadata(s) == CASE s = "opsmanager" -> AtUsage
                      [] s = "usage_service" -> AtCore
                      [] s = "core_consumption" -> AtClose

(* Going on to place p; the deferred Close is all that is left at "close", *)
(* and only a nil error leads there this way.                              *)
GoTo(p) == /\ step' = p.step
           /\ source' = p.source
           /\ outcome' = IF p.step = "close" THEN "success" ELSE outcome

(* "return err" and a panic both run the deferred tarWriter.Close.         *)
Unwind(how) == /\ step' = "close"
               /\ outcome' = how
               /\ pending' = <<>>
               /\ UNCHANGED source

-----------------------------------------------------------------------------
Init ==
  /\ config \in Configs
  /\ step = "uuid"
  /\ source = "opsmanager"
  /\ pending = <<>>
  /\ collectionId = None
  /\ foundationId = None
  /\ digests = [d \in DataSets |-> <<>>]
  /\ archive = <<>>
  /\ writer = "open"
  /\ outcome = "running"

NewUUID ==
  /\ step = "uuid"
  /\ step' = "collect"
  /\ collectionId' \in CollectionIds
  /\ UNCHANGED <<config, source, pending, foundationId, digests, archive, writer, outcome>>

UUIDFails ==
  /\ step = "uuid"
  /\ Unwind("failed")
  /\ UNCHANGED <<config, collectionId, foundationId, digests, archive, writer>>

(* A collector answers. The Ops Manager collector also names the           *)
(* foundation; an empty list skips the loop over the data.                 *)
Collected(s, list) ==
  /\ step = "collect" /\ source = s
  /\ pending' = list
  /\ IF s = "opsmanager" THEN foundationId' \in Foundations
                         ELSE UNCHANGED foundationId
  /\ IF list = <<>> THEN GoTo(AfterData(s))
                    ELSE GoTo([step |-> "add", source |-> s])
  /\ UNCHANGED <<config, collectionId, digests, archive, writer>>

(* Variant: any collector that fails is skipped, as core counts are.       *)
SkipFailedCollector(s) ==
  /\ step = "collect" /\ source = s
  /\ GoTo(CASE s = "opsmanager" -> AtCredhub
            [] s = "credhub" -> AtOpsManagerMetadata
            [] s = "usage_service" -> AtCore
            [] s = "core_consumption" -> AtClose)
  /\ UNCHANGED <<config, pending, collectionId, foundationId, digests, archive, writer>>

CollectFails(s) ==
  /\ step = "collect" /\ source = s
  /\ s # "core_consumption"
  /\ Unwind("failed")
  /\ UNCHANGED <<config, collectionId, foundationId, digests, archive, writer>>

(* The error of the core counts collector is logged and dropped.           *)
CoreCollectFails ==
  /\ step = "collect" /\ source = "core_consumption"
  /\ GoTo(AtClose)
  /\ UNCHANGED <<config, pending, collectionId, foundationId, digests, archive, writer>>

(* A CredHub answer with no version of a certificate and a core counts row *)
(* of fewer than four fields are indexed out of range; pending changes     *)
(* that are "null" are a nil dereference in om.                            *)
CollectPanics(s) ==
  /\ step = "collect" /\ source = s
  /\ s \in {"opsmanager", "credhub", "core_consumption"}
  /\ Unwind("panicked")
  /\ UNCHANGED <<config, collectionId, foundationId, digests, archive, writer>>

(* AddFile writes a header and then the contents; an error of either       *)
(* sticks to the tar.Writer, and leaves no entry or a truncated one.       *)
AddFile(e) ==
  /\ archive' = Append(archive, e)
  /\ UNCHANGED writer

AddFileFails(e) ==
  /\ archive' \in {archive, Append(archive, [e EXCEPT !.body = Truncated])}
  /\ writer' = "broken"

AddData ==
  /\ step = "add"
  /\ LET d == DataSetOf(source)
         file == Head(pending)
     IN /\ AddFile(DataEntry(d, file))
        /\ digests' = [digests EXCEPT ![d] = Append(@, DigestOf(file))]
  /\ pending' = Tail(pending)
  /\ IF Len(pending) = 1 THEN GoTo(AfterData(source))
                         ELSE UNCHANGED <<step, source, outcome>>
  /\ UNCHANGED <<config, collectionId, foundationId>>

ContentUnreadable ==
  /\ step = "add"
  /\ Unwind("failed")
  /\ UNCHANGED <<config, collectionId, foundationId, digests, archive, writer>>

(* Variant: the error of AddFile is dropped, as is the one of Close.       *)
DropAddFileError ==
  /\ step = "add"
  /\ AddFileFails(DataEntry(DataSetOf(source), Head(pending)))
  /\ pending' = Tail(pending)
  /\ IF Len(pending) = 1 THEN GoTo(AfterData(source))
                         ELSE UNCHANGED <<step, source, outcome>>
  /\ UNCHANGED <<config, collectionId, foundationId, digests>>

AddDataFails ==
  /\ step = "add"
  /\ AddFileFails(DataEntry(DataSetOf(source), Head(pending)))
  /\ Unwind("failed")
  /\ UNCHANGED <<config, collectionId, foundationId, digests>>

(* Variant: every metadata file gets a UUID of its own.                    *)
WriteFreshMetadata ==
  /\ step = "metadata"
  /\ collectionId' \in CollectionIds
  /\ AddFile([MetadataEntry(source) EXCEPT !.body.collectionId = collectionId'])
  /\ GoTo(AfterMetadata(source))
  /\ UNCHANGED <<config, pending, foundationId, digests>>

WriteMetadata ==
  /\ step = "metadata"
  /\ AddFile(MetadataEntry(source))
  /\ GoTo(AfterMetadata(source))
  /\ UNCHANGED <<config, pending, collectionId, foundationId, digests>>

WriteMetadataFails ==
  /\ step = "metadata"
  /\ AddFileFails(MetadataEntry(source))
  /\ Unwind("failed")
  /\ UNCHANGED <<config, collectionId, foundationId, digests>>

(* The deferred tarWriter.Close: it writes the trailer unless an earlier   *)
(* error sticks or its own write fails; its error is dropped.              *)
CloseWriter ==
  /\ step = "close"
  /\ step' = "done"
  /\ writer' \in IF writer = "broken" THEN {"closed"} ELSE {"sealed", "closed"}
  /\ UNCHANGED <<config, source, pending, collectionId, foundationId, digests, archive, outcome>>

(* The process ends with no deferred call: a signal, or the log.Fatal of   *)
(* om's ListStagedPendingChanges.                                          *)
ProcessDies ==
  /\ step # "done"
  /\ step' = "done"
  /\ outcome' = "killed"
  /\ UNCHANGED <<config, source, pending, collectionId, foundationId, digests, archive, writer>>

Next ==
  \/ NewUUID \/ UUIDFails
  \/ \E s \in Sources : \/ \E list \in ListsOf(s) : Collected(s, list)
                        \/ CollectFails(s)
                        \/ CollectPanics(s)
  \/ CoreCollectFails
  \/ AddData \/ ContentUnreadable \/ AddDataFails
  \/ WriteMetadata \/ WriteMetadataFails
  \/ CloseWriter
  \/ ProcessDies

Spec == Init /\ [][Next]_vars

-----------------------------------------------------------------------------
Entries == [dataSet : DataSets, name : Names, body : Bodies \cup {Truncated}]
           \cup [dataSet : DataSets, name : {Metadata},
                 body : MetadataValues \cup {Truncated}]

(* Every variable has a value the code can give it.                        *)
TypeOK ==
  /\ config \in Configs
  /\ step \in {"uuid", "collect", "add", "metadata", "close", "done"}
  /\ source \in Sources
  /\ pending \in Seq(DataFiles)
  /\ collectionId \in CollectionIds \cup {None}
  /\ foundationId \in Foundations \cup {None}
  /\ digests \in [DataSets -> Seq(Digests)]
  /\ archive \in Seq(Entries)
  /\ writer \in {"open", "broken", "sealed", "closed"}
  /\ outcome \in {"running", "success", "failed", "panicked", "killed"}

IsWhole(entry) == entry.body # Truncated
EntriesOf(a, d) == {i \in DOMAIN a : a[i].dataSet = d}
DataOf(a, d) == {i \in EntriesOf(a, d) : a[i].name # Metadata}
CommittedBy(a, d) == {i \in EntriesOf(a, d) : a[i].name = Metadata /\ IsWhole(a[i])}

(* collector_tar.FileValidator.Validate on data set d, whose metadata is   *)
(* entry m: FileMd5s keeps the last file of a name, each digest must have  *)
(* a name without "." and "/" and find and use up a file of its name and   *)
(* checksum, and no file may be left.                                      *)
Validates(d, m) ==
  LET listed == archive[m].body.fileDigests
      names == {archive[i].name : i \in DataOf(archive, d)}
      fileMd5s == [n \in names |->
                     MD5(archive[CHOOSE i \in DataOf(archive, d) :
                           /\ archive[i].name = n
                           /\ \A j \in DataOf(archive, d) : archive[j].name = n => j <= i].body)]
  IN /\ \A k \in DOMAIN listed : /\ listed[k].name \in names \ RefusedNames
                                 /\ fileMd5s[listed[k].name] = listed[k].sum
                                 /\ \A l \in 1..k-1 : listed[l].name # listed[k].name
     /\ names = {listed[k].name : k \in DOMAIN listed}

(* A data set that has its metadata is the one its metadata describes: a   *)
(* validator accepts it, and refuses it only for a "." or "/" that the     *)
(* type of a product brought into a name. This holds at every instant, so  *)
(* in the archive a failed, panicked or killed collection leaves behind as *)
(* well: the metadata file commits its data set.                           *)
HasPlainNames(d) ==
  \A i \in DataOf(archive, d) : archive[i].name \notin RefusedNames
MetadataDescribesDataSet ==
  \A d \in DataSets : \A m \in CommittedBy(archive, d) :
    Validates(d, m) <=> HasPlainNames(d)

(* A collection that succeeds leaves every data set it was configured for, *)
(* each whole and with its metadata; only core counts may be missing, and  *)
(* then altogether; the only file without metadata is the CredHub one of a *)
(* collection of operational data.                                         *)
SuccessIsComplete ==
  outcome = "success" =>
    /\ ~config.operationalOnly => CommittedBy(archive, "opsmanager") # {}
    /\ config.credhub => DataOf(archive, "opsmanager") # {}
    /\ config.usage <=> CommittedBy(archive, "usage_service") # {}
    /\ \A i \in DOMAIN archive : IsWhole(archive[i])
    /\ \A d \in DataSets : DataOf(archive, d) # {} =>
         CommittedBy(archive, d) # {} \/ (config.operationalOnly /\ config.credhub /\ d = "opsmanager")

(* Collect keeps the promise of ArchivePromise: a data set is delivered    *)
(* the moment its metadata file is written, and what is added before that  *)
(* is invisible to the promise.                                            *)
RequiredDataSets ==
  {d \in {"opsmanager", "usage_service"} :
     IF d = "opsmanager" THEN ~config.operationalOnly ELSE config.usage}
Delivered(d) ==
  IF CommittedBy(archive, d) = {} THEN None
  ELSE LET metadata == archive[CHOOSE m \in CommittedBy(archive, d) : TRUE].body
       IN [of |-> <<metadata.collectionId, metadata.foundationId>>,
           files |-> {[name |-> archive[i].name, body |-> archive[i].body] : i \in DataOf(archive, d)}]

Promise == INSTANCE ArchivePromise WITH
  Identities <- CollectionIds \X Foundations,
  required <- RequiredDataSets,
  allowed <- RequiredDataSets \cup (IF config.core THEN {"core_consumption"} ELSE {}),
  identity <- IF foundationId = None THEN None ELSE <<collectionId, foundationId>>,
  contents <- [d \in DataSets |-> Delivered(d)],
  status <- IF step = "done" THEN outcome ELSE "running"

KeepsPromise == Promise!Spec

(* What a comment in Collect says of core counts: not being able to have   *)
(* them does not fail the collection. A short row ends the process.        *)
CoreCountsNeverEndRun ==
  ~(outcome = "panicked" /\ source = "core_consumption")
=============================================================================
