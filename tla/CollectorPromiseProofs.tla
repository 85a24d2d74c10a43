----------------------- MODULE CollectorPromiseProofs -----------------------
(***************************************************************************)
(* Proofs about what Collector promises: that a collection which succeeds  *)
(* is complete, and that Collector implements ArchivePromise.              *)
(***************************************************************************)
EXTENDS CollectorProofs

(* Collect asks the collectors it was given only, and has no result before *)
(* it returns.                                                             *)
AskInv ==
  /\ Collecting => outcome = "running"
  /\ step = "close" => outcome \in {"success", "failed", "panicked"}
  /\ outcome = "success" => step \in {"close", "done"}
  /\ Collecting =>
       /\ source = "credhub" => config.credhub
       /\ source = "usage_service" => config.usage
       /\ source = "core_consumption" => config.core
  /\ step \in {"add", "metadata"} /\ source = "opsmanager" =>
       ~config.operationalOnly
  /\ step = "uuid" \/ (step = "collect" /\ source = "opsmanager") =>
       foundationId = None
  /\ foundationId # None =>
       collectionId \in CollectionIds /\ foundationId \in Foundations

(* The archive has the data sets that were asked for, and whole entries    *)
(* only when all went well.                                                *)
HasInv ==
  /\ EntriesOf(archive, "usage_service") # {} => config.usage
  /\ DataOf(archive, "opsmanager") # {} =>
       ~config.operationalOnly \/ config.credhub
  /\ outcome = "success" =>
       /\ \A i \in DOMAIN archive : IsWhole(archive[i])
       /\ DataOf(archive, "core_consumption") # {} =>
            CommittedBy(archive, "core_consumption") # {}

(* What is behind Collect, when it goes on or went well.                   *)
PastUsage == outcome = "success" \/ (Collecting /\ source = "core_consumption")
PastOpsManager == PastUsage \/ (Collecting /\ source = "usage_service")
PastCredhub ==
  PastOpsManager \/ (step = "metadata" /\ source = "opsmanager")

DoneInv ==
  /\ PastCredhub /\ config.credhub => DataOf(archive, "opsmanager") # {}
  /\ PastOpsManager /\ ~config.operationalOnly =>
       CommittedBy(archive, "opsmanager") # {}
  /\ PastUsage /\ config.usage => CommittedBy(archive, "usage_service") # {}

PInv == IInv /\ AskInv /\ HasInv /\ DoneInv

-----------------------------------------------------------------------------
(* The places after the data of a collector, and what is then behind.      *)
LEMMA NextPlaces ==
  ASSUME config \in Configs, NEW s \in Sources, NEW p, p = AfterData(s),
         s = "credhub" => config.credhub,
         s = "usage_service" => config.usage,
         s = "core_consumption" => config.core
  PROVE  /\ p.step \in {"collect", "metadata"}
         /\ p.source = "opsmanager" =>
              p.step = "metadata" /\ ~config.operationalOnly
              /\ (s = "opsmanager" => ~config.credhub)
         /\ p.source = "opsmanager" => s \in {"opsmanager", "credhub"}
         /\ p.source = "credhub" => s = "opsmanager" /\ config.credhub
         /\ p.source = "usage_service" => config.usage
         /\ p.source = "core_consumption" => config.core
         /\ p.source \in {"usage_service", "core_consumption"} =>
              \/ s = p.source
              \/ /\ s \in {"opsmanager", "credhub"} /\ config.operationalOnly
                 /\ s = "opsmanager" => ~config.credhub
                 /\ p.source = "core_consumption" => ~config.usage
BY DEF AfterData, AtCredhub, AtOpsManagerMetadata, AtUsage, AtCore, AtClose,
       Sources, Configs

LEMMA PlacesAfterMetadata ==
  ASSUME config \in Configs, NEW s \in DataSets, NEW p, p = AfterMetadata(s),
         s = "usage_service" => config.usage
  PROVE  /\ p.step \in {"collect", "close"}
         /\ p.source = "usage_service" =>
              p.step = "collect" /\ s = "opsmanager" /\ config.usage
         /\ p.source # "usage_service" => p.source = "core_consumption"
         /\ p.step = "collect" /\ p.source = "core_consumption" =>
              /\ config.core
              /\ s = "usage_service" \/ (s = "opsmanager" /\ ~config.usage)
         /\ p.step = "close" =>
              s = "core_consumption" \/ (s = "opsmanager" /\ ~config.usage)
BY DEF AfterMetadata, AtUsage, AtCore, AtClose, DataSets, Configs

(* Nothing was asked.                                                      *)
LEMMA InitEstablishesPInv == Init => PInv
<1> SUFFICES ASSUME Init PROVE PInv
  OBVIOUS
<1>1. IInv
  BY InitEstablishesIInv
<1>2. DOMAIN archive = {}
  BY DEF Init
<1>3. \A d : EntriesOf(archive, d) = {} /\ DataOf(archive, d) = {}
  BY <1>2 DEF EntriesOf, DataOf
<1>4. AskInv /\ HasInv /\ DoneInv
  BY <1>3
  DEF Init, AskInv, HasInv, DoneInv, PastUsage, PastOpsManager, PastCredhub,
      Collecting
<1> QED
  BY <1>1, <1>4 DEF PInv

(* An error, a panic and the end of the process end it all.                *)
LEMMA LeavingKeepsPInv ==
  ASSUME PInv, IInv', UNCHANGED <<config, source, collectionId, foundationId, archive>>,
         step' \in {"close", "done"},
         outcome' \in {"failed", "panicked", "killed"},
         step' = "close" => outcome' # "killed"
  PROVE  PInv'
<1>1. AskInv' /\ HasInv' /\ DoneInv'
  BY DEF PInv, AskInv, HasInv, DoneInv, PastUsage, PastOpsManager, PastCredhub,
         Collecting
<1> QED
  BY <1>1 DEF PInv

(* A write that fails may leave a truncated entry of a data set Collect    *)
(* was asked for.                                                          *)
LEMMA FailedWriteKeepsPInv ==
  ASSUME PInv, IInv', AddDataFails \/ WriteMetadataFails
  PROVE  PInv'
<1>1. /\ step \in {"add", "metadata"} /\ Collecting /\ TypeOK
      /\ UNCHANGED <<config, source, collectionId, foundationId>>
      /\ step' = "close" /\ outcome' = "failed"
  BY DEF AddDataFails, WriteMetadataFails, Unwind, Collecting, PInv, IInv
<1>2. AskInv' /\ DoneInv'
  BY <1>1
  DEF PInv, AskInv, DoneInv, PastUsage, PastOpsManager, PastCredhub, Collecting
<1>3. PICK e \in Entries :
        /\ archive' = archive \/ archive' = Append(archive, [e EXCEPT !.body = Truncated])
        /\ e.dataSet = DataSetOf(source)
        /\ [e EXCEPT !.body = Truncated] \in Entries
  <2>1. CASE AddDataFails
    <3>1. pending # <<>> /\ pending \in Seq(DataFiles) /\ source \in Sources
      BY <2>1 DEF AddDataFails, PInv, IInv, ControlInv, TypeOK
    <3>2. Head(pending) \in DataFiles
      BY <3>1
    <3> DEFINE e == DataEntry(DataSetOf(source), Head(pending))
    <3>3. /\ e \in Entries /\ e.dataSet = DataSetOf(source)
          /\ [e EXCEPT !.body = Truncated] \in Entries
      BY <3>1, <3>2
      DEF DataEntry, DataFiles, Entries, DataSetOf, Sources, DataSets
    <3> QED
      BY <2>1, <3>3 DEF AddDataFails, AddFileFails
  <2>2. CASE WriteMetadataFails
    <3>1. /\ source \in DataSets /\ DataSetOf(source) = source
          /\ collectionId \in CollectionIds /\ foundationId \in Foundations
      BY <2>2 DEF WriteMetadataFails, PInv, IInv, ControlInv, DataSets, DataSetOf
    <3>2. MetadataOf(source) \in MetadataValues
      BY <1>1, <3>1 DEF TypeOK, MetadataOf, MetadataValues
    <3> QED
      BY <2>2, <3>1, <3>2
      DEF WriteMetadataFails, AddFileFails, MetadataEntry, Entries
  <2> QED
    BY <2>1, <2>2
<1>4. CASE archive' = archive
  BY <1>1, <1>2, <1>4 DEF PInv, HasInv
<1>5. CASE archive' = Append(archive, [e EXCEPT !.body = Truncated])
  <2> DEFINE t == [e EXCEPT !.body = Truncated]
  <2>1. t \in Entries /\ t.dataSet = DataSetOf(source)
    BY <1>3 DEF Entries
  <2>2. ASSUME NEW d, d # DataSetOf(source)
        PROVE  /\ EntriesOf(archive', d) = EntriesOf(archive, d)
               /\ DataOf(archive', d) = DataOf(archive, d)
    <3>1. EntriesOf(archive', d) = EntriesOf(archive, d) \cup
            (IF t.dataSet = d THEN {Len(archive) + 1} ELSE {})
      BY <1>1, <1>5, <2>1, AppendedEntry
    <3>2. DataOf(archive', d) = DataOf(archive, d) \cup
            (IF t.dataSet = d /\ t.name # Metadata THEN {Len(archive) + 1} ELSE {})
      BY <1>1, <1>5, <2>1, AppendedEntry
    <3> HIDE DEF t
    <3> QED
      BY <2>1, <2>2, <3>1, <3>2
  <2>3. DataSetOf(source) = "usage_service" => config.usage
    BY <1>1 DEF PInv, AskInv, DataSetOf
  <2>4. DataSetOf(source) = "opsmanager" =>
          ~config.operationalOnly \/ config.credhub
    BY <1>1 DEF PInv, AskInv, DataSetOf
  <2>5. EntriesOf(archive', "usage_service") # {} => config.usage
    BY <2>2, <2>3 DEF PInv, HasInv
  <2>6. DataOf(archive', "opsmanager") # {} =>
          ~config.operationalOnly \/ config.credhub
    BY <2>2, <2>4 DEF PInv, HasInv
  <2>7. HasInv'
    BY <1>1, <2>5, <2>6 DEF HasInv
  <2> QED
    BY <1>2, <2>7 DEF PInv
<1> QED
  BY <1>3, <1>4, <1>5

(* A collector answers, or core counts are done without.                   *)
LEMMA CollectedKeepsPInv ==
  ASSUME PInv, IInv', NEW s \in Sources, NEW list \in ListsOf(s), Collected(s, list)
  PROVE  PInv'
<1> DEFINE p == AfterData(s)
<1>1. /\ step = "collect" /\ source = s /\ Collecting /\ config \in Configs
      /\ UNCHANGED <<config, collectionId, digests, archive, writer>>
      /\ outcome = "running"
      /\ s # "opsmanager" => foundationId' = foundationId
      /\ collectionId' \in CollectionIds /\ foundationId' \in Foundations
      /\ s = "credhub" => config.credhub
      /\ s = "usage_service" => config.usage
      /\ s = "core_consumption" => config.core
  BY DEF Collected, PInv, IInv, TypeOK, ControlInv, AskInv, Collecting
<1>2. CASE list = <<>>
  <2>1. s # "credhub"
    BY <1>2, NamesAssumption DEF ListsOf
  <2>2. /\ p.step \in {"collect", "metadata"}
        /\ p.source = "opsmanager" =>
             p.step = "metadata" /\ ~config.operationalOnly
             /\ (s = "opsmanager" => ~config.credhub)
        /\ p.source = "opsmanager" => s \in {"opsmanager", "credhub"}
        /\ p.source = "credhub" => s = "opsmanager" /\ config.credhub
        /\ p.source = "usage_service" => config.usage
        /\ p.source = "core_consumption" => config.core
        /\ p.source \in {"usage_service", "core_consumption"} =>
             \/ s = p.source
             \/ /\ s \in {"opsmanager", "credhub"} /\ config.operationalOnly
                /\ s = "opsmanager" => ~config.credhub
                /\ p.source = "core_consumption" => ~config.usage
    BY <1>1, NextPlaces
  <2>3. step' = p.step /\ source' = p.source /\ outcome' = "running"
    BY <1>1, <1>2, <2>2 DEF Collected, GoTo
  <2>4. AskInv'
    BY <1>1, <2>2, <2>3 DEF PInv, AskInv, Collecting
  <2>5. HasInv'
    BY <1>1, <2>3 DEF PInv, HasInv
  <2>6. DoneInv'
    BY <1>1, <2>1, <2>2, <2>3
    DEF PInv, DoneInv, PastUsage, PastOpsManager, PastCredhub, Collecting
  <2> QED
    BY <2>4, <2>5, <2>6 DEF PInv
<1>3. CASE list # <<>>
  <2>1. step' = "add" /\ source' = s /\ outcome' = "running"
    BY <1>1, <1>3 DEF Collected, GoTo
  <2>2. s = "opsmanager" => ~config.operationalOnly
    BY <1>3 DEF ListsOf
  <2>3. AskInv'
    BY <1>1, <2>1, <2>2 DEF PInv, AskInv, Collecting
  <2>4. HasInv'
    BY <1>1, <2>1 DEF PInv, HasInv
  <2>5. DoneInv'
    BY <1>1, <2>1
    DEF PInv, DoneInv, PastUsage, PastOpsManager, PastCredhub, Collecting
  <2> QED
    BY <2>3, <2>4, <2>5 DEF PInv
<1> QED
  BY <1>2, <1>3

LEMMA CoreFailsKeepsPInv == PInv /\ IInv' /\ CoreCollectFails => PInv'
<1> SUFFICES ASSUME PInv, IInv', CoreCollectFails PROVE PInv'
  OBVIOUS
<1>1. /\ step = "collect" /\ source = "core_consumption" /\ Collecting
      /\ step' = "close" /\ outcome' = "success" /\ source' = source
      /\ UNCHANGED <<config, collectionId, foundationId, archive>>
  BY DEF CoreCollectFails, GoTo, AtClose, Collecting
<1>2. \A i \in DOMAIN archive : IsWhole(archive[i])
  <2>1. DOMAIN archive = 1..Len(archive)
    BY DEF PInv, IInv, TypeOK
  <2> QED
    BY <1>1, <2>1 DEF PInv, IInv, ControlInv
<1>3. DataOf(archive, "core_consumption") = {}
  BY <1>1 DEF PInv, IInv, FrontierInv, DataSets, DataOf
<1>4. AskInv' /\ HasInv'
  BY <1>1, <1>2, <1>3 DEF PInv, AskInv, HasInv, Collecting
<1>5. DoneInv'
  BY <1>1
  DEF PInv, DoneInv, PastUsage, PastOpsManager, PastCredhub, Collecting
<1> QED
  BY <1>4, <1>5 DEF PInv

(* A data file joins its data set; the last one of a collector makes       *)
(* Collect go on.                                                          *)
LEMMA AddDataKeepsPInv == PInv /\ IInv' /\ AddData => PInv'
<1> SUFFICES ASSUME PInv, IInv', AddData PROVE PInv'
  OBVIOUS
<1> DEFINE D == DataSetOf(source)
           e == DataEntry(D, Head(pending))
           p == AfterData(source)
<1>1. /\ step = "add" /\ Collecting /\ TypeOK /\ config \in Configs
      /\ source \in Sources /\ outcome = "running"
      /\ UNCHANGED <<config, collectionId, foundationId>>
      /\ source = "opsmanager" => ~config.operationalOnly
      /\ source = "credhub" => config.credhub
      /\ source = "usage_service" => config.usage
      /\ source = "core_consumption" => config.core
      /\ foundationId # None => collectionId \in CollectionIds
                                /\ foundationId \in Foundations
  BY DEF AddData, PInv, IInv, TypeOK, AskInv, Collecting
<1>2. Head(pending) \in DataFiles
  BY <1>1 DEF PInv, IInv, TypeOK, ControlInv
<1>3. e \in Entries /\ e.dataSet = D /\ e.name # Metadata
  BY <1>1, <1>2, NamesAssumption
  DEF DataEntry, DataFiles, Entries, DataSetOf, Sources, DataSets
<1>4. archive' = Append(archive, e)
  BY DEF AddData, AddFile
<1>5. /\ \A d : CommittedBy(archive', d) = CommittedBy(archive, d)
      /\ \A d : EntriesOf(archive', d) = EntriesOf(archive, d) \cup
                  (IF D = d THEN {Len(archive) + 1} ELSE {})
      /\ \A d : DataOf(archive', d) = DataOf(archive, d) \cup
                  (IF D = d THEN {Len(archive) + 1} ELSE {})
  <2>1. ASSUME NEW d
        PROVE  /\ CommittedBy(archive', d) = CommittedBy(archive, d)
               /\ EntriesOf(archive', d) = EntriesOf(archive, d) \cup
                    (IF D = d THEN {Len(archive) + 1} ELSE {})
               /\ DataOf(archive', d) = DataOf(archive, d) \cup
                    (IF D = d THEN {Len(archive) + 1} ELSE {})
    <3>1. EntriesOf(archive', d) = EntriesOf(archive, d) \cup
            (IF e.dataSet = d THEN {Len(archive) + 1} ELSE {})
      BY <1>1, <1>3, <1>4, AppendedEntry
    <3>2. DataOf(archive', d) = DataOf(archive, d) \cup
            (IF e.dataSet = d /\ e.name # Metadata THEN {Len(archive) + 1} ELSE {})
      BY <1>1, <1>3, <1>4, AppendedEntry
    <3>3. CommittedBy(archive', d) = CommittedBy(archive, d) \cup
            (IF e.dataSet = d /\ e.name = Metadata /\ e.body # Truncated
               THEN {Len(archive) + 1} ELSE {})
      BY <1>1, <1>3, <1>4, AppendedEntry
    <3> HIDE DEF e, D
    <3> QED
      BY <1>3, <3>1, <3>2, <3>3
  <2> QED
    BY <2>1
<1>6. D = "usage_service" => config.usage
  BY <1>1 DEF DataSetOf
<1>7. D = "opsmanager" => ~config.operationalOnly \/ config.credhub
  BY <1>1 DEF DataSetOf
<1>8. /\ p.step \in {"collect", "metadata"}
      /\ p.source = "opsmanager" =>
           p.step = "metadata" /\ ~config.operationalOnly
           /\ (source = "opsmanager" => ~config.credhub)
      /\ p.source = "opsmanager" => source \in {"opsmanager", "credhub"}
      /\ p.source = "credhub" => source = "opsmanager" /\ config.credhub
      /\ p.source = "usage_service" => config.usage
      /\ p.source = "core_consumption" => config.core
      /\ p.source \in {"usage_service", "core_consumption"} =>
           \/ source = p.source
           \/ /\ source \in {"opsmanager", "credhub"} /\ config.operationalOnly
              /\ source = "opsmanager" => ~config.credhub
              /\ p.source = "core_consumption" => ~config.usage
  BY <1>1, NextPlaces
<1>9. /\ outcome' = "running"
      /\ \/ step' = "add" /\ source' = source
         \/ step' = p.step /\ source' = p.source
  BY <1>1, <1>8 DEF AddData, GoTo
<1>10. AskInv'
  <2>1. CASE step' = "add" /\ source' = source
    BY <1>1, <1>9, <2>1 DEF AskInv, Collecting
  <2>2. CASE step' = p.step /\ source' = p.source
    BY <1>1, <1>8, <1>9, <2>2 DEF AskInv, Collecting
  <2> QED
    BY <1>9, <2>1, <2>2
<1>11. HasInv'
  <2>1. EntriesOf(archive', "usage_service") # {} => config.usage
    BY <1>5, <1>6 DEF PInv, HasInv
  <2>2. DataOf(archive', "opsmanager") # {} =>
          ~config.operationalOnly \/ config.credhub
    BY <1>5, <1>7 DEF PInv, HasInv
  <2> QED
    BY <1>1, <1>9, <2>1, <2>2 DEF HasInv
<1>12. DataOf(archive, "opsmanager") # {} => DataOf(archive', "opsmanager") # {}
  BY <1>5
<1>13. source = "credhub" => DataOf(archive', "opsmanager") # {}
  BY <1>5 DEF DataSetOf
<1>14. DoneInv'
  <2>1. CASE step' = "add" /\ source' = source
    BY <1>1, <1>5, <1>9, <1>12, <2>1
    DEF PInv, DoneInv, PastUsage, PastOpsManager, PastCredhub, Collecting
  <2>2. CASE step' = p.step /\ source' = p.source
    BY <1>1, <1>5, <1>8, <1>9, <1>12, <1>13, <2>2
    DEF PInv, DoneInv, PastUsage, PastOpsManager, PastCredhub, Collecting
  <2> QED
    BY <1>9, <2>1, <2>2
<1> QED
  BY <1>10, <1>11, <1>14 DEF PInv

(* Metadata commits its data set, and is the last of it.                   *)
LEMMA WriteMetadataKeepsPInv == PInv /\ IInv' /\ WriteMetadata => PInv'
<1> SUFFICES ASSUME PInv, IInv', WriteMetadata PROVE PInv'
  OBVIOUS
<1> DEFINE e == MetadataEntry(source)
           p == AfterMetadata(source)
<1>1. /\ step = "metadata" /\ Collecting /\ TypeOK /\ config \in Configs
      /\ source \in DataSets /\ outcome = "running"
      /\ UNCHANGED <<config, collectionId, foundationId>>
      /\ collectionId \in CollectionIds /\ foundationId \in Foundations
      /\ source = "opsmanager" => ~config.operationalOnly
      /\ source = "usage_service" => config.usage
      /\ source = "core_consumption" => config.core
  BY DEF WriteMetadata, PInv, IInv, TypeOK, AskInv, ControlInv, Collecting
<1>2. /\ e \in Entries /\ e.dataSet = source /\ e.name = Metadata
      /\ e.body # Truncated
  <2>1. MetadataOf(source) \in MetadataValues
    BY <1>1 DEF TypeOK, MetadataOf, MetadataValues
  <2> QED
    BY <1>1, <2>1, NamesAssumption DEF MetadataEntry, Entries
<1>3. archive' = Append(archive, e)
  BY DEF WriteMetadata, AddFile
<1>4. /\ \A d : CommittedBy(archive, d) \subseteq CommittedBy(archive', d)
      /\ CommittedBy(archive', source) # {}
      /\ \A d : d # source => EntriesOf(archive', d) = EntriesOf(archive, d)
      /\ \A d : DataOf(archive', d) = DataOf(archive, d)
  <2>1. ASSUME NEW d
        PROVE  /\ CommittedBy(archive', d) = CommittedBy(archive, d) \cup
                    (IF source = d THEN {Len(archive) + 1} ELSE {})
               /\ EntriesOf(archive', d) = EntriesOf(archive, d) \cup
                    (IF source = d THEN {Len(archive) + 1} ELSE {})
               /\ DataOf(archive', d) = DataOf(archive, d)
    <3>1. EntriesOf(archive', d) = EntriesOf(archive, d) \cup
            (IF e.dataSet = d THEN {Len(archive) + 1} ELSE {})
      BY <1>1, <1>2, <1>3, AppendedEntry
    <3>2. DataOf(archive', d) = DataOf(archive, d) \cup
            (IF e.dataSet = d /\ e.name # Metadata THEN {Len(archive) + 1} ELSE {})
      BY <1>1, <1>2, <1>3, AppendedEntry
    <3>3. CommittedBy(archive', d) = CommittedBy(archive, d) \cup
            (IF e.dataSet = d /\ e.name = Metadata /\ e.body # Truncated
               THEN {Len(archive) + 1} ELSE {})
      BY <1>1, <1>2, <1>3, AppendedEntry
    <3> HIDE DEF e
    <3> QED
      BY <1>2, <3>1, <3>2, <3>3
  <2> QED
    BY <2>1
<1>5. /\ p.step \in {"collect", "close"}
      /\ p.source = "usage_service" =>
           p.step = "collect" /\ source = "opsmanager" /\ config.usage
      /\ p.source # "usage_service" => p.source = "core_consumption"
      /\ p.step = "collect" /\ p.source = "core_consumption" =>
           /\ config.core
           /\ source = "usage_service" \/ (source = "opsmanager" /\ ~config.usage)
      /\ p.step = "close" =>
           source = "core_consumption" \/ (source = "opsmanager" /\ ~config.usage)
  BY <1>1, PlacesAfterMetadata
<1>6. /\ step' = p.step /\ source' = p.source
      /\ outcome' = IF p.step = "close" THEN "success" ELSE "running"
  BY <1>1 DEF WriteMetadata, GoTo
<1>7. AskInv'
  BY <1>1, <1>5, <1>6 DEF PInv, AskInv, Collecting
<1>8. HasInv'
  <2>1. EntriesOf(archive', "usage_service") # {} => config.usage
    BY <1>1, <1>4 DEF PInv, HasInv
  <2>2. \A i \in DOMAIN archive' : IsWhole(archive'[i])
    <3>1. archive \in Seq(Entries) /\ \A i \in 1..Len(archive) : IsWhole(archive[i])
      BY <1>1 DEF TypeOK, PInv, IInv, ControlInv
    <3> QED
      BY <1>2, <1>3, <3>1 DEF IsWhole
  <2>3. p.step = "close" /\ DataOf(archive', "core_consumption") # {} =>
          CommittedBy(archive', "core_consumption") # {}
    <3>1. source = "opsmanager" => DataOf(archive, "core_consumption") = {}
      <4>1. source = "opsmanager" => EntriesOf(archive, "core_consumption") = {}
        BY <1>1 DEF PInv, IInv, FrontierInv, DataSets, DataSetOf, Rank
      <4> QED
        BY <4>1 DEF DataOf
    <3> QED
      BY <1>4, <1>5, <3>1
  <2> QED
    BY <1>1, <1>4, <1>6, <2>1, <2>2, <2>3 DEF PInv, HasInv
<1>9. DoneInv'
  BY <1>1, <1>4, <1>5, <1>6
  DEF PInv, DoneInv, PastUsage, PastOpsManager, PastCredhub, Collecting
<1> QED
  BY <1>7, <1>8, <1>9 DEF PInv

(* PInv is inductive.                                                      *)
LEMMA NextKeepsPInv == PInv /\ [Next]_vars => PInv'
<1> SUFFICES ASSUME PInv, [Next]_vars PROVE PInv'
  OBVIOUS
<1>1. IInv'
  BY NextKeepsIInv DEF PInv
<1>2. CASE NewUUID
  <2>1. /\ step = "uuid" /\ step' = "collect" /\ collectionId' \in CollectionIds
        /\ source = "opsmanager" /\ foundationId = None
        /\ UNCHANGED <<config, source, foundationId, archive, outcome>>
    BY <1>2 DEF NewUUID, PInv, IInv, ControlInv, AskInv
  <2>2. AskInv' /\ HasInv' /\ DoneInv'
    BY <2>1
    DEF PInv, AskInv, HasInv, DoneInv, PastUsage, PastOpsManager, PastCredhub,
        Collecting
  <2> QED
    BY <1>1, <2>2 DEF PInv
<1>3. CASE UUIDFails
  BY <1>1, <1>3, LeavingKeepsPInv DEF UUIDFails, Unwind
<1>4. ASSUME NEW s \in Sources,
             (\E list \in ListsOf(s) : Collected(s, list))
               \/ CollectFails(s) \/ CollectPanics(s)
      PROVE  PInv'
  <2>1. CASE CollectFails(s) \/ CollectPanics(s)
    BY <1>1, <2>1, LeavingKeepsPInv DEF CollectFails, CollectPanics, Unwind
  <2> QED
    BY <1>1, <1>4, <2>1, CollectedKeepsPInv
<1>5. CASE ContentUnreadable
  BY <1>1, <1>5, LeavingKeepsPInv DEF ContentUnreadable, Unwind
<1>6. CASE CloseWriter
  <2>1. /\ step = "close" /\ step' = "done"
        /\ UNCHANGED <<config, source, collectionId, foundationId, archive, outcome>>
    BY <1>6 DEF CloseWriter
  <2>2. AskInv' /\ HasInv' /\ DoneInv'
    BY <2>1
    DEF PInv, AskInv, HasInv, DoneInv, PastUsage, PastOpsManager, PastCredhub,
        Collecting
  <2> QED
    BY <1>1, <2>2 DEF PInv
<1>7. CASE ProcessDies
  BY <1>1, <1>7, LeavingKeepsPInv DEF ProcessDies
<1>8. CASE UNCHANGED vars
  BY <1>1, <1>8
  DEF vars, PInv, AskInv, HasInv, DoneInv, PastUsage, PastOpsManager,
      PastCredhub, Collecting
<1> QED
  BY <1>1, <1>2, <1>3, <1>4, <1>5, <1>6, <1>7, <1>8, FailedWriteKeepsPInv,
     CoreFailsKeepsPInv, AddDataKeepsPInv, WriteMetadataKeepsPInv
  DEF Next

LEMMA PInvariance == Spec => []PInv
  BY InitEstablishesPInv, NextKeepsPInv, PTL DEF Spec

-----------------------------------------------------------------------------
(* A nil error of Collect means that every data set asked for is there.    *)
THEOREM SuccessHasAll == Spec => []SuccessIsComplete
<1>1. PInv => SuccessIsComplete
  <2> SUFFICES ASSUME PInv, outcome = "success"
               PROVE  SuccessIsComplete
    BY DEF SuccessIsComplete
  <2>1. \A d : CommittedBy(archive, d) \subseteq EntriesOf(archive, d)
               /\ DataOf(archive, d) \subseteq EntriesOf(archive, d)
    BY DEF CommittedBy, DataOf
  <2>2. /\ ~config.operationalOnly => CommittedBy(archive, "opsmanager") # {}
        /\ config.credhub => DataOf(archive, "opsmanager") # {}
        /\ config.usage => CommittedBy(archive, "usage_service") # {}
    BY DEF PInv, DoneInv, PastUsage, PastOpsManager, PastCredhub
  <2>3. CommittedBy(archive, "usage_service") # {} => config.usage
    BY <2>1 DEF PInv, HasInv
  <2>4. config.usage \in BOOLEAN
    BY DEF PInv, IInv, TypeOK, Configs
  <2>5. DataOf(archive, "usage_service") # {} =>
          CommittedBy(archive, "usage_service") # {}
    BY <2>1, <2>2 DEF PInv, HasInv
  <2>6. DataOf(archive, "opsmanager") # {} =>
          \/ CommittedBy(archive, "opsmanager") # {}
          \/ config.operationalOnly /\ config.credhub
    BY <2>2 DEF PInv, HasInv
  <2>7. /\ \A i \in DOMAIN archive : IsWhole(archive[i])
        /\ DataOf(archive, "core_consumption") # {} =>
             CommittedBy(archive, "core_consumption") # {}
    BY DEF PInv, HasInv
  <2>8. ASSUME NEW d \in DataSets, DataOf(archive, d) # {}
        PROVE  \/ CommittedBy(archive, d) # {}
               \/ config.operationalOnly /\ config.credhub /\ d = "opsmanager"
    BY <2>5, <2>6, <2>7, <2>8 DEF DataSets
  <2> QED
    BY <2>2, <2>3, <2>4, <2>7, <2>8 DEF SuccessIsComplete
<1> QED
  BY <1>1, PInvariance, PTL

-----------------------------------------------------------------------------
(* The refinement: the variables of ArchivePromise.                        *)
Allowed ==
  RequiredDataSets \cup (IF config.core THEN {"core_consumption"} ELSE {})
Identity == IF foundationId = None THEN None ELSE <<collectionId, foundationId>>
Contents == [d \in DataSets |-> Delivered(d)]
Status == IF step = "done" THEN outcome ELSE "running"

(* A data set is delivered as long as its entries stay, and is not before  *)
(* it has its metadata.                                                    *)
LEMMA DeliveredStays ==
  ASSUME NEW d, CommittedBy(archive', d) = CommittedBy(archive, d),
         \/ CommittedBy(archive, d) = {}
         \/ /\ DataOf(archive', d) = DataOf(archive, d)
            /\ \A i \in EntriesOf(archive, d) : archive'[i] = archive[i]
  PROVE  Delivered(d)' = Delivered(d)
<1>1. CASE CommittedBy(archive, d) = {}
  BY <1>1 DEF Delivered
<1>2. CASE CommittedBy(archive, d) # {}
  <2> DEFINE m == CHOOSE m \in CommittedBy(archive, d) : TRUE
  <2>1. m \in CommittedBy(archive, d)
    BY <1>2
  <2>2. archive'[m] = archive[m]
    BY <1>2, <2>1 DEF CommittedBy
  <2>3. \A i \in DataOf(archive, d) : archive'[i] = archive[i]
    BY <1>2 DEF DataOf
  <2>4. {[name |-> archive'[i].name, body |-> archive'[i].body] :
            i \in DataOf(archive', d)}
        = {[name |-> archive[i].name, body |-> archive[i].body] :
            i \in DataOf(archive, d)}
    BY <1>2, <2>3
  <2> HIDE DEF m
  <2>5. m = CHOOSE x \in CommittedBy(archive, d) : TRUE
    BY DEF m
  <2> QED
    BY <1>2, <2>2, <2>4, <2>5 DEF Delivered
<1> QED
  BY <1>1, <1>2

(* An entry of the data set Collect is at, other than its metadata, is not *)
(* seen by the promise.                                                    *)
LEMMA AppendedStays ==
  ASSUME PInv, Collecting, NEW e \in Entries, e.dataSet = DataSetOf(source),
         e.name # Metadata \/ e.body = Truncated,
         archive' = Append(archive, e), config' = config
  PROVE  Contents' = Contents
<1>1. TypeOK /\ source \in Sources /\ DataSetOf(source) \in DataSets
  BY DEF PInv, IInv, TypeOK, Sources, DataSets, DataSetOf
<1>2. CommittedBy(archive, DataSetOf(source)) = {}
  BY <1>1 DEF PInv, IInv, FrontierInv, DataSets, Rank, DataSetOf, Sources
<1>3. ASSUME NEW d \in DataSets PROVE Delivered(d)' = Delivered(d)
  <2>1. CommittedBy(archive', d) = CommittedBy(archive, d) \cup
          (IF e.dataSet = d /\ e.name = Metadata /\ e.body # Truncated
             THEN {Len(archive) + 1} ELSE {})
    BY <1>1, AppendedEntry
  <2>2. CommittedBy(archive', d) = CommittedBy(archive, d)
    BY <2>1
  <2>3. DataOf(archive', d) = DataOf(archive, d) \cup
          (IF e.dataSet = d /\ e.name # Metadata THEN {Len(archive) + 1} ELSE {})
    BY <1>1, AppendedEntry
  <2>4. e.dataSet # d => DataOf(archive', d) = DataOf(archive, d)
    BY <2>3
  <2>5. \A i \in EntriesOf(archive, d) : archive'[i] = archive[i]
    BY <1>1, AppendedEntry, IndexesAreInRange
  <2> QED
    BY <1>2, <2>2, <2>4, <2>5, DeliveredStays
<1> QED
  BY <1>3 DEF Contents

(* The metadata delivers its data set.                                     *)
LEMMA MetadataDelivers ==
  ASSUME PInv, WriteMetadata, NEW D \in DataSets, D = source
  PROVE  /\ D \in Allowed /\ Contents[D] = None
         /\ Contents'[D] \in [of : {Identity}, files : SUBSET DataFiles]
         /\ \A f, g \in Contents'[D].files : f.name = g.name => f = g
         /\ Contents' = [Contents EXCEPT ![D] = Contents'[D]]
<1> DEFINE e == MetadataEntry(D)
<1>1. /\ step = "metadata" /\ Collecting /\ TypeOK /\ D = DataSetOf(source)
      /\ collectionId \in CollectionIds /\ foundationId \in Foundations
      /\ D = "opsmanager" => ~config.operationalOnly
      /\ D = "usage_service" => config.usage
      /\ D = "core_consumption" => config.core
      /\ UNCHANGED <<config, collectionId, foundationId, digests>>
      /\ CommittedBy(archive, D) = {}
  BY DEF WriteMetadata, PInv, IInv, TypeOK, AskInv, ControlInv, Collecting,
         FrontierInv, DataSets, DataSetOf, Rank
<1>2. /\ e \in Entries /\ e.dataSet = D /\ e.name = Metadata
      /\ e.body # Truncated
  <2>1. MetadataOf(D) \in MetadataValues
    BY <1>1 DEF TypeOK, MetadataOf, MetadataValues
  <2> QED
    BY <1>1, <2>1, NamesAssumption DEF MetadataEntry, Entries
<1>3. archive' = Append(archive, e)
  BY DEF WriteMetadata, AddFile
<1>4. ASSUME NEW d
      PROVE  /\ CommittedBy(archive', d) = CommittedBy(archive, d) \cup
                  (IF D = d THEN {Len(archive) + 1} ELSE {})
             /\ DataOf(archive', d) = DataOf(archive, d)
  <2>1. DataOf(archive', d) = DataOf(archive, d) \cup
          (IF e.dataSet = d /\ e.name # Metadata THEN {Len(archive) + 1} ELSE {})
    BY <1>1, <1>2, <1>3, AppendedEntry
  <2>2. CommittedBy(archive', d) = CommittedBy(archive, d) \cup
          (IF e.dataSet = d /\ e.name = Metadata /\ e.body # Truncated
             THEN {Len(archive) + 1} ELSE {})
    BY <1>1, <1>2, <1>3, AppendedEntry
  <2> HIDE DEF e
  <2> QED
    BY <1>2, <2>1, <2>2
<1>5. /\ \A i \in 1..Len(archive) : archive'[i] = archive[i]
      /\ archive'[Len(archive) + 1] = e
  BY <1>1, <1>2, <1>3, AppendedEntry
<1>6. D \in Allowed
  BY <1>1 DEF Allowed, RequiredDataSets, DataSets
<1>7. Contents[D] = None
  BY <1>1 DEF Contents, Delivered
<1>8. ASSUME NEW d \in DataSets, d # D PROVE Delivered(d)' = Delivered(d)
  <2>1. CommittedBy(archive', d) = CommittedBy(archive, d)
        /\ DataOf(archive', d) = DataOf(archive, d)
    BY <1>4, <1>8
  <2>2. \A i \in EntriesOf(archive, d) : archive'[i] = archive[i]
    BY <1>1, <1>5, IndexesAreInRange
  <2> QED
    BY <2>1, <2>2, DeliveredStays
<1> DEFINE files == {[name |-> archive[i].name, body |-> archive[i].body] :
                       i \in DataOf(archive, D)}
<1>9. Delivered(D)' = [of |-> <<collectionId, foundationId>>, files |-> files]
  <2>1. CommittedBy(archive', D) = {Len(archive) + 1}
    BY <1>1, <1>4
  <2>2. (CHOOSE m \in CommittedBy(archive', D) : TRUE) = Len(archive) + 1
    BY <2>1
  <2>3. archive'[Len(archive) + 1].body = MetadataOf(D)
    BY <1>5 DEF MetadataEntry
  <2>4. \A i \in DataOf(archive, D) : archive'[i] = archive[i]
    BY <1>1, <1>5, IndexesAreInRange
  <2>5. {[name |-> archive'[i].name, body |-> archive'[i].body] :
            i \in DataOf(archive', D)} = files
    BY <1>4, <2>4
  <2>6. /\ MetadataOf(D).collectionId = collectionId
        /\ MetadataOf(D).foundationId = foundationId
    BY DEF MetadataOf
  <2> DEFINE m == CHOOSE m \in CommittedBy(archive', D) : TRUE
  <2>7. /\ archive'[m].body.collectionId = collectionId
        /\ archive'[m].body.foundationId = foundationId
    BY <2>2, <2>3, <2>6
  <2>8. Delivered(D)'
          = [of |-> <<archive'[m].body.collectionId, archive'[m].body.foundationId>>,
             files |-> {[name |-> archive'[i].name, body |-> archive'[i].body] :
                          i \in DataOf(archive', D)}]
    BY <2>1 DEF Delivered
  <2> HIDE DEF files, e, m
  <2> QED
    BY <2>5, <2>7, <2>8
<1>10. files \in SUBSET DataFiles
  <2>1. ASSUME NEW i \in DataOf(archive, D)
        PROVE  archive[i].name \in Names /\ archive[i].body \in Bodies
    <3>1. i \in 1..Len(archive) /\ archive[i].name # Metadata
      BY <1>1, IndexesAreInRange DEF DataOf
    <3>2. archive \in Seq(Entries)
      BY <1>1 DEF TypeOK
    <3>3. archive[i] \in Entries
      BY <3>1, <3>2
    <3>4. IsWhole(archive[i])
      BY <1>1, <3>1 DEF PInv, IInv, ControlInv
    <3> QED
      BY <3>1, <3>3, <3>4 DEF Entries, IsWhole
  <2> QED
    BY <2>1 DEF DataFiles
<1>11. ASSUME NEW f \in files, NEW g \in files, f.name = g.name PROVE f = g
  <2>1. PICK i \in DataOf(archive, D) :
          f = [name |-> archive[i].name, body |-> archive[i].body]
    OBVIOUS
  <2>2. PICK j \in DataOf(archive, D) :
          g = [name |-> archive[j].name, body |-> archive[j].body]
    OBVIOUS
  <2>3. archive[i].name = archive[j].name
    BY <1>11, <2>1, <2>2
  <2>4. i = j
    BY <1>1, <2>3 DEF PInv, IInv, DigestInv
  <2> QED
    BY <2>1, <2>2, <2>4
<1>12. Identity = <<collectionId, foundationId>>
  <2>1. None \notin Foundations
    BY NamesAssumption
  <2> QED
    BY <1>1, <2>1 DEF Identity
<1>13. Contents'[D] = [of |-> <<collectionId, foundationId>>, files |-> files]
  BY <1>1, <1>9 DEF Contents
<1>14. Contents' = [Contents EXCEPT ![D] = Contents'[D]]
  BY <1>8 DEF Contents
<1> HIDE DEF files
<1> QED
  BY <1>6, <1>7, <1>10, <1>11, <1>12, <1>13, <1>14

(* What is delivered is a value of its own.                                *)
LEMMA CommittedIsDelivered ==
  ASSUME PInv, NEW d \in DataSets, CommittedBy(archive, d) # {}
  PROVE  Delivered(d) # None
<1> DEFINE m == CHOOSE m \in CommittedBy(archive, d) : TRUE
           files == {[name |-> archive[i].name, body |-> archive[i].body] :
                       i \in DataOf(archive, d)}
<1>1. /\ m \in CommittedBy(archive, d) /\ archive \in Seq(Entries)
      /\ \A i \in EntriesOf(archive, d) : i \in 1..Len(archive)
      /\ \A i \in EntriesOf(archive, d) : IsWhole(archive[i])
  BY IndexesAreInRange DEF PInv, IInv, TypeOK, CommitInv
<1>2. archive[m].body = MetadataOf(d)
  BY <1>1 DEF PInv, IInv, CommitInv
<1>3. files \in SUBSET DataFiles
  <2>1. ASSUME NEW i \in DataOf(archive, d)
        PROVE  archive[i].name \in Names /\ archive[i].body \in Bodies
    <3>1. i \in EntriesOf(archive, d) /\ archive[i].name # Metadata
      BY DEF DataOf
    <3>2. archive[i] \in Entries /\ IsWhole(archive[i])
      BY <1>1, <3>1
    <3> QED
      BY <3>1, <3>2 DEF Entries, IsWhole
  <2> QED
    BY <2>1 DEF DataFiles
<1>4. Delivered(d) = [of |-> <<archive[m].body.collectionId, archive[m].body.foundationId>>,
                      files |-> files]
  BY DEF Delivered
<1> HIDE DEF m, files
<1>5. Delivered(d) = [of |-> <<collectionId, foundationId>>, files |-> files]
  BY <1>2, <1>4 DEF MetadataOf
<1>6. collectionId \in CollectionIds /\ foundationId \in Foundations
  <2>1. /\ m \in EntriesOf(archive, d) /\ archive[m].name = Metadata
        /\ IsWhole(archive[m])
    BY <1>1 DEF CommittedBy
  <2>2. archive[m] \in Entries
    BY <1>1, <2>1
  <2>3. archive[m].body \in MetadataValues
    BY <2>1, <2>2, NamesAssumption DEF Entries, IsWhole
  <2> QED
    BY <1>2, <2>3 DEF MetadataOf, MetadataValues
<1>7. Delivered(d) \in [of : CollectionIds \X Foundations, files : SUBSET DataFiles]
  BY <1>3, <1>5, <1>6
<1> QED
  BY <1>7, NoneAssumption

(* Steps that leave the contents of the archive as they are.               *)
LEMMA ContentsStay ==
  ASSUME UNCHANGED archive
  PROVE  UNCHANGED Contents
<1>1. ASSUME NEW d \in DataSets PROVE Delivered(d)' = Delivered(d)
  BY DeliveredStays
<1> QED
  BY <1>1 DEF Contents

(* Steps that leave every variable of the promise as it is.                *)
LEMMA UnseenSteps ==
  ASSUME UNCHANGED <<config, archive>>, Identity' = Identity, Status' = Status
  PROVE  UNCHANGED <<RequiredDataSets, Allowed, Identity, Contents, Status>>
BY ContentsStay DEF Allowed, RequiredDataSets

(* A data file, and an entry whose write fails, are not seen either.       *)
LEMMA AppendsUnseen ==
  ASSUME PInv, AddData \/ AddDataFails \/ WriteMetadataFails
  PROVE  UNCHANGED <<RequiredDataSets, Allowed, Identity, Contents, Status>>
<1>1. /\ step \in {"add", "metadata"} /\ Collecting /\ TypeOK
      /\ UNCHANGED <<config, collectionId, foundationId>>
  BY DEF AddData, AddDataFails, WriteMetadataFails, Unwind, Collecting, PInv, IInv
<1>2. step' # "done"
  BY <1>1
  DEF AddData, AddDataFails, WriteMetadataFails, Unwind, GoTo, AfterData,
      AtCredhub, AtOpsManagerMetadata, AtUsage, AtCore, AtClose, TypeOK, Sources
<1>3. UNCHANGED <<RequiredDataSets, Allowed, Identity, Status>>
  BY <1>1, <1>2 DEF RequiredDataSets, Allowed, Identity, Status
<1>4. \/ archive' = archive
      \/ \E e \in Entries : /\ archive' = Append(archive, e)
                            /\ e.dataSet = DataSetOf(source)
                            /\ e.name # Metadata \/ e.body = Truncated
  <2>1. CASE AddData \/ AddDataFails
    <3>1. pending # <<>> /\ pending \in Seq(DataFiles) /\ source \in Sources
      BY <2>1 DEF AddData, AddDataFails, PInv, IInv, ControlInv, TypeOK
    <3>2. Head(pending) \in DataFiles
      BY <3>1
    <3> DEFINE e == DataEntry(DataSetOf(source), Head(pending))
    <3>3. /\ e \in Entries /\ e.dataSet = DataSetOf(source) /\ e.name # Metadata
          /\ [e EXCEPT !.body = Truncated] \in Entries
          /\ [e EXCEPT !.body = Truncated].dataSet = DataSetOf(source)
          /\ [e EXCEPT !.body = Truncated].body = Truncated
      BY <3>1, <3>2, NamesAssumption
      DEF DataEntry, DataFiles, Entries, DataSetOf, Sources, DataSets
    <3>4. archive' \in {archive, Append(archive, e),
                        Append(archive, [e EXCEPT !.body = Truncated])}
      BY <2>1 DEF AddData, AddDataFails, AddFile, AddFileFails
    <3> HIDE DEF e
    <3> QED
      BY <3>3, <3>4
  <2>2. CASE WriteMetadataFails
    <3>1. /\ source \in DataSets /\ DataSetOf(source) = source
          /\ collectionId \in CollectionIds /\ foundationId \in Foundations
      BY <2>2 DEF WriteMetadataFails, PInv, IInv, ControlInv, DataSets, DataSetOf
    <3> DEFINE t == [MetadataEntry(source) EXCEPT !.body = Truncated]
    <3>2. t \in Entries /\ t.dataSet = DataSetOf(source) /\ t.body = Truncated
      BY <3>1 DEF MetadataEntry, Entries
    <3>3. archive' \in {archive, Append(archive, t)}
      BY <2>2 DEF WriteMetadataFails, AddFileFails
    <3> HIDE DEF t
    <3> QED
      BY <3>2, <3>3
  <2> QED
    BY <2>1, <2>2
<1>5. UNCHANGED Contents
  BY <1>1, <1>4, AppendedStays, ContentsStay
<1> QED
  BY <1>3, <1>5

(* Every step of Collector is a step of the promise, or is not seen.       *)
LEMMA StepsKeepPromise ==
  ASSUME PInv, PInv', [Next]_vars
  PROVE  \/ UNCHANGED <<RequiredDataSets, Allowed, Identity, Contents, Status>>
         \/ Promise!Next
<1>1. CASE NewUUID
  <2>1. foundationId = None /\ Status' = Status
    BY <1>1 DEF NewUUID, PInv, AskInv, Status
  <2> QED
    BY <1>1, <2>1, UnseenSteps DEF NewUUID, Identity
<1>2. CASE \/ UUIDFails \/ ContentUnreadable \/ CoreCollectFails
           \/ \E s \in Sources : CollectFails(s) \/ CollectPanics(s)
  <2>1. /\ UNCHANGED <<config, archive, collectionId, foundationId>>
        /\ step # "done" /\ step' # "done"
    BY <1>2
    DEF UUIDFails, ContentUnreadable, CoreCollectFails, CollectFails,
        CollectPanics, Unwind, GoTo, AtClose
  <2> QED
    BY <2>1, UnseenSteps DEF Identity, Status
<1>3. ASSUME NEW s \in Sources, NEW list \in ListsOf(s), Collected(s, list)
      PROVE  \/ UNCHANGED <<RequiredDataSets, Allowed, Identity, Contents, Status>>
             \/ Promise!Next
  <2>1. /\ UNCHANGED <<config, archive, collectionId>>
        /\ step = "collect" /\ source = s
    BY <1>3 DEF Collected
  <2>2. step' # "done"
    BY <1>3
    DEF Collected, GoTo, AfterData, AtCredhub, AtOpsManagerMetadata, AtUsage,
        AtCore, AtClose, Sources
  <2>3. Status = "running" /\ Status' = "running"
    BY <2>1, <2>2 DEF Status
  <2>4. CASE s # "opsmanager"
    BY <1>3, <2>1, <2>3, <2>4, UnseenSteps DEF Collected, Identity
  <2>5. CASE s = "opsmanager"
    <3>1. /\ foundationId = None /\ foundationId' \in Foundations
          /\ collectionId \in CollectionIds
      BY <1>3, <2>1, <2>5 DEF Collected, PInv, AskInv, IInv, ControlInv
    <3>2. Identity = None /\ Identity' \in CollectionIds \X Foundations
      BY <2>1, <3>1, NamesAssumption DEF Identity
    <3>3. ASSUME NEW d \in DataSets PROVE Delivered(d)' = Delivered(d)
      BY <2>1, DeliveredStays
    <3>4. UNCHANGED <<RequiredDataSets, Allowed, Contents>>
      BY <2>1, <3>3 DEF RequiredDataSets, Allowed, Contents
    <3>5. Promise!Identify
      BY <2>3, <3>2, <3>4
      DEF Promise!Identify, RequiredDataSets, Allowed, Identity, Contents, Status
    <3> QED
      BY <3>5 DEF Promise!Next
  <2> QED
    BY <2>4, <2>5
<1>4. CASE AddData \/ AddDataFails \/ WriteMetadataFails
  BY <1>4, AppendsUnseen
<1>5. CASE WriteMetadata
  <2>1. /\ step = "metadata" /\ source \in DataSets
        /\ UNCHANGED <<config, collectionId, foundationId>>
    BY <1>5 DEF WriteMetadata, PInv, IInv, ControlInv
  <2>2. PICK D \in DataSets : D = source
    BY <2>1
  <2>3. /\ D \in Allowed /\ Contents[D] = None
        /\ Contents'[D] \in [of : {Identity}, files : SUBSET DataFiles]
        /\ \A f, g \in Contents'[D].files : f.name = g.name => f = g
        /\ Contents' = [Contents EXCEPT ![D] = Contents'[D]]
    BY <1>5, <2>2, MetadataDelivers
  <2>4. Identity # None
    <3>1. collectionId \in CollectionIds /\ foundationId \in Foundations
      BY <2>1 DEF PInv, IInv, ControlInv
    <3>2. <<collectionId, foundationId>> \in CollectionIds \X Foundations
      BY <3>1
    <3>3. foundationId # None
      BY <3>1, NamesAssumption
    <3> QED
      BY <3>2, <3>3, NoneAssumption DEF Identity
  <2>5. step' # "done"
    BY <1>5, <2>1
    DEF WriteMetadata, GoTo, AfterMetadata, AtUsage, AtCore, AtClose, DataSets
  <2>6. /\ Status = "running" /\ Status' = Status
        /\ UNCHANGED <<RequiredDataSets, Allowed, Identity>>
    BY <2>1, <2>5 DEF Status, RequiredDataSets, Allowed, Identity
  <2>7. Promise!Deliver(D)
    BY <2>3, <2>4, <2>6
    DEF Promise!Deliver, Promise!NamesAreDistinct, Allowed, Identity, Contents,
        Status
  <2> QED
    BY <2>7 DEF Promise!Next
<1>6. CASE CloseWriter
  <2>1. /\ step = "close" /\ step' = "done" /\ outcome' = outcome
        /\ UNCHANGED <<config, collectionId, foundationId, archive>>
        /\ outcome \in {"success", "failed", "panicked"}
    BY <1>6 DEF CloseWriter, PInv, AskInv
  <2>2. Status = "running" /\ Status' = outcome
    BY <2>1 DEF Status
  <2>3. UNCHANGED <<RequiredDataSets, Allowed, Identity, Contents>>
    BY <2>1, ContentsStay DEF RequiredDataSets, Allowed, Identity
  <2>4. CASE outcome = "success"
    <3>1. ASSUME NEW d \in RequiredDataSets PROVE Contents[d] # None
      <4>1. d \in DataSets /\ CommittedBy(archive, d) # {}
        BY <2>4
        DEF RequiredDataSets, DataSets, PInv, DoneInv, PastUsage, PastOpsManager
      <4> QED
        BY <4>1, CommittedIsDelivered DEF Contents
    <3>2. Promise!Succeed
      BY <2>2, <2>3, <2>4, <3>1
      DEF Promise!Succeed, Allowed, Identity, Contents, Status
    <3> QED
      BY <3>2 DEF Promise!Next
  <2>5. CASE outcome # "success"
    <3>1. Promise!GiveUp
      BY <2>1, <2>2, <2>3, <2>5
      DEF Promise!GiveUp, Allowed, Identity, Contents, Status
    <3> QED
      BY <3>1 DEF Promise!Next
  <2> QED
    BY <2>4, <2>5
<1>7. CASE ProcessDies
  <2>1. /\ step # "done" /\ step' = "done" /\ outcome' = "killed"
        /\ UNCHANGED <<config, collectionId, foundationId, archive>>
    BY <1>7 DEF ProcessDies
  <2>2. Status = "running" /\ Status' = "killed"
    BY <2>1 DEF Status
  <2>3. UNCHANGED <<RequiredDataSets, Allowed, Identity, Contents>>
    BY <2>1, ContentsStay DEF RequiredDataSets, Allowed, Identity
  <2>4. Promise!GiveUp
    BY <2>2, <2>3 DEF Promise!GiveUp, Allowed, Identity, Contents, Status
  <2> QED
    BY <2>4 DEF Promise!Next
<1>8. CASE UNCHANGED vars
  BY <1>8, UnseenSteps DEF vars, Identity, Status
<1> QED
  BY <1>1, <1>2, <1>3, <1>4, <1>5, <1>6, <1>7, <1>8 DEF Next

(* Whatever happens to a collection, its archive gains whole data sets, of *)
(* one collection, once each, and success means that it has all of them.   *)
THEOREM ImplementsPromise == Spec => KeepsPromise
<1>1. Init => Promise!Init
  <2> SUFFICES ASSUME Init PROVE Promise!Init
    OBVIOUS
  <2>1. ASSUME NEW d \in DataSets PROVE Delivered(d) = None
    BY DEF Init, Delivered, CommittedBy, EntriesOf
  <2>2. /\ RequiredDataSets \in SUBSET DataSets
        /\ (RequiredDataSets \cup (IF config.core THEN {"core_consumption"} ELSE {}))
              \in SUBSET DataSets
    BY DEF RequiredDataSets, DataSets
  <2> QED
    BY <2>1, <2>2 DEF Init, Promise!Init
<1>2. PInv /\ PInv' /\ [Next]_vars => [Promise!Next]_(Promise!promiseVars)
  BY StepsKeepPromise DEF Promise!promiseVars, Allowed, Identity, Contents, Status
<1> QED
  BY <1>1, <1>2, PInvariance, PTL DEF Spec, KeepsPromise, Promise!Spec
=============================================================================
