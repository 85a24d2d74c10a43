--------------------------- MODULE CollectorProofs ---------------------------
(***************************************************************************)
(* Proofs about Collector, for any names, contents and lists.              *)
(***************************************************************************)
EXTENDS Collector, TLAPS

(* Collect has not returned yet.                                           *)
Collecting == step \in {"uuid", "collect", "add", "metadata"}

(* The order in which the data sets are written.                           *)
Rank(d) == CASE d = "opsmanager" -> 1
             [] d = "usage_service" -> 2
             [] d = "core_consumption" -> 3

OpsManagerNames ==
  {n \in Names : \E om \in OpsManagerLists : \E i \in 1..Len(om) : om[i].name = n}

-----------------------------------------------------------------------------
(* The inductive invariant.                                                *)

(* Where Collect is decides what it has in hand, and that no write failed. *)
ControlInv ==
  /\ step = "uuid" => source = "opsmanager"
  /\ step = "metadata" => source \in DataSets
  /\ step = "add" => pending # <<>>
  /\ step \in {"collect", "add", "metadata"} => collectionId \in CollectionIds
  /\ step \in {"add", "metadata"} \/ (step = "collect" /\ source # "opsmanager")
       => foundationId \in Foundations
  /\ Collecting => \A i \in 1..Len(archive) : IsWhole(archive[i])

(* No data set at or after the current one has its metadata, and those     *)
(* after it are empty.                                                     *)
FrontierInv ==
  Collecting => \A d \in DataSets :
    /\ Rank(d) >= Rank(DataSetOf(source)) => CommittedBy(archive, d) = {}
    /\ Rank(d) > Rank(DataSetOf(source)) => EntriesOf(archive, d) = {} /\ digests[d] = <<>>
    /\ step \in {"uuid", "collect"} /\ source = d => EntriesOf(archive, d) = {} /\ digests[d] = <<>>

(* The data still to be added has names of its own.                        *)
NamesInv ==
  /\ \/ step \in {"uuid", "collect", "add"} /\ source = "opsmanager"
     \/ step = "collect" /\ source = "credhub"
     => \A i \in DataOf(archive, "opsmanager") : archive[i].name \in OpsManagerNames
  /\ step = "add" /\ source = "opsmanager" =>
       \A k \in 1..Len(pending) : pending[k].name \in OpsManagerNames
  /\ step = "add" =>
       /\ \A k, l \in 1..Len(pending) : pending[k].name = pending[l].name => k = l
       /\ \A i \in DataOf(archive, DataSetOf(source)), k \in 1..Len(pending) :
            archive[i].name # pending[k].name

(* FileDigests and the data files of a data set are each other's image,    *)
(* and neither has a name twice.                                           *)
DigestInv ==
  \A d \in DataSets :
    /\ \A i \in DataOf(archive, d) : IsWhole(archive[i]) =>
         \E k \in 1..Len(digests[d]) : digests[d][k] = DigestOf(archive[i])
    /\ \A k \in 1..Len(digests[d]) :
         \E i \in DataOf(archive, d) : IsWhole(archive[i]) /\ digests[d][k] = DigestOf(archive[i])
    /\ \A i, j \in DataOf(archive, d) : archive[i].name = archive[j].name => i = j
    /\ \A k, l \in 1..Len(digests[d]) : digests[d][k].name = digests[d][l].name => k = l

(* A metadata file holds the digests its data set still has, and no file   *)
(* of that data set is truncated.                                          *)
CommitInv ==
  \A d \in DataSets : \A m \in CommittedBy(archive, d) :
    /\ archive[m].body = MetadataOf(d)
    /\ \A i \in EntriesOf(archive, d) : IsWhole(archive[i])

IInv == TypeOK /\ ControlInv /\ FrontierInv /\ NamesInv /\ DigestInv /\ CommitInv

-----------------------------------------------------------------------------
(* Where Collect goes after the data of a collector, and after metadata:   *)
(* never back, and only on to a data set it has not touched.               *)
LEMMA AfterDataPlaces ==
  ASSUME TypeOK, NEW s \in Sources, NEW p, p = AfterData(s)
  PROVE  /\ p.step \in {"collect", "metadata", "close"}
         /\ p.source \in Sources
         /\ p.step = "metadata" => p.source \in DataSets
         /\ p.step = "collect" => p.source # "opsmanager"
         /\ p.step = "collect" /\ p.source = "credhub" => s = "opsmanager"
         /\ p.step # "close" => Rank(DataSetOf(p.source)) >= Rank(DataSetOf(s))
         /\ p.step = "collect" /\ p.source \in DataSets => Rank(p.source) > Rank(DataSetOf(s))
BY DEF TypeOK, AfterData, AtCredhub, AtOpsManagerMetadata, AtUsage, AtCore, AtClose,
       Sources, DataSets, DataSetOf, Rank

(* After the metadata of a data set Collect goes on to a later data set,   *)
(* or closes.                                                              *)
LEMMA AfterMetadataPlaces ==
  ASSUME TypeOK, NEW s \in DataSets, NEW p, p = AfterMetadata(s)
  PROVE  /\ p.step \in {"collect", "close"}
         /\ p.source \in {"usage_service", "core_consumption"}
         /\ p.step = "collect" => Rank(p.source) > Rank(s)
BY DEF TypeOK, AfterMetadata, AtUsage, AtCore, AtClose, DataSets, Rank

(* Lists the collectors return are sequences of data files with distinct   *)
(* names, and CredHub's clash with no name of Ops Manager's.               *)
LEMMA ListsAreListings ==
  ASSUME NEW s \in Sources, NEW list \in ListsOf(s)
  PROVE  /\ list \in Seq(DataFiles)
         /\ \A i, j \in 1..Len(list) : list[i].name = list[j].name => i = j
<1>1. list = <<>> \/ list \in OpsManagerLists \cup CredhubLists \cup UsageLists \cup CoreLists
  BY DEF ListsOf, Sources
<1>2. CASE list = <<>>
  BY <1>2
<1>3. CASE list # <<>>
  <2>1. IsListing(list)
    BY <1>1, <1>3, NamesAssumption
  <2> QED BY <2>1 DEF IsListing
<1> QED BY <1>2, <1>3

(* What the Ops Manager collector returns has Ops Manager names.           *)
LEMMA OpsManagerListNames ==
  ASSUME NEW list \in ListsOf("opsmanager"), NEW k \in 1..Len(list)
  PROVE  list[k].name \in OpsManagerNames
<1>1. list \in OpsManagerLists
  <2>1. Len(<<>>) = 0
    OBVIOUS
  <2> QED BY <2>1 DEF ListsOf
<1>2. list \in Seq(DataFiles)
  BY <1>1, NamesAssumption DEF IsListing
<1>3. list[k] \in DataFiles
  BY <1>2
<1>4. list[k].name \in Names
  BY <1>3 DEF DataFiles
<1> QED BY <1>1, <1>4 DEF OpsManagerNames

(* What the CredHub collector returns has none of them.                    *)
LEMMA CredhubListNames ==
  ASSUME NEW list \in ListsOf("credhub"), NEW k \in 1..Len(list)
  PROVE  list[k].name \notin OpsManagerNames
BY NamesAssumption DEF ListsOf, OpsManagerNames

(* What an entry appended to the archive changes.                          *)
LEMMA AppendedEntry ==
  ASSUME TypeOK, NEW e \in Entries, archive' = Append(archive, e)
  PROVE  /\ archive' \in Seq(Entries)
         /\ Len(archive') = Len(archive) + 1
         /\ \A i \in 1..Len(archive) : archive'[i] = archive[i]
         /\ archive'[Len(archive) + 1] = e
         /\ \A d : EntriesOf(archive', d) = EntriesOf(archive, d) \cup
                     (IF e.dataSet = d THEN {Len(archive) + 1} ELSE {})
         /\ \A d : DataOf(archive', d) = DataOf(archive, d) \cup
              (IF e.dataSet = d /\ e.name # Metadata THEN {Len(archive) + 1} ELSE {})
         /\ \A d : CommittedBy(archive', d) = CommittedBy(archive, d) \cup
              (IF e.dataSet = d /\ e.name = Metadata /\ e.body # Truncated
                 THEN {Len(archive) + 1} ELSE {})
<1>1. archive \in Seq(Entries)
  BY DEF TypeOK
<1>2. /\ archive' \in Seq(Entries)
      /\ Len(archive') = Len(archive) + 1
      /\ \A i \in 1..Len(archive) : archive'[i] = archive[i]
      /\ archive'[Len(archive) + 1] = e
  BY <1>1
<1>3. Len(archive) \in Nat /\ DOMAIN archive = 1..Len(archive)
      /\ DOMAIN archive' = 1..(Len(archive) + 1)
  BY <1>1, <1>2
<1>4. \A d : EntriesOf(archive', d) = EntriesOf(archive, d) \cup
               (IF e.dataSet = d THEN {Len(archive) + 1} ELSE {})
  BY <1>2, <1>3 DEF EntriesOf
<1>5. \A d : DataOf(archive', d) = DataOf(archive, d) \cup
        (IF e.dataSet = d /\ e.name # Metadata THEN {Len(archive) + 1} ELSE {})
  BY <1>2, <1>3 DEF EntriesOf, DataOf
<1>6. \A d : CommittedBy(archive', d) = CommittedBy(archive, d) \cup
        (IF e.dataSet = d /\ e.name = Metadata /\ e.body # Truncated
           THEN {Len(archive) + 1} ELSE {})
  BY <1>2, <1>3 DEF EntriesOf, CommittedBy, IsWhole
<1> QED BY <1>2, <1>4, <1>5, <1>6

-----------------------------------------------------------------------------
(* The steps that leave the archive and Collect behind: errors, panics,    *)
(* the deferred Close, and the end of the process.                         *)
LEMMA LeavingKeepsIInv ==
  ASSUME IInv,
         UNCHANGED <<config, source, collectionId, foundationId, digests, archive>>,
         step' \in {"close", "done"},
         pending' \in {pending, <<>>},
         writer' \in {"open", "broken", "sealed", "closed"},
         outcome' \in {"running", "success", "failed", "panicked", "killed"}
  PROVE  IInv'
<1>0. pending' \in Seq(DataFiles)
  <2>1. <<>> \in Seq(DataFiles)
    OBVIOUS
  <2>2. pending \in Seq(DataFiles)
    BY DEF IInv, TypeOK
  <2>3. pending' = pending \/ pending' = <<>>
    OBVIOUS
  <2>4. CASE pending' = pending
    BY <2>2, <2>4
  <2>5. CASE pending' = <<>>
    BY <2>1, <2>5
  <2> QED BY <2>3, <2>4, <2>5
<1>1. TypeOK'
  BY <1>0 DEF IInv, TypeOK
<1>2. ControlInv' /\ FrontierInv' /\ NamesInv'
  BY DEF ControlInv, FrontierInv, NamesInv, Collecting
<1>3. DigestInv'
  BY DEF IInv, DigestInv, DataOf, EntriesOf, IsWhole, DigestOf
<1>4. CommitInv'
  BY DEF IInv, CommitInv, CommittedBy, EntriesOf, IsWhole, MetadataOf
<1> QED BY <1>1, <1>2, <1>3, <1>4 DEF IInv

(* The entries of a data set are entries of the archive.                   *)
LEMMA IndexesAreInRange ==
  ASSUME TypeOK
  PROVE  /\ Len(archive) \in Nat
         /\ \A d : EntriesOf(archive, d) \subseteq 1..Len(archive)
         /\ \A d : DataOf(archive, d) \subseteq EntriesOf(archive, d) /\ CommittedBy(archive, d) \subseteq EntriesOf(archive, d)
<1>1. archive \in Seq(Entries)
  BY DEF TypeOK
<1>2. Len(archive) \in Nat /\ DOMAIN archive = 1..Len(archive)
  BY <1>1
<1> QED BY <1>2 DEF EntriesOf, DataOf, CommittedBy

(* A failed AddFile leaves the archive as it is, or one truncated entry    *)
(* longer: neither touches a data set that has its metadata.               *)
LEMMA TruncatedEntryKeepsIInv ==
  ASSUME IInv, Collecting,
         NEW e \in Entries, e.dataSet = DataSetOf(source), e.body = Truncated,
         \A i \in DataOf(archive, e.dataSet) : archive[i].name # e.name,
         archive' = Append(archive, e),
         UNCHANGED <<config, source, collectionId, foundationId, digests>>,
         step' = "close", pending' = <<>>, writer' = "broken", outcome' = "failed"
  PROVE  IInv'
<1> DEFINE n == Len(archive) + 1
<1>1. TypeOK'
  BY AppendedEntry DEF IInv, TypeOK
<1>2. ControlInv' /\ FrontierInv' /\ NamesInv'
  BY DEF ControlInv, FrontierInv, NamesInv, Collecting
<1>3. /\ \A i \in 1..Len(archive) : archive'[i] = archive[i]
      /\ archive'[n] = e
      /\ \A d : EntriesOf(archive', d) = EntriesOf(archive, d) \cup (IF e.dataSet = d THEN {n} ELSE {})
      /\ \A d : /\ DataOf(archive, d) \subseteq DataOf(archive', d)
               /\ DataOf(archive', d) \subseteq DataOf(archive, d) \cup (IF e.dataSet = d THEN {n} ELSE {})
               /\ CommittedBy(archive', d) = CommittedBy(archive, d)
  <2>1. TypeOK
    BY DEF IInv
  <2>2. /\ \A i \in 1..Len(archive) : archive'[i] = archive[i]
        /\ archive'[n] = e
        /\ \A d : EntriesOf(archive', d) = EntriesOf(archive, d) \cup (IF e.dataSet = d THEN {n} ELSE {})
    BY <2>1, AppendedEntry
  <2>3. ASSUME NEW d
        PROVE  /\ DataOf(archive, d) \subseteq DataOf(archive', d)
               /\ DataOf(archive', d) \subseteq DataOf(archive, d) \cup (IF e.dataSet = d THEN {n} ELSE {})
               /\ CommittedBy(archive', d) = CommittedBy(archive, d)
    <3>1. DataOf(archive', d) = DataOf(archive, d) \cup
            (IF e.dataSet = d /\ e.name # Metadata THEN {n} ELSE {})
      BY <2>1, AppendedEntry
    <3>2. CommittedBy(archive', d) = CommittedBy(archive, d) \cup
            (IF e.dataSet = d /\ e.name = Metadata /\ e.body # Truncated THEN {n} ELSE {})
      BY <2>1, AppendedEntry
    <3> QED BY <3>1, <3>2
  <2> QED BY <2>2, <2>3
<1>4. /\ \A d : DataOf(archive, d) \subseteq 1..Len(archive) /\ EntriesOf(archive, d) \subseteq 1..Len(archive)
      /\ \A d : CommittedBy(archive, d) \subseteq 1..Len(archive)
      /\ n \notin 1..Len(archive)
  BY IndexesAreInRange DEF IInv
<1>5. /\ \A i : i = n => ~IsWhole(archive'[i])
      /\ \A i \in 1..Len(archive) : /\ IsWhole(archive'[i]) <=> IsWhole(archive[i])
                                    /\ DigestOf(archive'[i]) = DigestOf(archive[i])
  BY <1>3 DEF IsWhole, DigestOf, MD5
<1>6. DigestInv'
  <2> SUFFICES ASSUME NEW d \in DataSets
               PROVE  /\ \A i \in DataOf(archive', d) : IsWhole(archive'[i]) =>
                           \E k \in 1..Len(digests[d]) : digests[d][k] = DigestOf(archive'[i])
                      /\ \A k \in 1..Len(digests[d]) :
                           \E i \in DataOf(archive', d) : IsWhole(archive'[i]) /\ digests[d][k] = DigestOf(archive'[i])
                      /\ \A i, j \in DataOf(archive', d) : archive'[i].name = archive'[j].name => i = j
                      /\ \A k, l \in 1..Len(digests[d]) :
                           digests[d][k].name = digests[d][l].name => k = l
    BY DEF DigestInv
  <2>1. \A i \in DataOf(archive', d) : IsWhole(archive'[i]) =>
           \E k \in 1..Len(digests[d]) : digests[d][k] = DigestOf(archive'[i])
    BY <1>3, <1>4, <1>5 DEF IInv, DigestInv
  <2>2. \A k \in 1..Len(digests[d]) :
           \E i \in DataOf(archive', d) : IsWhole(archive'[i]) /\ digests[d][k] = DigestOf(archive'[i])
    <3> TAKE k \in 1..Len(digests[d])
    <3>1. PICK i \in DataOf(archive, d) : IsWhole(archive[i]) /\ digests[d][k] = DigestOf(archive[i])
      BY DEF IInv, DigestInv
    <3>2. i \in DataOf(archive', d) /\ i \in 1..Len(archive)
      BY <1>3, <1>4
    <3> QED BY <3>1, <3>2, <1>5
  <2>3. \A i, j \in DataOf(archive', d) : archive'[i].name = archive'[j].name => i = j
    BY <1>3, <1>4 DEF IInv, DigestInv
  <2> QED BY <2>1, <2>2, <2>3 DEF IInv, DigestInv
<1>7. CommitInv'
  <2>1. source \in Sources
    BY DEF IInv, TypeOK
  <2>2. CommittedBy(archive, e.dataSet) = {}
    BY <2>1 DEF IInv, FrontierInv, Collecting, Sources, DataSetOf, DataSets, Rank
  <2>3. \A d \in DataSets : \A m \in CommittedBy(archive', d) :
          /\ archive'[m].body = MetadataOf(d)
          /\ \A i \in EntriesOf(archive', d) : IsWhole(archive'[i])
    BY <2>2, <1>3, <1>4, <1>5 DEF IInv, CommitInv
  <2> QED BY <2>3 DEF CommitInv, MetadataOf
<1> QED BY <1>1, <1>2, <1>6, <1>7 DEF IInv

(* AddData: the next data file and its digest join their data set.         *)
LEMMA AddDataKeepsIInv ==
  ASSUME IInv, AddData
  PROVE  IInv'
<1> DEFINE D == DataSetOf(source)
           file == Head(pending)
           e == DataEntry(D, file)
           n == Len(archive) + 1
           p == AfterData(source)
<1>1. /\ TypeOK /\ source \in Sources /\ D \in DataSets
      /\ pending \in Seq(DataFiles) /\ pending # <<>>
      /\ step = "add" /\ Collecting
  BY DEF IInv, TypeOK, ControlInv, AddData, Collecting, Sources, DataSets, DataSetOf
<1>2. /\ file \in DataFiles /\ file = pending[1] /\ Len(pending) \in Nat \ {0}
      /\ Tail(pending) \in Seq(DataFiles)
      /\ Len(Tail(pending)) = Len(pending) - 1
      /\ \A k \in 1..Len(pending) - 1 : Tail(pending)[k] = pending[k + 1]
  BY <1>1
<1>3. /\ e \in Entries /\ e.dataSet = D /\ e.name = file.name /\ e.body = file.body
      /\ e.name # Metadata /\ IsWhole(e) /\ DigestOf(e) = DigestOf(file)
      /\ DigestOf(file) \in Digests
  BY <1>1, <1>2, NamesAssumption
  DEF DataEntry, DataFiles, Entries, IsWhole, DigestOf, Digests, MD5
<1>4. /\ archive' = Append(archive, e)
      /\ digests' = [digests EXCEPT ![D] = Append(@, DigestOf(file))]
      /\ pending' = Tail(pending)
      /\ UNCHANGED <<config, collectionId, foundationId, writer>>
  BY DEF AddData, AddFile
<1>5. /\ archive' \in Seq(Entries)
      /\ Len(archive') = n
      /\ \A i \in 1..Len(archive) : archive'[i] = archive[i]
      /\ archive'[n] = e
  BY <1>1, <1>3, <1>4, AppendedEntry
<1>6. ASSUME NEW d
      PROVE  /\ EntriesOf(archive', d) = EntriesOf(archive, d) \cup (IF D = d THEN {n} ELSE {})
             /\ DataOf(archive', d) = DataOf(archive, d) \cup (IF D = d THEN {n} ELSE {})
             /\ CommittedBy(archive', d) = CommittedBy(archive, d)
  <2>1. EntriesOf(archive', d) = EntriesOf(archive, d) \cup (IF e.dataSet = d THEN {n} ELSE {})
    BY <1>1, <1>3, <1>4, AppendedEntry
  <2>2. DataOf(archive', d) = DataOf(archive, d) \cup
          (IF e.dataSet = d /\ e.name # Metadata THEN {n} ELSE {})
    BY <1>1, <1>3, <1>4, AppendedEntry
  <2>3. CommittedBy(archive', d) = CommittedBy(archive, d) \cup
          (IF e.dataSet = d /\ e.name = Metadata /\ e.body # Truncated THEN {n} ELSE {})
    BY <1>1, <1>3, <1>4, AppendedEntry
  <2> QED BY <2>1, <2>2, <2>3, <1>3
<1>7. /\ n \notin 1..Len(archive)
      /\ \A d : EntriesOf(archive, d) \subseteq 1..Len(archive)
               /\ DataOf(archive, d) \subseteq 1..Len(archive)
               /\ CommittedBy(archive, d) \subseteq 1..Len(archive)
  BY <1>1, IndexesAreInRange
<1>8. /\ digests' \in [DataSets -> Seq(Digests)]
      /\ digests'[D] = Append(digests[D], DigestOf(file))
      /\ \A d \in DataSets \ {D} : digests'[d] = digests[d]
  BY <1>1, <1>3, <1>4 DEF TypeOK
<1>9. \/ step' = "add" /\ source' = source /\ Len(pending) # 1 /\ outcome' = outcome
      \/ step' = p.step /\ source' = p.source /\ outcome' \in {outcome, "success"}
  BY DEF AddData, GoTo
<1>10. /\ p.step \in {"collect", "metadata", "close"}
       /\ p.source \in Sources
       /\ p.step = "metadata" => p.source \in DataSets
       /\ p.step = "collect" => p.source # "opsmanager"
       /\ p.step = "collect" /\ p.source = "credhub" => source = "opsmanager"
       /\ p.step # "close" => Rank(DataSetOf(p.source)) >= Rank(D)
       /\ p.step = "collect" /\ p.source \in DataSets => Rank(p.source) > Rank(D)
  BY <1>1, AfterDataPlaces
<1>11. TypeOK'
  BY <1>1, <1>2, <1>4, <1>5, <1>8, <1>9, <1>10 DEF TypeOK
<1>12. ControlInv'
  <2>1. collectionId' \in CollectionIds /\ foundationId' \in Foundations
    BY <1>1, <1>4 DEF IInv, ControlInv
  <2>2. \A i \in 1..Len(archive') : IsWhole(archive'[i])
    <3>1. \A i \in 1..Len(archive) : IsWhole(archive[i])
      BY <1>1 DEF IInv, ControlInv
    <3> QED BY <3>1, <1>1, <1>3, <1>5, IndexesAreInRange
  <2>3. step' = "add" => pending' # <<>>
    BY <1>1, <1>2, <1>4, <1>9, <1>10
  <2> QED BY <1>1, <1>9, <1>10, <2>1, <2>2, <2>3 DEF ControlInv
<1>13. FrontierInv'
  <2> SUFFICES ASSUME Collecting', NEW d \in DataSets
               PROVE  /\ Rank(d) >= Rank(DataSetOf(source')) => CommittedBy(archive', d) = {}
                      /\ Rank(d) > Rank(DataSetOf(source')) =>
                           EntriesOf(archive', d) = {} /\ digests'[d] = <<>>
                      /\ step' \in {"uuid", "collect"} /\ source' = d =>
                           EntriesOf(archive', d) = {} /\ digests'[d] = <<>>
    BY DEF FrontierInv
  <2>1. /\ Rank(d) >= Rank(D) => CommittedBy(archive, d) = {}
        /\ Rank(d) > Rank(D) => EntriesOf(archive, d) = {} /\ digests[d] = <<>>
    BY <1>1 DEF IInv, FrontierInv
  <2>2. Rank(d) > Rank(D) => d # D
    BY DEF Rank, DataSets
  <2>3. /\ Rank(d) >= Rank(D) => CommittedBy(archive', d) = {}
        /\ Rank(d) > Rank(D) => EntriesOf(archive', d) = {} /\ digests'[d] = <<>>
    BY <2>1, <2>2, <1>6, <1>8
  <2>4. /\ Rank(d) \in Nat /\ Rank(D) \in Nat
        /\ source' \in Sources => Rank(DataSetOf(source')) \in Nat
    BY <1>1 DEF Rank, DataSets, DataSetOf, Sources
  <2>5. /\ source' \in Sources
        /\ Rank(DataSetOf(source')) >= Rank(D)
        /\ step' \in {"uuid", "collect"} /\ source' = d => Rank(d) > Rank(D)
    <3>1. CASE step' = "add" /\ source' = source
      BY <3>1, <2>4, <1>1
    <3>2. CASE step' = p.step /\ source' = p.source
      BY <3>2, <1>10 DEF Collecting
    <3> QED BY <3>1, <3>2, <1>9
  <2> QED BY <2>3, <2>4, <2>5
<1>14. NamesInv'
  <2>1. \A i \in DataOf(archive', "opsmanager") : source = "opsmanager" =>
          archive'[i].name \in OpsManagerNames
    <3> SUFFICES ASSUME source = "opsmanager", NEW i \in DataOf(archive', "opsmanager")
                 PROVE  archive'[i].name \in OpsManagerNames
      OBVIOUS
    <3>1. D = "opsmanager"
      BY DEF DataSetOf
    <3>2. CASE i \in DataOf(archive, "opsmanager")
      <4>1. archive[i].name \in OpsManagerNames
        BY <1>1, <3>2 DEF IInv, NamesInv
      <4> QED BY <4>1, <3>2, <1>5, <1>7
    <3>3. CASE i = n
      <4>1. pending[1].name \in OpsManagerNames
        BY <1>1, <1>2 DEF IInv, NamesInv
      <4> QED BY <4>1, <3>3, <1>2, <1>3, <1>5
    <3> QED BY <3>1, <3>2, <3>3, <1>6
  <2>2. \A k \in 1..Len(pending') : source = "opsmanager" => pending'[k].name \in OpsManagerNames
    BY <1>1, <1>2, <1>4 DEF IInv, NamesInv
  <2>3. \A k, l \in 1..Len(pending') : pending'[k].name = pending'[l].name => k = l
    <3> TAKE k, l \in 1..Len(pending')
    <3>1. /\ k + 1 \in 1..Len(pending) /\ l + 1 \in 1..Len(pending)
          /\ pending'[k] = pending[k + 1] /\ pending'[l] = pending[l + 1]
      BY <1>2, <1>4
    <3>2. pending[k + 1].name = pending[l + 1].name => k + 1 = l + 1
      BY <1>1, <3>1 DEF IInv, NamesInv
    <3> QED BY <3>1, <3>2
  <2>4. \A i \in DataOf(archive', D), k \in 1..Len(pending') :
          archive'[i].name # pending'[k].name
    <3> TAKE i \in DataOf(archive', D), k \in 1..Len(pending')
    <3>1. k + 1 \in 1..Len(pending) /\ 1 \in 1..Len(pending) /\ pending'[k] = pending[k + 1]
      BY <1>2, <1>4
    <3>2. CASE i \in DataOf(archive, D)
      <4>1. archive[i].name # pending[k + 1].name
        BY <1>1, <3>1, <3>2 DEF IInv, NamesInv
      <4> QED BY <4>1, <3>1, <3>2, <1>5, <1>7
    <3>3. CASE i = n
      <4>1. pending[1].name # pending[k + 1].name
        <5>1. pending[1].name = pending[k + 1].name => 1 = k + 1
          BY <1>1, <3>1 DEF IInv, NamesInv
        <5> QED BY <5>1, <3>1
      <4> QED BY <4>1, <3>1, <3>3, <1>2, <1>3, <1>5
    <3> QED BY <3>2, <3>3, <1>6
  <2>5. CASE step' = "add" /\ source' = source
    BY <2>1, <2>2, <2>3, <2>4, <2>5 DEF NamesInv
  <2>6. CASE step' = p.step /\ source' = p.source
    BY <2>1, <2>6, <1>10 DEF NamesInv
  <2> QED BY <2>5, <2>6, <1>9
<1>15. DigestInv'
  <2> SUFFICES ASSUME NEW d \in DataSets
               PROVE  /\ \A i \in DataOf(archive', d) : IsWhole(archive'[i]) =>
                           \E k \in 1..Len(digests'[d]) : digests'[d][k] = DigestOf(archive'[i])
                      /\ \A k \in 1..Len(digests'[d]) : \E i \in DataOf(archive', d) :
                           IsWhole(archive'[i]) /\ digests'[d][k] = DigestOf(archive'[i])
                      /\ \A i, j \in DataOf(archive', d) :
                           archive'[i].name = archive'[j].name => i = j
                      /\ \A k, l \in 1..Len(digests'[d]) :
                           digests'[d][k].name = digests'[d][l].name => k = l
    BY DEF DigestInv
  <2>1. /\ \A i \in DataOf(archive, d) : IsWhole(archive[i]) =>
             \E k \in 1..Len(digests[d]) : digests[d][k] = DigestOf(archive[i])
        /\ \A k \in 1..Len(digests[d]) : \E i \in DataOf(archive, d) :
             IsWhole(archive[i]) /\ digests[d][k] = DigestOf(archive[i])
        /\ \A i, j \in DataOf(archive, d) : archive[i].name = archive[j].name => i = j
        /\ \A k, l \in 1..Len(digests[d]) : digests[d][k].name = digests[d][l].name => k = l
    BY DEF IInv, DigestInv
  <2>2. \A i \in DataOf(archive, d) : archive'[i] = archive[i] /\ i # n
    BY <1>5, <1>7
  <2>3. CASE d # D
    <3>1. DataOf(archive', d) = DataOf(archive, d) /\ digests'[d] = digests[d]
      BY <2>3, <1>6, <1>8
    <3> QED BY <3>1, <2>1, <2>2
  <2>4. CASE d = D
    <3> DEFINE m == Len(digests[D]) + 1
    <3>1. DataOf(archive', D) = DataOf(archive, D) \cup {n}
      BY <1>6
    <3>2. digests[D] \in Seq(Digests)
      BY <1>1 DEF TypeOK
    <3>3. /\ Len(digests[D]) \in Nat /\ Len(digests'[D]) = m
          /\ \A k \in 1..Len(digests[D]) : digests'[D][k] = digests[D][k]
          /\ digests'[D][m] = DigestOf(e)
      BY <3>2, <1>3, <1>8
    <3>4. \A i \in DataOf(archive, D) : archive[i].name # e.name
      BY <1>1, <1>2, <1>3 DEF IInv, NamesInv
    <3>5. \A i \in DataOf(archive', D) : IsWhole(archive'[i]) =>
            \E k \in 1..Len(digests'[D]) : digests'[D][k] = DigestOf(archive'[i])
      <4> TAKE i \in DataOf(archive', D)
      <4>1. CASE i = n
        BY <4>1, <3>3, <1>5
      <4>2. CASE i \in DataOf(archive, D)
        <5>1. IsWhole(archive[i]) =>
                \E k \in 1..Len(digests[D]) : digests[D][k] = DigestOf(archive[i])
          BY <4>2, <2>4, <2>1
        <5> QED BY <5>1, <4>2, <2>4, <2>2, <3>3
      <4> QED BY <4>1, <4>2, <3>1
    <3>6. \A k \in 1..Len(digests'[D]) : \E i \in DataOf(archive', D) :
            IsWhole(archive'[i]) /\ digests'[D][k] = DigestOf(archive'[i])
      <4> TAKE k \in 1..Len(digests'[D])
      <4>1. CASE k = m
        <5>1. n \in DataOf(archive', D) /\ archive'[n] = e /\ IsWhole(e)
          BY <3>1, <1>3, <1>5
        <5> QED BY <5>1, <4>1, <3>3
      <4>2. CASE k # m
        <5>1. k \in 1..Len(digests[D])
          BY <4>2, <3>3
        <5>2. PICK i \in DataOf(archive, D) :
                IsWhole(archive[i]) /\ digests[D][k] = DigestOf(archive[i])
          BY <5>1, <2>4, <2>1
        <5> QED BY <5>1, <5>2, <2>4, <2>2, <3>1, <3>3
      <4> QED BY <4>1, <4>2
    <3>7. \A i, j \in DataOf(archive', D) : archive'[i].name = archive'[j].name => i = j
      BY <2>1, <2>2, <2>4, <3>1, <3>4, <1>5
    <3>8. \A k, l \in 1..Len(digests'[D]) : digests'[D][k].name = digests'[D][l].name => k = l
      <4>1. ASSUME NEW k \in 1..Len(digests[D]) PROVE digests[D][k].name # e.name
        <5>1. PICK i \in DataOf(archive, D) : digests[D][k] = DigestOf(archive[i])
          BY <2>1, <2>4
        <5> QED BY <5>1, <3>4 DEF DigestOf
      <4>2. DigestOf(e).name = e.name
        BY DEF DigestOf
      <4> TAKE k, l \in 1..Len(digests'[D])
      <4>3. CASE k # m /\ l # m
        <5>1. k \in 1..Len(digests[D]) /\ l \in 1..Len(digests[D])
          BY <4>3, <3>3
        <5> QED BY <5>1, <2>1, <2>4, <3>3
      <4>4. CASE k = m /\ l # m
        <5>1. l \in 1..Len(digests[D])
          BY <4>4, <3>3
        <5> QED BY <5>1, <4>1, <4>2, <4>4, <3>3
      <4>5. CASE k # m /\ l = m
        <5>1. k \in 1..Len(digests[D])
          BY <4>5, <3>3
        <5> QED BY <5>1, <4>1, <4>2, <4>5, <3>3
      <4> QED BY <4>3, <4>4, <4>5
    <3> QED BY <2>4, <3>5, <3>6, <3>7, <3>8
  <2> QED BY <2>3, <2>4
<1>16. CommitInv'
  <2> SUFFICES ASSUME NEW d \in DataSets, NEW m \in CommittedBy(archive', d)
               PROVE  /\ archive'[m].body = MetadataOf(d)'
                      /\ \A i \in EntriesOf(archive', d) : IsWhole(archive'[i])
    BY DEF CommitInv
  <2>1. m \in CommittedBy(archive, d)
    BY <1>6
  <2>2. d # D
    BY <2>1, <1>1 DEF IInv, FrontierInv, Rank, DataSets
  <2>3. EntriesOf(archive', d) = EntriesOf(archive, d)
    BY <2>2, <1>6
  <2>4. archive[m].body = MetadataOf(d) /\ \A i \in EntriesOf(archive, d) : IsWhole(archive[i])
    BY <2>1 DEF IInv, CommitInv
  <2>5. MetadataOf(d)' = MetadataOf(d)
    BY <2>2, <1>4, <1>8 DEF MetadataOf
  <2> QED BY <2>1, <2>3, <2>4, <2>5, <1>5, <1>7
<1> QED BY <1>11, <1>12, <1>13, <1>14, <1>15, <1>16 DEF IInv

(* WriteMetadata: the data set gains its metadata and is left behind.      *)
LEMMA WriteMetadataKeepsIInv ==
  ASSUME IInv, WriteMetadata
  PROVE  IInv'
<1> DEFINE D == source
           e == MetadataEntry(D)
           n == Len(archive) + 1
           p == AfterMetadata(D)
<1>1. /\ TypeOK /\ D \in DataSets /\ step = "metadata" /\ Collecting
      /\ collectionId \in CollectionIds /\ foundationId \in Foundations
      /\ DataSetOf(D) = D
  BY DEF IInv, ControlInv, WriteMetadata, Collecting, DataSets, DataSetOf
<1>2. /\ e \in Entries /\ e.dataSet = D /\ e.name = Metadata /\ e.body = MetadataOf(D)
      /\ IsWhole(e)
  <2>1. MetadataOf(D) \in MetadataValues
    BY <1>1 DEF TypeOK, MetadataOf, MetadataValues
  <2>2. MetadataOf(D) # Truncated
    BY <2>1, NamesAssumption
  <2> QED BY <2>1, <2>2, <1>1 DEF MetadataEntry, Entries, IsWhole
<1>3. /\ archive' = Append(archive, e)
      /\ UNCHANGED <<config, pending, collectionId, foundationId, digests, writer>>
      /\ step' = p.step /\ source' = p.source /\ outcome' \in {outcome, "success"}
  BY DEF WriteMetadata, AddFile, GoTo
<1>4. /\ archive' \in Seq(Entries)
      /\ Len(archive') = n
      /\ \A i \in 1..Len(archive) : archive'[i] = archive[i]
      /\ archive'[n] = e
  BY <1>1, <1>2, <1>3, AppendedEntry
<1>5. ASSUME NEW d
      PROVE  /\ EntriesOf(archive', d) = EntriesOf(archive, d) \cup (IF D = d THEN {n} ELSE {})
             /\ DataOf(archive', d) = DataOf(archive, d)
             /\ CommittedBy(archive', d) = CommittedBy(archive, d) \cup (IF D = d THEN {n} ELSE {})
  <2>1. EntriesOf(archive', d) = EntriesOf(archive, d) \cup (IF e.dataSet = d THEN {n} ELSE {})
    BY <1>1, <1>2, <1>3, AppendedEntry
  <2>2. DataOf(archive', d) = DataOf(archive, d) \cup
          (IF e.dataSet = d /\ e.name # Metadata THEN {n} ELSE {})
    BY <1>1, <1>2, <1>3, AppendedEntry
  <2>3. CommittedBy(archive', d) = CommittedBy(archive, d) \cup
          (IF e.dataSet = d /\ e.name = Metadata /\ e.body # Truncated THEN {n} ELSE {})
    BY <1>1, <1>2, <1>3, AppendedEntry
  <2> QED BY <2>1, <2>2, <2>3, <1>2 DEF IsWhole
<1>6. /\ n \notin 1..Len(archive)
      /\ \A d : EntriesOf(archive, d) \subseteq 1..Len(archive)
               /\ DataOf(archive, d) \subseteq 1..Len(archive)
               /\ CommittedBy(archive, d) \subseteq 1..Len(archive)
  BY <1>1, IndexesAreInRange
<1>7. /\ p.step \in {"collect", "close"}
      /\ p.source \in {"usage_service", "core_consumption"}
      /\ p.step = "collect" => Rank(p.source) > Rank(D)
  BY <1>1, AfterMetadataPlaces
<1>8. \A i \in 1..Len(archive') : IsWhole(archive'[i])
  <2>1. \A i \in 1..Len(archive) : IsWhole(archive[i])
    BY <1>1 DEF IInv, ControlInv
  <2> QED BY <2>1, <1>1, <1>2, <1>4, IndexesAreInRange
<1>9. TypeOK'
  BY <1>1, <1>3, <1>4, <1>7 DEF TypeOK, Sources
<1>10. ControlInv'
  BY <1>1, <1>3, <1>7, <1>8 DEF ControlInv
<1>11. FrontierInv'
  <2> SUFFICES ASSUME Collecting', NEW d \in DataSets
               PROVE  /\ Rank(d) >= Rank(DataSetOf(source')) => CommittedBy(archive', d) = {}
                      /\ Rank(d) > Rank(DataSetOf(source')) =>
                           EntriesOf(archive', d) = {} /\ digests'[d] = <<>>
                      /\ step' \in {"uuid", "collect"} /\ source' = d =>
                           EntriesOf(archive', d) = {} /\ digests'[d] = <<>>
    BY DEF FrontierInv
  <2>1. step' = "collect" /\ DataSetOf(source') = source' /\ Rank(source') > Rank(D)
    BY <1>3, <1>7 DEF Collecting, DataSetOf
  <2>2. Rank(d) \in Nat /\ Rank(D) \in Nat /\ Rank(source') \in Nat
    BY <1>1, <1>3, <1>7 DEF Rank, DataSets
  <2>3. Rank(d) > Rank(D) =>
          /\ d # D
          /\ CommittedBy(archive, d) = {} /\ EntriesOf(archive, d) = {} /\ digests[d] = <<>>
    BY <1>1, <2>2 DEF IInv, FrontierInv
  <2>4. Rank(d) > Rank(D) =>
          CommittedBy(archive', d) = {} /\ EntriesOf(archive', d) = {} /\ digests'[d] = <<>>
    BY <2>3, <1>3, <1>5
  <2> QED BY <2>1, <2>2, <2>4
<1>12. NamesInv'
  BY <1>3, <1>7 DEF NamesInv
<1>13. DigestInv'
  <2> SUFFICES ASSUME NEW d \in DataSets
               PROVE  /\ \A i \in DataOf(archive', d) : IsWhole(archive'[i]) =>
                           \E k \in 1..Len(digests'[d]) : digests'[d][k] = DigestOf(archive'[i])
                      /\ \A k \in 1..Len(digests'[d]) : \E i \in DataOf(archive', d) :
                           IsWhole(archive'[i]) /\ digests'[d][k] = DigestOf(archive'[i])
                      /\ \A i, j \in DataOf(archive', d) :
                           archive'[i].name = archive'[j].name => i = j
                      /\ \A k, l \in 1..Len(digests'[d]) :
                           digests'[d][k].name = digests'[d][l].name => k = l
    BY DEF DigestInv
  <2>1. DataOf(archive', d) = DataOf(archive, d) /\ digests'[d] = digests[d]
    BY <1>3, <1>5
  <2>2. \A i \in DataOf(archive, d) : archive'[i] = archive[i]
    BY <1>4, <1>6
  <2> QED BY <2>1, <2>2 DEF IInv, DigestInv
<1>14. CommitInv'
  <2> SUFFICES ASSUME NEW d \in DataSets, NEW m \in CommittedBy(archive', d)
               PROVE  /\ archive'[m].body = MetadataOf(d)'
                      /\ \A i \in EntriesOf(archive', d) : IsWhole(archive'[i])
    BY DEF CommitInv
  <2>1. MetadataOf(d)' = MetadataOf(d)
    BY <1>3 DEF MetadataOf
  <2>2. EntriesOf(archive', d) \subseteq 1..Len(archive')
    BY <1>1, <1>4, <1>5, <1>6, IndexesAreInRange
  <2>3. CASE m \in CommittedBy(archive, d)
    BY <2>1, <2>2, <2>3, <1>4, <1>6, <1>8 DEF IInv, CommitInv
  <2>4. CASE m = n /\ d = D
    BY <2>1, <2>2, <2>4, <1>2, <1>4, <1>8
  <2> QED BY <2>3, <2>4, <1>5
<1> QED BY <1>9, <1>10, <1>11, <1>12, <1>13, <1>14 DEF IInv

-----------------------------------------------------------------------------
(* The steps that leave the archive as it is and go on.                    *)
LEMMA NewUUIDKeepsIInv ==
  ASSUME IInv, NewUUID
  PROVE  IInv'
<1>1. /\ step = "uuid" /\ step' = "collect" /\ source = "opsmanager" /\ Collecting
      /\ collectionId' \in CollectionIds
      /\ UNCHANGED <<config, source, pending, foundationId, digests, archive, writer, outcome>>
  BY DEF IInv, ControlInv, NewUUID, Collecting
<1>2. TypeOK'
  BY <1>1 DEF IInv, TypeOK
<1>3. ControlInv'
  BY <1>1 DEF IInv, ControlInv, Collecting
<1>4. FrontierInv'
  BY <1>1 DEF IInv, FrontierInv, Collecting
<1>5. NamesInv'
  BY <1>1 DEF IInv, NamesInv
<1>6. DigestInv'
  BY <1>1 DEF IInv, DigestInv
<1>7. CommitInv'
  <2>1. \A d \in DataSets : CommittedBy(archive, d) = {}
    BY <1>1 DEF IInv, FrontierInv, Rank, DataSetOf, DataSets
  <2> QED BY <2>1, <1>1 DEF CommitInv
<1> QED BY <1>2, <1>3, <1>4, <1>5, <1>6, <1>7 DEF IInv

(* Collected: a collector answers, and its files become the pending ones.  *)
LEMMA CollectedKeepsIInv ==
  ASSUME IInv, NEW s \in Sources, NEW list \in ListsOf(s), Collected(s, list)
  PROVE  IInv'
<1> DEFINE p == AfterData(s)
<1>1. /\ TypeOK /\ step = "collect" /\ source = s /\ Collecting
      /\ pending' = list
      /\ UNCHANGED <<config, collectionId, digests, archive, writer>>
      /\ s # "opsmanager" => foundationId' = foundationId
      /\ collectionId \in CollectionIds /\ foundationId' \in Foundations
      /\ outcome' \in {outcome, "success"}
  BY DEF IInv, ControlInv, Collected, Collecting, GoTo
<1>2. \/ list # <<>> /\ step' = "add" /\ source' = s
      \/ list = <<>> /\ step' = p.step /\ source' = p.source
  BY <1>1 DEF Collected, GoTo
<1>3. /\ p.step \in {"collect", "metadata", "close"}
      /\ p.source \in Sources
      /\ p.step = "metadata" => p.source \in DataSets
      /\ p.step = "collect" => p.source # "opsmanager"
      /\ p.step = "collect" /\ p.source = "credhub" => s = "opsmanager"
      /\ p.step # "close" => Rank(DataSetOf(p.source)) >= Rank(DataSetOf(s))
      /\ p.step = "collect" /\ p.source \in DataSets => Rank(p.source) > Rank(DataSetOf(s))
  BY <1>1, AfterDataPlaces
<1>4. /\ list \in Seq(DataFiles)
      /\ \A i, j \in 1..Len(list) : list[i].name = list[j].name => i = j
  BY ListsAreListings
<1>5. TypeOK'
  BY <1>1, <1>2, <1>3, <1>4 DEF TypeOK
<1>6. ControlInv'
  BY <1>1, <1>2, <1>3 DEF IInv, ControlInv
<1>7. FrontierInv'
  <2> SUFFICES ASSUME Collecting', NEW d \in DataSets
               PROVE  /\ Rank(d) >= Rank(DataSetOf(source')) => CommittedBy(archive, d) = {}
                      /\ Rank(d) > Rank(DataSetOf(source')) =>
                           EntriesOf(archive, d) = {} /\ digests[d] = <<>>
                      /\ step' \in {"uuid", "collect"} /\ source' = d =>
                           EntriesOf(archive, d) = {} /\ digests[d] = <<>>
    BY <1>1 DEF FrontierInv
  <2>1. /\ Rank(d) >= Rank(DataSetOf(s)) => CommittedBy(archive, d) = {}
        /\ Rank(d) > Rank(DataSetOf(s)) => EntriesOf(archive, d) = {} /\ digests[d] = <<>>
    BY <1>1 DEF IInv, FrontierInv
  <2>2. /\ Rank(d) \in Nat /\ Rank(DataSetOf(s)) \in Nat
        /\ source' \in Sources => Rank(DataSetOf(source')) \in Nat
    BY DEF Rank, DataSets, DataSetOf, Sources
  <2>3. CASE list # <<>> /\ step' = "add" /\ source' = s
    BY <2>1, <2>3
  <2>4. CASE list = <<>> /\ step' = p.step /\ source' = p.source
    BY <2>1, <2>2, <2>4, <1>3 DEF Collecting
  <2> QED BY <2>3, <2>4, <1>2
<1>8. NamesInv'
  <2>1. s = "opsmanager" => DataOf(archive, "opsmanager") = {}
    BY <1>1 DEF IInv, FrontierInv, DataOf, DataSets
  <2>2. s = "opsmanager" => \A k \in 1..Len(list) : list[k].name \in OpsManagerNames
    BY OpsManagerListNames
  <2>3. \A i \in DataOf(archive, DataSetOf(s)), k \in 1..Len(list) :
          archive[i].name # list[k].name
    <3>1. CASE s = "credhub"
      <4>1. \A i \in DataOf(archive, "opsmanager") : archive[i].name \in OpsManagerNames
        BY <3>1, <1>1 DEF IInv, NamesInv
      <4>2. \A k \in 1..Len(list) : list[k].name \notin OpsManagerNames
        BY <3>1, CredhubListNames
      <4> QED BY <3>1, <4>1, <4>2 DEF DataSetOf
    <3>2. CASE s # "credhub"
      <4>1. s \in DataSets /\ DataSetOf(s) = s
        BY <3>2 DEF DataSetOf, DataSets, Sources
      <4>2. DataOf(archive, s) = {}
        BY <4>1, <1>1 DEF IInv, FrontierInv, DataOf
      <4> QED BY <4>1, <4>2
    <3> QED BY <3>1, <3>2
  <2>4. CASE list # <<>> /\ step' = "add" /\ source' = s
    BY <2>1, <2>2, <2>3, <2>4, <1>1, <1>4 DEF NamesInv
  <2>5. CASE list = <<>> /\ step' = p.step /\ source' = p.source
    BY <2>1, <2>5, <1>1, <1>3 DEF NamesInv
  <2> QED BY <2>4, <2>5, <1>2
<1>9. DigestInv'
  BY <1>1 DEF IInv, DigestInv
<1>10. CommitInv'
  <2>1. CASE s = "opsmanager"
    <3>1. \A d \in DataSets : CommittedBy(archive, d) = {}
      BY <2>1, <1>1 DEF IInv, FrontierInv, Rank, DataSetOf, DataSets
    <3> QED BY <3>1, <1>1 DEF CommitInv
  <2>2. CASE s # "opsmanager"
    BY <2>2, <1>1 DEF IInv, CommitInv, MetadataOf
  <2> QED BY <2>1, <2>2
<1> QED BY <1>5, <1>6, <1>7, <1>8, <1>9, <1>10 DEF IInv

(* AddFileFails: one lemma for data and metadata.                          *)
LEMMA FailedWriteKeepsIInv ==
  ASSUME IInv, Collecting,
         NEW e \in Entries, e.dataSet = DataSetOf(source),
         \A i \in DataOf(archive, e.dataSet) : archive[i].name # e.name,
         [e EXCEPT !.body = Truncated] \in Entries,
         AddFileFails(e), Unwind("failed"),
         UNCHANGED <<config, collectionId, foundationId, digests>>
  PROVE  IInv'
<1> DEFINE t == [e EXCEPT !.body = Truncated]
<1>1. t.dataSet = e.dataSet /\ t.name = e.name /\ t.body = Truncated
  BY DEF Entries
<1>2. /\ step' = "close" /\ outcome' = "failed" /\ pending' = <<>> /\ source' = source
      /\ writer' = "broken"
      /\ archive' = archive \/ archive' = Append(archive, t)
  BY DEF AddFileFails, Unwind
<1>3. CASE archive' = archive
  BY <1>2, <1>3, LeavingKeepsIInv
<1>4. CASE archive' = Append(archive, t)
  BY <1>1, <1>2, <1>4, TruncatedEntryKeepsIInv
<1> QED BY <1>2, <1>3, <1>4

-----------------------------------------------------------------------------
(* An executor NewCollector just made satisfies the inductive invariant.   *)
THEOREM InitEstablishesIInv == Init => IInv
<1> SUFFICES ASSUME Init PROVE IInv
  OBVIOUS
<1>1. /\ <<>> \in Seq(DataFiles) /\ <<>> \in Seq(Entries) /\ <<>> \in Seq(Digests)
      /\ Len(<<>>) = 0
  OBVIOUS
<1>2. \A d : EntriesOf(archive, d) = {} /\ DataOf(archive, d) = {} /\ CommittedBy(archive, d) = {}
  BY <1>1 DEF Init, EntriesOf, DataOf, CommittedBy
<1>3. TypeOK
  BY <1>1 DEF Init, TypeOK, Sources
<1>4. ControlInv
  BY <1>1 DEF Init, ControlInv
<1>5. FrontierInv
  BY <1>2 DEF Init, FrontierInv
<1>6. NamesInv
  BY <1>2 DEF Init, NamesInv
<1>7. DigestInv
  <2>1. \A d \in DataSets : Len(digests[d]) = 0
    BY <1>1 DEF Init
  <2> QED BY <2>1, <1>2 DEF DigestInv
<1>8. CommitInv
  BY <1>2 DEF CommitInv
<1> QED BY <1>3, <1>4, <1>5, <1>6, <1>7, <1>8 DEF IInv

(* Every step of Collect, failing or not, keeps the inductive invariant.   *)
THEOREM NextKeepsIInv == IInv /\ [Next]_vars => IInv'
<1> SUFFICES ASSUME IInv, [Next]_vars PROVE IInv'
  OBVIOUS
<1> USE DEF Collecting
<1>0. /\ TypeOK /\ source \in Sources
      /\ writer \in {"open", "broken", "sealed", "closed"}
      /\ outcome \in {"running", "success", "failed", "panicked", "killed"}
  BY DEF IInv, TypeOK
<1>1. CASE NewUUID
  BY <1>1, NewUUIDKeepsIInv
<1>2. CASE UUIDFails
  BY <1>2, <1>0, LeavingKeepsIInv DEF UUIDFails, Unwind
<1>3. ASSUME NEW s \in Sources, NEW list \in ListsOf(s), Collected(s, list)
      PROVE  IInv'
  BY <1>3, CollectedKeepsIInv
<1>4. ASSUME NEW s \in Sources, CollectFails(s)
      PROVE  IInv'
  BY <1>4, <1>0, LeavingKeepsIInv DEF CollectFails, Unwind
<1>5. ASSUME NEW s \in Sources, CollectPanics(s)
      PROVE  IInv'
  BY <1>5, <1>0, LeavingKeepsIInv DEF CollectPanics, Unwind
<1>6. CASE CoreCollectFails
  BY <1>6, <1>0, LeavingKeepsIInv DEF CoreCollectFails, GoTo, AtClose
<1>7. CASE AddData
  BY <1>7, AddDataKeepsIInv
<1>8. CASE ContentUnreadable
  BY <1>8, <1>0, LeavingKeepsIInv DEF ContentUnreadable, Unwind
<1>9. CASE AddDataFails
  <2> DEFINE file == Head(pending)
             e == DataEntry(DataSetOf(source), file)
  <2>1. step = "add" /\ pending # <<>> /\ pending \in Seq(DataFiles)
    BY <1>9 DEF AddDataFails, IInv, ControlInv, TypeOK
  <2>2. file = pending[1] /\ file \in DataFiles /\ 1 \in 1..Len(pending)
    BY <2>1
  <2>3. /\ e \in Entries /\ [e EXCEPT !.body = Truncated] \in Entries
        /\ e.dataSet = DataSetOf(source) /\ e.name = file.name
    BY <2>2, <1>0 DEF DataEntry, DataFiles, Entries, DataSetOf, Sources, DataSets
  <2>4. \A i \in DataOf(archive, e.dataSet) : archive[i].name # e.name
    BY <2>1, <2>2, <2>3 DEF IInv, NamesInv
  <2> QED BY <1>9, <2>1, <2>3, <2>4, FailedWriteKeepsIInv DEF AddDataFails
<1>10. CASE WriteMetadata
  BY <1>10, WriteMetadataKeepsIInv
<1>11. CASE WriteMetadataFails
  <2> DEFINE e == MetadataEntry(source)
  <2>1. /\ step = "metadata" /\ source \in DataSets /\ DataSetOf(source) = source
        /\ collectionId \in CollectionIds /\ foundationId \in Foundations
    BY <1>11 DEF WriteMetadataFails, IInv, ControlInv, DataSets, DataSetOf
  <2>2. MetadataOf(source) \in MetadataValues
    BY <2>1, <1>0 DEF TypeOK, MetadataOf, MetadataValues
  <2>3. /\ e \in Entries /\ [e EXCEPT !.body = Truncated] \in Entries
        /\ e.dataSet = DataSetOf(source) /\ e.name = Metadata
    BY <2>1, <2>2 DEF MetadataEntry, Entries
  <2>4. \A i \in DataOf(archive, e.dataSet) : archive[i].name # e.name
    BY <2>3 DEF DataOf
  <2> QED BY <1>11, <2>1, <2>3, <2>4, FailedWriteKeepsIInv DEF WriteMetadataFails
<1>12. CASE CloseWriter
  BY <1>12, <1>0, LeavingKeepsIInv DEF CloseWriter
<1>13. CASE ProcessDies
  BY <1>13, <1>0, LeavingKeepsIInv DEF ProcessDies
<1>14. CASE UNCHANGED vars
  BY <1>14 DEF vars, IInv, TypeOK, ControlInv, FrontierInv, NamesInv, DigestInv, CommitInv,
               MetadataOf
<1> QED
  BY <1>1, <1>2, <1>3, <1>4, <1>5, <1>6, <1>7, <1>8, <1>9, <1>10, <1>11, <1>12, <1>13, <1>14
  DEF Next

(* Every value a run of Collect can see is of its type.                    *)
THEOREM TypeCorrect == Spec => []TypeOK
<1>1. IInv => TypeOK
  BY DEF IInv
<1> QED BY <1>1, InitEstablishesIInv, NextKeepsIInv, PTL DEF Spec

(* By IInv a validator refuses nothing but a name, of all data sets that   *)
(* have their metadata.                                                    *)
LEMMA IInvValidates ==
  ASSUME IInv, NEW d \in DataSets, NEW m \in CommittedBy(archive, d)
  PROVE  Validates(d, m) <=> HasPlainNames(d)
<1> DEFINE listed == archive[m].body.fileDigests
           names == {archive[i].name : i \in DataOf(archive, d)}
           last(x) == CHOOSE i \in DataOf(archive, d) :
                        /\ archive[i].name = x
                        /\ \A j \in DataOf(archive, d) : archive[j].name = x => j <= i
           fileMd5s == [x \in names |-> MD5(archive[last(x)].body)]
<1>1. listed = digests[d] /\ digests[d] \in Seq(Digests)
  <2>1. archive[m].body = MetadataOf(d)
    BY DEF IInv, CommitInv
  <2>2. digests[d] \in Seq(Digests)
    BY DEF IInv, TypeOK
  <2> QED BY <2>1, <2>2 DEF MetadataOf
<1>2. DOMAIN listed = 1..Len(digests[d]) /\ Len(digests[d]) \in Nat
  BY <1>1
<1>3. \A i \in DataOf(archive, d) : IsWhole(archive[i]) /\ i \in Nat
  <2>1. \A i \in EntriesOf(archive, d) : IsWhole(archive[i])
    BY DEF IInv, CommitInv
  <2> QED BY <2>1, IndexesAreInRange DEF IInv
<1>4. \A i \in DataOf(archive, d) : last(archive[i].name) = i
  <2> TAKE i \in DataOf(archive, d)
  <2>1. \A j \in DataOf(archive, d) : archive[j].name = archive[i].name => j = i
    BY DEF IInv, DigestInv
  <2> QED BY <2>1, <1>3
<1>5. \A k \in DOMAIN listed :
        /\ listed[k].name \in names
        /\ fileMd5s[listed[k].name] = listed[k].sum
  <2> TAKE k \in DOMAIN listed
  <2>1. PICK i \in DataOf(archive, d) : digests[d][k] = DigestOf(archive[i])
    BY <1>2 DEF IInv, DigestInv
  <2>2. listed[k].name = archive[i].name /\ listed[k].sum = MD5(archive[i].body)
    BY <2>1, <1>1 DEF DigestOf
  <2>3. last(listed[k].name) = i
    BY <2>2, <1>4
  <2> HIDE DEF last
  <2> QED BY <2>2, <2>3
<1>6. \A k \in DOMAIN listed : \A l \in 1..k-1 : listed[l].name # listed[k].name
  <2> TAKE k \in DOMAIN listed
  <2> TAKE l \in 1..k-1
  <2>1. k \in 1..Len(digests[d]) /\ l \in 1..Len(digests[d]) /\ l # k
    BY <1>2
  <2>2. digests[d][l].name = digests[d][k].name => l = k
    BY <2>1 DEF IInv, DigestInv
  <2> QED BY <2>1, <2>2, <1>1
<1>7. names = {listed[k].name : k \in DOMAIN listed}
  <2>1. ASSUME NEW i \in DataOf(archive, d)
        PROVE  \E k \in DOMAIN listed : listed[k].name = archive[i].name
    <3>1. PICK k \in 1..Len(digests[d]) : digests[d][k] = DigestOf(archive[i])
      BY <1>3 DEF IInv, DigestInv
    <3> QED BY <3>1, <1>1, <1>2 DEF DigestOf
  <2>2. ASSUME NEW k \in DOMAIN listed
        PROVE  \E i \in DataOf(archive, d) : listed[k].name = archive[i].name
    BY <1>5
  <2> HIDE DEF listed, last, fileMd5s
  <2> QED BY <2>1, <2>2
<1>8. HasPlainNames(d) <=> \A k \in DOMAIN listed :
                              listed[k].name \notin RefusedNames
  <2>1. HasPlainNames(d) <=> \A x \in names : x \notin RefusedNames
    BY DEF HasPlainNames
  <2> HIDE DEF listed, names
  <2> QED BY <2>1, <1>7
<1> DEFINE Accepted ==
      /\ \A k \in DOMAIN listed : /\ listed[k].name \in names \ RefusedNames
                                 /\ fileMd5s[listed[k].name] = listed[k].sum
                                 /\ \A l \in 1..k-1 : listed[l].name # listed[k].name
      /\ names = {listed[k].name : k \in DOMAIN listed}
<1>9. Validates(d, m) <=> Accepted
  BY DEF Validates
<1> HIDE DEF last, listed, names, fileMd5s
<1> QED BY <1>5, <1>6, <1>7, <1>8, <1>9

(* A validator accepts every data set that has its metadata, at every      *)
(* instant of every collection, unless a name in it is one it refuses.     *)
THEOREM MetadataCommits == Spec => []MetadataDescribesDataSet
<1>1. IInv => MetadataDescribesDataSet
  BY IInvValidates DEF MetadataDescribesDataSet
<1> QED BY <1>1, InitEstablishesIInv, NextKeepsIInv, PTL DEF Spec
=============================================================================
