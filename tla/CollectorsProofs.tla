-------------------------- MODULE CollectorsProofs --------------------------
(***************************************************************************)
(* Proofs about the parts MCCollectors puts together, for any names,       *)
(* contents and bounds: CredhubService, CoreCounts, OpsManagerService and  *)
(* Config. Each has an inductive invariant of its own; a behaviour of      *)
(* SpecAll is one of a single part, and PartsInv says that this part keeps *)
(* its invariant.                                                          *)
(***************************************************************************)
EXTENDS MCCollectors, FiniteSetTheorems, SequenceTheorems, TLAPS

(* The numbers among the bounds.                                           *)
LEMMA BoundsAreNaturals ==
  /\ MaxChanges \in Nat /\ MaxRows \in Nat
  /\ MaxWidth \in Nat /\ MaxParts \in Nat
BY PartsAssumption

(***************************************************************************)
(* CredhubService: what was read was current when it was.                  *)
(***************************************************************************)
Info == [name : Names, cert : Certs]

(* The loop has read the certificates before its position.                 *)
CertificatesInv ==
  /\ at \in {"list", "read", "collected", "failed", "panicked"}
  /\ listed \in Seq(Names)
  /\ infos \in Seq(Info)
  /\ position \in Nat \ {0} /\ Len(infos) = position - 1
  /\ at = "list" => position = 1
  /\ position <= Len(listed) + 1
  /\ at = "collected" =>
       output = Credhub!DataOf(infos) /\ position = Len(listed) + 1
  /\ at # "collected" => output = Absent
  /\ changes \in 0..MaxChanges

(* What a certificate is now is among what it was since the list.          *)
HistoryInv ==
  /\ credhub \in [Names -> {Absent} \cup Seq(Credhub!AnyVersion)]
  /\ current \in [Names -> SUBSET Credhub!AnyVersion]
  /\ at = "read" =>
       \A name \in Names :
         Credhub!Newest(credhub[name]) \subseteq current[name]

(* What was read was current when it was.                                  *)
ReadInv ==
  \A i \in 1..Len(infos) :
    infos[i].name = listed[i] /\ infos[i].cert \in current[listed[i]]

CredhubInv == CertificatesInv /\ HistoryInv /\ ReadInv

-----------------------------------------------------------------------------
(* A version that is the newest of some is a version.                      *)
LEMMA NewestAreVersions ==
  ASSUME NEW versions \in {Absent} \cup Seq(Credhub!AnyVersion)
  PROVE  Credhub!Newest(versions) \subseteq Credhub!AnyVersion
<1>1. CASE versions \in {Absent, <<>>}
  BY <1>1 DEF Credhub!Newest
<1>2. CASE versions \notin {Absent, <<>>}
  <2>1. versions \in Seq(Credhub!AnyVersion) /\ versions # <<>>
    BY <1>2
  <2>2. Head(versions) \in Credhub!AnyVersion
    BY <2>1
  <2> QED
    BY <1>2, <2>2 DEF Credhub!Newest
<1> QED
  BY <1>1, <1>2

(* A certificate of one version.                                           *)
LEMMA OneVersion ==
  ASSUME NEW v \in Credhub!AnyVersion
  PROVE  <<v>> \in Seq(Credhub!AnyVersion)
OBVIOUS

(* A listing is a sequence of names.                                       *)
LEMMA ListingsAreSequences ==
  ASSUME NEW list \in Credhub!Listings
  PROVE  list \in Seq(Names)
<1>1. IsFiniteSet(Credhub!Existing)
  BY FS_Subset, PartsAssumption DEF Credhub!Existing
<1>2. Cardinality(Credhub!Existing) \in Nat
  BY <1>1, FS_CardinalityType
<1>3. Credhub!Cardinality(Credhub!Existing) = Cardinality(Credhub!Existing)
  BY DEF Cardinality, Credhub!Cardinality
<1>4. list \in [1..Cardinality(Credhub!Existing) -> Names]
  BY <1>3 DEF Credhub!Listings, Credhub!Existing
<1> QED
  BY <1>2, <1>4

(* Nothing was listed and nothing read.                                    *)
LEMMA InitEstablishesCredhubInv == Credhub!Init => CredhubInv
<1> SUFFICES ASSUME Credhub!Init PROVE CredhubInv
  OBVIOUS
<1>1. Len(listed) = 0 /\ listed \in Seq(Names)
  BY EmptySeq DEF Credhub!Init
<1>2. Len(infos) = 0 /\ infos \in Seq(Info)
  BY EmptySeq DEF Credhub!Init
<1>3. CertificatesInv /\ ReadInv
  BY <1>1, <1>2, BoundsAreNaturals DEF Credhub!Init, CertificatesInv, ReadInv
<1>4. ASSUME NEW name \in Names
      PROVE  credhub[name] \in {Absent} \cup Seq(Credhub!AnyVersion)
  <2>1. CASE credhub[name] \in {Absent, <<>>}
    BY <2>1, EmptySeq
  <2>2. CASE \E v \in Credhub!AnyVersion : credhub[name] = <<v>>
    BY <2>2, OneVersion
  <2> QED
    BY <2>1, <2>2 DEF Credhub!Init
<1>5. credhub = [name \in Names |-> credhub[name]]
  BY DEF Credhub!Init
<1>6. HistoryInv
  BY <1>4, <1>5 DEF Credhub!Init, HistoryInv
<1> QED
  BY <1>3, <1>6 DEF CredhubInv

(* The history begins with what CredHub has when it lists.                 *)
LEMMA ListKeepsCredhubInv ==
  CredhubInv /\ Credhub!ListCertificates => CredhubInv'
<1> SUFFICES ASSUME CredhubInv, Credhub!ListCertificates PROVE CredhubInv'
  OBVIOUS
<1> USE DEF CredhubInv
<1>1. CASE Credhub!Fail
  BY <1>1
  DEF Credhub!ListCertificates, Credhub!Fail, CertificatesInv, HistoryInv,
      ReadInv, Credhub!Now
<1>2. CASE ~Credhub!Fail
  <2>1. /\ at = "list" /\ listed' \in Credhub!Listings /\ at' = "read"
        /\ current' = [name \in Names |-> Credhub!Newest(credhub[name])]
        /\ UNCHANGED <<position, infos, output, credhub, changes>>
    BY <1>2 DEF Credhub!ListCertificates, Credhub!Now
  <2>2. listed' \in Seq(Names) /\ Len(listed') \in Nat
    BY <2>1, ListingsAreSequences
  <2>3. CertificatesInv' /\ ReadInv'
    BY <2>1, <2>2 DEF CertificatesInv, ReadInv
  <2>4. \A name \in Names :
          Credhub!Newest(credhub[name]) \subseteq Credhub!AnyVersion
    BY NewestAreVersions DEF HistoryInv
  <2>5. HistoryInv'
    BY <2>1, <2>4 DEF HistoryInv
  <2> QED
    BY <2>3, <2>5
<1> QED
  BY <1>1, <1>2

(* What is read is the newest version, and so in the history.              *)
LEMMA ReadKeepsCredhubInv ==
  CredhubInv /\ Credhub!ReadCertificate => CredhubInv'
<1> SUFFICES ASSUME CredhubInv, Credhub!ReadCertificate PROVE CredhubInv'
  OBVIOUS
<1> USE DEF CredhubInv
<1> DEFINE name == listed[position]
           cert == credhub[name][1]
<1>1. /\ at = "read" /\ position <= Len(listed)
      /\ credhub[name] \notin {Absent, <<>>}
      /\ infos' = Append(infos, [name |-> name, cert |-> cert])
      /\ position' = position + 1
      /\ UNCHANGED <<at, listed, output, credhub, current, changes>>
  BY DEF Credhub!ReadCertificate, Credhub!CertificateOf
<1>2. name \in Names
  BY <1>1 DEF CertificatesInv
<1>3. Credhub!Newest(credhub[name]) = {cert}
  BY <1>1 DEF Credhub!Newest
<1>4. cert \in current[name] /\ cert \in Certs
  BY <1>1, <1>2, <1>3, NewestAreVersions
  DEF HistoryInv, Credhub!AnyVersion, Credhub!ReadCertificate,
      Credhub!CertificateOf
<1>5. [name |-> name, cert |-> cert] \in Info
  BY <1>2, <1>4 DEF Info
<1>6. /\ infos' \in Seq(Info) /\ Len(infos') = position
      /\ \A i \in 1..position - 1 : infos'[i] = infos[i]
      /\ infos'[position] = [name |-> name, cert |-> cert]
  BY <1>1, <1>5 DEF CertificatesInv
<1>7. CertificatesInv'
  BY <1>1, <1>6 DEF CertificatesInv
<1>8. HistoryInv'
  BY <1>1 DEF HistoryInv
<1>9. ReadInv'
  BY <1>1, <1>4, <1>6 DEF CertificatesInv, ReadInv
<1> QED
  BY <1>7, <1>8, <1>9

(* A change goes into the history once the list was made.                  *)
LEMMA ChangeKeepsCredhubInv ==
  ASSUME NEW name \in Names,
         NEW versions \in {Absent} \cup Seq(Credhub!AnyVersion),
         CredhubInv, Credhub!Change(name, versions)
  PROVE  CredhubInv'
<1> USE DEF CredhubInv
<1>1. Credhub!Newest(versions) \subseteq Credhub!AnyVersion
  BY NewestAreVersions
<1>2. \A n \in Names : current[n] \subseteq current'[n]
  BY DEF Credhub!Change, HistoryInv
<1>3. CertificatesInv'
  BY BoundsAreNaturals DEF Credhub!Change, CertificatesInv
<1>4. /\ credhub' \in [Names -> {Absent} \cup Seq(Credhub!AnyVersion)]
      /\ current' \in [Names -> SUBSET Credhub!AnyVersion]
  BY <1>1 DEF Credhub!Change, HistoryInv
<1>5. ASSUME at' = "read", NEW n \in Names
      PROVE  Credhub!Newest(credhub'[n]) \subseteq current'[n]
  BY <1>5 DEF Credhub!Change, HistoryInv
<1>6. ReadInv'
  <2> SUFFICES ASSUME NEW i \in 1..Len(infos)
               PROVE  /\ infos[i].name = listed[i]
                      /\ infos[i].cert \in current'[listed[i]]
    BY DEF Credhub!Change, ReadInv
  <2>1. listed[i] \in Names
    BY DEF CertificatesInv
  <2> QED
    BY <1>2, <2>1 DEF ReadInv
<1> QED
  BY <1>3, <1>4, <1>5, <1>6 DEF HistoryInv

(* CredhubInv is inductive.                                                *)
LEMMA CredhubNextKeepsInv == CredhubInv /\ Credhub!Next => CredhubInv'
<1> SUFFICES ASSUME CredhubInv, Credhub!Next PROVE CredhubInv'
  OBVIOUS
<1>1. CASE Credhub!ReadWithoutVersions \/ Credhub!ReadFails
  BY <1>1
  DEF Credhub!ReadWithoutVersions, Credhub!ReadFails, Credhub!Fail,
      CredhubInv, CertificatesInv, HistoryInv, ReadInv
<1>2. CASE Credhub!Marshal
  BY <1>2
  DEF Credhub!Marshal, CredhubInv, CertificatesInv, HistoryInv, ReadInv
<1>3. ASSUME NEW name \in Names,
             \/ Credhub!Rotate(name) \/ Credhub!Delete(name)
             \/ Credhub!Create(name)
      PROVE  CredhubInv'
  <2>1. CASE Credhub!Rotate(name)
    <3>1. credhub[name] \in Seq(Credhub!AnyVersion)
      BY <2>1 DEF Credhub!Rotate, CredhubInv, HistoryInv
    <3>2. PICK v \in Credhub!AnyVersion :
            Credhub!Change(name, <<v>> \o credhub[name])
      BY <2>1 DEF Credhub!Rotate
    <3>3. <<v>> \o credhub[name] \in Seq(Credhub!AnyVersion)
      BY <3>1
    <3> QED
      BY <3>2, <3>3, ChangeKeepsCredhubInv
  <2>2. CASE Credhub!Delete(name)
    BY <2>2, ChangeKeepsCredhubInv DEF Credhub!Delete
  <2>3. CASE Credhub!Create(name)
    <3>1. PICK v \in Credhub!AnyVersion : Credhub!Change(name, <<v>>)
      BY <2>3 DEF Credhub!Create
    <3> QED
      BY <3>1, OneVersion, ChangeKeepsCredhubInv
  <2> QED
    BY <1>3, <2>1, <2>2, <2>3
<1> QED
  BY <1>1, <1>2, <1>3, ListKeepsCredhubInv, ReadKeepsCredhubInv
  DEF Credhub!Next

(* What CredhubInv is for.                                                 *)
LEMMA CredhubInvImplies ==
  ASSUME CredhubInv PROVE Credhub!TypeOK /\ Credhub!CollectedIsCurrent
<1> USE DEF CredhubInv
<1>1. /\ infos \in Seq(Info) /\ Len(infos) = position - 1
      /\ listed \in Seq(Names)
  BY DEF CertificatesInv
<1>2. Credhub!DataOf(infos) # Absent
  <2>1. Credhub!DataOf(infos) \in [type : {"director"},
                                  dataType : {"certificates"},
                                  content : Seq(Info)]
    BY <1>1 DEF Credhub!DataOf
  <2> QED
    BY <2>1, PartsAssumption DEF Info
<1>3. Credhub!TypeOK
  <2>1. \A i \in 1..Len(listed) : listed[i] \in Names
    BY <1>1
  <2>2. \A i \in 1..Len(infos) : infos[i].cert \in Certs
    <3>1. \A i \in 1..Len(infos) : infos[i] \in Info
      BY <1>1, ElementOfSeq
    <3> QED
      BY <3>1 DEF Info
  <2>3. position \in 1..Len(listed) + 1
    BY DEF CertificatesInv
  <2>4. output # Absent <=> at = "collected"
    BY <1>2 DEF CertificatesInv
  <2> QED
    BY <1>1, <2>1, <2>2, <2>3, <2>4 DEF Credhub!TypeOK, CertificatesInv
<1>4. Credhub!CollectedIsCurrent
  BY <1>1
  DEF CertificatesInv, ReadInv, Credhub!CollectedIsCurrent, Credhub!DataOf
<1> QED
  BY <1>3, <1>4

(***************************************************************************)
(* CoreCounts: the counts are those of the first rows, which were good.    *)
(***************************************************************************)
CountsInv ==
  /\ at \in {"request", "converting", "collected", "failed", "panicked"}
  /\ records \in Seq(Csv!Row) /\ Len(records) \in 0..MaxRows
  /\ Len(counts) \in 0..Len(records)
  /\ counts = [i \in 1..Len(counts) |-> Csv!CoreCountOf(records[i])]
  /\ \A i \in 1..Len(counts) : Csv!Good(records[i])
  /\ at = "request" => records = <<>> /\ counts = <<>>
  /\ at # "collected" => json = NoJson

(* What decided how the conversion ended.                                  *)
EndInv ==
  /\ at = "collected" =>
       /\ Len(counts) = Len(records) /\ json = Csv!DataOf(counts)
       /\ \A i \in 1..Len(counts) : counts[i].TimeReported \notin Far
  /\ at = "panicked" =>
       /\ Len(counts) < Len(records)
       /\ Csv!Short(Csv!Record) /\ ~Csv!Good(Csv!Record)
  /\ at = "failed" =>
       \/ records = <<>>
       \/ /\ Len(counts) < Len(records)
          /\ ~Csv!Short(Csv!Record) /\ ~Csv!Good(Csv!Record)
       \/ /\ Len(counts) = Len(records)
          /\ \E i \in 1..Len(counts) : counts[i].TimeReported \in Far

CsvInv == CountsInv /\ EndInv

-----------------------------------------------------------------------------
(* A row is a sequence that is not empty.                                 *)
LEMMA RowsAreSequences ==
  ASSUME NEW row \in Csv!Row
  PROVE  Len(row) \in Nat \ {0} /\ row \in Seq(Csv!Field)
BY BoundsAreNaturals DEF Csv!Row

(* Nothing is read yet.                                                    *)
LEMMA InitEstablishesCsvInv == Csv!Init => CsvInv
<1> SUFFICES ASSUME Csv!Init PROVE CsvInv
  OBVIOUS
<1>1. <<>> \in Seq(Csv!Row) /\ Len(<<>>) = 0
  BY EmptySeq
<1> QED
  BY <1>1, BoundsAreNaturals DEF Csv!Init, CsvInv, CountsInv, EndInv

(* The rows come, none of them converted.                                  *)
LEMMA ReadAllKeepsCsvInv == CsvInv /\ Csv!ReadAll => CsvInv'
<1> SUFFICES ASSUME CsvInv, Csv!ReadAll PROVE CsvInv'
  OBVIOUS
<1> USE DEF CsvInv
<1>1. PICK n \in 0..MaxRows : records' \in [1..n -> Csv!Row]
  BY DEF Csv!ReadAll
<1>2. records' \in Seq(Csv!Row) /\ Len(records') = n
  BY <1>1, BoundsAreNaturals
<1>3. at' = "converting" /\ counts' = counts /\ json' = json
      /\ at = "request" 
  BY DEF Csv!ReadAll
<1>3a. counts = <<>> /\ json = NoJson /\ Len(counts) = 0
  BY <1>3 DEF CountsInv
<1>4. CountsInv'
  BY <1>2, <1>3, <1>3a DEF CountsInv
<1> QED
  BY <1>3, <1>4 DEF EndInv

(* The next row was good.                                                  *)
LEMMA ConvertKeepsCsvInv == CsvInv /\ Csv!Convert => CsvInv'
<1> SUFFICES ASSUME CsvInv, Csv!Convert PROVE CsvInv'
  OBVIOUS
<1> USE DEF CsvInv
<1> DEFINE n == Len(counts) + 1
<1>1. /\ at = "converting" /\ at' = at /\ records' = records /\ json' = json
      /\ Len(counts) < Len(records) /\ n \in 1..Len(records)
      /\ counts' = Append(counts, Csv!CoreCountOf(records[n]))
  BY DEF Csv!Convert, Csv!Converting, Csv!Record, CountsInv
<1>2. Csv!Good(records[n])
  BY <1>1
  DEF Csv!Convert, Csv!Record, Csv!Good, Csv!Collected, Csv!One, Csv!Two
<1>3. counts \in Seq({Csv!CoreCountOf(records[i]) : i \in 1..Len(records)})
  BY DEF CountsInv
<1>4. /\ Len(counts') = n
      /\ counts' = [i \in 1..n |-> Csv!CoreCountOf(records[i])]
  BY <1>1, <1>3 DEF CountsInv
<1>5. CountsInv'
  BY <1>1, <1>2, <1>4 DEF CountsInv
<1> QED
  BY <1>1, <1>5 DEF EndInv

(* The process ends, or the collection fails, at the first bad row.        *)
LEMMA BadRowKeepsCsvInv ==
  CsvInv /\ (Csv!IndexOutOfRange \/ Csv!NotAnInt) => CsvInv'
<1> SUFFICES ASSUME CsvInv, Csv!IndexOutOfRange \/ Csv!NotAnInt PROVE CsvInv'
  OBVIOUS
<1> USE DEF CsvInv
<1> DEFINE row == records[Len(counts) + 1]
<1>1. /\ at = "converting" /\ Len(counts) < Len(records)
      /\ UNCHANGED <<records, counts, json>>
  BY DEF Csv!IndexOutOfRange, Csv!NotAnInt, Csv!Converting, Csv!Fail
<1>2. row \in Csv!Row /\ Len(row) \in Nat \ {0}
  BY <1>1, RowsAreSequences DEF CountsInv
<1>3. CASE Csv!IndexOutOfRange
  <2>1. at' = "panicked"
    BY <1>3 DEF Csv!IndexOutOfRange
  <2>2. PICK n \in {2, 3, 4} :
          /\ Len(row) = n - 1
          /\ \A i \in {1, 3} : i < n => Csv!IsInt(row[i])
    BY <1>3
    DEF Csv!IndexOutOfRange, Csv!Record, Csv!Reaches, Csv!Collected,
        Csv!Product, Csv!One, Csv!Two
  <2>3. Csv!Short(row) /\ ~Csv!Good(row)
    BY <2>2 DEF Csv!Short, Csv!Good
  <2> QED
    BY <1>1, <2>1, <2>3 DEF CountsInv, EndInv, Csv!Record
<1>4. CASE Csv!NotAnInt
  <2>1. at' = "failed"
    BY <1>4 DEF Csv!NotAnInt, Csv!Fail
  <2>2. PICK n \in {1, 3, 4} : n <= Len(row) /\ ~Csv!IsInt(row[n])
    BY <1>4 DEF Csv!NotAnInt, Csv!Record, Csv!Collected, Csv!One, Csv!Two
  <2>3. ~Csv!Short(row) /\ ~Csv!Good(row)
    BY <1>2, <2>2 DEF Csv!Short, Csv!Good
  <2> QED
    BY <1>1, <2>1, <2>3 DEF CountsInv, EndInv, Csv!Record
<1> QED
  BY <1>3, <1>4

(* All rows were good, and their times can be written or not.              *)
LEMMA ConvertToJsonKeepsCsvInv == CsvInv /\ Csv!ConvertToJson => CsvInv'
BY DEF CsvInv, CountsInv, EndInv, Csv!ConvertToJson, Csv!Fail

(* CsvInv is inductive.                                                    *)
LEMMA CsvNextKeepsInv == CsvInv /\ Csv!Next => CsvInv'
<1>1. CsvInv /\ Csv!RequestFails => CsvInv'
  BY DEF CsvInv, CountsInv, EndInv, Csv!RequestFails, Csv!Fail
<1> QED
  BY <1>1, ReadAllKeepsCsvInv, ConvertKeepsCsvInv, BadRowKeepsCsvInv,
     ConvertToJsonKeepsCsvInv
  DEF Csv!Next

(* What CsvInv is for.                                                     *)
LEMMA CsvInvImplies ==
  ASSUME CsvInv PROVE Csv!TypeOK /\ Csv!MatchesReference
<1> USE DEF CsvInv
<1>1. ASSUME NEW i \in 1..Len(counts)
      PROVE  /\ counts[i] = Csv!CoreCountOf(records[i])
             /\ Csv!Good(records[i]) /\ records[i] \in Csv!Row
             /\ counts[i] \in Csv!CoreCount
             /\ counts[i].TimeReported = records[i][1]
             /\ records[i][1] \in Small \cup Far
  <2>1. /\ counts[i] = Csv!CoreCountOf(records[i])
        /\ Csv!Good(records[i]) /\ records[i] \in Csv!Row
    BY DEF CountsInv
  <2>2. \A n \in 1..4 : records[i][n] \in Csv!Field
    BY <2>1, RowsAreSequences DEF Csv!Good
  <2>3. \A n \in {1, 3, 4} : records[i][n] \in Small \cup Far
    BY <2>1 DEF Csv!Good, Csv!IsInt
  <2> QED
    BY <2>1, <2>2, <2>3
    DEF Csv!CoreCountOf, Csv!CoreCount, Csv!Collected, Csv!Product, Csv!One,
        Csv!Two
<1>2. Csv!DataOf(counts) # NoJson
  <2>1. counts \in Seq(Csv!CoreCount)
    BY <1>1 DEF CountsInv
  <2>2. Csv!DataOf(counts) \in [type : {""}, dataType : {"core_counts"},
                               content : Seq(Csv!CoreCount)]
    BY <2>1 DEF Csv!DataOf
  <2> QED
    BY <2>2, PartsAssumption
<1>3. Csv!TypeOK
  BY <1>2 DEF Csv!TypeOK, CountsInv, EndInv
<1>4. ASSUME at = "collected"
      PROVE  /\ Csv!FirstBad = {}
             /\ json.content = [i \in 1..Len(records) |->
                                  [TimeReported |-> records[i][1],
                                   ProductIdentifier |-> records[i][2],
                                   PhysicalCoreCount |-> records[i][3],
                                   VirtualCoreCount |-> records[i][4]]]
             /\ \A i \in 1..Len(records) : records[i][1] \in Small
  <2>1. Len(counts) = Len(records) /\ json = Csv!DataOf(counts)
    BY <1>4 DEF EndInv
  <2>2. Csv!FirstBad = {}
    BY <1>1, <2>1 DEF Csv!FirstBad
  <2>3. counts = [i \in 1..Len(records) |-> Csv!CoreCountOf(records[i])]
    BY <2>1 DEF CountsInv
  <2>4. \A i \in 1..Len(records) : records[i][1] \in Small
    BY <1>1, <1>4, <2>1 DEF EndInv
  <2> QED
    BY <2>1, <2>2, <2>3, <2>4
    DEF Csv!DataOf, Csv!CoreCountOf, Csv!Collected, Csv!Product, Csv!One,
        Csv!Two
<1>5. ASSUME NEW i \in Csv!FirstBad, Len(counts) < Len(records),
             ~Csv!Good(Csv!Record)
      PROVE  records[i] = Csv!Record
  BY <1>1, <1>5 DEF Csv!FirstBad, Csv!Record, CountsInv
<1>6. at = "panicked" => \A i \in Csv!FirstBad : Csv!Short(records[i])
  BY <1>5 DEF EndInv
<1>7. ASSUME at = "failed"
      PROVE  /\ \A i \in Csv!FirstBad : ~Csv!Short(records[i])
             /\ records # <<>> /\ Csv!FirstBad = {} =>
                  \E i \in 1..Len(records) : records[i][1] \in Far
  <2>1. CASE records = <<>>
    BY <2>1 DEF Csv!FirstBad
  <2>2. CASE Len(counts) < Len(records) /\ ~Csv!Short(Csv!Record)
             /\ ~Csv!Good(Csv!Record)
    <3>1. Len(counts) + 1 \in Csv!FirstBad
      BY <1>1, <2>2 DEF Csv!FirstBad, Csv!Record, CountsInv
    <3> QED
      BY <1>5, <2>2, <3>1
  <2>3. CASE Len(counts) = Len(records)
             /\ \E i \in 1..Len(counts) : counts[i].TimeReported \in Far
    BY <1>1, <2>3 DEF Csv!FirstBad
  <2> QED
    BY <1>7, <2>1, <2>2, <2>3 DEF EndInv
<1>8. Csv!MatchesReference
  BY <1>4, <1>6, <1>7 DEF Csv!MatchesReference
<1> QED
  BY <1>3, <1>8

(***************************************************************************)
(* OpsManagerService: a credential parsed so far is the last one given     *)
(* before the part that comes next.                                        *)
(***************************************************************************)
(* The parts before the n-th that give the key a value.                    *)
GivenBefore(key, n) ==
  {i \in 1..n - 1 : Len(answer[i]) >= 2 /\ answer[i][1] = key}

ParsedInv ==
  /\ answer \in Seq(Service!Parts)
  /\ part \in 1..Len(answer) + 1
  /\ at = "done" => part = Len(answer) + 1
  /\ returned \in [Service!Keys -> Values \cup {"none"}]
  /\ \A key \in Service!Keys :
       \/ GivenBefore(key, part) = {} /\ returned[key] = "none"
       \/ \E i \in GivenBefore(key, part) :
            /\ \A j \in GivenBefore(key, part) : j <= i
            /\ returned[key] = answer[i][2]

ServiceInv ==
  /\ at \in {"request", "parsing", "done", "failed"}
  /\ op \in Service!Operations
  /\ at \in {"request", "failed"} =>
       answer = <<>> /\ part = 1 /\ returned = <<>>
  /\ at = "parsing" => op = "BoshCredentials"
  /\ at = "done" /\ op # "BoshCredentials" =>
       answer \in Service!Bodies(op) /\ returned = Service!Redact(op, answer)
  /\ at \in {"parsing", "done"} /\ op = "BoshCredentials" => ParsedInv

-----------------------------------------------------------------------------
(* What a part of the credentials may be.                                  *)
LEMMA PartsAreShort ==
  ASSUME NEW p \in Service!Parts
  PROVE  /\ Len(p) \in 1..3
         /\ Len(p) >= 2 => p[2] \in Values
         /\ Len(p) = 2 => p = <<p[1], p[2]>>
BY DEF Service!Parts

(* The answer comes, and no part of it was looked at.                      *)
LEMMA RespondKeepsServiceInv ==
  ServiceInv /\ Service!Respond => ServiceInv'
<1> SUFFICES ASSUME ServiceInv, Service!Respond PROVE ServiceInv'
  OBVIOUS
<1>1. /\ at = "request" /\ answer' \in Service!Bodies(op)
      /\ op' = op /\ part' = part /\ part = 1 /\ op \in Service!Operations
  BY DEF Service!Respond, ServiceInv
<1>2. CASE op = "BoshCredentials"
  <2>1. at' = "parsing" /\ returned' = Service!NoCredential
    BY <1>2 DEF Service!Respond
  <2>2. answer' \in UNION {[1..n -> Service!Parts] : n \in 0..MaxParts}
    BY <1>1, <1>2 DEF Service!Bodies, Service!StructKey, Service!ListsOf
  <2>3. answer' \in Seq(Service!Parts) /\ Len(answer') \in Nat
    BY <2>2, BoundsAreNaturals
  <2>4. \A key \in Service!Keys : GivenBefore(key, part)' = {}
    BY <1>1 DEF GivenBefore
  <2>5. ParsedInv'
    BY <1>1, <2>1, <2>3, <2>4 DEF ParsedInv, Service!NoCredential
  <2> QED
    BY <1>1, <1>2, <2>1, <2>5 DEF ServiceInv
<1>3. CASE op # "BoshCredentials"
  BY <1>1, <1>3 DEF Service!Respond, ServiceInv
<1> QED
  BY <1>2, <1>3

(* A part that gives nothing gives no key anything.                        *)
LEMMA PassOverKeepsServiceInv ==
  ServiceInv /\ Service!PassOverPart => ServiceInv'
<1> SUFFICES ASSUME ServiceInv, Service!PassOverPart PROVE ServiceInv'
  OBVIOUS
<1>1. /\ at = "parsing" /\ part <= Len(answer) /\ part' = part + 1
      /\ Len(answer[part]) < 2 \/ answer[part][1] \notin Service!Keys
      /\ UNCHANGED <<at, op, answer, returned>>
  BY DEF Service!PassOverPart, Service!Parsing
<1>2. op = "BoshCredentials" /\ ParsedInv
  BY <1>1 DEF ServiceInv
<1>3. part \in 1..Len(answer) /\ part' \in 1..Len(answer) + 1
  BY <1>1, <1>2 DEF ParsedInv
<1>4. Len(answer[part]) \in Nat
  BY <1>2, <1>3, PartsAreShort DEF ParsedInv
<1>5. \A key \in Service!Keys :
        GivenBefore(key, part)' = GivenBefore(key, part)
  BY <1>1, <1>3, <1>4 DEF GivenBefore
<1>6. ParsedInv'
  BY <1>1, <1>2, <1>3, <1>5 DEF ParsedInv
<1> QED
  BY <1>1, <1>6 DEF ServiceInv

(* A part that gives a key its value is now the last one to do so.         *)
LEMMA TakePartKeepsServiceInv ==
  ServiceInv /\ Service!TakePart => ServiceInv'
<1> SUFFICES ASSUME ServiceInv, Service!TakePart PROVE ServiceInv'
  OBVIOUS
<1> DEFINE taken == answer[part][1]
           value == answer[part][2]
<1>1. /\ at = "parsing" /\ part <= Len(answer) /\ part' = part + 1
      /\ Len(answer[part]) >= 2 /\ taken \in Service!Keys
      /\ returned' = [returned EXCEPT ![taken] = value]
      /\ UNCHANGED <<at, op, answer>>
  BY DEF Service!TakePart, Service!Parsing, Service!ValueOf
<1>2. op = "BoshCredentials" /\ ParsedInv
  BY <1>1 DEF ServiceInv
<1>3. part \in 1..Len(answer) /\ part' \in 1..Len(answer) + 1
  BY <1>1, <1>2 DEF ParsedInv
<1>4. value \in Values
  BY <1>1, <1>2, <1>3, PartsAreShort DEF ParsedInv
<1>5. returned' \in [Service!Keys -> Values \cup {"none"}]
  BY <1>1, <1>2, <1>4 DEF ParsedInv
<1>6. ASSUME NEW key \in Service!Keys, key # taken
      PROVE  /\ GivenBefore(key, part)' = GivenBefore(key, part)
             /\ returned'[key] = returned[key]
  BY <1>1, <1>2, <1>3, <1>6 DEF GivenBefore, ParsedInv
<1>7. ASSUME NEW key \in Service!Keys, key = taken
      PROVE  /\ part \in GivenBefore(key, part)'
             /\ \A j \in GivenBefore(key, part)' : j <= part
             /\ returned'[key] = answer'[part][2]
  BY <1>1, <1>2, <1>3, <1>7 DEF GivenBefore, ParsedInv
<1>8. ParsedInv'
  <2> SUFFICES ASSUME NEW key \in Service!Keys
               PROVE  \/ /\ GivenBefore(key, part)' = {}
                         /\ returned'[key] = "none"
                      \/ \E i \in GivenBefore(key, part)' :
                           /\ \A j \in GivenBefore(key, part)' : j <= i
                           /\ returned'[key] = answer'[i][2]
    BY <1>1, <1>2, <1>3, <1>5 DEF ParsedInv
  <2>1. CASE key = taken
    BY <1>7, <2>1
  <2>2. CASE key # taken
    BY <1>1, <1>2, <1>6, <2>2 DEF ParsedInv
  <2> QED
    BY <2>1, <2>2
<1> QED
  BY <1>1, <1>8 DEF ServiceInv

(* ServiceInv is inductive.                                                *)
LEMMA ServiceNextKeepsInv == ServiceInv /\ Service!Next => ServiceInv'
<1>1. ServiceInv /\ Service!RequestFails => ServiceInv'
  BY DEF ServiceInv, Service!RequestFails
<1>2. ServiceInv /\ Service!Parsed => ServiceInv'
  <2> SUFFICES ASSUME ServiceInv, Service!Parsed PROVE ServiceInv'
    OBVIOUS
  <2>1. /\ at = "parsing" /\ part > Len(answer) /\ at' = "done"
        /\ UNCHANGED <<op, answer, part, returned>>
    BY DEF Service!Parsed
  <2>2. op = "BoshCredentials" /\ ParsedInv
    BY <2>1 DEF ServiceInv
  <2>3. ParsedInv'
    BY <2>1, <2>2 DEF ParsedInv, GivenBefore
  <2> QED
    BY <2>1, <2>2, <2>3 DEF ServiceInv
<1> QED
  BY <1>1, <1>2, RespondKeepsServiceInv, PassOverKeepsServiceInv,
     TakePartKeepsServiceInv
  DEF Service!Next

(* What went through a struct has its fields, and no others.               *)
LEMMA StructsCarryFields ==
  ASSUME NEW fields, NEW came, NEW sent,
         sent = Service!ThroughStruct(fields, came)
  PROVE  Service!OnlyFields(fields, came, sent)
BY DEF Service!ThroughStruct, Service!OnlyFields

(* The properties that leave are those of the types that may.              *)
LEMMA PropertiesAreRedacted ==
  ASSUME NEW names, NEW came \in [names -> Service!Property],
         NEW sent, sent = Service!RedactProperties(came)
  PROVE  /\ \A p \in names :
              p \in DOMAIN sent <=>
                /\ "type" \in DOMAIN came[p]
                /\ came[p].type \notin Service!otherTypes
         /\ \A p \in DOMAIN sent :
              /\ p \in names
              /\ Service!OnlyFields(Service!propertyFields, came[p], sent[p])
<1> DEFINE read == [name \in names |->
                     Service!ThroughStruct(Service!propertyFields, came[name])]
           allowed == {p \in names : read[p].type \in Service!allowedTypes}
<1>1. sent = [name \in allowed |-> read[name]]
  BY DEF Service!RedactProperties, Service!allowedPropertyType
<1>2. ASSUME NEW p \in names
      PROVE  read[p].type = IF "type" \in DOMAIN came[p] THEN came[p].type
                            ELSE "zero"
  BY DEF Service!ThroughStruct, Service!propertyFields
<1>3. ASSUME NEW p \in names, "type" \in DOMAIN came[p]
      PROVE  came[p].type \in {"integer", "selector", "secret", "string"}
  <2>1. came[p] \in Service!Property
    OBVIOUS
  <2>2. PICK keys \in SUBSET {"value", Other} :
          \/ came[p] = Service!Fields(keys)
          \/ \E type \in {"integer", "selector", "secret", "string"} :
               came[p] = [field \in keys \cup {"type"} |->
                            IF field = "type" THEN type ELSE "given"]
    BY <2>1 DEF Service!Property
  <2>3. CASE came[p] = Service!Fields(keys)
    BY <1>3, <2>2, <2>3, PartsAssumption DEF Service!Fields
  <2> QED
    BY <2>2, <2>3
<1>4. ASSUME NEW p \in names
      PROVE  p \in allowed <=> /\ "type" \in DOMAIN came[p]
                               /\ came[p].type \notin Service!otherTypes
  <2> HIDE DEF read
  <2> QED
    BY <1>2, <1>3 DEF Service!allowedTypes, Service!otherTypes
<1>5. \A p \in allowed :
        Service!OnlyFields(Service!propertyFields, came[p], read[p])
  BY StructsCarryFields
<1> HIDE DEF read
<1> QED
  BY <1>1, <1>4, <1>5

(* What a list is: as many entries as its length.                          *)
LEMMA ListsHaveEntries ==
  ASSUME NEW entries, NEW list \in Service!ListsOf(entries)
  PROVE  /\ Len(list) \in Nat /\ DOMAIN list = 1..Len(list)
         /\ \A i \in 1..Len(list) : list[i] \in entries
BY BoundsAreNaturals DEF Service!ListsOf

(* Of the answer of each operation there leaves what may, and only that.   *)
LEMMA RedactionStripsSecrets ==
  ASSUME ServiceInv PROVE Service!NothingSensitiveLeaves
<1> SUFFICES ASSUME at = "done", op # "BoshCredentials"
             PROVE  Service!NothingSensitiveLeaves
  BY DEF Service!NothingSensitiveLeaves, Service!StructKey
<1> DEFINE came == answer.content
           sent == returned.content
<1>1. /\ op \in Service!Operations /\ answer \in Service!Bodies(op)
      /\ returned = Service!Redact(op, answer)
  BY DEF ServiceInv
<1>2. DOMAIN Service!StructKey = {"ProductProperties", "Installations",
                                 "CertificateAuthorities"}
  BY DEF Service!StructKey
<1>3. ASSUME op \in DOMAIN Service!StructKey
      PROVE  /\ returned.keys = {Service!StructKey[op]}
             /\ came \in Service!ContentsOf(op) \cup {<<>>}
  <2>1. returned.keys = {Service!StructKey[op]}
    BY <1>1, <1>2, <1>3 DEF Service!Redact, Service!StructOf
  <2>2. answer \in Service!Objects(op)
    BY <1>1, <1>2, <1>3 DEF Service!Bodies
  <2> QED
    BY <2>1, <2>2 DEF Service!Objects
<1>4. CASE op = "ProductProperties"
  <2>1. PICK names \in SUBSET Properties : came \in [names -> Service!Property]
    <3>1. CASE came = <<>>
      <4>1. came \in [{} -> Service!Property]
        BY <3>1
      <4> QED
        BY <4>1
    <3>2. CASE came \in Service!ContentsOf(op)
      BY <1>4, <3>2 DEF Service!ContentsOf
    <3> QED
      BY <1>2, <1>3, <1>4, <3>1, <3>2
  <2>2. sent = Service!RedactProperties(came)
    BY <1>1, <1>4 DEF Service!Redact, Service!StructOf
  <2> HIDE DEF came, sent
  <2> QED
    BY <1>2, <1>3, <1>4, <2>1, <2>2, PropertiesAreRedacted
    DEF Service!NothingSensitiveLeaves, came, sent
<1>5. ASSUME op \in {"Installations", "CertificateAuthorities"}
      PROVE  /\ DOMAIN came = 1..Len(came) /\ Len(came) \in Nat
             /\ op = "Installations" =>
                  \A i \in 1..Len(came) : came[i] \in Service!Installation
  <2>1. \/ came = <<>>
        \/ came \in Service!ListsOf(IF op = "Installations"
                                     THEN Service!Installation
                                     ELSE Service!Authority)
    BY <1>2, <1>3, <1>5 DEF Service!ContentsOf
  <2> HIDE DEF came
  <2>2. CASE came = <<>>
    BY <2>2
  <2>3. CASE came \in Service!ListsOf(IF op = "Installations"
                                      THEN Service!Installation
                                      ELSE Service!Authority)
    BY <2>3, ListsHaveEntries
  <2> QED
    BY <2>1, <2>2, <2>3
<1>6. CASE op = "Installations"
  <2>1. sent = [i \in DOMAIN came |-> came[i] \ {"user_name"}]
    BY <1>1, <1>6
    DEF Service!Redact, Service!StructOf, Service!RedactInstallations
  <2> HIDE DEF came, sent
  <2>2. Len(sent) = Len(came)
    BY <1>5, <1>6, <2>1
  <2> QED
    BY <1>2, <1>3, <1>5, <1>6, <2>1, <2>2
    DEF Service!NothingSensitiveLeaves, came, sent
<1>7. CASE op = "CertificateAuthorities"
  <2>1. sent = [i \in DOMAIN came |->
                  Service!ThroughStruct(Service!caFields, came[i])]
    BY <1>1, <1>7
    DEF Service!Redact, Service!StructOf, Service!RedactAuthorities
  <2> HIDE DEF came, sent
  <2>2. Len(sent) = Len(came)
    BY <1>5, <1>7, <2>1
  <2>3. \A i \in 1..Len(came) :
          Service!OnlyFields(Service!caFields, came[i], sent[i])
    BY <1>5, <1>7, <2>1, StructsCarryFields
  <2> QED
    BY <1>2, <1>3, <1>7, <2>2, <2>3
    DEF Service!NothingSensitiveLeaves, came, sent
<1>8. CASE op = "DiagnosticReport"
  <2>1. returned = answer \ {"ntp_servers"}
    BY <1>1, <1>8 DEF Service!Redact, Service!RedactReport
  <2> QED
    BY <1>2, <1>8, <2>1 DEF Service!NothingSensitiveLeaves
<1>9. CASE op = "Reader"
  BY <1>2, <1>9 DEF Service!NothingSensitiveLeaves
<1> QED
  BY <1>1, <1>4, <1>6, <1>7, <1>8, <1>9 DEF Service!Operations

(* The last one given before the end is the last one given.                *)
LEMMA LastGivenIsReturned ==
  ASSUME ServiceInv PROVE Service!CredentialsAsGiven
<1> SUFFICES ASSUME at = "done", op = "BoshCredentials",
                    NEW key \in Service!Keys
             PROVE  LET all == {i \in 1..Len(answer) :
                                  Len(answer[i]) > 1 /\ answer[i][1] = key}
                    IN IF all = {} THEN returned[key] = "none"
                       ELSE \E i \in all :
                              /\ \A j \in all : j <= i
                              /\ Len(answer[i]) = 2 =>
                                   answer[i] = <<key, returned[key]>>
  BY DEF Service!CredentialsAsGiven
<1> DEFINE all == {i \in 1..Len(answer) :
                     Len(answer[i]) > 1 /\ answer[i][1] = key}
<1>1. ParsedInv /\ part = Len(answer) + 1
  BY DEF ServiceInv, ParsedInv
<1>2. \A i \in 1..Len(answer) : answer[i] \in Service!Parts
  BY <1>1 DEF ParsedInv
<1>3. GivenBefore(key, part) = all
  BY <1>1, <1>2, PartsAreShort DEF GivenBefore, ParsedInv
<1>4. ASSUME NEW i \in all, returned[key] = answer[i][2], Len(answer[i]) = 2
      PROVE  answer[i] = <<key, returned[key]>>
  BY <1>2, <1>4, PartsAreShort
<1> QED
  BY <1>1, <1>3, <1>4 DEF ParsedInv

(* What ServiceInv is for.                                                 *)
LEMMA ServiceInvImplies ==
  ASSUME ServiceInv
  PROVE  /\ Service!TypeOK /\ Service!NothingSensitiveLeaves
         /\ Service!CredentialsAsGiven
<1>1. Service!TypeOK
  BY DEF ServiceInv, ParsedInv, Service!TypeOK
<1> QED
  BY <1>1, RedactionStripsSecrets, LastGivenIsReturned

(***************************************************************************)
(* Config: what handleAliases left, said again from what was given.        *)
(***************************************************************************)
Setting == [flag : Command!Sayings, env : Command!Sayings,
            file : Command!Sayings]
AliasKeys == {"url", "target", "insecure-skip-tls-verify",
              "skip-ssl-validation"}
Said(s) == IF s.flag # "unset" THEN s.flag
           ELSE IF s.env # "unset" THEN s.env
           ELSE IF s.file # "unset" THEN s.file ELSE "off"

(* What moving the file's line leaves under the first name and the second. *)
Without(s) == [s EXCEPT !.file = "unset"]
Having(s, line) == IF line = "unset" THEN s ELSE [s EXCEPT !.file = line]

AliasInv(first, second) ==
  /\ setting[first] = IF first \in alias THEN Without(given[first])
                      ELSE given[first]
  /\ setting[second] = IF first \in alias
                       THEN Having(given[second], given[first].file)
                       ELSE given[second]

AliasedInv ==
  /\ "url" \in alias <=> Said(given["url"]) # "on"
  /\ "insecure-skip-tls-verify" \in alias <=> Command!AliasSkipTls
  /\ AliasInv("url", "target")
  /\ AliasInv("insecure-skip-tls-verify", "skip-ssl-validation")
  /\ \A key \in Command!Keys \ AliasKeys : setting[key] = given[key]

(* The collectors made before a place are those that were to be made.      *)
MadeInv ==
  /\ at \in {"consumption", "core", "credhub", "made"} => Command!Validates
  /\ at \in {"core", "credhub", "made"} =>
       /\ Command!anyUsageServiceConfigsProvided =>
            Command!validateUsageServiceConfig
       /\ "consumption" \in collectors <=>
            Command!anyUsageServiceConfigsProvided
  /\ at \in {"credhub", "made"} =>
       ("core counts" \in collectors <=>
          \/ Command!anyUsageServiceConfigsProvided
          \/ Command!Has("operational-data-only"))
  /\ at = "made" =>
       ("credhub" \in collectors <=> Command!Has("with-credhub-info"))
  /\ at \in {"start", "read", "aliased", "consumption"} => collectors = {}
  /\ at = "core" => collectors \subseteq {"consumption"}
  /\ at = "credhub" => collectors \subseteq {"consumption", "core counts"}

(* The places after handleAliases.                                         *)
Aliased == {"aliased", "consumption", "core", "credhub", "made"}

CommandInv ==
  /\ Command!TypeOK
  /\ setting \in [Command!Keys -> Setting]
  /\ given \in [Command!Keys -> Setting]
  /\ at \in {"start", "read"} => alias = {} /\ setting = given
  /\ at \in Aliased => AliasedInv
  /\ MadeInv

-----------------------------------------------------------------------------
(* Of what is said in an order the first saying decides.                   *)
LEMMA FirstSpeakerDecides ==
  ASSUME NEW says \in Seq(Command!Sayings),
         NEW i \in 1..Len(says), says[i] # "unset",
         \A j \in 1..i - 1 : says[j] = "unset"
  PROVE  Command!SpeaksFirst(says) = says[i]
<1> DEFINE speakers == {n \in DOMAIN says : says[n] # "unset"}
<1>1. i \in speakers /\ \A j \in speakers : i <= j
  OBVIOUS
<1>2. \A n \in speakers : (\A j \in speakers : n <= j) => n = i
  BY <1>1
<1>3. (CHOOSE n \in speakers : \A j \in speakers : n <= j) = i
  BY <1>1, <1>2
<1> QED
  BY <1>1, <1>3 DEF Command!SpeaksFirst

(* Where nothing is said it is "" or false.                                *)
LEMMA NobodySpeaks ==
  ASSUME NEW says \in Seq(Command!Sayings),
         \A i \in 1..Len(says) : says[i] = "unset"
  PROVE  Command!SpeaksFirst(says) = "off"
BY DEF Command!SpeaksFirst

(* Of one setting: its flag, its variable, its line.                       *)
LEMMA SaidIsSpokenFirst ==
  ASSUME NEW s \in Setting
  PROVE  Command!SpeaksFirst(<<s.flag, s.env, s.file>>) = Said(s)
<1> DEFINE says == <<s.flag, s.env, s.file>>
<1>1. /\ says \in Seq(Command!Sayings) /\ Len(says) = 3
      /\ says[1] = s.flag /\ says[2] = s.env /\ says[3] = s.file
  BY DEF Setting
<1> HIDE DEF says
<1>2. ASSUME s.flag # "unset" PROVE Command!SpeaksFirst(says) = Said(s)
  BY <1>1, <1>2, FirstSpeakerDecides DEF Said
<1>3. ASSUME s.flag = "unset", s.env # "unset"
      PROVE  Command!SpeaksFirst(says) = Said(s)
  BY <1>1, <1>3, FirstSpeakerDecides DEF Said
<1>4. ASSUME s.flag = "unset", s.env = "unset", s.file # "unset"
      PROVE  Command!SpeaksFirst(says) = Said(s)
  BY <1>1, <1>4, FirstSpeakerDecides DEF Said
<1>5. ASSUME s.flag = "unset", s.env = "unset", s.file = "unset"
      PROVE  Command!SpeaksFirst(says) = Said(s)
  BY <1>1, <1>5, NobodySpeaks DEF Said
<1>6. Command!SpeaksFirst(says) = Said(s)
  BY <1>2, <1>3, <1>4, <1>5
<1> QED
  BY <1>6 DEF says

(* registerAlias touches the lines of the two names and nothing else.      *)
LEMMA MovedTouchesTwoLines ==
  ASSUME setting \in [Command!Keys -> Setting],
         NEW from \in Command!Keys, NEW to \in Command!Keys, from # to
  PROVE  /\ Command!Moved(from, to) \in [Command!Keys -> Setting]
         /\ Command!Moved(from, to)[from] = Without(setting[from])
         /\ Command!Moved(from, to)[to]
              = Having(setting[to], setting[from].file)
<1>1. setting[from] \in Setting /\ setting[to] \in Setting
  OBVIOUS
<1>2. CASE setting[from].file = "unset"
  <2>1. Without(setting[from]) = setting[from]
    BY <1>1, <1>2 DEF Setting, Without
  <2> QED
    BY <1>2, <2>1 DEF Command!Moved, Having
<1>3. CASE setting[from].file # "unset"
  BY <1>1, <1>3 DEF Command!Moved, Having, Without, Setting, Command!Sayings
<1> QED
  BY <1>2, <1>3

(* A lookup is what is said under the name it ends at.                     *)
LEMMA GetIsSaid ==
  ASSUME NEW key
  PROVE  Command!Get(key) = Said(setting[Command!realKey(key)])
BY DEF Command!Get, Said

(* A setting without a second name is looked up as it was given.           *)
LEMMA GetIsAsGiven ==
  ASSUME CommandInv, at \in Aliased, NEW key \in Command!Keys \ AliasKeys
  PROVE  Command!Get(key) = Said(given[key])
<1>1. AliasedInv /\ Command!TypeOK
  BY DEF CommandInv
<1>2. Command!realKey(key) = key
  BY <1>1 DEF Command!TypeOK, Command!realKey, AliasKeys
<1> QED
  BY <1>1, <1>2, GetIsSaid DEF AliasedInv

-----------------------------------------------------------------------------
(* Nothing was looked up yet.                                              *)
LEMMA InitEstablishesCommandInv == Command!Init => CommandInv
<1> SUFFICES ASSUME Command!Init PROVE CommandInv
  OBVIOUS
<1>1. PICK usage \in BOOLEAN, different \in SUBSET Command!Keys :
        \E how \in [different -> Setting] :
          /\ \A key \in different : how[key] \in Command!Settings(key)
          /\ given = [key \in Command!Keys |->
                        IF key \in different THEN how[key]
                        ELSE Command!Usual(usage)[key]]
  BY DEF Command!Init, Setting
<1>2. \A key \in Command!Keys : Command!Usual(usage)[key] \in
        Setting \cap Command!Settings(key)
  BY DEF Command!Usual, Command!ByFlag, Command!ByNothing, Setting,
         Command!Settings, Command!Sayings
<1>3. /\ given \in [Command!Keys -> Setting]
      /\ \A key \in Command!Keys : given[key] \in Command!Settings(key)
  BY <1>1, <1>2
<1> QED
  BY <1>3 DEF Command!Init, CommandInv, Command!TypeOK, MadeInv, Aliased

(* The file is read, or it is not to be had.                               *)
LEMMA ReadConfigFileKeepsCommandInv ==
  CommandInv /\ Command!ReadConfigFile => CommandInv'
<1> SUFFICES ASSUME CommandInv, Command!ReadConfigFile PROVE CommandInv'
  OBVIOUS
<1>1. /\ at = "start" /\ at' \in {"read", "failed"}
      /\ UNCHANGED <<given, setting, alias, validEnvType, created, collectors>>
  BY DEF Command!ReadConfigFile, Command!Fail, Command!Go
<1> QED
  BY <1>1 DEF CommandInv, Command!TypeOK, MadeInv, Aliased

(* Each alias is decided by what was given, and leaves what AliasInv says. *)
LEMMA HandleAliasesKeepsCommandInv ==
  CommandInv /\ Command!HandleAliases => CommandInv'
<1> SUFFICES ASSUME CommandInv, Command!HandleAliases PROVE CommandInv'
  OBVIOUS
<1> DEFINE urls == IF Command!AliasUrl THEN Command!Moved("url", "target")
                   ELSE setting
           tlss == IF Command!AliasSkipTls
                   THEN Command!Moved("insecure-skip-tls-verify",
                                      "skip-ssl-validation")
                   ELSE setting
<1>1. /\ at = "read" /\ at' = "aliased"
      /\ UNCHANGED <<given, validEnvType, created, collectors>>
      /\ alias' = {key \in {"url", "insecure-skip-tls-verify"} :
                     IF key = "url" THEN Command!AliasUrl
                     ELSE Command!AliasSkipTls}
      /\ setting' = [key \in Command!Keys |->
                       IF key \in {"url", "target"} THEN urls[key]
                       ELSE tlss[key]]
  BY DEF Command!HandleAliases, Command!Go
<1>2. /\ Command!TypeOK /\ MadeInv
      /\ setting = given /\ alias = {} /\ setting \in [Command!Keys -> Setting]
  BY <1>1 DEF CommandInv
<1>3. AliasKeys \subseteq Command!Keys
  BY DEF AliasKeys, Command!Keys, Command!Strings, Command!Required,
         Command!Switches
<1>4. /\ urls \in [Command!Keys -> Setting]
      /\ urls["url"] = IF Command!AliasUrl THEN Without(given["url"])
                       ELSE given["url"]
      /\ urls["target"] = IF Command!AliasUrl
                          THEN Having(given["target"], given["url"].file)
                          ELSE given["target"]
  BY <1>2, <1>3, MovedTouchesTwoLines DEF AliasKeys
<1>5. /\ tlss \in [Command!Keys -> Setting]
      /\ tlss["insecure-skip-tls-verify"] =
           IF Command!AliasSkipTls
           THEN Without(given["insecure-skip-tls-verify"])
           ELSE given["insecure-skip-tls-verify"]
      /\ tlss["skip-ssl-validation"] =
           IF Command!AliasSkipTls
           THEN Having(given["skip-ssl-validation"],
                       given["insecure-skip-tls-verify"].file)
           ELSE given["skip-ssl-validation"]
  BY <1>2, <1>3, MovedTouchesTwoLines DEF AliasKeys
<1>6. \A key \in Command!Keys \ AliasKeys : tlss[key] = given[key]
  BY <1>2 DEF Command!Moved, AliasKeys
<1>7. Command!AliasUrl <=> Said(given["url"]) # "on"
  BY <1>2, GetIsSaid DEF Command!AliasUrl, Command!Has, Command!realKey
<1>8. Command!AliasSkipTls' <=> Command!AliasSkipTls
  BY <1>1 DEF Command!AliasSkipTls
<1>9. AliasedInv'
  <2>1. AliasInv("url", "target")'
    BY <1>1, <1>3, <1>4 DEF AliasInv, AliasKeys
  <2>2. AliasInv("insecure-skip-tls-verify", "skip-ssl-validation")'
    BY <1>1, <1>3, <1>5 DEF AliasInv, AliasKeys
  <2>3. \A key \in Command!Keys \ AliasKeys : setting'[key] = given'[key]
    BY <1>1, <1>6 DEF AliasKeys
  <2> QED
    BY <1>1, <1>7, <1>8, <2>1, <2>2, <2>3 DEF AliasedInv
<1>10. setting' \in [Command!Keys -> Setting]
  BY <1>1, <1>4, <1>5
<1>11. Command!TypeOK' /\ MadeInv'
  BY <1>1, <1>2 DEF Command!TypeOK, MadeInv
<1> QED
  BY <1>1, <1>2, <1>9, <1>10, <1>11 DEF CommandInv, Aliased

(* What is looked up stays the same from then on.                          *)
LEMMA LookupsStay ==
  ASSUME UNCHANGED <<given, setting, alias, validEnvType>>
  PROVE  /\ AliasedInv' <=> AliasedInv
         /\ Command!Validates' <=> Command!Validates
         /\ Command!anyUsageServiceConfigsProvided' <=>
              Command!anyUsageServiceConfigsProvided
         /\ Command!validateUsageServiceConfig' <=>
              Command!validateUsageServiceConfig
         /\ \A key : Command!Has(key)' <=> Command!Has(key)
<1>1. \A key : Command!Has(key)' <=> Command!Has(key)
  BY DEF Command!Has, Command!Get, Command!realKey
<1>2. AliasedInv' <=> AliasedInv
  BY DEF AliasedInv, AliasInv, Command!AliasSkipTls
<1> QED
  BY <1>1, <1>2
  DEF Command!Validates, Command!verifyRequiredConfig, Command!HasAll,
      Command!validateCredConfig, Command!validateAndNormalizeEnvType,
      Command!anyUsageServiceConfigsProvided,
      Command!validateUsageServiceConfig

(* A configuration is rejected before anything was made.                   *)
LEMMA RejectKeepsCommandInv == CommandInv /\ Command!Reject => CommandInv'
<1> SUFFICES ASSUME CommandInv, Command!Reject PROVE CommandInv'
  OBVIOUS
<1>1. /\ at = "aliased" /\ at' = "failed"
      /\ UNCHANGED <<given, setting, alias, validEnvType, created, collectors>>
  BY DEF Command!Reject, Command!Fail, Command!Go
<1> QED
  BY <1>1 DEF CommandInv, Command!TypeOK, MadeInv, Aliased

(* The file is created for what validates, and nothing is made yet.        *)
LEMMA CreateFileKeepsCommandInv ==
  CommandInv /\ Command!CreateFile => CommandInv'
<1> SUFFICES ASSUME CommandInv, Command!CreateFile PROVE CommandInv'
  OBVIOUS
<1>1. /\ at = "aliased" /\ at' = "consumption" /\ Command!Validates
      /\ created' = TRUE
      /\ UNCHANGED <<given, setting, alias, validEnvType, collectors>>
  BY DEF Command!CreateFile, Command!Go
<1>2. Command!TypeOK' /\ MadeInv'
  BY <1>1, LookupsStay DEF CommandInv, Command!TypeOK, MadeInv
<1> QED
  BY <1>1, <1>2, LookupsStay DEF CommandInv, Aliased

(* One collector is made, or is not wanted.                                *)
LEMMA MakingKeepsCommandInv ==
  ASSUME CommandInv,
         \/ Command!MakeConsumptionCollector
         \/ Command!MakeCoreConsumptionCollector
         \/ Command!MakeCredhubCollector
  PROVE  CommandInv'
<1>1. /\ Command!TypeOK /\ MadeInv
      /\ UNCHANGED <<given, setting, alias, validEnvType, created>>
  BY DEF CommandInv, Command!MakeConsumptionCollector, Command!Make,
         Command!MakeCoreConsumptionCollector, Command!MakeCredhubCollector,
         Command!Go
<1>2. CASE Command!MakeConsumptionCollector
  <2>1. /\ at = "consumption" /\ at' = "core"
        /\ Command!anyUsageServiceConfigsProvided =>
             Command!validateUsageServiceConfig
        /\ collectors' = IF Command!anyUsageServiceConfigsProvided
                         THEN collectors \cup {"consumption"} ELSE collectors
    BY <1>2 DEF Command!MakeConsumptionCollector, Command!Make, Command!Go
  <2>2. Command!TypeOK' /\ MadeInv'
    BY <1>1, <2>1, LookupsStay DEF Command!TypeOK, MadeInv
  <2> QED
    BY <1>1, <2>1, <2>2, LookupsStay DEF CommandInv, Aliased
<1>3. CASE Command!MakeCoreConsumptionCollector
  <2>1. /\ at = "core" /\ at' = "credhub"
        /\ collectors' = IF \/ Command!anyUsageServiceConfigsProvided
                            \/ Command!Has("operational-data-only")
                         THEN collectors \cup {"core counts"} ELSE collectors
    BY <1>3
    DEF Command!MakeCoreConsumptionCollector, Command!Make, Command!Go
  <2>2. Command!TypeOK' /\ MadeInv'
    BY <1>1, <2>1, LookupsStay DEF Command!TypeOK, MadeInv
  <2> QED
    BY <1>1, <2>1, <2>2, LookupsStay DEF CommandInv, Aliased
<1>4. CASE Command!MakeCredhubCollector
  <2>1. /\ at = "credhub" /\ at' = "made"
        /\ collectors' = IF Command!Has("with-credhub-info")
                         THEN collectors \cup {"credhub"} ELSE collectors
    BY <1>4 DEF Command!MakeCredhubCollector, Command!Make, Command!Go
  <2>2. Command!TypeOK' /\ MadeInv'
    BY <1>1, <2>1, LookupsStay DEF Command!TypeOK, MadeInv
  <2> QED
    BY <1>1, <2>1, <2>2, LookupsStay DEF CommandInv, Aliased
<1> QED
  BY <1>2, <1>3, <1>4

(* The file is removed when a collector cannot be made.                    *)
LEMMA FailingKeepsCommandInv ==
  ASSUME CommandInv,
         \/ Command!MakeConsumptionCollectorFails
         \/ Command!MakeCredhubCollectorFails
  PROVE  CommandInv'
<1>1. /\ at' = "failed" /\ created' = FALSE
      /\ UNCHANGED <<given, setting, alias, validEnvType, collectors>>
  BY DEF Command!MakeConsumptionCollectorFails, Command!RemoveFile,
         Command!MakeCredhubCollectorFails, Command!Go
<1> QED
  BY <1>1 DEF CommandInv, Command!TypeOK, MadeInv, Aliased

(* CommandInv is inductive.                                                *)
LEMMA CommandNextKeepsInv == CommandInv /\ Command!Next => CommandInv'
BY ReadConfigFileKeepsCommandInv, HandleAliasesKeepsCommandInv,
   RejectKeepsCommandInv, CreateFileKeepsCommandInv, MakingKeepsCommandInv,
   FailingKeepsCommandInv
DEF Command!Next

-----------------------------------------------------------------------------
(* The four settings with two names are among the keys.                    *)
LEMMA AliasKeysAreGiven ==
  ASSUME CommandInv, at \in Aliased
  PROVE  /\ \A key \in AliasKeys : given[key] \in Setting
         /\ AliasedInv
         /\ AliasInv("url", "target")
         /\ AliasInv("insecure-skip-tls-verify", "skip-ssl-validation")
BY DEF CommandInv, AliasedInv, AliasKeys, Command!Keys, Command!Strings,
       Command!Required, Command!Switches

(* A lookup of insecure-skip-tls-verify, by where it was said.             *)
LEMMA TlsIsDecidedInOrder ==
  ASSUME CommandInv PROVE Command!SkipTlsPrecedence
<1> SUFFICES ASSUME at \in Aliased PROVE Command!SkipTlsPrecedence
  BY DEF CommandInv, Command!TypeOK, Command!SkipTlsPrecedence, Aliased
<1> DEFINE first == given["insecure-skip-tls-verify"]
           second == given["skip-ssl-validation"]
           says == <<second.flag, first.flag, first.env, second.env,
                     first.file, second.file>>
           got == Command!Get("insecure-skip-tls-verify")
<1>1. /\ first \in Setting /\ second \in Setting
      /\ AliasInv("insecure-skip-tls-verify", "skip-ssl-validation")
      /\ AliasedInv
  BY AliasKeysAreGiven DEF AliasKeys
<1>2. /\ says \in Seq(Command!Sayings) /\ Len(says) = 6
      /\ says[1] = second.flag /\ says[2] = first.flag
      /\ says[3] = first.env /\ says[4] = second.env
      /\ says[5] = first.file /\ says[6] = second.file
  BY <1>1 DEF Setting
<1>3. got = IF Command!AliasSkipTls THEN Said(Having(second, first.file))
            ELSE Said(first)
  BY <1>1, GetIsSaid DEF AliasInv, AliasedInv, Command!realKey
<1>4. got = IF second.flag # "unset" THEN second.flag
            ELSE IF first.flag # "unset" THEN first.flag
            ELSE IF first.env # "unset" THEN first.env
            ELSE IF second.env # "unset" THEN second.env
            ELSE IF first.file # "unset" THEN first.file
            ELSE IF second.file # "unset" THEN second.file ELSE "off"
  BY <1>1, <1>3 DEF Command!AliasSkipTls, Said, Having, Setting
<1> HIDE DEF says, got
<1>5. got = Command!SpeaksFirst(says)
  <2>1. ASSUME NEW i \in 1..6, says[i] # "unset",
               \A j \in 1..i - 1 : says[j] = "unset"
        PROVE  Command!SpeaksFirst(says) = says[i]
    BY <1>2, <2>1, FirstSpeakerDecides
  <2>2. ASSUME \A i \in 1..6 : says[i] = "unset"
        PROVE  Command!SpeaksFirst(says) = "off"
    BY <1>2, <2>2, NobodySpeaks
  <2> QED
    BY <1>2, <1>4, <2>1, <2>2
<1> QED
  BY <1>5 DEF Command!SkipTlsPrecedence, says, got

(* A lookup of url, by where it was said.                                  *)
LEMMA UrlIsDecidedInOrder ==
  ASSUME CommandInv PROVE Command!UrlPrecedence
<1> SUFFICES ASSUME at \in Aliased PROVE Command!UrlPrecedence
  BY DEF CommandInv, Command!TypeOK, Command!UrlPrecedence, Aliased
<1> DEFINE url == given["url"]
           target == given["target"]
           says == <<target.flag, target.env, url.file, target.file>>
<1>1. /\ url \in Setting /\ target \in Setting
      /\ AliasInv("url", "target") /\ AliasedInv
  BY AliasKeysAreGiven DEF AliasKeys
<1>2. /\ says \in Seq(Command!Sayings) /\ Len(says) = 4
      /\ says[1] = target.flag /\ says[2] = target.env
      /\ says[3] = url.file /\ says[4] = target.file
  BY <1>1 DEF Setting
<1>3. Command!Get("url") = IF Said(url) = "on" THEN Said(url)
                           ELSE Said(Having(target, url.file))
  BY <1>1, GetIsSaid DEF AliasInv, AliasedInv, Command!realKey
<1>4. Said(Having(target, url.file)) =
        IF target.flag # "unset" THEN target.flag
        ELSE IF target.env # "unset" THEN target.env
        ELSE IF url.file # "unset" THEN url.file
        ELSE IF target.file # "unset" THEN target.file ELSE "off"
  BY <1>1 DEF Said, Having, Setting
<1> HIDE DEF says
<1>5. Said(Having(target, url.file)) = Command!SpeaksFirst(says)
  <2>1. ASSUME NEW i \in 1..4, says[i] # "unset",
               \A j \in 1..i - 1 : says[j] = "unset"
        PROVE  Command!SpeaksFirst(says) = says[i]
    BY <1>2, <2>1, FirstSpeakerDecides
  <2>2. ASSUME \A i \in 1..4 : says[i] = "unset"
        PROVE  Command!SpeaksFirst(says) = "off"
    BY <1>2, <2>2, NobodySpeaks
  <2> QED
    BY <1>2, <1>4, <2>1, <2>2
<1>6. Command!SpeaksFirst(<<url.flag, url.env, url.file>>) = Said(url)
  BY <1>1, SaidIsSpokenFirst
<1>7. Said(url) = "on" => Command!realKey("url") = "url"
  BY <1>1 DEF AliasedInv, Command!realKey
<1>8. Command!Has("url") <=>
        Said(url) = "on" \/ Command!SpeaksFirst(says) = "on"
  BY <1>3, <1>5 DEF Command!Has
<1> QED
  BY <1>6, <1>7, <1>8 DEF Command!UrlPrecedence, says

(* What is looked up for the collectors is what was given.                 *)
LEMMA MadeIsAsConfigured ==
  ASSUME CommandInv PROVE Command!MadeAsConfigured
<1> SUFFICES ASSUME at = "made" PROVE Command!MadeAsConfigured
  BY DEF Command!MadeAsConfigured
<1> DEFINE said(key) == Command!SpeaksFirst(<<given[key].flag, given[key].env,
                                              given[key].file>>) = "on"
<1>1. given \in [Command!Keys -> Setting] /\ MadeInv /\ at \in Aliased
  BY DEF CommandInv, Aliased
<1>2. \A key \in Command!Keys : said(key) <=> Said(given[key]) = "on"
  BY <1>1, SaidIsSpokenFirst
<1>3. \A key \in Command!Keys \ AliasKeys : Command!Has(key) <=> said(key)
  BY <1>1, <1>2, GetIsAsGiven DEF Command!Has
<1> HIDE DEF said
<1>4. Command!Validates
  BY <1>1 DEF MadeInv
<1>5. said("url") \/ said("target") \/ given["url"].file = "on"
  <2>1. Command!Get("url") = "on"
    BY <1>4 DEF Command!Validates, Command!verifyRequiredConfig,
                Command!HasAll, Command!Has, Command!Required
  <2>2. /\ given["url"] \in Setting /\ given["target"] \in Setting
        /\ AliasInv("url", "target") /\ AliasedInv
    BY <1>1, AliasKeysAreGiven DEF AliasKeys
  <2>3. \/ Said(given["url"]) = "on"
        \/ Said(Having(given["target"], given["url"].file)) = "on"
    BY <2>1, <2>2, GetIsSaid DEF AliasInv, AliasedInv, Command!realKey
  <2>4. Said(Having(given["target"], given["url"].file)) = "on" =>
          Said(given["target"]) = "on" \/ given["url"].file = "on"
    BY <2>2 DEF Said, Having, Setting
  <2> QED
    BY <1>2, <2>3, <2>4 DEF Command!Keys, Command!Strings, Command!Required
<1>6. \A key \in {"env-type", "output-dir"} : said(key)
  BY <1>3, <1>4
  DEF Command!Validates, Command!verifyRequiredConfig, Command!HasAll,
      Command!Required, Command!Keys, Command!Strings, AliasKeys
<1>7. \A key \in Command!User : said(key) \/ \A k \in Command!Client : said(k)
  BY <1>3, <1>4
  DEF Command!Validates, Command!validateCredConfig, Command!HasAll,
      Command!User, Command!Client, Command!Keys, Command!Strings, AliasKeys
<1>8. validEnvType
  BY <1>4 DEF Command!Validates, Command!validateAndNormalizeEnvType
<1>9. Command!Usage \subseteq Command!Keys \ AliasKeys
  BY DEF Command!Usage, Command!Keys, Command!Strings, AliasKeys
<1>10. \A key \in Command!Usage : said(key) <=> "consumption" \in collectors
  BY <1>1, <1>3, <1>9
  DEF MadeInv, Command!anyUsageServiceConfigsProvided,
      Command!validateUsageServiceConfig, Command!HasAll
<1>11. "core counts" \in collectors <=>
         "consumption" \in collectors \/ said("operational-data-only")
  BY <1>1, <1>3
  DEF MadeInv, Command!Keys, Command!Switches, AliasKeys
<1>12. "credhub" \in collectors <=> said("with-credhub-info")
  BY <1>1, <1>3 DEF MadeInv, Command!Keys, Command!Switches, AliasKeys
<1> QED
  BY <1>5, <1>6, <1>7, <1>8, <1>10, <1>11, <1>12
  DEF Command!MadeAsConfigured, said

(***************************************************************************)
(* All parts: the one that moves keeps its invariant.                      *)
(***************************************************************************)
PartsInv ==
  /\ subject = "credhub" => CredhubInv
  /\ subject = "csv" => CsvInv
  /\ subject = "service" => ServiceInv
  /\ subject = "command" => CommandInv

(* PartsInv holds at first.                                                *)
LEMMA InitEstablishesPartsInv == InitAll => PartsInv
<1>1. Service!Init => ServiceInv
  BY DEF Service!Init, ServiceInv
<1> QED
  BY <1>1, InitEstablishesCredhubInv, InitEstablishesCsvInv,
     InitEstablishesCommandInv
  DEF InitAll, PartsInv

(* What stands still keeps its invariant.                                  *)
LEMMA StandingStillKeepsPartsInv ==
  PartsInv /\ UNCHANGED allVars => PartsInv'
<1> SUFFICES ASSUME PartsInv, UNCHANGED allVars PROVE PartsInv'
  OBVIOUS
<1>1. UNCHANGED <<subject, at>>
  BY DEF allVars
<1>2. subject = "credhub" => CredhubInv'
  BY DEF allVars, credhubVars, PartsInv, CredhubInv, CertificatesInv,
         HistoryInv, ReadInv
<1>3. subject = "csv" => CsvInv'
  BY DEF allVars, csvVars, PartsInv, CsvInv, CountsInv, EndInv, Csv!Record
<1>4. subject = "service" => ServiceInv'
  BY DEF allVars, serviceVars, PartsInv, ServiceInv, ParsedInv, GivenBefore
<1>5. subject = "command" => CommandInv'
  <2> SUFFICES ASSUME subject = "command" PROVE CommandInv'
    OBVIOUS
  <2>1. UNCHANGED <<at, given, setting, alias, validEnvType, created,
                    collectors>>
    BY DEF allVars, commandVars
  <2>2. CommandInv
    BY DEF PartsInv
  <2>3. MadeInv'
    BY <2>1, <2>2, LookupsStay DEF CommandInv, MadeInv
  <2> QED
    BY <2>1, <2>2, <2>3, LookupsStay
    DEF CommandInv, Command!TypeOK
<1> QED
  BY <1>1, <1>2, <1>3, <1>4, <1>5 DEF PartsInv

(* PartsInv is inductive.                                                  *)
LEMMA NextKeepsPartsInv == PartsInv /\ [NextAll]_allVars => PartsInv'
<1> SUFFICES ASSUME PartsInv, NextAll PROVE PartsInv'
  BY StandingStillKeepsPartsInv
<1>1. subject' = subject
  BY DEF NextAll
<1>2. subject \notin {"credhub", "csv", "service", "command"} => PartsInv'
  BY <1>1 DEF PartsInv
<1>3. /\ subject = "credhub" => Credhub!Next
      /\ subject = "csv" => Csv!Next
      /\ subject = "service" => Service!Next
      /\ subject = "command" => Command!Next
  BY DEF NextAll
<1> QED
  BY <1>1, <1>2, <1>3, CredhubNextKeepsInv, CsvNextKeepsInv,
     ServiceNextKeepsInv, CommandNextKeepsInv
  DEF PartsInv

(* PartsInv holds in every state of every part.                            *)
LEMMA PartsInvariance == SpecAll => []PartsInv
BY InitEstablishesPartsInv, NextKeepsPartsInv, PTL DEF SpecAll

-----------------------------------------------------------------------------
(* Every variable of the part that moves keeps its type; there is an       *)
(* output exactly after success, and a file exactly while collectors are   *)
(* made.                                                                   *)
THEOREM PartsTypeCorrect == SpecAll => []PartTypeOK
<1>1. PartsInv => PartTypeOK
  BY CredhubInvImplies, CsvInvImplies, ServiceInvImplies
  DEF PartsInv, PartTypeOK, CommandInv
<1> QED
  BY <1>1, PartsInvariance, PTL

(* Every certificate listed is collected, with a version it had as newest  *)
(* one while the collection ran, however CredHub changed.                  *)
THEOREM CollectsCurrent == SpecAll => []CollectedIsCurrent
<1>1. PartsInv => CollectedIsCurrent
  BY CredhubInvImplies DEF PartsInv, CollectedIsCurrent
<1> QED
  BY <1>1, PartsInvariance, PTL

(* The core counts are what the rows of the CSV mean, whatever its length  *)
(* and width, and how a conversion ends is up to the first bad row.        *)
THEOREM CountsMatchRows == SpecAll => []MatchesReference
<1>1. PartsInv => MatchesReference
  BY CsvInvImplies DEF PartsInv, MatchesReference
<1> QED
  BY <1>1, PartsInvariance, PTL

(* Of an answer of any size there leaves no property of another type, no   *)
(* name, server or certificate, and no field or key that is not named; the *)
(* properties, entries and fields that may leave all do.                   *)
THEOREM RedactsAnswers == SpecAll => []NothingSensitiveLeaves
<1>1. PartsInv => NothingSensitiveLeaves
  BY ServiceInvImplies DEF PartsInv, NothingSensitiveLeaves
<1> QED
  BY <1>1, PartsInvariance, PTL

(* Of credentials of any length each is the one given last.                *)
THEOREM ParsesCredentials == SpecAll => []CredentialsAsGiven
<1>1. PartsInv => CredentialsAsGiven
  BY ServiceInvImplies DEF PartsInv, CredentialsAsGiven
<1> QED
  BY <1>1, PartsInvariance, PTL

(* Whether TLS is validated is up to the first of the six places that      *)
(* speaks, however many settings are given and in whatever ways.           *)
THEOREM DecidesSkipTls == SpecAll => []SkipTlsPrecedence
<1>1. PartsInv => SkipTlsPrecedence
  BY TlsIsDecidedInOrder DEF PartsInv, SkipTlsPrecedence
<1> QED
  BY <1>1, PartsInvariance, PTL

(* The URL is the one of url, or else the one of target.                   *)
THEOREM DecidesUrl == SpecAll => []UrlPrecedence
<1>1. PartsInv => UrlPrecedence
  BY UrlIsDecidedInOrder DEF PartsInv, UrlPrecedence
<1> QED
  BY <1>1, PartsInvariance, PTL

(* The collectors made are those that were configured, wholly, and nothing *)
(* is collected without a URL, credentials and an environment type.        *)
THEOREM MakesWhatIsConfigured == SpecAll => []MadeAsConfigured
<1>1. PartsInv => MadeAsConfigured
  BY MadeIsAsConfigured DEF PartsInv, MadeAsConfigured
<1> QED
  BY <1>1, PartsInvariance, PTL
=============================================================================
