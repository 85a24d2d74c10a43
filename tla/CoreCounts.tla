----------------------------- MODULE CoreCounts -----------------------------
(***************************************************************************)
(* The core counts collector (coreconsumption/): a CSV from Ops Manager is *)
(* turned row by row into the JSON of core_counts. The conversion must     *)
(* neither move nor drop a row, and it ends the process on a row it thinks *)
(* longer than it is.                                                      *)
(*                                                                         *)
(* A field is a number, a text that is none ("" and numbers wider than an  *)
(* int are texts), or, for collectedAt, a number of seconds that is past   *)
(* the year 9999, which time.Time refuses to marshal.                      *)
(***************************************************************************)
EXTENDS Naturals, Sequences

CONSTANTS
  Small,   \* numbers that any field may hold
  Far,     \* numbers that no time may hold
  Texts,   \* fields that are no number
  NoJson,  \* no output
  MaxRows, \* bound: rows of the CSV
  MaxWidth \* bound: fields of a row

VARIABLES
  at,      \* where the collection is
  records, \* the rows ReadAll returns
  counts,  \* counts of CoreCounts
  json     \* the file of the returned data, or NoJson

vars == <<at, records, counts, json>>

Field == Small \cup Far \cup Texts
Row == UNION {[1..n -> Field] : n \in 1..MaxWidth}
IsInt(field) == field \in Small \cup Far

DataOf(list) == [type |-> "", dataType |-> "core_counts", content |-> list]

CoreCount ==
  [TimeReported : Small \cup Far, ProductIdentifier : Field,
   PhysicalCoreCount : Small \cup Far, VirtualCoreCount : Small \cup Far]

Fail == at' = "failed" /\ UNCHANGED <<counts, json>>

(* The places of the record convertToCoreCount reads, in its order.        *)
Collected == 1
Product == 2
One == 3
Two == 4

(* Variant: the two counts are swapped.                                    *)
SwappedCoreCountOf(record) ==
  [TimeReported |-> record[Collected], ProductIdentifier |-> record[Product],
   PhysicalCoreCount |-> record[Two], VirtualCoreCount |-> record[One]]

CoreCountOf(record) ==
  [TimeReported |-> record[Collected], ProductIdentifier |-> record[Product],
   PhysicalCoreCount |-> record[One], VirtualCoreCount |-> record[Two]]

-----------------------------------------------------------------------------
Init ==
  /\ at = "request"
  /\ records = <<>> /\ counts = <<>> /\ json = NoJson

(* Curl fails, answers with another status, or the CSV is ill-formed: a    *)
(* stray quote, or a row that has not as many fields as the first.         *)
RequestFails ==
  /\ at = "request"
  /\ Fail
  /\ UNCHANGED records

ReadAll ==
  /\ at = "request"
  /\ \E n \in 0..MaxRows :
       \E rows \in [1..n -> Row] :
         /\ \A i \in 1..n : Len(rows[i]) = Len(rows[1])
         /\ records' = rows
  /\ at' = "converting"
  /\ UNCHANGED <<counts, json>>

Record == records[Len(counts) + 1]
Converting == at = "converting" /\ Len(counts) < Len(records)

(* A field is looked at only once those before it were integers.           *)
Reaches(n) == \A i \in {Collected, One} : i < n => IsInt(Record[i])

(* record[n] of a record of fewer fields: nothing compares the two.        *)
IndexOutOfRange ==
  /\ Converting
  /\ \E n \in {Product, One, Two} :
       /\ Len(Record) = n - 1
       /\ Reaches(n)
  /\ at' = "panicked"
  /\ UNCHANGED <<records, counts, json>>

NotAnInt ==
  /\ Converting
  /\ \E n \in {Collected, One, Two} :
       /\ n <= Len(Record) /\ ~IsInt(Record[n])
       /\ Reaches(n)
  /\ Fail
  /\ UNCHANGED records

Convert ==
  /\ Converting
  /\ Len(Record) >= Two
  /\ \A n \in {Collected, One, Two} : IsInt(Record[n])
  /\ counts' = Append(counts, CoreCountOf(Record))
  /\ UNCHANGED <<at, records, json>>

(* The nil slice of no rows is written as null, here <<>>; one time that   *)
(* cannot be written fails them all.                                       *)
ConvertToJson ==
  /\ at = "converting" /\ Len(counts) = Len(records)
  /\ IF \A i \in 1..Len(counts) : counts[i].TimeReported \notin Far
     THEN /\ at' = "collected"
          /\ json' = DataOf(counts)
          /\ UNCHANGED counts
     ELSE Fail
  /\ UNCHANGED records

Next == RequestFails \/ ReadAll \/ IndexOutOfRange \/ NotAnInt \/ Convert
          \/ ConvertToJson

Spec == Init /\ [][Next]_vars

-----------------------------------------------------------------------------
(* Types; the counts are of the first rows.                                *)
TypeOK ==
  /\ at \in {"request", "converting", "collected", "failed", "panicked"}
  /\ Len(records) \in 0..MaxRows
  /\ Len(counts) \in 0..Len(records)
  /\ json # NoJson <=> at = "collected"

(* The reference: what the rows mean, looked at all at once.               *)
Good(row) == Len(row) >= 4 /\ \A n \in {1, 3, 4} : IsInt(row[n])
Short(row) == /\ Len(row) \in {1, 2, 3} /\ IsInt(row[1])
              /\ Len(row) = 3 => IsInt(row[3])
FirstBad == {i \in 1..Len(records) :
               ~Good(records[i]) /\ \A j \in 1..i - 1 : Good(records[j])}

(* How the conversion ends is decided by the first bad row alone, whatever *)
(* follows it: no row is dropped, doubled or moved and no field mistaken   *)
(* for another; a short row that starts like a good one panics, every      *)
(* other bad row is an error.                                              *)
MatchesReference ==
  /\ at = "collected" =>
       /\ FirstBad = {}
       /\ json.content = [i \in 1..Len(records) |->
                            [TimeReported |-> records[i][1],
                             ProductIdentifier |-> records[i][2],
                             PhysicalCoreCount |-> records[i][3],
                             VirtualCoreCount |-> records[i][4]]]
       /\ \A i \in 1..Len(records) : records[i][1] \in Small
  /\ at = "panicked" => \A i \in FirstBad : Short(records[i])
  /\ at = "failed" =>
       /\ \A i \in FirstBad : ~Short(records[i])
       /\ records # <<>> /\ FirstBad = {} =>
            \E i \in 1..Len(records) : records[i][1] \in Far
=============================================================================
