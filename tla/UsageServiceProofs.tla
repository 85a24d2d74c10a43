------------------------- MODULE UsageServiceProofs -------------------------
(***************************************************************************)
(* Proofs about UsageService, for every timeout, and every lifetime of a   *)
(* token that is no shorter: types, all or nothing, and that no request    *)
(* that may still be answered carries an expired token.                    *)
(***************************************************************************)
EXTENDS UsageService, SequenceTheorems, TLAPS

(* Where the collection is tells how many replies it has had.              *)
StageInv ==
  /\ replies \in Seq(Reply)
  /\ Len(replies) \in 0..3
  /\ at \in {"dialing_cf", "cf_info", "made"} => replies = <<>>
  /\ at \in {"dialing_uaa", "token", "request"} => Len(replies) <= 2
  /\ at = "body" => Len(replies) >= 1
  /\ at = "collected" => Len(replies) = 3

(* A token is made after the request that fetches it began, so that it is  *)
(* never older than the request, as long as the two are counted.           *)
TokenInv ==
  /\ at \in {"token", "request"} /\ token # NoToken /\ spent < Timeout =>
       token <= spent
  /\ at = "dialing_uaa" => token = NoToken
  /\ at \in {"request", "body"} => token # NoToken

(* A file is what was made of the usable reply of its number.              *)
Pieces == {"schema", "extra", "garbage", "cut", "zero"}
File == [type : {"app_usages", "service_usages", "task_usages"},
         body : SUBSET Pieces]
FileOf(n) == DataOf(Redacted(Reports[n], replies[n].body), Reports[n])
FilesInv ==
  /\ files \in Seq(File)
  /\ at # "failed" =>
       Len(files) = Len(replies) - (IF at = "body" THEN 1 ELSE 0)
  /\ at # "failed" =>
       \A n \in 1..Len(files) :
         Usable(Reports[n], replies[n]) /\ files[n] = FileOf(n)
  /\ at = "failed" => files = <<>>

ClockInv ==
  /\ at \in Places
  /\ spent \in 0..Timeout
  /\ token \in 0..Lifetime \cup {NoToken}

IInv == ClockInv /\ StageInv /\ TokenInv /\ FilesInv

-----------------------------------------------------------------------------
(* The assumption as the proofs use it.                                    *)
LEMMA Times == /\ Timeout \in Nat /\ Timeout > 0 /\ Lifetime \in Nat
               /\ Timeout <= Lifetime /\ NoToken \notin Nat
  BY TimesAssumption DEF TimesAssumption

(* Nothing has happened yet.                                               *)
LEMMA InitEstablishesIInv == Init => IInv
<1> SUFFICES ASSUME Init PROVE IInv
  OBVIOUS
<1>1. at = "dialing_cf" /\ spent = 0 /\ token = NoToken
  BY DEF Init
<1>2. ClockInv /\ TokenInv
  BY <1>1, Times DEF ClockInv, TokenInv, Places
<1>3. replies = <<>> /\ Len(replies) = 0 /\ replies \in Seq(Reply)
  BY EmptySeq DEF Init
<1>4. files = <<>> /\ Len(files) = 0 /\ files \in Seq(File)
  BY EmptySeq DEF Init
<1>5. StageInv
  BY <1>1, <1>3 DEF StageInv
<1>6. FilesInv
  BY <1>1, <1>3, <1>4 DEF FilesInv
<1> QED
  BY <1>2, <1>5, <1>6 DEF IInv

(* A failure keeps what was answered and gives up the files.               *)
LEMMA FailKeepsIInv == IInv /\ Fail => IInv'
<1> SUFFICES ASSUME IInv, Fail PROVE IInv'
  OBVIOUS
<1>1. ClockInv' /\ StageInv' /\ TokenInv'
  BY DEF IInv, ClockInv, StageInv, TokenInv, Fail, Places
<1>2. files' \in Seq(File)
  BY DEF Fail
<1>3. FilesInv'
  BY <1>2 DEF FilesInv, Fail
<1> QED
  BY <1>1, <1>3 DEF IInv

(* Only the two clocks move: the request's and the token's, at one pace.   *)
LEMMA TickKeepsIInv == IInv /\ Tick => IInv'
<1> SUFFICES ASSUME IInv, Tick PROVE IInv'
  OBVIOUS
<1> USE DEF IInv, Tick
<1>1. ClockInv'
  BY Times DEF ClockInv, Sooner
<1>2. StageInv'
  BY DEF StageInv
<1>3. TokenInv'
  BY Times DEF TokenInv, ClockInv, Sooner
<1>4. FilesInv'
  BY DEF FilesInv, FileOf
<1> QED
  BY <1>1, <1>2, <1>3, <1>4

(* A connection, an answer of the CF API, the first request: no reply yet. *)
LEMMA EarlyStepsKeepIInv == IInv /\ (Dial \/ GetUAAURL \/ Collect) => IInv'
<1> SUFFICES ASSUME IInv, Dial \/ GetUAAURL \/ Collect, ~Fail PROVE IInv'
  BY FailKeepsIInv
<1> USE DEF IInv
<1>1. CASE Dial
  <2> replies' = replies /\ spent' = spent /\ token' = token /\ files' = files
    BY <1>1 DEF Dial
  <2> \/ at = "dialing_cf" /\ at' = "cf_info"
      \/ at = "dialing_uaa" /\ at' = "token"
    BY <1>1 DEF Dial
  <2>1. ClockInv' /\ TokenInv'
    BY DEF ClockInv, TokenInv, Places
  <2>3. StageInv'
    BY EmptySeq DEF StageInv
  <2>2. FilesInv'
    BY DEF FilesInv, FileOf
  <2> QED
    BY <2>1, <2>2, <2>3
<1>2. CASE GetUAAURL
  <2>1. ClockInv' /\ StageInv' /\ TokenInv'
    BY <1>2 DEF GetUAAURL, ClockInv, StageInv, TokenInv, Places
  <2>2. FilesInv'
    BY <1>2 DEF GetUAAURL, FilesInv, FileOf
  <2> QED
    BY <2>1, <2>2
<1>3. CASE Collect
  <2> /\ at = "made" /\ at' = "dialing_uaa" /\ spent' = 0 /\ token' = NoToken
      /\ replies' = replies /\ files' = files
    BY <1>3 DEF Collect, StartDo, PlaceAfter
  <2>1. ClockInv' /\ TokenInv'
    BY Times DEF ClockInv, TokenInv, Places
  <2>2. replies = <<>> /\ Len(replies) = 0
    BY EmptySeq DEF StageInv
  <2>3. StageInv' /\ FilesInv'
    BY <2>2 DEF StageInv, FilesInv, FileOf
  <2> QED
    BY <2>1, <2>3
<1> QED
  BY <1>1, <1>2, <1>3

(* The token is new when it is made, and comes along unchanged.            *)
LEMMA TokenStepsKeepIInv == IInv /\ (IssueToken \/ TokenArrives) => IInv'
<1> SUFFICES ASSUME IInv, IssueToken \/ TokenArrives, ~Fail PROVE IInv'
  BY FailKeepsIInv
<1> USE DEF IInv
<1>1. CASE IssueToken
  BY <1>1, Times
  DEF IssueToken, ClockInv, StageInv, TokenInv, FilesInv, FileOf
<1>2. CASE TokenArrives
  BY <1>2
  DEF TokenArrives, ClockInv, StageInv, TokenInv, FilesInv, FileOf, Places
<1> QED
  BY <1>1, <1>2

(* A reply is appended behind those the files were made of.                *)
LEMMA ReplyKeepsIInv == IInv /\ UsageServiceReplies => IInv'
<1> SUFFICES ASSUME IInv, UsageServiceReplies PROVE IInv'
  OBVIOUS
<1> USE DEF IInv, UsageServiceReplies
<1>1. PICK reply \in Reply : replies' = Append(replies, reply)
  OBVIOUS
<1>2. /\ Len(replies') = Len(replies) + 1
      /\ \A n \in 1..Len(replies) : replies'[n] = replies[n]
  BY <1>1 DEF StageInv
<1>3. ClockInv' /\ TokenInv'
  BY DEF ClockInv, TokenInv, Places
<1>4. StageInv'
  BY <1>1, <1>2 DEF StageInv
<1>5. FilesInv'
  BY <1>2 DEF FilesInv, FileOf, StageInv
<1> QED
  BY <1>3, <1>4, <1>5

(* A usable reply gives one more file; another one is a failure.           *)
LEMMA ReadBodyKeepsIInv == IInv /\ ReadBody => IInv'
<1> SUFFICES ASSUME IInv, ReadBody, ~Fail PROVE IInv'
  BY FailKeepsIInv
<1> DEFINE n == Len(replies)
<1> USE DEF IInv
<1>1. /\ at = "body" /\ n \in 1..3 /\ Len(files) = n - 1
      /\ Usable(Reports[n], replies[n])
      /\ files' = Append(files, FileOf(n))
      /\ StartDo(n) /\ replies' = replies
  BY DEF ReadBody, StageInv, FilesInv, FileOf, Last
<1>2. FileOf(n) \in File
  <2>1. Reports[n] \in {"app_usages", "service_usages", "task_usages"}
    BY <1>1 DEF Reports
  <2>2. replies[n] \in Reply
    BY <1>1 DEF StageInv
  <2>3. replies[n].body \in Bodies
    BY <2>2 DEF Reply
  <2>4. Bodies \subseteq SUBSET Pieces
    <3>1. SUBSET {"schema", "extra"} \subseteq SUBSET Pieces
      BY DEF Pieces
    <3>2. {"garbage"} \in SUBSET Pieces /\ {"cut"} \in SUBSET Pieces
      BY DEF Pieces
    <3>3. ASSUME NEW body \in Bodies PROVE body \in SUBSET Pieces
      BY <3>1, <3>2, Zenon DEF Bodies
    <3> QED
      BY <3>3
  <2>5. Redacted(Reports[n], replies[n].body) \in SUBSET Pieces
    <3>1. {"schema"} \in SUBSET Pieces /\ {"zero"} \in SUBSET Pieces
      BY DEF Pieces
    <3> QED
      BY <2>3, <2>4, <3>1, Zenon DEF Redacted
  <2> QED
    BY <2>1, <2>5 DEF FileOf, DataOf, File
<1>3. /\ Len(files') = n
      /\ \A i \in 1..n - 1 : files'[i] = files[i]
      /\ files'[n] = FileOf(n)
      /\ files' \in Seq(File)
  BY <1>1, <1>2 DEF FilesInv
<1>4. /\ \/ at' = "dialing_uaa" /\ n < 3
         \/ at' = "collected" /\ n = 3
      /\ spent' = 0 /\ token' = NoToken
  <2>1. at' = PlaceAfter(n) /\ spent' = 0 /\ token' = NoToken
    BY <1>1 DEF StartDo
  <2>2. CASE n < 3
    BY <2>1, <2>2 DEF PlaceAfter
  <2>3. CASE n = 3
    BY <2>1, <2>3 DEF PlaceAfter
  <2> QED
    BY <1>1, <2>2, <2>3
<1>5. ClockInv' /\ StageInv' /\ TokenInv'
  <2>1. ClockInv' /\ TokenInv'
    BY <1>4, Times DEF ClockInv, TokenInv, Places
  <2>2. replies' \in Seq(Reply) /\ Len(replies') = n
    BY <1>1 DEF StageInv
  <2>3. StageInv'
    BY <1>1, <1>4, <2>2 DEF StageInv
  <2> QED
    BY <2>1, <2>3
<1>6. at' # "body" /\ at' # "failed"
  BY <1>4
<1>7. FilesInv'
  <2>1. \A i \in 1..n : Usable(Reports[i], replies[i]) /\ files'[i] = FileOf(i)
    BY <1>1, <1>3 DEF FilesInv
  <2> QED
    BY <1>1, <1>3, <1>6, <2>1 DEF FilesInv, FileOf
<1> QED
  BY <1>5, <1>7

(* IInv is inductive.                                                      *)
LEMMA NextKeepsIInv == IInv /\ [Next]_vars => IInv'
<1> SUFFICES ASSUME IInv, [Next]_vars PROVE IInv'
  OBVIOUS
<1>1. CASE ConnectionBreaks \/ RequestTimesOut
  BY <1>1, FailKeepsIInv DEF ConnectionBreaks, RequestTimesOut
<1>2. CASE UNCHANGED vars
  BY <1>2
  DEF vars, IInv, ClockInv, StageInv, TokenInv, FilesInv, FileOf
<1> QED
  BY <1>1, <1>2, TickKeepsIInv, EarlyStepsKeepIInv, TokenStepsKeepIInv,
     ReplyKeepsIInv, ReadBodyKeepsIInv
  DEF Next

(* Every reachable state satisfies IInv.                                   *)
LEMMA Invariance == Spec => []IInv
  BY InitEstablishesIInv, NextKeepsIInv, PTL DEF Spec

-----------------------------------------------------------------------------
(* The variables keep their types, and there is a file for each reply that *)
(* was read.                                                               *)
THEOREM TypeCorrect == Spec => []TypeOK
<1>1. IInv => TypeOK
  <2> SUFFICES ASSUME IInv PROVE TypeOK
    OBVIOUS
  <2>1. replies \in [1..Len(replies) -> Reply] /\ Len(replies) \in 0..3
    BY LenProperties DEF IInv, StageInv
  <2>2. replies \in UNION {[1..n -> Reply] : n \in 0..3}
    BY <2>1 DEF IInv, StageInv
  <2> QED
    BY <2>2 DEF TypeOK, IInv, ClockInv, StageInv, TokenInv, FilesInv
<1> QED
  BY <1>1, Invariance, PTL

(* Collect returns all three reports, each of a usable reply, or none.     *)
THEOREM CollectsAllOrNothing == Spec => []AllOrNothing
<1>1. IInv => AllOrNothing
  <2> SUFFICES ASSUME IInv PROVE AllOrNothing
    OBVIOUS
  <2>1. at = "failed" => files = <<>>
    BY DEF IInv, FilesInv
  <2>2. ASSUME at = "collected", NEW n \in 1..3
        PROVE  /\ Len(files) = 3
               /\ files[n].type = Reports[n]
               /\ replies[n].ok /\ "cut" \notin replies[n].body
               /\ n # 2 => files[n].body = replies[n].body
               /\ n = 2 => /\ files[n].body \subseteq {"schema", "zero"}
                           /\ "schema" \in files[n].body <=>
                                "schema" \in replies[n].body
    <3>1. Len(files) = 3
      BY <2>2 DEF IInv, FilesInv, StageInv
    <3>2. Usable(Reports[n], replies[n]) /\ files[n] = FileOf(n)
      BY <2>2, <3>1 DEF IInv, FilesInv
    <3>3. replies[n] \in Reply
      BY <2>2 DEF IInv, StageInv
    <3>4. replies[n].body \in Bodies /\ replies[n].body # {"cut"}
      BY <3>2, <3>3 DEF Usable, Reply
    <3>5. "cut" \notin replies[n].body
      <4>1. CASE replies[n].body \in SUBSET {"schema", "extra"}
        <5>1. \A x \in replies[n].body : x \in {"schema", "extra"}
          BY <4>1
        <5> QED
          BY <5>1
      <4>2. CASE replies[n].body = {"garbage"}
        <5>1. \A x \in replies[n].body : x = "garbage"
          BY <4>2
        <5> QED
          BY <5>1
      <4> QED
        BY <3>4, <4>1, <4>2 DEF Bodies
    <3>6. files[n].type = Reports[n]
          /\ files[n].body = Redacted(Reports[n], replies[n].body)
      BY <3>2 DEF FileOf, DataOf
    <3>7. n = 2 <=> Reports[n] = "service_usages"
      BY DEF Reports
    <3> QED
      BY <3>1, <3>2, <3>5, <3>6, <3>7 DEF Usable, Redacted
  <2> QED
    BY <2>1, <2>2 DEF AllOrNothing
<1> QED
  BY <1>1, Invariance, PTL

(* A request that may still be answered has a token that is good.          *)
THEOREM TokensInTime == Spec => []NoExpiredToken
<1>1. IInv => NoExpiredToken
  BY Times DEF IInv, ClockInv, TokenInv, NoExpiredToken
<1> QED
  BY <1>1, Invariance, PTL
=============================================================================
