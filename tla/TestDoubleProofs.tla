-------------------------- MODULE TestDoubleProofs --------------------------
(***************************************************************************)
(* Proofs about TestDouble, for any number of callers, inspectors, answers *)
(* and set-ups: the calls of a method and the record of them differ by the *)
(* call that holds its mutex, at most.                                     *)
(***************************************************************************)
EXTENDS TestDouble, FiniteSetTheorems, SequenceTheorems, TLAPS

Answer == Answers \cup {"stub", "zero"}
Proc == [at : {"start", "locking", "recording", "returned"}, method : Method,
         number : Numbers, answer : Answer \cup {None}]

Made == [method : Method, how : {"calls", "returns", "onCall"},
         number : Numbers, answer : Answers \cup {"stub"}]

TypeInv ==
  /\ stub \in [Method -> BOOLEAN]
  /\ returns \in [Method -> Answers \cup {"zero"}]
  /\ onCall \in [Method -> [Numbers -> Answers \cup {None}]]
  /\ setUps \in Seq(Made)
  /\ argsForCall \in [Method -> Seq(Callers)]
  /\ invocations \in [Method -> Seq(Callers)]
  /\ writer \in [Mutex -> Callers \cup {None}]
  /\ readers \in [Mutex -> SUBSET Inspectors]
  /\ proc \in [Callers \cup Inspectors -> Proc]

(* A mutex is held by the call that records, or by inspectors, who take    *)
(* the mutexes in their order.                                             *)
Called == {p \in Callers : proc[p].at \in {"recording", "returned"}}

LockInv ==
  /\ writer["invocations"] = None
  /\ \A x \in Mutex : writer[x] # None => readers[x] = {}
  /\ \A m \in Method : writer[m] # None =>
       proc[writer[m]].at = "recording" /\ proc[writer[m]].method = m
  /\ \A p \in Callers :
       proc[p].at = "recording" => writer[proc[p].method] = p
  /\ \A q \in Inspectors :
       InspectorHolds(q) \in {{}, {"invocations"}, {"invocations", "AddFile"},
                              Mutex}

(* A call has the number of its place among the calls of its method.       *)
NumberInv ==
  /\ \A m \in Method : \A i \in 1..Len(argsForCall[m]) :
       LET p == argsForCall[m][i]
       IN p \in Called /\ proc[p].method = m /\ proc[p].number = i - 1
  /\ \A p \in Called :
       /\ proc[p].number < Len(argsForCall[proc[p].method])
       /\ argsForCall[proc[p].method][proc[p].number + 1] = p

(* Only the call that holds the mutex is not recorded.                     *)
RecordInv ==
  \A m \in Method :
    argsForCall[m] = IF writer[m] = None THEN invocations[m]
                     ELSE Append(invocations[m], writer[m])

(* What the double keeps of the set-ups made: what the last of some said.  *)
LastSays(all, some, otherwise, answer) ==
  \/ some = {} /\ answer = otherwise
  \/ \E i \in some : /\ \A j \in some : j <= i
                     /\ answer = all[i].answer

SetUpInv ==
  /\ \A m \in Method :
       \E last \in Answer :
         /\ LastSays(setUps, SetUpsOf(m), "zero", last)
         /\ stub[m] <=> last = "stub"
  /\ \A m \in Method :
       LastSays(setUps, ForEveryCall(m), "zero", returns[m])
  /\ \A m \in Method : \A n \in Numbers :
       LastSays(setUps, ForCall(m, n), None, onCall[m][n])

(* Nothing is set up once a call has its answer.                           *)
AnswerInv ==
  /\ SetUpInv
  /\ \A p \in Called :
       proc[p].answer = AnswerOf(proc[p].method, proc[p].number)

IInv == TypeInv /\ LockInv /\ NumberInv /\ RecordInv /\ AnswerInv

-----------------------------------------------------------------------------
(* There is a number for every caller.                                     *)
LEMMA NumbersAreOfCallers ==
  /\ Cardinality(Callers) \in Nat \ {0}
  /\ \A n \in Nat : n < Cardinality(Callers) <=> n \in Numbers
<1>1. Cardinality(Callers) \in Nat /\ Cardinality(Callers) # 0
  BY FS_CardinalityType, FS_EmptySet, DoubleAssumption
<1> QED
  BY <1>1 DEF Numbers

(* Callers who call once each are not more than there are.                 *)
LEMMA CallsAreFew ==
  ASSUME NEW calls \in Seq(Callers),
         \A i, j \in 1..Len(calls) : calls[i] = calls[j] => i = j
  PROVE  Len(calls) <= Cardinality(Callers)
<1> DEFINE n == Len(calls)
<1>1. /\ IsFiniteSet(1..n)
      /\ Cardinality(1..n) = n
  <2>1. n \in Nat
    OBVIOUS
  <2> HIDE DEF n
  <2>2. /\ IsFiniteSet(1..n)
        /\ Cardinality(1..n) = IF 1 > n THEN 0 ELSE n - 1 + 1
    BY <2>1, FS_Interval
  <2> QED
    BY <2>1, <2>2
<1>2. calls \in [1..Len(calls) -> Callers]
  OBVIOUS
<1>3. calls \in Injection(1..Len(calls), Callers)
  BY <1>2 DEF Injection, IsInjective
<1>4. Cardinality(1..Len(calls)) <= Cardinality(Callers)
  BY <1>3, FS_Injection, DoubleAssumption
<1> QED
  BY <1>1, <1>4

(* A method that waits has called less often than there are callers.       *)
LEMMA NumberIsFree ==
  ASSUME IInv, NEW p \in Callers \ Called, NEW m \in Method
  PROVE  Len(argsForCall[m]) \in Numbers
<1> DEFINE calls == argsForCall[m]
           more == Append(calls, p)
<1>1. calls \in Seq(Callers) /\ Len(calls) \in Nat
  BY DEF IInv, TypeInv
<1>2. \A i \in 1..Len(calls) :
        calls[i] \in Called /\ proc[calls[i]].number = i - 1
  BY DEF IInv, NumberInv
<1>3. /\ more \in Seq(Callers) /\ Len(more) = Len(calls) + 1
      /\ more[Len(calls) + 1] = p
      /\ \A i \in 1..Len(calls) : more[i] = calls[i]
  BY <1>1
<1> HIDE DEF calls, more
<1>4. ASSUME NEW i \in 1..Len(more), NEW j \in 1..Len(more), more[i] = more[j]
      PROVE  i = j
  <2>1. CASE i = Len(calls) + 1 \/ j = Len(calls) + 1
    BY <1>1, <1>2, <1>3, <1>4, <2>1
  <2>2. CASE i # Len(calls) + 1 /\ j # Len(calls) + 1
    <3>1. i \in 1..Len(calls) /\ j \in 1..Len(calls)
      BY <1>1, <1>3, <2>2
    <3>2. i - 1 = j - 1
      BY <1>2, <1>3, <1>4, <3>1
    <3> QED
      BY <3>1, <3>2
  <2> QED
    BY <2>1, <2>2
<1>5. Len(more) <= Cardinality(Callers)
  BY <1>3, <1>4, CallsAreFew
<1>6. Len(calls) < Cardinality(Callers)
  BY <1>1, <1>3, <1>5, NumbersAreOfCallers
<1>7. Len(calls) \in Numbers
  BY <1>1, <1>6, NumbersAreOfCallers
<1> QED
  BY <1>7 DEF calls

(* What is answered was set up.                                            *)
LEMMA AnswersAreAnswers ==
  ASSUME TypeInv, NEW m \in Method, NEW n \in Numbers
  PROVE  AnswerOf(m, n) \in Answer
BY DoubleAssumption DEF TypeInv, AnswerOf, Answer

-----------------------------------------------------------------------------
(* Nothing is called, held or recorded.                                    *)
LEMMA InitEstablishesIInv == Init => IInv
<1> SUFFICES ASSUME Init PROVE IInv
  OBVIOUS
<1>1. <<>> \in Seq(Callers) /\ Len(<<>>) = 0
  BY EmptySeq
<1>2. 0 \in Numbers
  BY NumbersAreOfCallers
<1>3. TypeInv
  BY <1>1, <1>2 DEF Init, TypeInv, Proc, Method, Mutex, Answer
<1>4. LockInv
  BY DoubleAssumption DEF Init, LockInv, InspectorHolds, Mutex, Method
<1>5. NumberInv
  BY <1>1 DEF Init, NumberInv, Called
<1>6. RecordInv
  BY DEF Init, RecordInv, Mutex
<1>7. SetUpInv
  <2>1. \A m \in Method :
          /\ SetUpsOf(m) = {} /\ ForEveryCall(m) = {}
          /\ \A n \in Numbers : ForCall(m, n) = {}
    BY <1>1 DEF Init, SetUpsOf, ForEveryCall, ForCall
  <2>2. \A m \in Method : LastSays(setUps, SetUpsOf(m), "zero", "zero")
    BY <2>1 DEF LastSays
  <2>3. \A m \in Method : stub[m] <=> "zero" = "stub"
    BY DEF Init
  <2>4. \A m \in Method :
          /\ LastSays(setUps, ForEveryCall(m), "zero", returns[m])
          /\ \A n \in Numbers :
               LastSays(setUps, ForCall(m, n), None, onCall[m][n])
    BY <2>1 DEF Init, LastSays
  <2> QED
    BY <2>2, <2>3, <2>4 DEF SetUpInv, Answer
<1>8. AnswerInv
  BY <1>7, DoubleAssumption DEF Init, AnswerInv, Called
<1> QED
  BY <1>3, <1>4, <1>5, <1>6, <1>8 DEF IInv

(* Of some of the set-ups, the last one is the new one or stays.           *)
LEMMA LastIsNewOrStays ==
  ASSUME NEW all \in Seq(Made), NEW made \in Made,
         NEW some \in SUBSET (1..Len(all)), NEW otherwise, NEW answer,
         LastSays(all, some, otherwise, answer)
  PROVE  /\ LastSays(Append(all, made), some, otherwise, answer)
         /\ LastSays(Append(all, made), some \cup {Len(all) + 1}, otherwise,
                     made.answer)
<1> DEFINE more == Append(all, made)
<1>1. /\ Len(all) \in Nat /\ more[Len(all) + 1] = made
      /\ \A i \in 1..Len(all) : more[i] = all[i]
  OBVIOUS
<1> HIDE DEF more
<1>2. LastSays(more, some, otherwise, answer)
  BY <1>1 DEF LastSays
<1>3. LastSays(more, some \cup {Len(all) + 1}, otherwise, made.answer)
  BY <1>1 DEF LastSays
<1> QED
  BY <1>2, <1>3 DEF more

(* A set-up is one more of those it belongs to.                            *)
LEMMA SetUpsGrow ==
  ASSUME NEW made \in Made, setUps \in Seq(Made),
         setUps' = Append(setUps, made), NEW m, NEW n
  PROVE  /\ SetUpsOf(m)' = IF made.method = m
                            THEN SetUpsOf(m) \cup {Len(setUps) + 1}
                            ELSE SetUpsOf(m)
         /\ ForEveryCall(m)' = IF made.method = m /\ made.how = "returns"
                               THEN ForEveryCall(m) \cup {Len(setUps) + 1}
                               ELSE ForEveryCall(m)
         /\ ForCall(m, n)' =
              IF made.method = m /\ made.how = "onCall" /\ made.number = n
              THEN ForCall(m, n) \cup {Len(setUps) + 1}
              ELSE ForCall(m, n)
<1>1. /\ Len(setUps) \in Nat /\ Len(setUps') = Len(setUps) + 1
      /\ setUps'[Len(setUps) + 1] = made
      /\ \A i \in 1..Len(setUps) : setUps'[i] = setUps[i]
  OBVIOUS
<1>2. 1..Len(setUps') = (1..Len(setUps)) \cup {Len(setUps) + 1}
  BY <1>1
<1>3. ASSUME NEW i \in 1..Len(setUps') PROVE
        setUps'[i] = IF i = Len(setUps) + 1 THEN made ELSE setUps[i]
  BY <1>1, <1>2
<1>4. Len(setUps) + 1 \notin 1..Len(setUps)
  BY <1>1
<1> DEFINE old == 1..Len(setUps)
           new == Len(setUps) + 1
<1>5. /\ \A i \in 1..Len(setUps') : i \in old \/ i = new
      /\ \A i \in old : i # new /\ setUps'[i] = setUps[i]
      /\ \A i \in old : i \in 1..Len(setUps')
      /\ new \in 1..Len(setUps') /\ setUps'[new] = made
  BY <1>1, <1>2, <1>4
<1> HIDE DEF old, new
<1>6. SetUpsOf(m)' = IF made.method = m THEN SetUpsOf(m) \cup {new}
                     ELSE SetUpsOf(m)
  BY <1>5 DEF SetUpsOf, old
<1>7. \A i \in SetUpsOf(m) : i # new /\ setUps'[i] = setUps[i]
  BY <1>5 DEF SetUpsOf, old
<1>8. ForEveryCall(m)' = IF made.method = m /\ made.how = "returns"
                         THEN ForEveryCall(m) \cup {new} ELSE ForEveryCall(m)
  BY <1>5, <1>6, <1>7 DEF ForEveryCall
<1>9. ForCall(m, n)' =
        IF made.method = m /\ made.how = "onCall" /\ made.number = n
        THEN ForCall(m, n) \cup {new} ELSE ForCall(m, n)
  BY <1>5, <1>6, <1>7 DEF ForCall
<1> QED
  BY <1>6, <1>8, <1>9 DEF new

(* What the double keeps is still what was set up.                         *)
LEMMA SetUpKeepsSetUpInv ==
  ASSUME SetUpInv, setUps \in Seq(Made), NEW made \in Made,
         setUps' = Append(setUps, made),
         stub \in [Method -> BOOLEAN], DOMAIN returns = Method,
         onCall \in [Method -> [Numbers -> Answers \cup {None}]],
         stub' = [stub EXCEPT ![made.method] = made.answer = "stub"],
         returns' = IF made.how = "returns"
                    THEN [returns EXCEPT ![made.method] = made.answer]
                    ELSE returns,
         onCall' = IF made.how = "onCall"
                   THEN [onCall EXCEPT ![made.method][made.number] = made.answer]
                   ELSE onCall
  PROVE  SetUpInv'
<1>1. /\ \A m : SetUpsOf(m) \in SUBSET (1..Len(setUps))
      /\ \A m : ForEveryCall(m) \in SUBSET (1..Len(setUps))
      /\ \A m, n : ForCall(m, n) \in SUBSET (1..Len(setUps))
  BY DEF SetUpsOf, ForEveryCall, ForCall
<1>2. ASSUME NEW m \in Method
      PROVE  \E last \in Answer :
               /\ LastSays(setUps', SetUpsOf(m)', "zero", last)
               /\ stub'[m] <=> last = "stub"
  <2>1. PICK last \in Answer :
          /\ LastSays(setUps, SetUpsOf(m), "zero", last)
          /\ stub[m] <=> last = "stub"
    BY DEF SetUpInv
  <2>2. CASE made.method = m
    <3>1. LastSays(setUps', SetUpsOf(m) \cup {Len(setUps) + 1}, "zero",
                   made.answer)
      BY <1>1, <2>1, LastIsNewOrStays
    <3>2. SetUpsOf(m)' = SetUpsOf(m) \cup {Len(setUps) + 1}
      BY <2>2, SetUpsGrow
    <3>3. stub'[m] <=> made.answer = "stub"
      BY <2>2
    <3>4. made.answer \in Answer
      BY DEF Made, Answer
    <3> QED
      BY <3>1, <3>2, <3>3, <3>4
  <2>3. CASE made.method # m
    <3>1. LastSays(setUps', SetUpsOf(m), "zero", last)
      BY <1>1, <2>1, LastIsNewOrStays
    <3>2. SetUpsOf(m)' = SetUpsOf(m)
      BY <2>3, SetUpsGrow
    <3>3. stub'[m] <=> last = "stub"
      BY <2>1, <2>3
    <3> QED
      BY <3>1, <3>2, <3>3
  <2> QED
    BY <2>2, <2>3
<1>3. ASSUME NEW m \in Method
      PROVE  LastSays(setUps', ForEveryCall(m)', "zero", returns'[m])
  <2>1. LastSays(setUps, ForEveryCall(m), "zero", returns[m])
    BY DEF SetUpInv
  <2>2. CASE made.method = m /\ made.how = "returns"
    <3>1. LastSays(setUps', ForEveryCall(m) \cup {Len(setUps) + 1}, "zero",
                   made.answer)
      BY <1>1, <2>1, LastIsNewOrStays
    <3>2. ForEveryCall(m)' = ForEveryCall(m) \cup {Len(setUps) + 1}
      BY <2>2, SetUpsGrow
    <3>3. returns'[m] = made.answer
      BY <2>2
    <3> QED
      BY <3>1, <3>2, <3>3
  <2>3. CASE ~(made.method = m /\ made.how = "returns")
    <3>1. LastSays(setUps', ForEveryCall(m), "zero", returns[m])
      BY <1>1, <2>1, LastIsNewOrStays
    <3>2. ForEveryCall(m)' = ForEveryCall(m)
      BY <2>3, SetUpsGrow
    <3>3. returns'[m] = returns[m]
      BY <2>3
    <3> QED
      BY <3>1, <3>2, <3>3
  <2> QED
    BY <2>2, <2>3
<1>4. ASSUME NEW m \in Method, NEW n \in Numbers
      PROVE  LastSays(setUps', ForCall(m, n)', None, onCall'[m][n])
  <2>1. LastSays(setUps, ForCall(m, n), None, onCall[m][n])
    BY DEF SetUpInv
  <2>2. CASE made.method = m /\ made.how = "onCall" /\ made.number = n
    <3>1. LastSays(setUps', ForCall(m, n) \cup {Len(setUps) + 1}, None,
                   made.answer)
      BY <1>1, <2>1, LastIsNewOrStays
    <3>2. ForCall(m, n)' = ForCall(m, n) \cup {Len(setUps) + 1}
      BY <2>2, SetUpsGrow
    <3>3. onCall'[m][n] = made.answer
      BY <2>2
    <3> QED
      BY <3>1, <3>2, <3>3
  <2>3. CASE ~(made.method = m /\ made.how = "onCall" /\ made.number = n)
    <3>1. LastSays(setUps', ForCall(m, n), None, onCall[m][n])
      BY <1>1, <2>1, LastIsNewOrStays
    <3>2. ForCall(m, n)' = ForCall(m, n)
      BY <2>3, SetUpsGrow
    <3>3. onCall'[m][n] = onCall[m][n]
      BY <2>3 DEF Made
    <3> QED
      BY <3>1, <3>2, <3>3
  <2> QED
    BY <2>2, <2>3
<1>5. \A m \in Method : \A n \in Numbers :
        LastSays(setUps', ForCall(m, n)', None, onCall'[m][n])
  BY <1>4
<1> QED
  BY <1>2, <1>3, <1>5 DEF SetUpInv

(* A set-up comes before every call.                                       *)
LEMMA SetUpKeepsIInv ==
  ASSUME IInv, NEW m \in Method,
         \/ Calls(m)
         \/ \E answer \in Answers :
              \/ Returns(m, answer)
              \/ \E n \in Numbers : ReturnsOnCall(m, n, answer)
  PROVE  IInv'
<1>1. PICK how \in {"calls", "returns", "onCall"}, n \in Numbers,
           answer \in Answers \cup {"stub"} :
        /\ SetUp(m, how, n, answer)
        /\ how = "calls" <=> answer = "stub"
        /\ stub' = [stub EXCEPT ![m] = how = "calls"]
        /\ returns' = IF how = "returns" THEN [returns EXCEPT ![m] = answer]
                      ELSE returns
        /\ onCall' = IF how = "onCall" THEN [onCall EXCEPT ![m][n] = answer]
                     ELSE onCall
  <2>1. CASE Calls(m)
    <3>1. 0 \in Numbers
      BY NumbersAreOfCallers
    <3> QED
      BY <2>1, <3>1 DEF Calls
  <2>2. ASSUME NEW answer \in Answers, Returns(m, answer)
        PROVE  /\ SetUp(m, "returns", 0, answer) /\ answer # "stub"
               /\ stub' = [stub EXCEPT ![m] = FALSE]
               /\ returns' = [returns EXCEPT ![m] = answer]
               /\ onCall' = onCall /\ 0 \in Numbers
    BY <2>2, DoubleAssumption, NumbersAreOfCallers DEF Returns
  <2>3. ASSUME NEW answer \in Answers, NEW n \in Numbers,
               ReturnsOnCall(m, n, answer)
        PROVE  /\ SetUp(m, "onCall", n, answer) /\ answer # "stub"
               /\ stub' = [stub EXCEPT ![m] = FALSE]
               /\ returns' = returns
               /\ onCall' = [onCall EXCEPT ![m][n] = answer]
    BY <2>3, DoubleAssumption DEF ReturnsOnCall
  <2> QED
    BY <2>1, <2>2, <2>3
<1> DEFINE made == [method |-> m, how |-> how, number |-> n, answer |-> answer]
<1>2. /\ UNCHANGED <<argsForCall, invocations, writer, readers, proc>>
      /\ setUps' = Append(setUps, made)
      /\ \A p \in Callers \cup Inspectors : proc[p].at = "start"
  BY <1>1 DEF SetUp, IInv, TypeInv
<1>3. made \in Made /\ setUps' \in Seq(Made)
  BY <1>1, <1>2 DEF Made, IInv, TypeInv
<1>4. /\ returns' \in [Method -> Answers \cup {"zero"}]
      /\ onCall' \in [Method -> [Numbers -> Answers \cup {None}]]
      /\ stub' \in [Method -> BOOLEAN]
  <2>1. how # "calls" => answer \in Answers
    BY <1>1
  <2> QED
    BY <1>1, <2>1 DEF IInv, TypeInv
<1>5. TypeInv'
  BY <1>2, <1>3, <1>4 DEF IInv, TypeInv
<1>6. LockInv' /\ NumberInv' /\ RecordInv'
  BY <1>2 DEF IInv, LockInv, NumberInv, RecordInv, Called, InspectorHolds
<1>7. SetUpInv'
  <2>1. /\ made.method = m /\ made.how = how /\ made.number = n
        /\ made.answer = answer
    OBVIOUS
  <2>2. setUps \in Seq(Made) /\ SetUpInv /\ stub \in [Method -> BOOLEAN]
        /\ DOMAIN returns = Method
        /\ onCall \in [Method -> [Numbers -> Answers \cup {None}]]
    BY DEF IInv, TypeInv, AnswerInv
  <2>3. stub' = [stub EXCEPT ![m] = answer = "stub"]
    BY <1>1, <2>2
  <2> HIDE DEF made
  <2> QED
    BY <1>1, <1>2, <1>3, <2>1, <2>2, <2>3, SetUpKeepsSetUpInv
<1>8. AnswerInv'
  BY <1>2, <1>7 DEF AnswerInv, Called
<1> QED
  BY <1>5, <1>6, <1>8 DEF IInv

(* Calls that were made keep their numbers and answers.                    *)
LEMMA SameCallsKeepTheirs ==
  ASSUME NumberInv, AnswerInv, UNCHANGED <<config, argsForCall>>,
         Called' = Called,
         \A q \in Called : /\ proc'[q].method = proc[q].method
                           /\ proc'[q].number = proc[q].number
                           /\ proc'[q].answer = proc[q].answer
  PROVE  NumberInv' /\ AnswerInv'
<1>1. argsForCall' = argsForCall /\ UNCHANGED <<stub, returns, onCall, setUps>>
  BY DEF config
<1>2. \A x \in Method : \A i \in 1..Len(argsForCall'[x]) :
        /\ argsForCall'[x][i] \in Called'
        /\ proc'[argsForCall'[x][i]].method = x
        /\ proc'[argsForCall'[x][i]].number = i - 1
  <2>1. \A x \in Method : \A i \in 1..Len(argsForCall[x]) :
          /\ argsForCall[x][i] \in Called
          /\ proc[argsForCall[x][i]].method = x
          /\ proc[argsForCall[x][i]].number = i - 1
    BY DEF NumberInv
  <2> QED
    BY <1>1, <2>1
<1>3. \A q \in Called' :
        /\ proc'[q].number < Len(argsForCall'[proc'[q].method])
        /\ argsForCall'[proc'[q].method][proc'[q].number + 1] = q
  <2>1. \A q \in Called :
          /\ proc[q].number < Len(argsForCall[proc[q].method])
          /\ argsForCall[proc[q].method][proc[q].number + 1] = q
    BY DEF NumberInv
  <2> QED
    BY <1>1, <2>1
<1>4. \A q \in Called' :
        proc'[q].answer = AnswerOf(proc[q].method, proc[q].number)'
  <2>1. \A q \in Called :
          proc[q].answer = AnswerOf(proc[q].method, proc[q].number)
    BY DEF AnswerInv
  <2> QED
    BY <1>1, <2>1 DEF AnswerOf
<1>5. SetUpInv'
  BY <1>1 DEF AnswerInv, SetUpInv, SetUpsOf, ForEveryCall, ForCall
<1> QED
  BY <1>2, <1>3, <1>4, <1>5 DEF NumberInv, AnswerInv

(* A caller goes to the mutex.                                             *)
LEMMA CallKeepsIInv ==
  ASSUME IInv, NEW p \in Callers, NEW m \in Method, Call(p, m) PROVE IInv'
<1>1. /\ proc[p].at = "start"
      /\ proc' = [proc EXCEPT ![p].at = "locking", ![p].method = m]
      /\ UNCHANGED <<config, argsForCall, invocations, writer, readers>>
  BY DEF Call
<1>2. /\ proc'[p].at = "locking"
      /\ \A q \in (Callers \cup Inspectors) \ {p} : proc'[q] = proc[q]
      /\ proc' \in [Callers \cup Inspectors -> Proc]
  BY <1>1 DEF IInv, TypeInv, Proc
<1>3. TypeInv'
  BY <1>1, <1>2 DEF IInv, TypeInv, config
<1>4. LockInv'
  <2>1. \A x \in Method : writer[x] # None =>
          writer[x] \in Callers \ {p}
    BY <1>1 DEF IInv, TypeInv, LockInv, Mutex
  <2>2. \A q \in Inspectors : InspectorHolds(q)' = InspectorHolds(q)
    BY <1>1 DEF InspectorHolds
  <2> QED
    BY <1>1, <1>2, <2>1, <2>2 DEF IInv, LockInv
<1>5. Called' = Called /\ \A q \in Called : proc'[q] = proc[q]
  BY <1>1, <1>2 DEF Called
<1>6. RecordInv'
  BY <1>1 DEF IInv, RecordInv
<1>7. NumberInv' /\ AnswerInv'
  BY <1>1, <1>5, SameCallsKeepTheirs DEF IInv
<1> QED
  BY <1>3, <1>4, <1>6, <1>7 DEF IInv

(* A call takes the next number and the mutex, and is not recorded yet.    *)
LEMMA LockKeepsIInv ==
  ASSUME IInv, NEW p \in Callers, LockMethod(p) PROVE IInv'
<1> DEFINE m == proc[p].method
           n == Len(argsForCall[m])
<1>1. /\ proc[p].at = "locking" /\ writer[m] = None /\ readers[m] = {}
      /\ writer' = [writer EXCEPT ![m] = p]
      /\ argsForCall' = [argsForCall EXCEPT ![m] = Append(argsForCall[m], p)]
      /\ proc' = [proc EXCEPT ![p].at = "recording", ![p].number = n,
                              ![p].answer = AnswerOf(m, n)]
      /\ UNCHANGED <<config, invocations, readers>>
  BY DEF LockMethod, CanLock
<1>2. m \in Method /\ p \in Callers \cup Inspectors
  BY DEF IInv, TypeInv, Proc
<1>3. n \in Numbers /\ AnswerOf(m, n) \in Answer
  BY <1>1, <1>2, NumberIsFree, AnswersAreAnswers DEF IInv, Called
<1>4. /\ proc'[p].at = "recording" /\ proc'[p].method = m
      /\ proc'[p].number = n /\ proc'[p].answer = AnswerOf(m, n)
      /\ \A q \in (Callers \cup Inspectors) \ {p} : proc'[q] = proc[q]
      /\ proc' \in [Callers \cup Inspectors -> Proc]
  <2> DEFINE r == [proc[p] EXCEPT !.at = "recording", !.number = n,
                                  !.answer = AnswerOf(m, n)]
  <2>1. proc[p] \in Proc
    BY DEF IInv, TypeInv
  <2>2. r \in Proc /\ r.at = "recording" /\ r.method = m /\ r.number = n
        /\ r.answer = AnswerOf(m, n)
    BY <1>2, <1>3, <2>1 DEF Proc
  <2>3. proc' = [proc EXCEPT ![p] = r]
    BY <1>1, <2>1 DEF IInv, TypeInv, Proc
  <2> HIDE DEF r
  <2> QED
    BY <2>2, <2>3 DEF IInv, TypeInv
<1>5. /\ argsForCall'[m] = Append(argsForCall[m], p)
      /\ argsForCall' \in [Method -> Seq(Callers)]
      /\ \A x \in Method \ {m} : argsForCall'[x] = argsForCall[x]
  BY <1>1, <1>2 DEF IInv, TypeInv
<1>6. /\ argsForCall[m] \in Seq(Callers) /\ n \in Nat
      /\ Len(argsForCall'[m]) = n + 1 /\ argsForCall'[m][n + 1] = p
      /\ \A i \in 1..n : argsForCall'[m][i] = argsForCall[m][i]
  BY <1>2, <1>5 DEF IInv, TypeInv
<1>7. /\ writer'[m] = p /\ \A x \in Mutex \ {m} : writer'[x] = writer[x]
      /\ writer' \in [Mutex -> Callers \cup {None}]
  BY <1>1, <1>2 DEF IInv, TypeInv, Mutex
<1> HIDE DEF m, n
<1>8. TypeInv'
  BY <1>1, <1>4, <1>5, <1>7 DEF IInv, TypeInv, config
<1>9. LockInv'
  <2>1. writer'["invocations"] = None
    BY <1>2, <1>7 DEF IInv, LockInv, Mutex, Method
  <2>2. \A x \in Mutex : writer'[x] # None => readers'[x] = {}
    BY <1>1, <1>7 DEF IInv, LockInv
  <2>3. ASSUME NEW x \in Method, writer'[x] # None
        PROVE  /\ proc'[writer'[x]].at = "recording"
               /\ proc'[writer'[x]].method = x
    BY <1>1, <1>4, <1>7, <2>3 DEF IInv, TypeInv, LockInv, Mutex
  <2>4. ASSUME NEW q \in Callers, proc'[q].at = "recording"
        PROVE  writer'[proc'[q].method] = q
    <3>1. CASE q = p
      BY <1>4, <1>7, <3>1
    <3>2. CASE q # p
      <4>1. writer[proc[q].method] = q /\ proc[q].method \in Method
        BY <1>4, <2>4, <3>2 DEF IInv, TypeInv, Proc, LockInv
      <4> QED
        BY <1>1, <1>4, <1>7, <3>2, <4>1, DoubleAssumption DEF Mutex
    <3> QED
      BY <3>1, <3>2
  <2>5. \A q \in Inspectors : InspectorHolds(q)' = InspectorHolds(q)
    BY <1>1 DEF InspectorHolds
  <2> QED
    BY <2>1, <2>2, <2>3, <2>4, <2>5 DEF IInv, LockInv
<1>10. NumberInv'
  <2>1. ASSUME NEW x \in Method, NEW i \in 1..Len(argsForCall'[x])
        PROVE  LET q == argsForCall'[x][i]
               IN /\ q \in Called' /\ proc'[q].method = x
                  /\ proc'[q].number = i - 1
    <3>1. CASE x = m /\ i = n + 1
      BY <1>4, <1>6, <3>1 DEF Called
    <3>2. CASE x # m \/ i # n + 1
      <4>1. /\ i \in 1..Len(argsForCall[x])
            /\ argsForCall'[x][i] = argsForCall[x][i]
        BY <1>5, <1>6, <2>1, <3>2 DEF n
      <4>2. /\ argsForCall[x][i] \in Called
            /\ proc[argsForCall[x][i]].method = x
            /\ proc[argsForCall[x][i]].number = i - 1
        BY <4>1 DEF IInv, NumberInv
      <4>3. argsForCall[x][i] # p
        BY <1>1, <4>2 DEF Called
      <4> QED
        BY <1>4, <4>1, <4>2, <4>3 DEF Called
    <3> QED
      BY <3>1, <3>2
  <2>2. ASSUME NEW q \in Called'
        PROVE  /\ proc'[q].number < Len(argsForCall'[proc'[q].method])
               /\ argsForCall'[proc'[q].method][proc'[q].number + 1] = q
    <3>1. CASE q = p
      BY <1>4, <1>6, <3>1
    <3>2. CASE q # p
      <4>1. /\ proc'[q] = proc[q] /\ q \in Called
            /\ proc[q].method \in Method /\ proc[q].number \in Nat
        BY <1>4, <2>2, <3>2, NumbersAreOfCallers
        DEF Called, IInv, TypeInv, Proc, Numbers
      <4>2. /\ proc[q].number < Len(argsForCall[proc[q].method])
            /\ argsForCall[proc[q].method][proc[q].number + 1] = q
        BY <4>1 DEF IInv, NumberInv
      <4>3. CASE proc[q].method = m
        BY <1>6, <4>1, <4>2, <4>3 DEF n
      <4>4. CASE proc[q].method # m
        BY <1>5, <4>1, <4>2, <4>4
      <4> QED
        BY <4>3, <4>4
    <3> QED
      BY <3>1, <3>2
  <2> QED
    BY <2>1, <2>2 DEF NumberInv
<1>11. RecordInv'
  <2>1. argsForCall[m] = invocations[m]
    BY <1>1, <1>2 DEF IInv, RecordInv
  <2>2. p # None
    BY DoubleAssumption
  <2> QED
    BY <1>1, <1>5, <1>7, <2>1, <2>2 DEF IInv, RecordInv, Mutex
<1>12. AnswerInv'
  <2>1. \A x \in Method, i \in Numbers : AnswerOf(x, i)' = AnswerOf(x, i)
    BY <1>1 DEF AnswerOf, config
  <2>2. SetUpInv'
    BY <1>1
    DEF IInv, AnswerInv, SetUpInv, SetUpsOf, ForEveryCall, ForCall, config
  <2>3. ASSUME NEW q \in Called'
        PROVE  proc'[q].answer = AnswerOf(proc[q].method, proc[q].number)'
    <3>1. CASE q = p
      BY <1>1, <1>4, <3>1 DEF AnswerOf, config
    <3>2. CASE q # p
      BY <1>1, <1>4, <2>3, <3>2 DEF IInv, AnswerInv, Called, AnswerOf, config
    <3> QED
      BY <3>1, <3>2
  <2> QED
    BY <2>2, <2>3 DEF AnswerInv
<1> QED
  BY <1>8, <1>9, <1>10, <1>11, <1>12 DEF IInv

(* The call is recorded, and its method's mutex free.                      *)
LEMMA RecordKeepsIInv ==
  ASSUME IInv, NEW p \in Callers, Record(p) PROVE IInv'
<1> DEFINE m == proc[p].method
<1>1. /\ proc[p].at = "recording"
      /\ invocations' =
           [invocations EXCEPT ![m] = Append(invocations[m], p)]
      /\ writer' = [writer EXCEPT ![m] = None]
      /\ proc' = [proc EXCEPT ![p].at = "returned"]
      /\ UNCHANGED <<config, argsForCall, readers>>
  BY DEF Record, Go
<1>2. m \in Method /\ writer[m] = p
  BY <1>1 DEF IInv, TypeInv, Proc, LockInv
<1>3. /\ proc' \in [Callers \cup Inspectors -> Proc]
      /\ proc'[p].at = "returned"
      /\ \A q \in (Callers \cup Inspectors) \ {p} : proc'[q] = proc[q]
      /\ \A q \in Called : /\ proc'[q].method = proc[q].method
                           /\ proc'[q].number = proc[q].number
                           /\ proc'[q].answer = proc[q].answer
  BY <1>1 DEF IInv, TypeInv, Proc, Called
<1>4. Called' = Called
  BY <1>1, <1>3 DEF Called
<1>5. /\ invocations' \in [Method -> Seq(Callers)]
      /\ invocations'[m] = Append(invocations[m], p)
      /\ \A x \in Method \ {m} : invocations'[x] = invocations[x]
  BY <1>1, <1>2 DEF IInv, TypeInv
<1>6. /\ writer'[m] = None /\ \A x \in Mutex \ {m} : writer'[x] = writer[x]
      /\ writer' \in [Mutex -> Callers \cup {None}]
  BY <1>1, <1>2 DEF IInv, TypeInv, Mutex
<1> HIDE DEF m
<1>7. TypeInv'
  BY <1>1, <1>3, <1>5, <1>6 DEF IInv, TypeInv, config
<1>8. LockInv'
  <2>1. writer'["invocations"] = None
    BY <1>2, <1>6 DEF IInv, LockInv, Mutex, Method
  <2>2. \A x \in Mutex : writer'[x] # None => readers'[x] = {}
    BY <1>1, <1>6 DEF IInv, LockInv
  <2>3. ASSUME NEW x \in Method, writer'[x] # None
        PROVE  /\ proc'[writer'[x]].at = "recording"
               /\ proc'[writer'[x]].method = x
    <3>1. x # m /\ writer'[x] = writer[x] /\ writer[x] \in Callers
      BY <1>6, <2>3 DEF IInv, TypeInv, Mutex
    <3>2. proc[writer[x]].at = "recording" /\ proc[writer[x]].method = x
      BY <2>3, <3>1 DEF IInv, LockInv
    <3>3. writer[x] # p
      BY <3>1, <3>2 DEF m
    <3> QED
      BY <1>3, <3>1, <3>2, <3>3
  <2>4. ASSUME NEW q \in Callers, proc'[q].at = "recording"
        PROVE  writer'[proc'[q].method] = q
    <3>1. q # p /\ proc'[q] = proc[q]
      BY <1>3, <2>4
    <3>2. writer[proc[q].method] = q /\ proc[q].method \in Method
      BY <2>4, <3>1 DEF IInv, TypeInv, Proc, LockInv
    <3>3. proc[q].method # m
      BY <1>2, <3>1, <3>2
    <3> QED
      BY <1>6, <3>1, <3>2, <3>3 DEF Mutex
  <2>5. \A q \in Inspectors : InspectorHolds(q)' = InspectorHolds(q)
    BY <1>1 DEF InspectorHolds
  <2> QED
    BY <2>1, <2>2, <2>3, <2>4, <2>5 DEF IInv, LockInv
<1>9. NumberInv' /\ AnswerInv'
  BY <1>1, <1>3, <1>4, SameCallsKeepTheirs DEF IInv
<1>10. RecordInv'
  <2>1. argsForCall[m] = Append(invocations[m], p)
    BY <1>2, DoubleAssumption DEF IInv, RecordInv
  <2> QED
    BY <1>1, <1>5, <1>6, <2>1 DEF IInv, RecordInv, Mutex
<1> QED
  BY <1>7, <1>8, <1>9, <1>10 DEF IInv

(* How many mutexes an inspector holds.                                    *)
LEMMA HeldAreCounted ==
  /\ Cardinality({"invocations"}) = 1
  /\ Cardinality({"invocations", "AddFile"}) = 2
<1>1. /\ IsFiniteSet({"invocations"}) /\ Cardinality({"invocations"}) = 1
  BY FS_Singleton
<1>2. Cardinality({"invocations"} \cup {"AddFile"}) = 1 + 1
  BY <1>1, FS_AddElement
<1>3. {"invocations"} \cup {"AddFile"} = {"invocations", "AddFile"}
  OBVIOUS
<1> QED
  BY <1>1, <1>2, <1>3

(* An inspector takes the next mutex, which no call holds.                 *)
LEMMA RLockKeepsIInv ==
  ASSUME IInv, NEW q \in Inspectors, RLockNext(q) PROVE IInv'
<1> DEFINE x == NextLock(q)
<1>1. /\ InspectorHolds(q) # Mutex /\ writer[x] = None
      /\ readers' = [readers EXCEPT ![x] = readers[x] \cup {q}]
      /\ UNCHANGED <<config, argsForCall, invocations, writer, proc>>
  BY DEF RLockNext, CanRLock
<1>2. \/ InspectorHolds(q) = {} /\ x = "invocations"
      \/ InspectorHolds(q) = {"invocations"} /\ x = "AddFile"
      \/ InspectorHolds(q) = {"invocations", "AddFile"} /\ x = "Close"
  <2>1. InspectorHolds(q) \in {{}, {"invocations"}, {"invocations", "AddFile"}}
    BY <1>1 DEF IInv, LockInv
  <2> QED
    BY <2>1, HeldAreCounted DEF NextLock, Methods
<1>3. x \in Mutex
  BY <1>2 DEF Mutex, Method
<1> HIDE DEF x
<1>4. /\ readers' \in [Mutex -> SUBSET Inspectors]
      /\ readers'[x] = readers[x] \cup {q}
      /\ \A y \in Mutex \ {x} : readers'[y] = readers[y]
  BY <1>1, <1>3 DEF IInv, TypeInv
<1>5. TypeInv'
  BY <1>1, <1>4 DEF IInv, TypeInv, config
<1>6. InspectorHolds(q)' = InspectorHolds(q) \cup {x}
  BY <1>3, <1>4 DEF InspectorHolds
<1>7. \A r \in Inspectors \ {q} : InspectorHolds(r)' = InspectorHolds(r)
  BY <1>3, <1>4 DEF InspectorHolds
<1>8. LockInv'
  <2>1. InspectorHolds(q)' \in
          {{}, {"invocations"}, {"invocations", "AddFile"}, Mutex}
    BY <1>2, <1>6 DEF Mutex, Method
  <2>2. \A y \in Mutex : writer'[y] # None => readers'[y] = {}
    BY <1>1, <1>4 DEF IInv, LockInv
  <2> QED
    BY <1>1, <1>7, <2>1, <2>2 DEF IInv, LockInv
<1>9. NumberInv' /\ AnswerInv'
  BY <1>1, SameCallsKeepTheirs DEF IInv, Called
<1>10. RecordInv'
  BY <1>1 DEF IInv, RecordInv
<1> QED
  BY <1>5, <1>8, <1>9, <1>10 DEF IInv

(* An inspector has its copy and releases the mutexes.                     *)
LEMMA CopyKeepsIInv ==
  ASSUME IInv, NEW q \in Inspectors, CopyInvocations(q) PROVE IInv'
<1>1. /\ proc' = [proc EXCEPT ![q].at = "returned"]
      /\ readers' = [x \in Mutex |-> readers[x] \ {q}]
      /\ UNCHANGED <<config, argsForCall, invocations, writer>>
  BY DEF CopyInvocations, Go
<1>2. /\ proc' \in [Callers \cup Inspectors -> Proc]
      /\ \A p \in Callers : proc'[p] = proc[p]
  BY <1>1, DoubleAssumption DEF IInv, TypeInv, Proc
<1>3. TypeInv'
  BY <1>1, <1>2 DEF IInv, TypeInv, config
<1>4. InspectorHolds(q)' = {}
  BY <1>1 DEF InspectorHolds
<1>5. \A r \in Inspectors \ {q} : InspectorHolds(r)' = InspectorHolds(r)
  BY <1>1 DEF InspectorHolds
<1>6. LockInv'
  <2>1. \A m \in Method : writer[m] # None => writer[m] \in Callers
    BY DEF IInv, TypeInv, Mutex
  <2>2. \A x \in Mutex : writer'[x] # None => readers'[x] = {}
    BY <1>1 DEF IInv, LockInv
  <2>3. \A m \in Method : writer'[m] # None =>
          proc'[writer'[m]].at = "recording" /\ proc'[writer'[m]].method = m
    BY <1>1, <1>2, <2>1 DEF IInv, LockInv
  <2>4. \A p \in Callers :
          proc'[p].at = "recording" => writer'[proc'[p].method] = p
    BY <1>1, <1>2 DEF IInv, LockInv
  <2>5. \A r \in Inspectors :
          InspectorHolds(r)' \in {{}, {"invocations"},
                                  {"invocations", "AddFile"}, Mutex}
    BY <1>4, <1>5 DEF IInv, LockInv
  <2> QED
    BY <1>1, <2>2, <2>3, <2>4, <2>5 DEF IInv, LockInv
<1>7. Called' = Called /\ \A p \in Called : proc'[p] = proc[p]
  BY <1>2 DEF Called
<1>8. NumberInv' /\ AnswerInv'
  BY <1>1, <1>7, SameCallsKeepTheirs DEF IInv
<1>9. RecordInv'
  BY <1>1 DEF IInv, RecordInv
<1> QED
  BY <1>3, <1>6, <1>8, <1>9 DEF IInv

(* IInv is inductive.                                                      *)
LEMMA NextKeepsIInv == IInv /\ [Next]_vars => IInv'
<1> SUFFICES ASSUME IInv, [Next]_vars PROVE IInv'
  OBVIOUS
<1>1. CASE UNCHANGED vars
  <2>1. TypeInv' /\ RecordInv'
    BY <1>1 DEF vars, config, IInv, TypeInv, RecordInv
  <2>2. LockInv'
    BY <1>1 DEF vars, IInv, LockInv, InspectorHolds
  <2>3. NumberInv' /\ AnswerInv'
    BY <1>1, SameCallsKeepTheirs DEF vars, IInv, Called
  <2> QED
    BY <2>1, <2>2, <2>3 DEF IInv
<1>2. ASSUME NEW p \in Callers \cup Inspectors, Step(p) PROVE IInv'
  BY <1>2, LockKeepsIInv, RecordKeepsIInv, RLockKeepsIInv, CopyKeepsIInv
  DEF Step
<1> QED
  BY <1>1, <1>2, SetUpKeepsIInv, CallKeepsIInv DEF Next

(* IInv holds in every state.                                              *)
LEMMA Invariance == Spec => []IInv
BY InitEstablishesIInv, NextKeepsIInv, PTL DEF Spec

-----------------------------------------------------------------------------
(* Every goroutine is at its place with a number of its own, and no mutex  *)
(* is held for writing and for reading.                                    *)
THEOREM TypeCorrect == Spec => []TypeOK
<1>1. IInv => TypeOK
  BY DEF IInv, TypeInv, LockInv, TypeOK, Proc
<1> QED
  BY <1>1, Invariance, PTL

(* What the last of some said is what was said last.                       *)
LEMMA LastSaysLast ==
  ASSUME NEW some \in SUBSET Nat, NEW otherwise, NEW answer,
         LastSays(setUps, some, otherwise, answer)
  PROVE  LastOf(some, otherwise) = answer
<1>1. CASE some = {}
  BY <1>1 DEF LastSays, LastOf
<1>2. CASE some # {}
  <2>1. PICK i \in some : /\ \A j \in some : j <= i
                          /\ answer = setUps[i].answer
    BY <1>2 DEF LastSays
  <2>2. \A k \in some : (\A j \in some : j <= k) => k = i
    BY <2>1
  <2>3. (CHOOSE k \in some : \A j \in some : j <= k) = i
    BY <2>1, <2>2
  <2> QED
    BY <1>2, <2>1, <2>3 DEF LastOf
<1> QED
  BY <1>1, <1>2

(* Calls of one method, from however many goroutines, have each a number   *)
(* of its own and the answer the set-ups give to that number: the stub set *)
(* last, or the last one for the number, or the last one for every call.   *)
THEOREM AnswersWhatWasSetUp == Spec => []AnswersAsSetUp
<1>1. ASSUME IInv, NEW p \in Callers, proc[p].at = "returned"
      PROVE  LET m == proc[p].method
                 n == proc[p].number
             IN /\ \A q \in Callers \ {p} :
                     proc[q].at = "returned" /\ proc[q].method = m =>
                       proc[q].number # n
                /\ proc[p].answer =
                     IF LastOf(SetUpsOf(m), "zero") = "stub" THEN "stub"
                     ELSE LastOf(ForCall(m, n),
                                 LastOf(ForEveryCall(m), "zero"))
  <2> DEFINE m == proc[p].method
             n == proc[p].number
  <2>1. p \in Called /\ m \in Method /\ n \in Numbers
    BY <1>1 DEF Called, IInv, TypeInv, Proc
  <2>2. \A q \in Callers \ {p} :
          proc[q].at = "returned" /\ proc[q].method = m => proc[q].number # n
    BY <1>1, <2>1 DEF IInv, NumberInv, Called
  <2>3. proc[p].answer = AnswerOf(m, n) /\ SetUpInv
    BY <1>1, <2>1 DEF IInv, AnswerInv
  <2> HIDE DEF m, n
  <2>4. /\ SetUpsOf(m) \subseteq 1..Len(setUps)
        /\ ForEveryCall(m) \subseteq 1..Len(setUps)
        /\ ForCall(m, n) \subseteq 1..Len(setUps)
        /\ setUps \in Seq(Made) /\ 1..Len(setUps) \subseteq Nat
    BY <1>1 DEF SetUpsOf, ForEveryCall, ForCall, IInv, TypeInv
  <2>5. stub[m] <=> LastOf(SetUpsOf(m), "zero") = "stub"
    <3>1. PICK last \in Answer :
            /\ LastSays(setUps, SetUpsOf(m), "zero", last)
            /\ stub[m] <=> last = "stub"
      BY <2>1, <2>3 DEF SetUpInv
    <3>2. SetUpsOf(m) \in SUBSET Nat
      BY <2>4
    <3>3. LastOf(SetUpsOf(m), "zero") = last
      BY <3>1, <3>2, LastSaysLast
    <3> QED
      BY <3>1, <3>3
  <2>6. LastOf(ForEveryCall(m), "zero") = returns[m]
    <3>1. LastSays(setUps, ForEveryCall(m), "zero", returns[m])
      BY <2>1, <2>3 DEF SetUpInv
    <3>2. ForEveryCall(m) \in SUBSET Nat
      BY <2>4
    <3> QED
      BY <3>1, <3>2, LastSaysLast
  <2>7. LastSays(setUps, ForCall(m, n), None, onCall[m][n])
    BY <2>1, <2>3 DEF SetUpInv
  <2>8. proc[p].answer = IF LastOf(SetUpsOf(m), "zero") = "stub" THEN "stub"
                         ELSE LastOf(ForCall(m, n),
                                     LastOf(ForEveryCall(m), "zero"))
    <3>1. CASE ForCall(m, n) = {}
      <4>1. onCall[m][n] = None
        BY <2>7, <3>1 DEF LastSays
      <4>2. LastOf(ForCall(m, n), returns[m]) = returns[m]
        BY <3>1 DEF LastOf
      <4>3. AnswerOf(m, n) = IF stub[m] THEN "stub" ELSE returns[m]
        BY <4>1 DEF AnswerOf
      <4> QED
        BY <2>3, <2>5, <2>6, <4>2, <4>3
    <3>2. CASE ForCall(m, n) # {}
      <4>1. LastSays(setUps, ForCall(m, n), returns[m], onCall[m][n])
        BY <2>7, <3>2 DEF LastSays
      <4>2. LastOf(ForCall(m, n), returns[m]) = onCall[m][n]
        <5>1. ForCall(m, n) \in SUBSET Nat
          BY <2>4
        <5> QED
          BY <4>1, <5>1, LastSaysLast
      <4>3. PICK i \in ForCall(m, n) : onCall[m][n] = setUps[i].answer
        BY <2>7, <3>2 DEF LastSays
      <4>4. onCall[m][n] # None
        <5>1. setUps[i] \in Made
          BY <2>4, <4>3
        <5> QED
          BY <4>3, <5>1, DoubleAssumption DEF Made
      <4> QED
        <5>1. AnswerOf(m, n) = IF stub[m] THEN "stub" ELSE onCall[m][n]
          BY <4>4 DEF AnswerOf
        <5> QED
          BY <2>3, <2>5, <2>6, <4>2, <5>1
    <3> QED
      BY <3>1, <3>2
  <2> QED
    BY <2>2, <2>8 DEF m, n
<1>2. IInv => AnswersAsSetUp
  BY <1>1 DEF AnswersAsSetUp
<1> QED
  BY <1>2, Invariance, PTL

(* However calls and inspectors interleave, who holds all the mutexes sees *)
(* the calls that were made, in the order of their numbers.                *)
THEOREM InspectorsSeeAll == Spec => []InvocationsAgree
<1>1. ASSUME IInv, NEW q \in Inspectors, InspectorHolds(q) = Mutex,
             NEW m \in Method
      PROVE  invocations[m] = argsForCall[m]
  <2>1. m \in Mutex /\ readers[m] # {}
    BY <1>1 DEF InspectorHolds, Mutex
  <2>2. writer[m] = None
    BY <1>1, <2>1 DEF IInv, LockInv
  <2> QED
    BY <1>1, <2>2 DEF IInv, RecordInv
<1>2. IInv => InvocationsAgree
  BY <1>1 DEF InvocationsAgree
<1> QED
  BY <1>2, Invariance, PTL

(* Calls alone never wait in a circle: who holds the mutex of a method is  *)
(* a call that records, and the record is free for it.                     *)
THEOREM CallsNeverCircle == Spec => []CallsWaitInLine
<1>1. ASSUME IInv, \A q \in Inspectors : InspectorHolds(q) = {},
             NEW p \in Callers
      PROVE  /\ CanLock("invocations")
             /\ LET m == proc[p].method
                IN \/ CanLock(m)
                   \/ \E holder \in Callers :
                        writer[m] = holder /\ proc[holder].at = "recording"
  <2> DEFINE m == proc[p].method
  <2>1. \A x \in Mutex : readers[x] = {}
    BY <1>1 DEF InspectorHolds, IInv, TypeInv
  <2>2. m \in Method /\ m \in Mutex /\ "invocations" \in Mutex
    BY <1>1 DEF IInv, TypeInv, Proc, Mutex
  <2>3. CanLock("invocations")
    BY <1>1, <2>1, <2>2 DEF CanLock, IInv, LockInv
  <2>4. CASE writer[m] = None
    BY <2>1, <2>2, <2>3, <2>4 DEF CanLock
  <2>5. CASE writer[m] # None
    <3>1. writer[m] \in Callers /\ proc[writer[m]].at = "recording"
      BY <1>1, <2>2, <2>5 DEF IInv, TypeInv, LockInv
    <3> QED
      BY <2>3, <3>1
  <2> QED
    BY <2>4, <2>5
<1>2. IInv => CallsWaitInLine
  BY <1>1 DEF CallsWaitInLine
<1> QED
  BY <1>2, Invariance, PTL
=============================================================================
