----------------------------- MODULE TestDouble -----------------------------
(***************************************************************************)
(* FakeTarWriter, the test double that stands for the tar writer in the    *)
(* tests of the collect executor; the other doubles of the repository are  *)
(* generated to the same shape. A test sets up what AddFile and Close      *)
(* answer, the code under test calls them, from goroutines if it likes,    *)
(* and a test may ask for all invocations while it does.                   *)
(*                                                                         *)
(* Each method has a mutex for its own state; the record of all methods    *)
(* has another. A method takes its own and then, inside, the record's;     *)
(* Invocations takes the record's first and then those of the methods. The *)
(* arguments of a call are told apart by who makes it.                     *)
(***************************************************************************)
EXTENDS Naturals, Sequences, FiniteSets

CONSTANTS
  Callers,    \* goroutines that call a method, once
  Inspectors, \* goroutines that call Invocations
  Answers,    \* what a method can be set up to return
  MaxSetUps,  \* bound: how often the double is set up
  None

ASSUME DoubleAssumption ==
  /\ IsFiniteSet(Callers) /\ Callers # {} /\ Callers \cap Inspectors = {}
  /\ MaxSetUps \in Nat
  /\ {None, "stub", "zero"} \cap Answers = {}
  /\ None \notin Callers \cup {"stub", "zero"}

Methods == <<"AddFile", "Close">>
Method == {"AddFile", "Close"}
Mutex == Method \cup {"invocations"}

VARIABLES
  stub,        \* per method: is a stub set?
  returns,     \* per method: the answer of any call
  onCall,      \* per method: the answers of calls by their number
  argsForCall, \* per method: the calls so far, in order
  invocations, \* per method: the calls recorded, in order
  writer,      \* per mutex: who holds it for writing, or None
  readers,     \* per mutex: who hold it for reading
  proc,        \* per goroutine: where it is, its method, number and answer
  setUps       \* history: the set-ups made, in order

config == <<stub, returns, onCall, setUps>>
vars == <<config, argsForCall, invocations, writer, readers, proc>>

Numbers == 0..Cardinality(Callers) - 1

Init ==
  /\ stub = [m \in Method |-> FALSE]
  /\ returns = [m \in Method |-> "zero"]
  /\ onCall = [m \in Method |-> [n \in Numbers |-> None]]
  /\ argsForCall = [m \in Method |-> <<>>]
  /\ invocations = [m \in Method |-> <<>>]
  /\ writer = [x \in Mutex |-> None]
  /\ readers = [x \in Mutex |-> {}]
  /\ proc = [p \in Callers \cup Inspectors |->
               [at |-> "start", method |-> "AddFile", number |-> 0,
                answer |-> None]]
  /\ setUps = <<>>

-----------------------------------------------------------------------------
(* sync.RWMutex: a writer that waits keeps new readers out. A call is      *)
(* "locking" from when it entered Lock.                                    *)
WaitsToWrite(x) == \E p \in Callers :
  \/ proc[p].at = "locking" /\ proc[p].method = x
  \/ proc[p].at = "recording" /\ x = "invocations"

(* Variant: readers are not waited for.                                    *)
CanLockDespiteReaders(x) == writer[x] = None

CanLock(x) == writer[x] = None /\ readers[x] = {}
CanRLock(x) == writer[x] = None /\ ~WaitsToWrite(x)

-----------------------------------------------------------------------------
(* Setting up, in the BeforeEach of a test, before any method is called.   *)
(* What was set up is a stub, an answer for every call, or one for the     *)
(* call of a number.                                                       *)
SetUp(m, how, n, answer) ==
  /\ CanLock(m)
  /\ \A p \in DOMAIN proc : proc[p].at = "start"
  /\ Len(setUps) < MaxSetUps
  /\ setUps' = Append(setUps, [method |-> m, how |-> how, number |-> n,
                               answer |-> answer])
  /\ UNCHANGED <<argsForCall, invocations, writer, readers, proc>>

Calls(m) ==
  /\ stub' = [stub EXCEPT ![m] = TRUE]
  /\ SetUp(m, "calls", 0, "stub")
  /\ UNCHANGED <<returns, onCall>>

Returns(m, answer) ==
  /\ stub' = [stub EXCEPT ![m] = FALSE]
  /\ returns' = [returns EXCEPT ![m] = answer]
  /\ SetUp(m, "returns", 0, answer)
  /\ UNCHANGED onCall

ReturnsOnCall(m, n, answer) ==
  /\ stub' = [stub EXCEPT ![m] = FALSE]
  /\ onCall' = [onCall EXCEPT ![m][n] = answer]
  /\ SetUp(m, "onCall", n, answer)
  /\ UNCHANGED returns

-----------------------------------------------------------------------------
Go(p, place) == proc' = [proc EXCEPT ![p].at = place]

Call(p, m) ==
  /\ proc[p].at = "start"
  /\ proc' = [proc EXCEPT ![p].at = "locking", ![p].method = m]
  /\ UNCHANGED <<config, argsForCall, invocations, writer, readers>>

(* Variant: the number of the call is not looked at.                       *)
AnswerOfAnyNumber(m, n) == IF stub[m] THEN "stub" ELSE returns[m]

AnswerOf(m, n) ==
  IF stub[m] THEN "stub"
  ELSE IF onCall[m][n] # None THEN onCall[m][n] ELSE returns[m]

(* Variant: the method is unlocked before the call is recorded.            *)
UnlockThenRecord(p) ==
  LET m == proc[p].method IN
  /\ proc[p].at = "locking" /\ CanLock(m)
  /\ argsForCall' = [argsForCall EXCEPT ![m] = Append(@, p)]
  /\ proc' = [proc EXCEPT ![p].at = "recording",
                          ![p].number = Len(argsForCall[m]),
                          ![p].answer = AnswerOf(m, Len(argsForCall[m]))]
  /\ UNCHANGED <<config, invocations, writer, readers>>

(* The number of the call is the length of argsForCall under the mutex;    *)
(* what is to be answered is read with it.                                 *)
LockMethod(p) ==
  LET m == proc[p].method IN
  /\ proc[p].at = "locking" /\ CanLock(m)
  /\ writer' = [writer EXCEPT ![m] = p]
  /\ argsForCall' = [argsForCall EXCEPT ![m] = Append(@, p)]
  /\ proc' = [proc EXCEPT ![p].at = "recording",
                          ![p].number = Len(argsForCall[m]),
                          ![p].answer = AnswerOf(m, Len(argsForCall[m]))]
  /\ UNCHANGED <<config, invocations, readers>>

(* Variant: recordInvocation takes the mutexes of all methods.             *)
RecordUnderAllMutexes(p) ==
  LET m == proc[p].method IN
  /\ proc[p].at = "recording" /\ CanLock("invocations")
  /\ \A x \in Method \ {m} : CanLock(x)
  /\ invocations' = [invocations EXCEPT ![m] = Append(@, p)]
  /\ writer' = [writer EXCEPT ![m] = None]
  /\ Go(p, "returned")
  /\ UNCHANGED <<config, argsForCall, readers>>

(* Variant: the method returns with its mutex locked.                      *)
RecordWithoutUnlock(p) ==
  /\ proc[p].at = "recording" /\ CanLock("invocations")
  /\ invocations' =
       [invocations EXCEPT ![proc[p].method] = Append(@, p)]
  /\ Go(p, "returned")
  /\ UNCHANGED <<config, argsForCall, writer, readers>>

(* recordInvocation, and the mutex of the method is released.              *)
Record(p) ==
  LET m == proc[p].method IN
  /\ proc[p].at = "recording" /\ CanLock("invocations")
  /\ invocations' = [invocations EXCEPT ![m] = Append(@, p)]
  /\ writer' = [writer EXCEPT ![m] = None]
  /\ Go(p, "returned")
  /\ UNCHANGED <<config, argsForCall, readers>>

(* Invocations: "invocations", then each method in the order of Methods.   *)
InspectorHolds(q) == {x \in Mutex : q \in readers[x]}
NextLock(q) ==
  IF InspectorHolds(q) = {} THEN "invocations"
  ELSE Methods[Cardinality(InspectorHolds(q))]

RLockNext(q) ==
  /\ proc[q].at = "start"
  /\ InspectorHolds(q) # Mutex
  /\ CanRLock(NextLock(q))
  /\ readers' = [readers EXCEPT ![NextLock(q)] = @ \cup {q}]
  /\ UNCHANGED <<config, argsForCall, invocations, writer, proc>>

CopyInvocations(q) ==
  /\ proc[q].at = "start"
  /\ InspectorHolds(q) = Mutex
  /\ Go(q, "returned")
  /\ readers' = [x \in Mutex |-> readers[x] \ {q}]
  /\ UNCHANGED <<config, argsForCall, invocations, writer>>

Step(p) ==
  \/ p \in Callers /\ (LockMethod(p) \/ Record(p))
  \/ p \in Inspectors /\ (RLockNext(p) \/ CopyInvocations(p))

Next ==
  \/ \E m \in Method :
       \/ Calls(m)
       \/ \E answer \in Answers :
            \/ Returns(m, answer)
            \/ \E n \in Numbers : ReturnsOnCall(m, n, answer)
  \/ \E p \in Callers, m \in Method : Call(p, m)
  \/ \E p \in Callers \cup Inspectors : Step(p)

Fairness == \A p \in Callers \cup Inspectors : WF_vars(Step(p))
Spec == Init /\ [][Next]_vars /\ Fairness

-----------------------------------------------------------------------------
(* Types; no mutex is held for writing and for reading.                    *)
TypeOK ==
  /\ \A p \in DOMAIN proc :
       /\ proc[p].at \in {"start", "locking", "recording", "returned"}
       /\ proc[p].number \in Numbers
  /\ \A x \in Mutex : /\ writer[x] \in Callers \cup {None}
                      /\ readers[x] \subseteq Inspectors
                      /\ writer[x] # None => readers[x] = {}

(* The set-ups of a method, those of them for every call, and for a number.*)
SetUpsOf(m) == {i \in 1..Len(setUps) : setUps[i].method = m}
ForEveryCall(m) == {i \in SetUpsOf(m) : setUps[i].how = "returns"}
ForCall(m, n) ==
  {i \in SetUpsOf(m) : setUps[i].how = "onCall" /\ setUps[i].number = n}
LastOf(some, otherwise) ==
  IF some = {} THEN otherwise
  ELSE setUps[CHOOSE i \in some : \A j \in some : j <= i].answer

(* Concurrent calls have numbers of their own, and what each gets is what  *)
(* the test set up: the stub, if that came last; or else the last answer   *)
(* for its number, even if one for every call came later; or else the last *)
(* one for every call, or nil.                                             *)
AnswersAsSetUp ==
  \A p \in Callers : proc[p].at = "returned" =>
    LET m == proc[p].method
        n == proc[p].number
    IN /\ \A q \in Callers \ {p} :
            proc[q].at = "returned" /\ proc[q].method = m =>
              proc[q].number # n
       /\ proc[p].answer =
            IF LastOf(SetUpsOf(m), "zero") = "stub" THEN "stub"
            ELSE LastOf(ForCall(m, n), LastOf(ForEveryCall(m), "zero"))

(* Who asks for the invocations sees of every method the calls that were   *)
(* made, each with its own arguments and in the order of their numbers: it *)
(* holds all the mutexes, and no call is between the two.                  *)
InvocationsAgree ==
  \A q \in Inspectors : InspectorHolds(q) = Mutex =>
    \A m \in Method : invocations[m] = argsForCall[m]

(* While nobody asks for the invocations, a call waits for one call of its *)
(* own method at most, and that one waits for nobody: there is no cycle,   *)
(* and no mutex is left locked by a call that has returned.                *)
CallsWaitInLine ==
  (\A q \in Inspectors : InspectorHolds(q) = {}) =>
    \A p \in Callers :
      /\ proc[p].at = "recording" => CanLock("invocations")
      /\ proc[p].at = "locking" =>
           LET m == proc[p].method
           IN \/ CanLock(m)
              \/ \E holder \in Callers :
                   writer[m] = holder /\ proc[holder].at = "recording"

(* Calls wait for each other but not for ever, unless the invocations are  *)
(* asked for meanwhile: the opposite orders of the mutexes can then block  *)
(* a call and an inspector for good, and nothing else can.                 *)
CallsReturn ==
  \A p \in Callers :
    proc[p].at = "locking" ~>
      \/ proc[p].at = "returned"
      \/ \E q \in Inspectors : InspectorHolds(q) # {}
=============================================================================
