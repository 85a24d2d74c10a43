-------------------------- MODULE CollectionProofs --------------------------
(***************************************************************************)
(* Proofs about CollectCommand and Collection, for any number of runs,     *)
(* seconds and entries: types, that runs which fail leave no file, that a  *)
(* run which had its name to itself has its archive there; and what a send *)
(* delivers while runs of collect create, truncate, write and remove       *)
(* files.                                                                  *)
(***************************************************************************)
EXTENDS Collection, SequenceTheorems, TLAPS

(***************************************************************************)
(* The runs of collect.                                                    *)
(***************************************************************************)
Run == [at : Places, second : Seconds, fd : Runs \cup {None},
        offset : 0..Entries, how : Ways]

(* Where a run is tells what it has and how it will end.                   *)
PlaceOK(r) ==
  /\ run[r].at \in {"start", "named"} => run[r].fd = None
  /\ run[r].at \in {"created", "collecting", "closing", "removing", "logging"} =>
       run[r].fd # None
  /\ run[r].at \in {"start", "named", "created"} => run[r].offset = 0
  /\ run[r].at = "closing" => run[r].how \in {"success", "failed", "panicked"}
  /\ run[r].at = "removing" => run[r].how = "failed"
  /\ run[r].at = "logging" => run[r].how = "success"
  /\ run[r].how = "success" /\ run[r].at \in {"closing", "logging", "exited"} =>
       run[r].fd # None /\ run[r].offset = Entries
PlaceInv == \A r \in Runs : PlaceOK(r)

(* A file has one name: that of the run which made it.                     *)
Made(f, t) == f \in Runs => HasFile(f) /\ run[f].second = t
NameInv ==
  /\ \A t \in Seconds : Made(dir[t], t)
  /\ \A r \in Runs : Made(run[r].fd, run[r].second)

(* The first entries of a run's archive.                                   *)
Part(r, n) == [i \in 1..n |-> EntryOf(r, i)]

(* A run that shares its name with no other made its file, finds it under  *)
(* its name, and finds in it what it wrote.                                *)
OwnOK(r) ==
  /\ run[r].fd = r
  /\ \/ run[r].at \in {"created", "collecting", "closing", "removing", "logging"}
     \/ Exited(r, "success")
     => dir[run[r].second] = r
  /\ run[r].at \in {"created", "collecting", "closing"} =>
       blocks[r] = Part(r, run[r].offset)
  /\ run[r].at = "logging" \/ Exited(r, "success") =>
       blocks[r] \in {Archive(r), Append(Archive(r), TrailerOf(r))}
OwnInv == \A r \in Runs : HasFile(r) /\ HasOwnName(r) => OwnOK(r)

IInv == TypeOK /\ PlaceInv /\ NameInv /\ FailedRunsLeaveNothing /\ OwnInv

-----------------------------------------------------------------------------
(* No run has started.                                                     *)
LEMMA InitEstablishesIInv == Init => IInv
<1> SUFFICES ASSUME Init PROVE IInv
  OBVIOUS
<1>1. TypeOK
  <2>1. run \in [Runs -> Run]
    BY CommandAssumption DEF Init, Run, Places, Ways, Seconds, CommandAssumption
  <2>2. \A r \in Runs : blocks[r] = <<>> /\ <<>> \in Seq(Blocks)
    BY EmptySeq DEF Init
  <2>3. blocks \in [Runs -> Seq(Blocks)]
    BY <2>2 DEF Init
  <2> QED
    BY <2>1, <2>3, CommandAssumption
    DEF Init, TypeOK, Run, Seconds, CommandAssumption
<1>2. PlaceInv /\ NameInv /\ FailedRunsLeaveNothing /\ OwnInv
  BY CommandAssumption
  DEF Init, PlaceInv, PlaceOK, NameInv, Made, FailedRunsLeaveNothing, OwnInv,
      HasFile, Seconds, CommandAssumption
<1> QED
  BY <1>1, <1>2 DEF IInv

(* The steps of a run that touch neither the directory nor a file.         *)
Move(r) ==
  \/ RejectConfig(r) \/ NameFile(r) \/ CreateFails(r) \/ MakeCollector(r)
  \/ MakeCollectorFails(r)
  \/ \E how \in {"success", "failed", "panicked"} : CollectReturns(r, how)
  \/ LogSuccess(r) \/ FatalExit(r) \/ Dies(r)

(* What such a step may do to its run.                                     *)
LEMMA MoveChangesPlace ==
  ASSUME NEW r \in Runs, IInv, Move(r)
  PROVE  /\ UNCHANGED <<clock, dir, blocks>>
         /\ run' \in [Runs -> Run]
         /\ \A q \in Runs \ {r} : run'[q] = run[q]
         /\ run'[r].fd = run[r].fd /\ run'[r].offset = run[r].offset
         /\ run[r].fd # None => run'[r].second = run[r].second
         /\ PlaceOK(r)'
         /\ Exited(r, "failed")' => run[r].fd = None
         /\ run'[r].at \in {"created", "collecting", "closing"} =>
              run[r].at \in {"created", "collecting"}
         /\ run'[r].at \in {"removing", "logging"} =>
              run'[r].at = "removing" /\ run[r].at \in {"created", "collecting"}
         /\ Exited(r, "success")' => run[r].at = "logging"
<1> USE CommandAssumption DEF CommandAssumption
<1> DEFINE Goal == 
         /\ UNCHANGED <<clock, dir, blocks>>
         /\ run' \in [Runs -> Run]
         /\ \A q \in Runs \ {r} : run'[q] = run[q]
         /\ run'[r].fd = run[r].fd /\ run'[r].offset = run[r].offset
         /\ run[r].fd # None => run'[r].second = run[r].second
         /\ PlaceOK(r)'
         /\ Exited(r, "failed")' => run[r].fd = None
         /\ run'[r].at \in {"created", "collecting", "closing"} =>
              run[r].at \in {"created", "collecting"}
         /\ run'[r].at \in {"removing", "logging"} =>
              run'[r].at = "removing" /\ run[r].at \in {"created", "collecting"}
         /\ Exited(r, "success")' => run[r].at = "logging"
<1>1. run \in [Runs -> Run] /\ PlaceOK(r) /\ clock \in Seconds
  BY DEF IInv, TypeOK, Run, PlaceInv
<1>2. CASE RejectConfig(r) \/ CreateFails(r)
  BY <1>1, <1>2
  DEF RejectConfig, CreateFails, GoWith, Run, Places, Ways, PlaceOK, Exited
<1>3. CASE NameFile(r)
  BY <1>1, <1>3 DEF NameFile, Run, Places, Ways, PlaceOK, Exited
<1>4. CASE MakeCollector(r)
  BY <1>1, <1>4 DEF MakeCollector, Go, Run, Places, Ways, PlaceOK, Exited
<1>5. CASE MakeCollectorFails(r)
  BY <1>1, <1>5
  DEF MakeCollectorFails, GoWith, Run, Places, Ways, PlaceOK, Exited
<1>6. ASSUME NEW how \in {"success", "failed", "panicked"},
             CollectReturns(r, how)
      PROVE  Goal
  BY <1>1, <1>6 DEF CollectReturns, GoWith, Run, Places, Ways, PlaceOK, Exited
<1>7. CASE LogSuccess(r)
  BY <1>1, <1>7 DEF LogSuccess, Go, Run, Places, Ways, PlaceOK, Exited
<1>8. CASE FatalExit(r) \/ Dies(r)
  BY <1>1, <1>8 DEF FatalExit, Dies, GoWith, Run, Places, Ways, PlaceOK, Exited
<1> QED
  BY <1>2, <1>3, <1>4, <1>5, <1>6, <1>7, <1>8 DEF Move

(* What has a file keeps it, and its second.                               *)
FilesStay ==
  \A q \in Runs : run[q].fd # None =>
    run'[q].fd = run[q].fd /\ run'[q].second = run[q].second

(* Who has a name for itself had it before.                                *)
LEMMA OwnNamesWereOwn ==
  ASSUME FilesStay, NEW r \in Runs, HasFile(r), HasOwnName(r)'
  PROVE  HasOwnName(r)
BY DEF FilesStay, HasOwnName, Sharing, HasFile

(* Whatever changes of a run, the others and the files stay.               *)
LEMMA MoveKeepsIInv == ASSUME NEW r \in Runs, IInv, Move(r) PROVE IInv'
<1>1. /\ UNCHANGED <<clock, dir, blocks>>
      /\ run' \in [Runs -> Run]
      /\ \A q \in Runs \ {r} : run'[q] = run[q]
      /\ run'[r].fd = run[r].fd /\ run'[r].offset = run[r].offset
      /\ run[r].fd # None => run'[r].second = run[r].second
      /\ PlaceOK(r)'
      /\ Exited(r, "failed")' => run[r].fd = None
  BY MoveChangesPlace
<1>2. TypeOK'
  BY <1>1 DEF IInv, TypeOK, Run
<1>3. PlaceInv'
  BY <1>1 DEF IInv, PlaceInv, PlaceOK
<1>4. FilesStay /\ \A q \in Runs : run'[q].fd = run[q].fd
  BY <1>1 DEF FilesStay
<1>5. NameInv'
  BY <1>1, <1>4, CommandAssumption
  DEF IInv, NameInv, Made, FilesStay, HasFile, CommandAssumption
<1>6. FailedRunsLeaveNothing'
  <2> SUFFICES ASSUME NEW t \in Seconds, dir[t] # None
               PROVE  \E q \in Runs :
                        (HasFile(q) /\ run[q].second = t /\ ~Exited(q, "failed"))'
    BY <1>1 DEF FailedRunsLeaveNothing
  <2>1. PICK q \in Runs : HasFile(q) /\ run[q].second = t /\ ~Exited(q, "failed")
    BY DEF IInv, FailedRunsLeaveNothing
  <2>2. HasFile(q)' /\ run'[q].second = t
    BY <1>4, <2>1 DEF HasFile, FilesStay
  <2>3. ~Exited(q, "failed")'
    BY <1>1, <2>1 DEF HasFile, Exited
  <2> QED
    BY <2>2, <2>3
<1>7. OwnInv'
  <2> SUFFICES ASSUME NEW q \in Runs, HasFile(q)', HasOwnName(q)'
               PROVE  OwnOK(q)'
    BY DEF OwnInv
  <2>1. HasFile(q) /\ HasOwnName(q)
    BY <1>4, OwnNamesWereOwn DEF HasFile
  <2>2. OwnOK(q)
    BY <2>1 DEF IInv, OwnInv
  <2>3. run'[q].second = run[q].second /\ run'[q].fd = run[q].fd
        /\ run'[q].offset = run[q].offset
    BY <1>1, <1>4, <2>1 DEF HasFile, FilesStay
  <2>4. CASE q # r
    BY <1>1, <2>2, <2>4 DEF OwnOK, Exited, Archive, EntryOf, Part, TrailerOf
  <2>5. CASE q = r
    <3>1. /\ run'[r].at \in {"created", "collecting", "closing"} =>
               run[r].at \in {"created", "collecting"}
          /\ run'[r].at \in {"removing", "logging"} =>
               run'[r].at = "removing" /\ run[r].at \in {"created", "collecting"}
          /\ Exited(r, "success")' => run[r].at = "logging"
      BY MoveChangesPlace
    <3> QED
      BY <1>1, <2>2, <2>3, <2>5, <3>1
      DEF OwnOK, Archive, EntryOf, Part, TrailerOf
  <2> QED
    BY <2>4, <2>5
<1> QED
  BY <1>2, <1>3, <1>5, <1>6, <1>7 DEF IInv

(* The name goes, and the file it named has no other.                      *)
LEMMA RemoveFileKeepsIInv == ASSUME NEW r \in Runs, IInv, RemoveFile(r) PROVE IInv'
<1>1. /\ UNCHANGED <<clock, blocks>>
      /\ run[r].at = "removing" /\ run[r].fd # None /\ run[r].how = "failed"
      /\ run \in [Runs -> Run] /\ run[r].second \in Seconds
      /\ dir \in [Seconds -> Runs \cup {None}]
      /\ dir' = [dir EXCEPT ![run[r].second] = None]
      /\ run' = [run EXCEPT ![r].at = "exited"]
  BY DEF RemoveFile, Go, IInv, TypeOK, Run, PlaceInv, PlaceOK
<1>2. /\ run' \in [Runs -> Run]
      /\ \A q \in Runs \ {r} : run'[q] = run[q]
      /\ run'[r].at = "exited" /\ run'[r].how = "failed"
      /\ \A q \in Runs : /\ run'[q].fd = run[q].fd
                         /\ run'[q].second = run[q].second
                         /\ run'[q].offset = run[q].offset
  BY <1>1 DEF Run, Places
<1>3. TypeOK'
  BY <1>1, <1>2 DEF IInv, TypeOK, Run
<1>4. PlaceInv'
  BY <1>1, <1>2 DEF IInv, PlaceInv, PlaceOK
<1>5. FilesStay
  BY <1>2 DEF FilesStay
<1>6. NameInv'
  BY <1>1, <1>2, CommandAssumption
  DEF IInv, NameInv, Made, HasFile, CommandAssumption
<1>7. FailedRunsLeaveNothing'
  <2> SUFFICES ASSUME NEW t \in Seconds, dir'[t] # None
               PROVE  \E q \in Runs :
                        (HasFile(q) /\ run[q].second = t /\ ~Exited(q, "failed"))'
    BY DEF FailedRunsLeaveNothing
  <2>1. t # run[r].second /\ dir[t] # None
    BY <1>1
  <2>2. PICK q \in Runs : HasFile(q) /\ run[q].second = t /\ ~Exited(q, "failed")
    BY <2>1 DEF IInv, FailedRunsLeaveNothing
  <2>3. q # r
    BY <2>1, <2>2
  <2> QED
    BY <1>2, <2>2, <2>3 DEF HasFile, Exited
<1>8. OwnInv'
  <2> SUFFICES ASSUME NEW q \in Runs, HasFile(q)', HasOwnName(q)'
               PROVE  OwnOK(q)'
    BY DEF OwnInv
  <2>1. HasFile(q) /\ HasOwnName(q)
    BY <1>2, <1>5, OwnNamesWereOwn DEF HasFile
  <2>2. OwnOK(q)
    BY <2>1 DEF IInv, OwnInv
  <2>3. CASE q # r
    <3>1. run[q].second # run[r].second
      BY <1>1, <2>1, <2>3 DEF HasOwnName, Sharing, HasFile
    <3>2. run[q].second \in Seconds /\ dir'[run[q].second] = dir[run[q].second]
      BY <1>1, <3>1 DEF Run
    <3> QED
      BY <1>1, <1>2, <2>2, <2>3, <3>2
      DEF OwnOK, Exited, Archive, EntryOf, Part, TrailerOf
  <2>4. CASE q = r
    BY <1>2, <2>2, <2>4 DEF OwnOK, Exited
  <2> QED
    BY <2>3, <2>4
<1> QED
  BY <1>3, <1>4, <1>6, <1>7, <1>8 DEF IInv

(* The part of an archive nothing was written of.                          *)
LEMMA EmptyPart == ASSUME NEW r \in Runs PROVE Part(r, 0) = <<>>
<1> DEFINE S == {EntryOf(r, i) : i \in Nat}
<1>1. Part(r, 0) \in [1..0 -> S] /\ DOMAIN Part(r, 0) = 1..0
  BY DEF Part
<1>2. Part(r, 0) \in Seq(S)
  BY <1>1
<1>3. Len(Part(r, 0)) = 0
  BY <1>1, <1>2, LenProperties
<1> QED
  BY <1>2, <1>3, EmptySeq

(* A file that had the name is emptied; one that is new has no other name. *)
LEMMA CreateFileKeepsIInv == ASSUME NEW r \in Runs, IInv, CreateFile(r) PROVE IInv'
<1> DEFINE t == run[r].second
           f == IF dir[t] = None THEN r ELSE dir[t]
<1>1. /\ run[r].at = "named" /\ run[r].fd = None /\ UNCHANGED clock
      /\ run \in [Runs -> Run] /\ t \in Seconds
      /\ dir \in [Seconds -> Runs \cup {None}] /\ blocks \in [Runs -> Seq(Blocks)]
      /\ dir' = [dir EXCEPT ![t] = f]
      /\ blocks' = [blocks EXCEPT ![f] = <<>>]
      /\ run' = [run EXCEPT ![r].at = "created", ![r].fd = f]
  BY DEF CreateFile, IInv, TypeOK, Run, PlaceInv, PlaceOK
<1>2. f \in Runs /\ f # None
  BY <1>1, CommandAssumption DEF CommandAssumption
<1>3. /\ run' \in [Runs -> Run]
      /\ \A q \in Runs \ {r} : run'[q] = run[q]
      /\ run'[r].at = "created" /\ run'[r].fd = f
      /\ run'[r].second = t /\ run'[r].offset = run[r].offset
      /\ run'[r].how = run[r].how
  BY <1>1, <1>2 DEF Run, Places
<1>4. FilesStay
  BY <1>1, <1>3 DEF FilesStay
<1>5. TypeOK'
  <2>1. <<>> \in Seq(Blocks)
    BY EmptySeq
  <2>2. blocks' \in [Runs -> Seq(Blocks)] /\ dir' \in [Seconds -> Runs \cup {None}]
    BY <1>1, <1>2, <2>1
  <2> QED
    BY <1>1, <1>3, <2>2 DEF IInv, TypeOK, Run
<1>6. run[r].offset = 0
  BY <1>1 DEF IInv, PlaceInv, PlaceOK
<1>7. PlaceInv'
  BY <1>1, <1>2, <1>3, <1>6 DEF IInv, PlaceInv, PlaceOK
<1>8. f # r => HasFile(f) /\ run[f].second = t
  BY <1>1, <1>2 DEF IInv, NameInv, Made
<1>9. NameInv'
  <2> DEFINE MadeThen(q, u) ==
        q \in Runs => run'[q].fd # None /\ run'[q].second = u
  <2>1. ASSUME NEW q, NEW u, Made(q, u) PROVE MadeThen(q, u)
    BY <1>1, <1>3, <2>1 DEF Made, HasFile
  <2>2. MadeThen(f, t)
    BY <1>2, <1>3, <1>8 DEF HasFile
  <2> HIDE DEF MadeThen
  <2>3. \A u \in Seconds : MadeThen(dir'[u], u)
    BY <1>1, <2>1, <2>2 DEF IInv, NameInv
  <2>4. \A q \in Runs : MadeThen(run'[q].fd, run'[q].second)
    BY <1>3, <2>1, <2>2 DEF IInv, NameInv
  <2> USE DEF MadeThen
  <2> QED
    BY <2>3, <2>4 DEF NameInv, Made, HasFile
<1>10. FailedRunsLeaveNothing'
  <2> SUFFICES ASSUME NEW u \in Seconds, dir'[u] # None
               PROVE  \E q \in Runs :
                        (HasFile(q) /\ run[q].second = u /\ ~Exited(q, "failed"))'
    BY DEF FailedRunsLeaveNothing
  <2>1. CASE u = t
    BY <1>2, <1>3, <2>1 DEF HasFile, Exited
  <2>2. CASE u # t
    <3>1. PICK q \in Runs : HasFile(q) /\ run[q].second = u /\ ~Exited(q, "failed")
      BY <1>1, <2>2 DEF IInv, FailedRunsLeaveNothing
    <3> QED
      BY <1>1, <1>3, <3>1 DEF HasFile, Exited
  <2> QED
    BY <2>1, <2>2
<1>11. OwnInv'
  <2> SUFFICES ASSUME NEW q \in Runs, HasFile(q)', HasOwnName(q)'
               PROVE  OwnOK(q)'
    BY DEF OwnInv
  <2>1. CASE q = r
    <3>1. f = r
      BY <1>2, <1>3, <1>8, <2>1 DEF HasOwnName, Sharing, HasFile
    <3>2. dir'[t] = r /\ blocks'[r] = Part(r, run'[r].offset)
      BY <1>1, <1>3, <1>6, <3>1, EmptyPart
    <3> QED
      BY <1>3, <2>1, <3>1, <3>2 DEF OwnOK, Exited, Part, EntryOf
  <2>2. CASE q # r
    <3>1. HasFile(q) /\ HasOwnName(q)
      BY <1>3, <1>4, <2>2, OwnNamesWereOwn DEF HasFile
    <3>2. OwnOK(q) /\ run[q].second \in Seconds
      BY <1>1, <3>1 DEF IInv, OwnInv, Run
    <3>3. run[q].second # t
      BY <1>2, <1>3, <2>2 DEF HasOwnName, Sharing, HasFile
    <3>4. f # q
      BY <1>8, <2>2, <3>3
    <3>5. dir'[run[q].second] = dir[run[q].second] /\ blocks'[q] = blocks[q]
      BY <1>1, <1>2, <3>2, <3>3, <3>4
    <3> QED
      BY <1>3, <2>2, <3>2, <3>5
      DEF OwnOK, Exited, Archive, EntryOf, Part, TrailerOf
  <2> QED
    BY <2>1, <2>2
<1> QED
  BY <1>5, <1>7, <1>9, <1>10, <1>11 DEF IInv

(* Writing leaves a file of blocks.                                        *)
LEMMA WriteAtType ==
  ASSUME NEW file \in Seq(Blocks), NEW n \in Nat, NEW block \in Blocks
  PROVE  WriteAt(file, n, block) \in Seq(Blocks)
<1> DEFINE m == IF Len(file) > n THEN Len(file) ELSE n + 1
<1>1. m \in Nat
  OBVIOUS
<1>2. ASSUME NEW i \in 1..m
      PROVE  (IF i = n + 1 THEN block
              ELSE IF i <= Len(file) THEN file[i] ELSE Hole) \in Blocks
  BY DEF Blocks
<1>3. WriteAt(file, n, block) \in [1..m -> Blocks]
  BY <1>2 DEF WriteAt
<1> QED
  BY <1>1, <1>3

(* Writing at the end of a file is appending.                              *)
LEMMA WriteAtEnd ==
  ASSUME NEW r \in Runs, NEW n \in Nat, NEW block
  PROVE  /\ WriteAt(Part(r, n), n, block) = Append(Part(r, n), block)
         /\ block = EntryOf(r, n + 1) =>
              WriteAt(Part(r, n), n, block) = Part(r, n + 1)
<1> DEFINE file == Part(r, n)
           S == {EntryOf(r, i) : i \in Nat} \cup {block}
<1>1. file \in Seq(S)
  <2>1. file \in [1..n -> S]
    BY DEF Part
  <2> QED
    BY <2>1
<1>2. Len(file) = n /\ DOMAIN file = 1..n
  <2>1. DOMAIN file = 1..n
    BY DEF Part
  <2> QED
    BY <1>1, <2>1, LenProperties
<1>3. WriteAt(file, n, block) =
        [i \in 1..n + 1 |-> IF i = n + 1 THEN block ELSE file[i]]
  BY <1>2 DEF WriteAt
<1>4. Append(file, block) =
        [i \in 1..n + 1 |-> IF i = n + 1 THEN block ELSE file[i]]
  <2>1. /\ Append(file, block) \in Seq(S) /\ Len(Append(file, block)) = n + 1
        /\ \A i \in 1..n : Append(file, block)[i] = file[i]
        /\ Append(file, block)[n + 1] = block
    BY <1>1, <1>2, AppendProperties
  <2>2. Append(file, block) = [i \in 1..n + 1 |-> Append(file, block)[i]]
    BY <2>1, LenProperties
  <2>3. \A i \in 1..n + 1 :
          Append(file, block)[i] = IF i = n + 1 THEN block ELSE file[i]
    BY <2>1
  <2> QED
    BY <2>2, <2>3
<1>5. ASSUME block = EntryOf(r, n + 1)
      PROVE  [i \in 1..n + 1 |-> IF i = n + 1 THEN block ELSE file[i]]
               = Part(r, n + 1)
  BY <1>5 DEF Part
<1> QED
  BY <1>3, <1>4, <1>5

(* A write of r is to no file of a run with a name for itself, but r's.    *)
LEMMA WritesAreOwn ==
  ASSUME IInv, NEW r \in Runs, run[r].fd # None,
         NEW q \in Runs \ {r}, HasFile(q), HasOwnName(q)
  PROVE  run[r].fd # q
BY DEF IInv, NameInv, Made, HasOwnName, Sharing, HasFile

(* An entry is written after those before it.                              *)
LEMMA WriteEntryKeepsIInv == ASSUME NEW r \in Runs, IInv, WriteEntry(r) PROVE IInv'
<1> USE CommandAssumption DEF CommandAssumption
<1> DEFINE n == run[r].offset
           f == run[r].fd
<1>1. /\ run[r].at = "collecting" /\ n < Entries /\ f # None
      /\ UNCHANGED <<clock, dir>>
      /\ run \in [Runs -> Run] /\ blocks \in [Runs -> Seq(Blocks)]
      /\ blocks' = [blocks EXCEPT ![f] =
                      WriteAt(blocks[f], n, EntryOf(r, n + 1))]
      /\ run' = [run EXCEPT ![r].offset = n + 1]
  BY DEF WriteEntry, IInv, TypeOK, Run, PlaceInv, PlaceOK
<1>2. f \in Runs /\ n \in Nat /\ n + 1 \in 1..Entries
  BY <1>1 DEF Run
<1>3. /\ run' \in [Runs -> Run]
      /\ \A q \in Runs \ {r} : run'[q] = run[q]
      /\ run'[r].at = "collecting" /\ run'[r].offset = n + 1
      /\ \A q \in Runs : /\ run'[q].fd = run[q].fd
                         /\ run'[q].second = run[q].second
                         /\ run'[q].at = run[q].at
                         /\ run'[q].how = run[q].how
  <2>1. n + 1 \in 0..Entries
    BY <1>2
  <2> HIDE CommandAssumption DEF CommandAssumption
  <2>2. run' \in [Runs -> Run] /\ run'[r].offset = n + 1
    BY <1>1, <2>1 DEF Run
  <2> QED
    BY <1>1, <2>2 DEF Run
<1>4. TypeOK'
  <2>1. EntryOf(r, n + 1) \in Blocks
    BY <1>2 DEF EntryOf, Blocks
  <2>2. WriteAt(blocks[f], n, EntryOf(r, n + 1)) \in Seq(Blocks)
    BY <1>1, <1>2, <2>1, WriteAtType
  <2>3. blocks' \in [Runs -> Seq(Blocks)]
    BY <1>1, <2>2
  <2> QED
    BY <1>1, <1>3, <2>3 DEF IInv, TypeOK, Run
<1>5. PlaceInv'
  BY <1>1, <1>3 DEF IInv, PlaceInv, PlaceOK
<1>6. NameInv' /\ FailedRunsLeaveNothing'
  BY <1>1, <1>3
  DEF IInv, NameInv, Made, FailedRunsLeaveNothing, HasFile, Exited
<1>7. OwnInv'
  <2> SUFFICES ASSUME NEW q \in Runs, HasFile(q)', HasOwnName(q)'
               PROVE  OwnOK(q)'
    BY DEF OwnInv
  <2>1. HasFile(q) /\ HasOwnName(q)
    BY <1>3, OwnNamesWereOwn DEF HasFile, FilesStay
  <2>2. OwnOK(q)
    BY <2>1 DEF IInv, OwnInv
  <2>3. CASE q = r
    <3>1. f = r /\ dir[run[r].second] = r /\ blocks[r] = Part(r, n)
      BY <1>1, <2>2, <2>3 DEF OwnOK
    <3>2. blocks'[r] = Part(r, n + 1)
      BY <1>1, <1>2, <3>1, WriteAtEnd
    <3> QED
      BY <1>1, <1>3, <2>3, <3>1, <3>2 DEF OwnOK, Exited, Part, EntryOf
  <2>4. CASE q # r
    <3>1. f # q
      BY <1>1, <2>1, <2>4, WritesAreOwn
    <3>2. blocks'[q] = blocks[q]
      BY <1>1, <1>2, <3>1
    <3> QED
      BY <1>1, <1>3, <2>2, <2>4, <3>2
      DEF OwnOK, Exited, Archive, EntryOf, Part, TrailerOf
  <2> QED
    BY <2>3, <2>4
<1> QED
  BY <1>4, <1>5, <1>6, <1>7 DEF IInv

(* The trailer, if it is written, comes after the last entry.              *)
LEMMA CloseWriterKeepsIInv == ASSUME NEW r \in Runs, IInv, CloseWriter(r) PROVE IInv'
<1> USE CommandAssumption DEF CommandAssumption
<1> DEFINE n == run[r].offset
           f == run[r].fd
<1>1. /\ run[r].at = "closing" /\ f # None /\ UNCHANGED <<clock, dir>>
      /\ run[r].how \in {"success", "failed", "panicked"}
      /\ run[r].how = "success" => n = Entries
      /\ run \in [Runs -> Run] /\ blocks \in [Runs -> Seq(Blocks)]
      /\ \/ blocks' = blocks
         \/ blocks' = [blocks EXCEPT ![f] =
                         WriteAt(blocks[f], n, TrailerOf(r))]
  BY DEF CloseWriter, IInv, TypeOK, Run, PlaceInv, PlaceOK
<1>2. f \in Runs /\ n \in Nat
  BY <1>1 DEF Run
<1>3. PICK place \in {"logging", "removing", "exited"} :
        /\ run' = [run EXCEPT ![r].at = place]
        /\ place = "logging" <=> run[r].how = "success"
        /\ place = "removing" <=> run[r].how = "failed"
  BY <1>1 DEF CloseWriter, Go
<1>4. /\ run' \in [Runs -> Run]
      /\ \A q \in Runs \ {r} : run'[q] = run[q]
      /\ run'[r].at = place
      /\ \A q \in Runs : /\ run'[q].fd = run[q].fd
                         /\ run'[q].second = run[q].second
                         /\ run'[q].offset = run[q].offset
                         /\ run'[q].how = run[q].how
  BY <1>1, <1>3 DEF Run, Places
<1>5. TypeOK'
  <2>1. TrailerOf(r) \in Blocks
    BY DEF TrailerOf, Blocks
  <2>2. WriteAt(blocks[f], n, TrailerOf(r)) \in Seq(Blocks)
    BY <1>1, <1>2, <2>1, WriteAtType
  <2>3. blocks' \in [Runs -> Seq(Blocks)]
    BY <1>1, <2>2
  <2> QED
    BY <1>1, <1>4, <2>3 DEF IInv, TypeOK, Run
<1>6. PlaceInv'
  <2>1. PlaceOK(r)'
    BY <1>1, <1>3, <1>4 DEF PlaceOK
  <2>2. ASSUME NEW q \in Runs \ {r} PROVE PlaceOK(q)'
    BY <1>4 DEF IInv, PlaceInv, PlaceOK
  <2> QED
    BY <2>1, <2>2 DEF PlaceInv
<1>7. NameInv'
  <2>1. ASSUME NEW t \in Seconds PROVE Made(dir[t], t)'
    BY <1>1, <1>4 DEF IInv, NameInv, Made, HasFile
  <2>2. ASSUME NEW q \in Runs PROVE Made(run[q].fd, run[q].second)'
    BY <1>4 DEF IInv, NameInv, Made, HasFile
  <2> QED
    BY <2>1, <2>2 DEF NameInv
<1>8. ASSUME NEW q \in Runs, Exited(q, "failed")' PROVE Exited(q, "failed")
  BY <1>1, <1>3, <1>4, <1>8 DEF Exited
<1>9. FailedRunsLeaveNothing'
  BY <1>1, <1>4, <1>8 DEF IInv, FailedRunsLeaveNothing, HasFile
<1>10. OwnInv'
  <2> SUFFICES ASSUME NEW q \in Runs, HasFile(q)', HasOwnName(q)'
               PROVE  OwnOK(q)'
    BY DEF OwnInv
  <2>1. HasFile(q) /\ HasOwnName(q)
    BY <1>4, OwnNamesWereOwn DEF HasFile, FilesStay
  <2>2. OwnOK(q)
    BY <2>1 DEF IInv, OwnInv
  <2>3. CASE q = r
    <3>1. f = r /\ dir[run[r].second] = r /\ blocks[r] = Part(r, n)
      BY <1>1, <2>2, <2>3 DEF OwnOK
    <3>2. ASSUME place = "logging"
          PROVE  blocks'[r] \in {Archive(r), Append(Archive(r), TrailerOf(r))}
      <4>1. blocks[r] = Archive(r) /\ n = Entries
        <5>1. n = Entries
          BY <1>1, <1>3, <3>2
        <5>2. Part(r, Entries) = Archive(r)
          BY DEF Part, Archive
        <5> QED
          BY <3>1, <5>1, <5>2
      <4>2. blocks[f] = Part(r, n) /\ Archive(r) = Part(r, n)
        BY <3>1, <4>1
      <4>3. WriteAt(Part(r, n), n, TrailerOf(r)) = Append(Part(r, n), TrailerOf(r))
        BY <1>2, WriteAtEnd
      <4>4. WriteAt(blocks[f], n, TrailerOf(r)) = Append(Archive(r), TrailerOf(r))
        BY <4>2, <4>3
      <4> QED
        BY <1>1, <1>2, <3>1, <4>1, <4>4
    <3>3. place = "exited" => run'[r].how # "success"
      BY <1>3, <1>4
    <3> QED
      BY <1>1, <1>4, <2>3, <3>1, <3>2, <3>3
      DEF OwnOK, Exited, Archive, EntryOf, TrailerOf
  <2>4. CASE q # r
    <3>1. f # q
      BY <1>1, <2>1, <2>4, WritesAreOwn
    <3>2. blocks'[q] = blocks[q]
      BY <1>1, <1>2, <3>1
    <3> QED
      BY <1>1, <1>4, <2>2, <2>4, <3>2
      DEF OwnOK, Exited, Archive, EntryOf, Part, TrailerOf
  <2> QED
    BY <2>3, <2>4
<1> QED
  BY <1>5, <1>6, <1>7, <1>9, <1>10 DEF IInv

(* IInv is inductive.                                                      *)
LEMMA NextKeepsIInv == IInv /\ [Next]_vars => IInv'
<1> SUFFICES ASSUME IInv, [Next]_vars PROVE IInv'
  OBVIOUS
<1>1. CASE Tick \/ UNCHANGED vars
  <2>1. UNCHANGED <<run, dir, blocks>> /\ clock' \in Seconds
    BY <1>1, CommandAssumption
    DEF Tick, vars, IInv, TypeOK, Seconds, CommandAssumption
  <2> QED
    BY <2>1
    DEF IInv, TypeOK, PlaceInv, PlaceOK, NameInv, Made, FailedRunsLeaveNothing,
        OwnInv, OwnOK, HasOwnName, Sharing, HasFile, Exited
<1>2. ASSUME NEW r \in Runs, Move(r) PROVE IInv'
  BY <1>2, MoveKeepsIInv
<1> QED
  BY <1>1, <1>2, CreateFileKeepsIInv, WriteEntryKeepsIInv,
     CloseWriterKeepsIInv, RemoveFileKeepsIInv
  DEF Next, Move

LEMMA Invariance == Spec => []IInv
  BY InitEstablishesIInv, NextKeepsIInv, PTL DEF Spec

-----------------------------------------------------------------------------
(* Every variable keeps its type.                                          *)
THEOREM TypeCorrect == Spec => []TypeOK
<1>1. IInv => TypeOK
  BY DEF IInv
<1> QED
  BY <1>1, Invariance, PTL

(* A name in the output directory was made by a run that did not fail.     *)
THEOREM FailuresClean == Spec => []FailedRunsLeaveNothing
<1>1. IInv => FailedRunsLeaveNothing
  BY DEF IInv
<1> QED
  BY <1>1, Invariance, PTL

(* A run that said "Wrote output to" a name of its own has its archive     *)
(* there, however many runs there are and whatever they do.                *)
THEOREM AnnouncedStays == Spec => []AnnouncedIsWhole
<1>1. IInv => AnnouncedIsWhole
  <2> SUFFICES ASSUME IInv, NEW r \in Runs, HasOwnName(r),
                      run[r].at = "logging" \/ Exited(r, "success")
               PROVE  Whole(r)
    BY DEF AnnouncedIsWhole
  <2>1. HasFile(r)
    BY DEF IInv, PlaceInv, PlaceOK, Exited, HasFile
  <2>2. OwnOK(r)
    BY <2>1 DEF IInv, OwnInv
  <2> QED
    BY <2>2, CommandAssumption DEF OwnOK, Whole, CommandAssumption
<1> QED
  BY <1>1, Invariance, PTL

(***************************************************************************)
(* The send.                                                               *)
(***************************************************************************)
Send == [at : SendPlaces, second : Seconds, fd : Runs \cup {None},
         read : Seq(Blocks)]

Prefix(s, t) == Len(s) <= Len(t) /\ \A i \in 1..Len(s) : s[i] = t[i]
Beginning(body, r) ==
  \E n \in 0..Entries : body \in {Part(r, n), Append(Part(r, n), TrailerOf(r))}

(* The file of a run that shares its name with no other, however the run   *)
(* ended, is a beginning of its archive.                                   *)
ShapeInv == \A r \in Runs : HasFile(r) /\ HasOwnName(r) => Beginning(blocks[r], r)

(* The runs announced at the start of a send stay what they were, and the  *)
(* file it reads was made by a run that was given the path it sends.       *)
PathInv ==
  /\ \A r \in announced : Exited(r, "success") /\ run[r].second = send.second
  /\ send.at \in {"reading", "delivered"} =>
       send.fd \in Runs /\ Made(send.fd, send.second)

(* What was read of such a file is a prefix of what it holds by now.       *)
ReadInv ==
  send.at \in {"reading", "delivered"} /\ HasOwnName(send.fd) =>
    Prefix(send.read, blocks[send.fd])

(* Nothing is read before the file is open.                                *)
UnreadInv == send.at \in {"start", "checked"} => send.read = <<>>

SInv ==
  /\ IInv
  /\ send \in Send /\ announced \subseteq Runs
  /\ ShapeInv /\ PathInv /\ UnreadInv /\ ReadInv /\ AnnouncedIsDelivered

-----------------------------------------------------------------------------
(* A run keeps its file, and is over when it has exited.                   *)
LEMMA RunsStay ==
  ASSUME IInv, [Next]_vars
  PROVE  /\ FilesStay
         /\ \A r \in Runs : run[r].at = "exited" => run'[r] = run[r]
<1>1. run \in [Runs -> Run]
  BY DEF IInv, TypeOK, Run
<1>2. CASE Tick \/ UNCHANGED vars
  BY <1>2 DEF Tick, vars, FilesStay
<1>3. ASSUME NEW r \in Runs, Move(r)
      PROVE  /\ FilesStay
             /\ \A q \in Runs : run[q].at = "exited" => run'[q] = run[q]
  <2>1. /\ \A q \in Runs \ {r} : run'[q] = run[q]
        /\ run'[r].fd = run[r].fd
        /\ run[r].fd # None => run'[r].second = run[r].second
    BY <1>3, MoveChangesPlace
  <2>2. run[r].at # "exited"
    BY <1>3
    DEF Move, RejectConfig, NameFile, CreateFails, MakeCollector,
        MakeCollectorFails, CollectReturns, LogSuccess, FatalExit, Dies
  <2> QED
    BY <2>1, <2>2 DEF FilesStay
<1>4. ASSUME NEW r \in Runs, CreateFile(r)
      PROVE  /\ FilesStay
             /\ \A q \in Runs : run[q].at = "exited" => run'[q] = run[q]
  <2>1. run[r].fd = None /\ run[r].at = "named"
    BY <1>4 DEF CreateFile, IInv, PlaceInv, PlaceOK
  <2>2. \A q \in Runs \ {r} : run'[q] = run[q]
    BY <1>1, <1>4 DEF CreateFile
  <2> QED
    BY <2>1, <2>2 DEF FilesStay
<1>5. ASSUME NEW r \in Runs, WriteEntry(r) \/ CloseWriter(r) \/ RemoveFile(r)
      PROVE  /\ FilesStay
             /\ \A q \in Runs : run[q].at = "exited" => run'[q] = run[q]
  <2>1. run[r].at # "exited" /\ \A q \in Runs \ {r} : run'[q] = run[q]
    BY <1>1, <1>5 DEF WriteEntry, CloseWriter, RemoveFile, Go
  <2>2. run'[r].fd = run[r].fd /\ run'[r].second = run[r].second
    BY <1>1, <1>5 DEF WriteEntry, CloseWriter, RemoveFile, Go, Run
  <2> QED
    BY <2>1, <2>2 DEF FilesStay
<1> QED
  BY <1>2, <1>3, <1>4, <1>5 DEF Next, Move

(* To a file that is one run's alone, only that run adds, at its end.      *)
Adds(q) ==
  \E n \in 0..Entries : \E block \in Blocks :
    /\ blocks[q] = Part(q, n)
    /\ blocks'[q] = Append(Part(q, n), block)
    /\ Beginning(blocks'[q], q)

LEMMA OwnFilesGrow ==
  ASSUME IInv, [Next]_vars, NEW q \in Runs, HasFile(q), HasOwnName(q)'
  PROVE  HasOwnName(q) /\ (blocks'[q] = blocks[q] \/ Adds(q))
<1> USE CommandAssumption DEF CommandAssumption
<1>1. /\ run \in [Runs -> Run] /\ blocks \in [Runs -> Seq(Blocks)]
      /\ dir \in [Seconds -> Runs \cup {None}]
  BY DEF IInv, TypeOK, Run
<1>2. HasOwnName(q) /\ OwnOK(q)
  BY RunsStay, OwnNamesWereOwn DEF IInv, OwnInv
<1>3. CASE Tick \/ UNCHANGED vars \/ \E r \in Runs : Move(r) \/ RemoveFile(r)
  <2>1. blocks' = blocks
    BY <1>3, MoveChangesPlace DEF Tick, vars, RemoveFile
  <2> QED
    BY <1>2, <2>1
<1>4. ASSUME NEW r \in Runs, CreateFile(r) PROVE blocks'[q] = blocks[q]
  <2> DEFINE t == run[r].second
             f == IF dir[t] = None THEN r ELSE dir[t]
  <2>1. /\ run[r].at = "named" /\ run[r].fd = None /\ t \in Seconds
        /\ blocks' = [blocks EXCEPT ![f] = <<>>]
        /\ run' = [run EXCEPT ![r].at = "created", ![r].fd = f]
    BY <1>1, <1>4 DEF CreateFile, IInv, PlaceInv, PlaceOK, Run
  <2>2. f \in Runs /\ f # None
    BY <1>1, <2>1
  <2>3. q # r
    BY <2>1 DEF HasFile
  <2>4. run'[q] = run[q] /\ run'[r].fd = f /\ run'[r].second = t
    BY <1>1, <2>1, <2>3 DEF Run
  <2>5. t # run[q].second
    BY <2>2, <2>3, <2>4 DEF HasOwnName, Sharing, HasFile
  <2>6. f # q
    BY <1>1, <2>1, <2>3, <2>5 DEF IInv, NameInv, Made
  <2> QED
    BY <1>1, <2>1, <2>6
<1>5. ASSUME NEW r \in Runs, WriteEntry(r) \/ CloseWriter(r)
      PROVE  blocks'[q] = blocks[q] \/ Adds(q)
  <2>1. /\ run[r].at \in {"collecting", "closing"} /\ run[r].fd # None
        /\ run[r].fd \in Runs /\ run[r].offset \in 0..Entries
    BY <1>1, <1>5 DEF WriteEntry, CloseWriter, IInv, PlaceInv, PlaceOK, Run
  <2>2. CASE r # q
    <3>1. run[r].fd # q
      BY <1>2, <2>1, <2>2, WritesAreOwn
    <3> QED
      BY <1>1, <1>5, <2>1, <3>1 DEF WriteEntry, CloseWriter
  <2>3. CASE r = q
    <3> DEFINE n == run[q].offset
    <3>1. run[q].fd = q /\ blocks[q] = Part(q, n) /\ n \in 0..Entries
      BY <1>2, <2>1, <2>3 DEF OwnOK
    <3>2. CASE WriteEntry(q)
      <4>1. n < Entries /\ blocks'[q] = WriteAt(Part(q, n), n, EntryOf(q, n + 1))
        BY <1>1, <3>1, <3>2 DEF WriteEntry
      <4>2. /\ blocks'[q] = Append(Part(q, n), EntryOf(q, n + 1))
            /\ blocks'[q] = Part(q, n + 1)
        BY <3>1, <4>1, WriteAtEnd
      <4>3. n + 1 \in 0..Entries /\ EntryOf(q, n + 1) \in Blocks
        BY <3>1, <4>1 DEF EntryOf, Blocks
      <4> QED
        BY <3>1, <4>2, <4>3 DEF Adds, Beginning
    <3>3. CASE CloseWriter(q)
      <4>1. \/ blocks'[q] = blocks[q]
            \/ blocks'[q] = WriteAt(Part(q, n), n, TrailerOf(q))
        BY <1>1, <3>1, <3>3 DEF CloseWriter
      <4>2. WriteAt(Part(q, n), n, TrailerOf(q)) = Append(Part(q, n), TrailerOf(q))
        BY <3>1, WriteAtEnd
      <4>3. TrailerOf(q) \in Blocks
        BY DEF TrailerOf, Blocks
      <4> QED
        BY <3>1, <4>1, <4>2, <4>3 DEF Adds, Beginning
    <3> QED
      BY <1>5, <2>3, <3>2, <3>3
  <2> QED
    BY <2>2, <2>3
<1> QED
  BY <1>2, <1>3, <1>4, <1>5 DEF Next, Move

(* A run that gets a file has just created it.                             *)
LEMMA NewFilesAreEmpty ==
  ASSUME IInv, [Next]_vars, NEW q \in Runs, ~HasFile(q), HasFile(q)'
  PROVE  run'[q].at = "created" /\ run'[q].offset = 0
<1>1. run \in [Runs -> Run] /\ dir \in [Seconds -> Runs \cup {None}]
  BY DEF IInv, TypeOK, Run
<1>2. run'[q].fd # run[q].fd
  BY DEF HasFile
<1>3. ~(Tick \/ UNCHANGED vars)
  BY <1>2 DEF Tick, vars
<1>4. ASSUME NEW r \in Runs PROVE ~Move(r)
  BY <1>2, MoveChangesPlace
<1>5. ASSUME NEW r \in Runs
      PROVE  ~(WriteEntry(r) \/ CloseWriter(r) \/ RemoveFile(r))
  BY <1>1, <1>2 DEF WriteEntry, CloseWriter, RemoveFile, Go, Run
<1>6. PICK r \in Runs : CreateFile(r)
  BY <1>3, <1>4, <1>5 DEF Next, Move
<1>7. r = q
  BY <1>1, <1>2, <1>6 DEF CreateFile
<1>8. run[q].at = "named" /\ run[q].offset = 0
  BY <1>6, <1>7 DEF CreateFile, IInv, PlaceInv, PlaceOK
<1> QED
  BY <1>1, <1>6, <1>7, <1>8 DEF CreateFile, Run

-----------------------------------------------------------------------------
(* Nobody has started.                                                     *)
LEMMA InitEstablishesSInv == InitAll => SInv
<1> SUFFICES ASSUME InitAll PROVE SInv
  OBVIOUS
<1>1. IInv
  BY InitEstablishesIInv DEF InitAll
<1>2. send \in Send /\ announced \subseteq Runs
  <2>1. 0 \in Seconds
    BY CommandAssumption DEF CommandAssumption, Seconds
  <2> QED
    BY <2>1, EmptySeq DEF InitAll, Send, SendPlaces
<1>3. ShapeInv
  BY DEF InitAll, Init, ShapeInv, HasFile
<1> QED
  BY <1>1, <1>2, <1>3
  DEF InitAll, SInv, PathInv, UnreadInv, ReadInv, AnnouncedIsDelivered

(* A step of the collect command keeps what the send relies on.            *)
LEMMA RunsKeepSInv ==
  ASSUME SInv, [Next]_vars, UNCHANGED sendVars PROVE SInv'
<1>1. /\ UNCHANGED <<send, announced>> /\ IInv /\ IInv'
      /\ send \in Send /\ announced \subseteq Runs
  BY NextKeepsIInv DEF SInv, sendVars
<1>2. /\ FilesStay
      /\ \A r \in Runs : run[r].at = "exited" => run'[r] = run[r]
  BY <1>1, RunsStay
<1>3. ShapeInv'
  <2> SUFFICES ASSUME NEW r \in Runs, HasFile(r)', HasOwnName(r)'
               PROVE  Beginning(blocks'[r], r)
    BY DEF ShapeInv, Beginning, Part, EntryOf, TrailerOf
  <2>1. CASE HasFile(r)
    <3>1. HasOwnName(r) /\ (blocks'[r] = blocks[r] \/ Adds(r))
      BY <1>1, <2>1, OwnFilesGrow
    <3>2. Beginning(blocks[r], r)
      BY <2>1, <3>1 DEF SInv, ShapeInv
    <3> QED
      BY <3>1, <3>2 DEF Adds
  <2>2. CASE ~HasFile(r)
    <3>1. run'[r].at = "created" /\ run'[r].offset = 0
      BY <1>1, <2>2, NewFilesAreEmpty
    <3>2. blocks'[r] = Part(r, 0)
      BY <1>1, <3>1 DEF IInv, OwnInv, OwnOK, Part, EntryOf
    <3>3. 0 \in 0..Entries
      BY CommandAssumption DEF CommandAssumption
    <3> QED
      BY <3>2, <3>3 DEF Beginning
  <2> QED
    BY <2>1, <2>2
<1>4. PathInv'
  BY <1>1, <1>2 DEF SInv, PathInv, Exited, Made, HasFile, FilesStay
<1>5. ReadInv'
  <2> SUFFICES ASSUME send.at \in {"reading", "delivered"}, HasOwnName(send.fd)'
               PROVE  Prefix(send.read, blocks'[send.fd])
    BY <1>1 DEF ReadInv, Prefix
  <2> DEFINE q == send.fd
  <2>1. q \in Runs /\ HasFile(q)
    BY DEF SInv, PathInv, Made
  <2>2. HasOwnName(q) /\ (blocks'[q] = blocks[q] \/ Adds(q))
    BY <1>1, <2>1, OwnFilesGrow
  <2>3. Prefix(send.read, blocks[q])
    BY <2>2 DEF SInv, ReadInv
  <2>4. CASE Adds(q)
    <3>1. PICK block \in Blocks : blocks'[q] = Append(blocks[q], block)
      BY <2>4 DEF Adds
    <3>2. blocks[q] \in Seq(Blocks) /\ send.read \in Seq(Blocks)
      BY <1>1, <2>1 DEF IInv, TypeOK, Send
    <3> QED
      BY <2>3, <3>1, <3>2, AppendProperties DEF Prefix
  <2> QED
    BY <2>2, <2>3, <2>4
<1>6. AnnouncedIsDelivered'
  <2> SUFFICES ASSUME send.at = "delivered", NEW r \in announced, HasOwnName(r)'
               PROVE  IsArchive(send.read, r)
    BY <1>1 DEF AnnouncedIsDelivered, IsArchive, Archive, EntryOf, TrailerOf
  <2>1. r \in Runs /\ HasFile(r)
    BY <1>1 DEF SInv, PathInv, IInv, PlaceInv, PlaceOK, Exited, HasFile
  <2>2. HasOwnName(r)
    BY <1>2, <2>1, OwnNamesWereOwn
  <2> QED
    BY <2>2 DEF SInv, AnnouncedIsDelivered
<1> QED
  BY <1>1, <1>3, <1>4, <1>5, <1>6 DEF SInv, UnreadInv

(* What is said of the runs alone holds as long as they stand still.       *)
LEMMA StandingStill ==
  ASSUME IInv, ShapeInv, UNCHANGED <<clock, run, dir, blocks>>
  PROVE  IInv' /\ ShapeInv'
<1>1. IInv'
  BY NextKeepsIInv DEF vars
<1> QED
  BY <1>1
  DEF ShapeInv, HasOwnName, Sharing, HasFile, Beginning, Part, EntryOf, TrailerOf

(* The steps of the send that do not read.                                 *)
LEMMA RejectSendKeepsSInv == ASSUME SInv, RejectSend \/ SendFails PROVE SInv'
<1>1. UNCHANGED <<vars, announced>> /\ send' = [send EXCEPT !.at = "failed"]
  BY DEF RejectSend, SendFails, SendAt
<1>2. UNCHANGED <<clock, run, dir, blocks, announced>> /\ send \in Send
  BY <1>1 DEF vars, SInv
<1>3. send' \in Send /\ send'.second = send.second /\ send'.at = "failed"
  BY <1>1, <1>2 DEF Send, SendPlaces
<1>4. IInv' /\ ShapeInv'
  BY <1>2, StandingStill DEF SInv
<1> QED
  BY <1>2, <1>3, <1>4
  DEF SInv, PathInv, UnreadInv, ReadInv, AnnouncedIsDelivered, Exited

LEMMA CheckFileKeepsSInv ==
  ASSUME SInv, NEW t \in Seconds, CheckFile(t) PROVE SInv'
<1>1. UNCHANGED <<clock, run, dir, blocks>> /\ send \in Send
  BY DEF CheckFile, vars, SInv
<1>2. /\ send' = [send EXCEPT !.at = "checked", !.second = t]
      /\ announced' = Announced(t)
  BY DEF CheckFile
<1>3. send' \in Send /\ send'.second = t /\ send'.at = "checked"
  BY <1>1, <1>2 DEF Send, SendPlaces
<1>4. IInv' /\ ShapeInv'
  BY <1>1, StandingStill DEF SInv
<1> QED
  BY <1>1, <1>2, <1>3, <1>4
  DEF SInv, PathInv, UnreadInv, ReadInv, AnnouncedIsDelivered, Announced,
      Exited, CheckFile

(* What is opened under the path was made by a run that was given it.      *)
LEMMA OpenFileKeepsSInv == ASSUME SInv, OpenFile PROVE SInv'
<1>1. UNCHANGED <<clock, run, dir, blocks, announced>> /\ send \in Send
  BY DEF OpenFile, vars, SInv
<1>2. IInv' /\ ShapeInv'
  BY <1>1, StandingStill DEF SInv
<1>3. CASE dir[send.second] = None
  <2>1. send' \in Send /\ send'.second = send.second /\ send'.at = "failed"
    BY <1>1, <1>3 DEF OpenFile, SendAt, Send, SendPlaces
  <2> QED
    BY <1>1, <1>2, <2>1
    DEF SInv, PathInv, UnreadInv, ReadInv, AnnouncedIsDelivered, Exited
<1>4. CASE dir[send.second] # None
  <2> DEFINE f == dir[send.second]
  <2>1. f \in Runs /\ Made(f, send.second)
    BY <1>1, <1>4 DEF SInv, IInv, TypeOK, NameInv, Send
  <2>2. /\ send' \in Send /\ send'.second = send.second /\ send'.at = "reading"
        /\ send'.fd = f /\ send'.read = send.read
    BY <1>1, <1>4, <2>1 DEF OpenFile, Send, SendPlaces
  <2>3. send.read = <<>>
    BY DEF SInv, UnreadInv, OpenFile
  <2>4. PathInv'
    BY <1>1, <2>1, <2>2 DEF SInv, PathInv, Made, HasFile, Exited
  <2>5. ReadInv'
    <3>1. blocks[f] \in Seq(Blocks)
      BY <2>1 DEF SInv, IInv, TypeOK
    <3>2. Prefix(<<>>, blocks[f])
      BY <3>1 DEF Prefix
    <3> QED
      BY <1>1, <2>2, <2>3, <3>2 DEF ReadInv, Prefix
  <2> QED
    BY <1>1, <1>2, <2>2, <2>4, <2>5 DEF SInv, AnnouncedIsDelivered, UnreadInv
<1> QED
  BY <1>3, <1>4

LEMMA ReadBlockKeepsSInv == ASSUME SInv, ReadBlock PROVE SInv'
<1> DEFINE n == Len(send.read)
           f == send.fd
<1>1. /\ UNCHANGED <<clock, run, dir, blocks, announced>> /\ send \in Send
      /\ send.at = "reading" /\ f \in Runs /\ Made(f, send.second)
  BY DEF ReadBlock, vars, SInv, PathInv
<1>2. IInv' /\ ShapeInv'
  BY <1>1, StandingStill DEF SInv
<1>3. /\ send.read \in Seq(Blocks) /\ blocks[f] \in Seq(Blocks)
      /\ n < Len(blocks[f]) /\ n \in Nat
  BY <1>1 DEF SInv, IInv, TypeOK, Send, ReadBlock, Unread
<1>4. blocks[f][n + 1] \in Blocks
  BY <1>3
<1>5. send' = [send EXCEPT !.read = Append(send.read, blocks[f][n + 1])]
  BY DEF ReadBlock
<1>6. /\ send' \in Send /\ send'.second = send.second /\ send'.at = "reading"
      /\ send'.fd = f /\ send'.read = Append(send.read, blocks[f][n + 1])
  BY <1>1, <1>3, <1>4, <1>5 DEF Send
<1>7. PathInv'
  BY <1>1, <1>6 DEF SInv, PathInv, Made, HasFile, Exited
<1>8. ReadInv'
  <2> SUFFICES ASSUME HasOwnName(f) PROVE Prefix(send'.read, blocks[f])
    BY <1>1, <1>6 DEF ReadInv, HasOwnName, Sharing, HasFile, Prefix
  <2>1. Prefix(send.read, blocks[f])
    BY <1>1 DEF SInv, ReadInv
  <2> QED
    BY <1>3, <1>4, <1>6, <2>1, AppendProperties DEF Prefix
<1> QED
  BY <1>1, <1>2, <1>6, <1>7, <1>8 DEF SInv, AnnouncedIsDelivered, UnreadInv

(* At the end of the file, what was read is what the file holds.           *)
LEMMA PrefixEnds ==
  ASSUME NEW S, NEW s \in Seq(S), NEW t \in Seq(S), Prefix(s, t), ~(Len(s) < Len(t))
  PROVE  s = t
BY DEF Prefix

LEMMA DeliverKeepsSInv == ASSUME SInv, Deliver PROVE SInv'
<1> DEFINE f == send.fd
<1>1. /\ UNCHANGED <<clock, run, dir, blocks, announced>> /\ send \in Send
      /\ send.at = "reading" /\ f \in Runs /\ Made(f, send.second)
  BY DEF Deliver, vars, SInv, PathInv
<1>2. IInv' /\ ShapeInv'
  BY <1>1, StandingStill DEF SInv
<1>3. /\ send' \in Send /\ send'.second = send.second /\ send'.at = "delivered"
      /\ send'.fd = f /\ send'.read = send.read
  BY <1>1 DEF Deliver, SendAt, Send, SendPlaces
<1>4. PathInv'
  BY <1>1, <1>3 DEF SInv, PathInv, Made, HasFile, Exited
<1>5. ReadInv'
  BY <1>1, <1>3 DEF SInv, ReadInv, HasOwnName, Sharing, HasFile, Prefix
<1>6. AnnouncedIsDelivered'
  <2> SUFFICES ASSUME NEW r \in announced, HasOwnName(r)
               PROVE  IsArchive(send.read, r)
    BY <1>1, <1>3
    DEF AnnouncedIsDelivered, HasOwnName, Sharing, HasFile, IsArchive, Archive,
        EntryOf, TrailerOf
  <2>1. r \in Runs /\ Exited(r, "success") /\ run[r].second = send.second
    BY DEF SInv, PathInv
  <2>2. HasFile(r) /\ OwnOK(r)
    BY <2>1 DEF SInv, IInv, PlaceInv, PlaceOK, OwnInv, Exited, HasFile
  <2>3. f = r
    BY <1>1, <2>1, <2>2 DEF Made, HasOwnName, Sharing
  <2>4. send.read = blocks[r]
    <3>1. Prefix(send.read, blocks[r]) /\ ~(Len(send.read) < Len(blocks[r]))
      BY <1>1, <2>3 DEF SInv, ReadInv, Deliver, Unread
    <3>2. send.read \in Seq(Blocks) /\ blocks[r] \in Seq(Blocks)
      BY <1>1, <2>1 DEF SInv, IInv, TypeOK, Send
    <3> QED
      BY <3>1, <3>2, PrefixEnds
  <2> QED
    BY <2>1, <2>2, <2>4 DEF OwnOK, IsArchive
<1> QED
  BY <1>1, <1>2, <1>3, <1>4, <1>5, <1>6 DEF SInv, UnreadInv

(* SInv is inductive.                                                      *)
LEMMA NextKeepsSInv == SInv /\ [NextAll]_allVars => SInv'
<1> SUFFICES ASSUME SInv, [NextAll]_allVars PROVE SInv'
  OBVIOUS
<1>1. CASE [Next]_vars /\ UNCHANGED sendVars
  BY <1>1, RunsKeepSInv
<1> QED
  BY <1>1, RejectSendKeepsSInv, CheckFileKeepsSInv, OpenFileKeepsSInv,
     ReadBlockKeepsSInv, DeliverKeepsSInv
  DEF NextAll, allVars

LEMMA SendInvariance == SpecAll => []SInv
  BY InitEstablishesSInv, NextKeepsSInv, PTL DEF SpecAll

-----------------------------------------------------------------------------
(* Every variable keeps its type; a send that reads has a file.            *)
THEOREM SendTypeCorrect == SpecAll => []SendTypeOK
<1>1. SInv => SendTypeOK
  BY DEF SInv, Send, PathInv, SendTypeOK
<1> QED
  BY <1>1, SendInvariance, PTL

(* What was announced under a name of its own is what a send delivers.     *)
THEOREM DeliversAnnounced == SpecAll => []AnnouncedIsDelivered
<1>1. SInv => AnnouncedIsDelivered
  BY DEF SInv
<1> QED
  BY <1>1, SendInvariance, PTL

(* A beginning of a beginning is one.                                      *)
LEMMA PrefixOfBeginning ==
  ASSUME NEW r \in Runs, NEW s \in Seq(Blocks), NEW t \in Seq(Blocks),
         Beginning(t, r), Prefix(s, t)
  PROVE  Beginning(s, r)
<1>1. PICK n \in 0..Entries :
        t = Part(r, n) \/ t = Append(Part(r, n), TrailerOf(r))
  BY DEF Beginning
<1>2. /\ Part(r, n) \in Seq(Blocks) /\ Len(Part(r, n)) = n
      /\ \A i \in 1..n : Part(r, n)[i] = EntryOf(r, i)
  <2>1. ASSUME NEW i \in 1..n PROVE EntryOf(r, i) \in Blocks
    <3>1. i \in 1..Entries + 1
      BY CommandAssumption DEF CommandAssumption
    <3> QED
      BY <3>1 DEF EntryOf, Blocks
  <2>2. Part(r, n) \in [1..n -> Blocks] /\ n \in Nat
    BY <2>1 DEF Part
  <2>3. Part(r, n) \in Seq(Blocks) /\ DOMAIN Part(r, n) = 1..n
    BY <2>2
  <2> QED
    BY <2>2, <2>3, LenProperties DEF Part
<1>3. CASE Len(s) <= n
  <2>1. ASSUME NEW i \in 1..Len(s) PROVE s[i] = EntryOf(r, i)
    <3>1. i \in 1..n /\ s[i] = t[i]
      BY <1>3 DEF Prefix
    <3>2. Part(r, n)[i] = EntryOf(r, i)
      BY <1>2, <3>1
    <3>3. TrailerOf(r) \in Blocks
      BY CommandAssumption DEF TrailerOf, Blocks, CommandAssumption
    <3>4. Append(Part(r, n), TrailerOf(r))[i] = Part(r, n)[i]
      BY <1>2, <3>1, <3>3, AppendProperties
    <3> QED
      BY <1>1, <3>1, <3>2, <3>4
  <2>2. s = [i \in 1..Len(s) |-> s[i]] /\ Len(s) \in 0..Entries
    <3>1. s = [i \in 1..Len(s) |-> s[i]] /\ Len(s) \in Nat
      BY LenProperties
    <3>2. Len(s) <= Entries
      BY <1>3, <3>1, CommandAssumption DEF CommandAssumption
    <3> QED
      BY <3>1, <3>2, CommandAssumption DEF CommandAssumption
  <2>3. s = Part(r, Len(s))
    BY <2>1, <2>2 DEF Part
  <2> QED
    BY <2>2, <2>3 DEF Beginning
<1>4. CASE ~(Len(s) <= n)
  <2>1. t = Append(Part(r, n), TrailerOf(r)) /\ Len(t) = n + 1
    BY <1>1, <1>2, <1>4, AppendProperties DEF Prefix
  <2>2. s = t
    <3>1. Len(s) \in Nat /\ n \in Nat
      OBVIOUS
    <3>2. ~(Len(s) < Len(t))
      BY <1>4, <2>1, <3>1
    <3> QED
      BY <3>2, PrefixEnds
  <2> QED
    BY <2>1, <2>2 DEF Beginning
<1> QED
  BY <1>3, <1>4

(* A send that is early delivers a beginning of one archive, in order.     *)
THEOREM DeliversBeginning == SpecAll => []SentIsBeginning
<1>1. SInv => SentIsBeginning
  <2> SUFFICES ASSUME SInv, send.at \in {"reading", "delivered"},
                      HasOwnName(send.fd)
               PROVE  Beginning(send.read, send.fd)
    BY DEF SentIsBeginning, Beginning, Part
  <2>1. send.fd \in Runs /\ HasFile(send.fd) /\ send.read \in Seq(Blocks)
    BY DEF SInv, PathInv, Made, Send
  <2>2. blocks[send.fd] \in Seq(Blocks) /\ Beginning(blocks[send.fd], send.fd)
    BY <2>1 DEF SInv, IInv, TypeOK, ShapeInv
  <2>3. Prefix(send.read, blocks[send.fd])
    BY DEF SInv, ReadInv
  <2> QED
    BY <2>1, <2>2, <2>3, PrefixOfBeginning
<1> QED
  BY <1>1, SendInvariance, PTL
=============================================================================
