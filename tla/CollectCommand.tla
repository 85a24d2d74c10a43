--------------------------- MODULE CollectCommand ---------------------------
(***************************************************************************)
(* The collect command of cmd/collect.go, run several times over one       *)
(* output directory (a cron job, a retry, two operators). Every run names  *)
(* its tar file after the second it starts in, creates or truncates it,    *)
(* lets the collect executor write its entries, and removes the file by    *)
(* name when the collection fails.                                         *)
(*                                                                         *)
(* The file system is modelled as it behaves: a directory maps names to    *)
(* files, an open file keeps its own offset, and a file that was truncated *)
(* or unlinked stays open to those who opened it. A tar file is its        *)
(* sequence of blocks: one per archive entry, and the trailer that closes  *)
(* the tar.Writer.                                                         *)
(***************************************************************************)
EXTENDS Naturals, Sequences

CONSTANTS
  Runs,        \* invocations of the command
  LastSecond,  \* bound: the clock shows the seconds 0..LastSecond
  Entries,     \* bound: the entries of a complete archive
  None,        \* no file
  Hole         \* a block nobody wrote

ASSUME CommandAssumption ==
  /\ LastSecond \in Nat
  /\ Entries \in Nat \ {0}
  /\ None \notin Runs
  /\ Hole \notin Runs \X (1..Entries + 1)

VARIABLES
  clock,  \* the wall clock, in seconds
  run,    \* per run: where it is, its file name, its open file and offset
  dir,    \* the output directory: per second, the file of that name or None
  blocks  \* per file, its blocks; files are named by the run that made them

vars == <<clock, run, dir, blocks>>

Seconds == 0..LastSecond
Places == {"start", "named", "created", "collecting", "closing", "removing",
           "logging", "exited"}
Ways == {"running", "success", "failed", "panicked", "fatal", "killed"}

(* A write at offset n of a file: what lies between its end and the offset *)
(* is a hole.                                                              *)
WriteAt(file, n, block) ==
  [i \in 1..(IF Len(file) > n THEN Len(file) ELSE n + 1) |->
     IF i = n + 1 THEN block
     ELSE IF i <= Len(file) THEN file[i] ELSE Hole]

EntryOf(r, n) == <<r, n>>
TrailerOf(r) == <<r, Entries + 1>>

Go(r, place) == run' = [run EXCEPT ![r].at = place]
GoWith(r, place, how) == run' = [run EXCEPT ![r].at = place, ![r].how = how]

-----------------------------------------------------------------------------
Init ==
  /\ clock = 0
  /\ run = [r \in Runs |-> [at |-> "start", second |-> 0, fd |-> None,
                            offset |-> 0, how |-> "running"]]
  /\ dir = [t \in Seconds |-> None]
  /\ blocks = [r \in Runs |-> <<>>]

Tick ==
  /\ clock < LastSecond
  /\ clock' = clock + 1
  /\ UNCHANGED <<run, dir, blocks>>

(* A config file that cannot be read, a missing or invalid flag: the run   *)
(* ends before it names its file.                                          *)
RejectConfig(r) ==
  /\ run[r].at = "start"
  /\ GoWith(r, "exited", "failed")
  /\ UNCHANGED <<clock, dir, blocks>>

NameFile(r) ==
  /\ run[r].at = "start"
  /\ run' = [run EXCEPT ![r].at = "named", ![r].second = clock]
  /\ UNCHANGED <<clock, dir, blocks>>

CreateFails(r) ==
  /\ run[r].at = "named"
  /\ GoWith(r, "exited", "failed")
  /\ UNCHANGED <<clock, dir, blocks>>

(* os.Create opens with O_CREATE and O_TRUNC: a file that has the name     *)
(* already is emptied under whoever writes it.                             *)
CreateFile(r) ==
  /\ run[r].at = "named"
  /\ LET t == run[r].second
         file == IF dir[t] = None THEN r ELSE dir[t]
     IN /\ dir' = [dir EXCEPT ![t] = file]
        /\ blocks' = [blocks EXCEPT ![file] = <<>>]
        /\ run' = [run EXCEPT ![r].at = "created", ![r].fd = file]
  /\ UNCHANGED clock

MakeCollector(r) ==
  /\ run[r].at = "created"
  /\ Go(r, "collecting")
  /\ UNCHANGED <<clock, dir, blocks>>

(* Variant: the file is removed only once something collects into it.      *)
LeaveFileOnBadConfig(r) ==
  /\ run[r].at = "created"
  /\ GoWith(r, "exited", "failed")
  /\ UNCHANGED <<clock, dir, blocks>>

(* The configuration of a service is invalid, the Cloud Foundry API or the *)
(* BOSH credentials cannot be had: the tar writer is not even closed.      *)
MakeCollectorFails(r) ==
  /\ run[r].at = "created"
  /\ GoWith(r, "removing", "failed")
  /\ UNCHANGED <<clock, dir, blocks>>

(* Variant: what Collect writes is not bounded by what it collected.       *)
WriteEntryAgain(r) ==
  /\ run[r].at = "collecting"
  /\ run[r].offset <= Entries
  /\ blocks' = [blocks EXCEPT ![run[r].fd] =
                  WriteAt(@, run[r].offset, EntryOf(r, run[r].offset + 1))]
  /\ run' = [run EXCEPT ![r].offset = @ + 1]
  /\ UNCHANGED <<clock, dir>>

WriteEntry(r) ==
  /\ run[r].at = "collecting"
  /\ run[r].offset < Entries
  /\ blocks' = [blocks EXCEPT ![run[r].fd] =
                  WriteAt(@, run[r].offset, EntryOf(r, run[r].offset + 1))]
  /\ run' = [run EXCEPT ![r].offset = @ + 1]
  /\ UNCHANGED <<clock, dir>>

CollectReturns(r, how) ==
  /\ run[r].at = "collecting"
  /\ \/ how = "success" /\ run[r].offset = Entries
     \/ how \in {"failed", "panicked"}
  /\ GoWith(r, "closing", how)
  /\ UNCHANGED <<clock, dir, blocks>>

(* The deferred tarWriter.Close of the executor runs on every way out of   *)
(* Collect; a failure to write the trailer goes unnoticed. A panic goes on *)
(* to end the process, past os.Remove.                                     *)
CloseWriter(r) ==
  /\ run[r].at = "closing"
  /\ \/ UNCHANGED blocks
     \/ blocks' = [blocks EXCEPT ![run[r].fd] =
                     WriteAt(@, run[r].offset, TrailerOf(r))]
  /\ Go(r, CASE run[r].how = "success" -> "logging"
             [] run[r].how = "failed" -> "removing"
             [] run[r].how = "panicked" -> "exited")
  /\ UNCHANGED <<clock, dir>>

(* Variant: a failed run clears the output directory.                      *)
RemoveAllFiles(r) ==
  /\ run[r].at = "removing"
  /\ dir' = [t \in Seconds |-> None]
  /\ Go(r, "exited")
  /\ UNCHANGED <<clock, blocks>>

(* tarFile.Close and os.Remove: the name goes, whichever file it names.    *)
RemoveFile(r) ==
  /\ run[r].at = "removing"
  /\ dir' = [dir EXCEPT ![run[r].second] = None]
  /\ Go(r, "exited")
  /\ UNCHANGED <<clock, blocks>>

(* "Wrote output to ...", "Success!", and the deferred tarFile.Close.      *)
LogSuccess(r) ==
  /\ run[r].at = "logging"
  /\ Go(r, "exited")
  /\ UNCHANGED <<clock, dir, blocks>>

(* om's ListStagedPendingChanges calls log.Fatal on a body it cannot read: *)
(* exit status 1 with no deferred call, before any entry is written.       *)
FatalExit(r) ==
  /\ run[r].at = "collecting"
  /\ run[r].offset = 0
  /\ GoWith(r, "exited", "fatal")
  /\ UNCHANGED <<clock, dir, blocks>>

(* A signal, or the machine, ends the process.                             *)
Dies(r) ==
  /\ run[r].at # "exited"
  /\ GoWith(r, "exited", "killed")
  /\ UNCHANGED <<clock, dir, blocks>>

Next ==
  \/ Tick
  \/ \E r \in Runs :
       \/ RejectConfig(r) \/ NameFile(r) \/ CreateFails(r) \/ CreateFile(r)
       \/ MakeCollector(r) \/ MakeCollectorFails(r)
       \/ WriteEntry(r)
       \/ \E how \in {"success", "failed", "panicked"} : CollectReturns(r, how)
       \/ CloseWriter(r) \/ RemoveFile(r) \/ LogSuccess(r)
       \/ FatalExit(r) \/ Dies(r)

Spec == Init /\ [][Next]_vars
-----------------------------------------------------------------------------
Blocks == (Runs \X (1..Entries + 1)) \cup {Hole}

TypeOK ==
  /\ clock \in Seconds
  /\ run \in [Runs -> [at : Places, second : Seconds, fd : Runs \cup {None},
                       offset : 0..Entries, how : Ways]]
  /\ dir \in [Seconds -> Runs \cup {None}]
  /\ blocks \in [Runs -> Seq(Blocks)]

Exited(r, how) == run[r].at = "exited" /\ run[r].how = how
HasFile(r) == run[r].fd # None
Sharing(r, q) == HasFile(r) /\ HasFile(q) /\ run[r].second = run[q].second
HasOwnName(r) == \A q \in Runs \ {r} : ~Sharing(r, q)

Archive(r) == [n \in 1..Entries |-> EntryOf(r, n)]
Whole(r) == LET file == dir[run[r].second] IN
  /\ file # None
  /\ blocks[file] \in {Archive(r), Append(Archive(r), TrailerOf(r))}

(* A run that said "Wrote output to" a name no other run was given has its *)
(* whole archive, and nothing else, under that name from then on: whatever *)
(* the other runs do, and whichever of them fail and remove files.         *)
AnnouncedIsWhole ==
  \A r \in Runs : (run[r].at = "logging" \/ Exited(r, "success")) /\ HasOwnName(r) => Whole(r)

(* A file left in the output directory was created by a run that did not   *)
(* fail: a run that reports an error removes what stands under its name,   *)
(* also when the name is shared and others truncated or removed the file.  *)
FailedRunsLeaveNothing ==
  \A t \in Seconds : dir[t] # None =>
    \E r \in Runs : HasFile(r) /\ run[r].second = t /\ ~Exited(r, "failed")

(* What the success message and the integration tests say: a run that      *)
(* succeeds leaves its output. Two runs of one second refute it.           *)
SuccessLeavesOutput == \A r \in Runs : Exited(r, "success") => Whole(r)

(* What the integration tests expect of failing runs: the output directory *)
(* is empty after them. A panic or the log.Fatal of a library refute it.   *)
FailureLeavesNoFile ==
  \A r \in Runs :
    /\ \E how \in {"failed", "panicked", "fatal"} : Exited(r, how)
    /\ HasFile(r) /\ HasOwnName(r)
    => dir[run[r].second] = None
=============================================================================
