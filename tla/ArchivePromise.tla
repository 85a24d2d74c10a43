--------------------------- MODULE ArchivePromise ---------------------------
(***************************************************************************)
(* What a collection promises to the reader of its archive, whatever       *)
(* happens to it: the archive gains whole data sets, one at a time and     *)
(* each at most once, all of one collection of one foundation; a data set  *)
(* never changes again; and the collection succeeds only with every data   *)
(* set it was asked for.                                                   *)
(***************************************************************************)
CONSTANTS DataSets, DataFiles, Identities, None

VARIABLES required,  \* the data sets the collection must deliver
          allowed,   \* the data sets it may deliver
          identity,  \* of the collection: its UUID and its foundation
          contents,  \* per data set, None or what was delivered
          status

promiseVars == <<required, allowed, identity, contents, status>>

NamesAreDistinct(files) ==
  \A f, g \in files : f.name = g.name => f = g

Init ==
  /\ required \in SUBSET DataSets
  /\ allowed \in SUBSET DataSets
  /\ identity = None
  /\ contents = [d \in DataSets |-> None]
  /\ status = "running"

Identify ==
  /\ status = "running"
  /\ identity = None
  /\ identity' \in Identities
  /\ UNCHANGED <<required, allowed, contents, status>>

Deliver(d) ==
  /\ status = "running"
  /\ identity # None
  /\ d \in allowed
  /\ contents[d] = None
  /\ contents'[d] \in [of : {identity}, files : SUBSET DataFiles]
  /\ NamesAreDistinct(contents'[d].files)
  /\ contents' = [contents EXCEPT ![d] = contents'[d]]
  /\ UNCHANGED <<required, allowed, identity, status>>

Succeed ==
  /\ status = "running"
  /\ \A d \in required : contents[d] # None
  /\ status' = "success"
  /\ UNCHANGED <<required, allowed, identity, contents>>

GiveUp ==
  /\ status = "running"
  /\ status' \in {"failed", "panicked", "killed"}
  /\ UNCHANGED <<required, allowed, identity, contents>>

Next == Identify \/ (\E d \in DataSets : Deliver(d)) \/ Succeed \/ GiveUp

Spec == Init /\ [][Next]_promiseVars
=============================================================================
