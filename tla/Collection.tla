----------------------------- MODULE Collection -----------------------------
(***************************************************************************)
(* The send command (cmd/send.go) on the output directory of the collect   *)
(* command: a cron job that sends what is there, an operator who does not  *)
(* wait. send opens the file once, to see that it can be, and forgets it;  *)
(* the executor opens whatever has the name by then, and reads it to what  *)
(* is its end when it gets there, while collect runs create, truncate,     *)
(* write and remove files.                                                 *)
(*                                                                         *)
(* What Sender says of the pipe and the connection is taken as one step:   *)
(* the data loader has exactly what was read, or the send fails.           *)
(***************************************************************************)
EXTENDS CollectCommand

VARIABLES
  send,      \* where the send command is, its path, open file, what it read
  announced  \* history: runs that had said success for the path at its start

sendVars == <<send, announced>>
allVars == <<vars, sendVars>>

SendPlaces == {"start", "checked", "reading", "delivered", "failed"}
SendAt(place) == send' = [send EXCEPT !.at = place]

InitAll ==
  /\ Init
  /\ send = [at |-> "start", second |-> 0, fd |-> None, read |-> <<>>]
  /\ announced = {}

Announced(t) == {r \in Runs : Exited(r, "success") /\ run[r].second = t}

(* verifyRequiredConfig, and the file that os.Open does not find.          *)
RejectSend ==
  /\ send.at = "start"
  /\ SendAt("failed")
  /\ UNCHANGED <<vars, announced>>

CheckFile(t) ==
  /\ send.at = "start"
  /\ dir[t] # None
  /\ send' = [send EXCEPT !.at = "checked", !.second = t]
  /\ announced' = Announced(t)
  /\ UNCHANGED vars

(* Variant: the executor opens the newest file of the directory.           *)
OpenNewestFile ==
  /\ send.at = "checked"
  /\ \E t \in Seconds :
       /\ dir[t] # None
       /\ send' = [send EXCEPT !.at = "reading", !.fd = dir[t]]
  /\ UNCHANGED <<vars, announced>>

(* Variant: the file was there a moment ago.                               *)
OpenFileUnchecked ==
  /\ send.at = "checked"
  /\ send' = [send EXCEPT !.at = "reading", !.fd = dir[send.second]]
  /\ UNCHANGED <<vars, announced>>

(* The second os.Open, in gzipOnTheFlyFileReader.                          *)
OpenFile ==
  /\ send.at = "checked"
  /\ IF dir[send.second] = None
     THEN SendAt("failed")
     ELSE send' = [send EXCEPT !.at = "reading", !.fd = dir[send.second]]
  /\ UNCHANGED <<vars, announced>>

Unread == Len(send.read) < Len(blocks[send.fd])

(* Variant: the file is read anew when it has grown or shrunk.             *)
ReadNewestBlock ==
  /\ send.at = "reading" /\ Unread
  /\ send' = [send EXCEPT !.read = Append(@, blocks[send.fd][Len(blocks[send.fd])])]
  /\ UNCHANGED <<vars, announced>>

ReadBlock ==
  /\ send.at = "reading" /\ Unread
  /\ send' = [send EXCEPT !.read = Append(@, blocks[send.fd][Len(@) + 1])]
  /\ UNCHANGED <<vars, announced>>

(* The end of the file, as it is now; the answer 201, and "Success!".      *)
Deliver ==
  /\ send.at = "reading" /\ ~Unread
  /\ SendAt("delivered")
  /\ UNCHANGED <<vars, announced>>

(* A read error, a broken connection, another answer.                      *)
SendFails ==
  /\ send.at = "reading"
  /\ SendAt("failed")
  /\ UNCHANGED <<vars, announced>>

NextAll ==
  \/ Next /\ UNCHANGED sendVars
  \/ RejectSend \/ OpenFile \/ ReadBlock \/ Deliver \/ SendFails
  \/ \E t \in Seconds : CheckFile(t)

SpecAll == InitAll /\ [][NextAll]_allVars

-----------------------------------------------------------------------------
(* Types; the sender of a file has one.                                    *)
SendTypeOK ==
  /\ send.at \in SendPlaces
  /\ send.second \in Seconds
  /\ send.at \in {"reading", "delivered"} => send.fd \in Runs
  /\ announced \subseteq Runs
  /\ \A i \in 1..Len(send.read) : send.read[i] \in Blocks

IsArchive(body, r) ==
  body \in {Archive(r), Append(Archive(r), TrailerOf(r))}

(* A send that starts after a run announced its file, and succeeds, has    *)
(* delivered that run's whole archive, although the file is opened twice   *)
(* and read while others run: unless another run was given the name, then  *)
(* or before the send was over.                                            *)
AnnouncedIsDelivered ==
  send.at = "delivered" =>
    \A r \in announced : HasOwnName(r) => IsArchive(send.read, r)

(* A send that gets ahead of the collection delivers a beginning of the    *)
(* archive (with a trailer, if the collection fails meanwhile), which no   *)
(* status tells from the whole; but never blocks of two archives, or out   *)
(* of order: unless two runs were given the name.                          *)
SentIsBeginning ==
  send.at \in {"reading", "delivered"} /\ HasOwnName(send.fd) =>
    \E n \in 0..Entries :
      LET beginning == [i \in 1..n |-> EntryOf(send.fd, i)]
      IN send.read \in {beginning, Append(beginning, TrailerOf(send.fd))}
=============================================================================
