------------------------------- MODULE Sender -------------------------------
(***************************************************************************)
(* operations.SendExecutor.Send: the main goroutine posts a file while a   *)
(* second goroutine, started by gzipOnTheFlyFileReader, reads the file and *)
(* compresses it into an io.Pipe; the HTTP transport reads the other end   *)
(* of the pipe and writes the request body to the connection; the data     *)
(* loader receives it and answers.                                         *)
(*                                                                         *)
(* The file is its sequence of blocks 1..size, and the compressed stream   *)
(* is those blocks and the gzip footer.                                    *)
(***************************************************************************)
EXTENDS Naturals, Sequences

CONSTANTS
  MaxSize,   \* bound: the largest file, in blocks
  Statuses,  \* what the data loader may answer, 201 among it
  Footer,    \* the end of a gzip stream
  End,       \* the end of a chunked request body
  None

ASSUME SenderAssumption ==
  /\ MaxSize \in Nat
  /\ 201 \in Statuses
  /\ None \notin Statuses
  /\ End # Footer /\ End \notin 1..MaxSize

VARIABLES
  size,      \* the blocks of the file
  main,      \* the goroutine of Send
  result,    \* the error Send returned, "nothing" before
  copier,    \* the goroutine of gzipOnTheFlyFileReader
  offset,    \* how far it read the file
  buffer,    \* blocks inside the gzip.Writer
  fileOpen,  \* is its file open?
  chunk,     \* the pipe: a Write waiting for a Read, or <<>>
  writeEnd,  \* the pipe: "open", or closed with "eof" or "error"
  readEnd,   \* the pipe: "open" or "closed"
  transport, \* the HTTP transport
  conn,      \* the connection: "none", "open", "broken"
  wire,      \* what is under way on the connection
  received,  \* what the data loader got of the body
  complete,  \* did the data loader see the end of the body?
  reply      \* its answer

fileVars == <<size, offset, buffer, fileOpen>>
pipeVars == <<chunk, writeEnd, readEnd>>
serverVars == <<received, complete, reply>>
netVars == <<transport, conn, wire>>
vars == <<main, result, copier, fileVars, pipeVars, netVars, serverVars>>

Whole == [i \in 1..size + 1 |-> IF i <= size THEN i ELSE Footer]

Init ==
  /\ size \in 0..MaxSize
  /\ main = "start" /\ result = "nothing"
  /\ copier = "none" /\ offset = 0 /\ buffer = <<>> /\ fileOpen = FALSE
  /\ chunk = <<>> /\ writeEnd = "open" /\ readEnd = "open"
  /\ transport = "idle" /\ conn = "none" /\ wire = <<>>
  /\ received = <<>> /\ complete = FALSE /\ reply = None

-----------------------------------------------------------------------------
(* The goroutine of Send.                                                  *)

OpenFails ==
  /\ main = "start"
  /\ main' = "returned" /\ result' = "failure"
  /\ UNCHANGED <<copier, fileVars, pipeVars, netVars, serverVars>>

OpenFile ==
  /\ main = "start"
  /\ main' = "opened"
  /\ copier' = "reading" /\ fileOpen' = TRUE
  /\ UNCHANGED <<result, size, offset, buffer, pipeVars, netVars, serverVars>>

(* Variant: nobody closes the pipe the copier writes to.                   *)
ReturnWithoutClose(answer) ==
  /\ main' = "returned"
  /\ result' = answer
  /\ UNCHANGED readEnd

(* Send returns; the deferred fileReader.Close closes the read end.        *)
Return(answer) ==
  /\ main' = "returned"
  /\ result' = answer
  /\ readEnd' = "closed"

RequestInvalid ==
  /\ main = "opened"
  /\ Return("failure")
  /\ UNCHANGED <<copier, fileVars, chunk, writeEnd, netVars, serverVars>>

StartRequest ==
  /\ main = "opened"
  /\ main' = "sending"
  /\ UNCHANGED <<result, copier, fileVars, pipeVars, netVars, serverVars>>

(* No connection within the dial timeout, a TLS or proxy error.            *)
ConnectFails ==
  /\ main = "sending" /\ conn = "none"
  /\ Return("failure")
  /\ UNCHANGED <<copier, fileVars, chunk, writeEnd, netVars, serverVars>>

Connect ==
  /\ main = "sending" /\ conn = "none"
  /\ conn' = "open" /\ transport' = "writing"
  /\ UNCHANGED <<main, result, copier, fileVars, pipeVars, wire, serverVars>>

(* Do returns the error of a connection that broke, or the answer, which   *)
(* may come while the transport is still writing the body.                 *)
DoFails ==
  /\ main = "sending" /\ conn = "broken"
  /\ Return("failure")
  /\ UNCHANGED <<copier, fileVars, chunk, writeEnd, netVars, serverVars>>

(* Variant: every answer but 401 is taken for a success.                   *)
CheckUnauthorizedOnly ==
  /\ main = "sending" /\ reply # None
  /\ Return(IF reply # 401 THEN "success" ELSE "failure")
  /\ UNCHANGED <<copier, fileVars, chunk, writeEnd, netVars, serverVars>>

CheckStatusCode ==
  /\ main = "sending" /\ reply # None
  /\ Return(IF reply = 201 THEN "success" ELSE "failure")
  /\ UNCHANGED <<copier, fileVars, chunk, writeEnd, netVars, serverVars>>

-----------------------------------------------------------------------------
(* The goroutine that compresses the file.                                 *)

(* Variant: the copier reads once more after the last block.               *)
ReadPastEnd ==
  /\ copier = "reading" /\ offset <= size
  /\ offset' = offset + 1
  /\ buffer' = Append(buffer, offset + 1)
  /\ UNCHANGED <<main, result, copier, size, fileOpen, pipeVars, netVars, serverVars>>

(* gzip keeps what it is given, or writes all it has to the pipe.          *)
ReadBlock ==
  /\ copier = "reading" /\ offset < size
  /\ offset' = offset + 1
  /\ LET held == Append(buffer, offset + 1)
     IN \/ /\ buffer' = held
           /\ UNCHANGED <<copier, chunk>>
        \/ /\ buffer' = <<>> /\ chunk' = held
           /\ copier' = "writing"
  /\ UNCHANGED <<main, result, size, fileOpen, writeEnd, readEnd, netVars, serverVars>>

(* w.CloseWithError and the deferred f.Close.                              *)
CopierEnds(how) ==
  /\ copier' = "done"
  /\ writeEnd' = how
  /\ fileOpen' = FALSE

(* Variant: the error of io.Copy is dropped, and the stream is finished.   *)
FinishOnError ==
  /\ copier = "reading"
  /\ chunk' = Append(buffer, Footer) /\ buffer' = <<>>
  /\ copier' = "closing"
  /\ UNCHANGED <<main, result, size, offset, fileOpen, writeEnd, readEnd, netVars, serverVars>>

ReadFails ==
  /\ copier = "reading"
  /\ CopierEnds("error")
  /\ UNCHANGED <<main, result, size, offset, buffer, chunk, readEnd, netVars, serverVars>>

(* The file is read: gzw.Close writes what is left, and the footer.        *)
FinishStream ==
  /\ copier = "reading" /\ offset = size
  /\ chunk' = Append(buffer, Footer) /\ buffer' = <<>>
  /\ copier' = "closing"
  /\ UNCHANGED <<main, result, size, offset, fileOpen, writeEnd, readEnd, netVars, serverVars>>

ChunkTaken ==
  /\ chunk = <<>>
  /\ \/ /\ copier = "writing"
        /\ copier' = "reading"
        /\ UNCHANGED <<writeEnd, fileOpen>>
     \/ /\ copier = "closing"
        /\ CopierEnds("eof")
  /\ UNCHANGED <<main, result, size, offset, buffer, chunk, readEnd, netVars, serverVars>>

(* A Write on a pipe whose read end is closed fails, also one that waits.  *)
WriteFails ==
  /\ copier \in {"writing", "closing"} /\ chunk # <<>>
  /\ readEnd = "closed"
  /\ chunk' = <<>>
  /\ CopierEnds("error")
  /\ UNCHANGED <<main, result, size, offset, buffer, readEnd, netVars, serverVars>>

Copier == ReadBlock \/ ReadFails \/ FinishStream \/ ChunkTaken \/ WriteFails

-----------------------------------------------------------------------------
(* The HTTP transport, the connection and the data loader.                 *)

SendChunk ==
  /\ transport = "writing" /\ conn = "open"
  /\ readEnd = "open" /\ chunk # <<>>
  /\ wire' = wire \o chunk
  /\ chunk' = <<>>
  /\ UNCHANGED <<main, result, copier, fileVars, writeEnd, readEnd, transport, conn, serverVars>>

SendEnd ==
  /\ transport = "writing" /\ conn = "open"
  /\ readEnd = "open" /\ chunk = <<>> /\ writeEnd = "eof"
  /\ wire' = Append(wire, End)
  /\ transport' = "finished"
  /\ readEnd' = "closed"
  /\ UNCHANGED <<main, result, copier, fileVars, chunk, writeEnd, conn, serverVars>>

(* Reading the body fails, with the error of the copier or because Send    *)
(* returned: the connection is dropped before the end of the body.         *)
AbortBody ==
  /\ transport = "writing" /\ conn = "open"
  /\ readEnd = "closed" \/ (chunk = <<>> /\ writeEnd = "error")
  /\ transport' = "aborted"
  /\ readEnd' = "closed"
  /\ conn' = "broken"
  /\ UNCHANGED <<main, result, copier, fileVars, chunk, writeEnd, wire, serverVars>>

(* The connection is lost, and the transport closes the body.              *)
ConnectionBreaks ==
  /\ conn = "open"
  /\ conn' = "broken"
  /\ readEnd' = "closed"
  /\ transport' = IF transport = "writing" THEN "aborted" ELSE transport
  /\ UNCHANGED <<main, result, copier, fileVars, chunk, writeEnd, wire, serverVars>>

(* What was sent before the connection broke may still arrive.             *)
Receive ==
  /\ wire # <<>>
  /\ wire' = Tail(wire)
  /\ IF Head(wire) = End
       THEN complete' = TRUE /\ UNCHANGED received
       ELSE received' = Append(received, Head(wire)) /\ UNCHANGED complete
  /\ UNCHANGED <<main, result, copier, fileVars, pipeVars, transport, conn, reply>>

(* The data loader answers 201 to a whole body only, anything else early   *)
(* if it likes (the authorization header comes first).                     *)
Reply ==
  /\ conn # "none" /\ reply = None
  /\ reply' \in IF complete THEN Statuses ELSE Statuses \ {201}
  /\ UNCHANGED <<main, result, copier, fileVars, pipeVars, netVars, received, complete>>

Next ==
  \/ OpenFails \/ OpenFile \/ RequestInvalid \/ StartRequest
  \/ ConnectFails \/ Connect \/ DoFails \/ CheckStatusCode
  \/ Copier
  \/ SendChunk \/ SendEnd \/ AbortBody \/ ConnectionBreaks
  \/ Receive \/ Reply

(* The Go scheduler runs the copier whenever it can take a step.           *)
Spec == Init /\ [][Next]_vars /\ WF_vars(Copier)
-----------------------------------------------------------------------------
Stream == 1..MaxSize \cup {Footer}

TypeOK ==
  /\ size \in 0..MaxSize /\ offset \in 0..size
  /\ main \in {"start", "opened", "sending", "returned"}
  /\ result \in {"nothing", "success", "failure"}
  /\ copier \in {"none", "reading", "writing", "closing", "done"}
  /\ buffer \in Seq(1..MaxSize) /\ chunk \in Seq(Stream) /\ received \in Seq(Stream)
  /\ wire \in Seq(Stream \cup {End})
  /\ fileOpen \in BOOLEAN /\ complete \in BOOLEAN
  /\ writeEnd \in {"open", "eof", "error"} /\ readEnd \in {"open", "closed"}
  /\ transport \in {"idle", "writing", "finished", "aborted"}
  /\ conn \in {"none", "open", "broken"}
  /\ reply \in Statuses \cup {None}

(* A body that ended properly is the whole compressed file: an error in    *)
(* the middle of reading it never looks like its end to the data loader.   *)
CompleteIsWhole == complete => received = Whole

(* Whatever stage Send returns at, the goroutine it started ends and       *)
(* closes its file.                                                        *)
CopierStops == main = "returned" ~> ~fileOpen

(* The steps left to the goroutine that compresses: a block may take two   *)
(* (it is read, and written with those before it), the end of the stream   *)
(* two more.                                                               *)
StepsLeft ==
  IF copier \in {"none", "done"} THEN 0
  ELSE 2 * (size - offset) + (CASE copier = "writing" -> 3
                                [] copier = "reading" -> 2
                                [] copier = "closing" -> 1)

(* Once Send has returned, that goroutine waits for nobody, each step of   *)
(* it brings it nearer to its end, nothing else sets it back, and at its   *)
(* end the file is closed: a send that fails early leaves work for as many *)
(* steps as the file has left, and no goroutine blocked on the pipe.       *)
CopierRunsOut ==
  [][main = "returned" /\ fileOpen =>
       /\ copier # "reading" /\ chunk # <<>> => readEnd = "closed"
       /\ StepsLeft' < StepsLeft \/ UNCHANGED <<copier, offset, size>>
       /\ StepsLeft' = 0 <=> ~fileOpen']_vars

(* Send keeps the promise of Delivery.                                     *)
Promise == INSTANCE Delivery WITH
  delivered <- complete /\ received = Whole,
  told <- result
DeliversOrFails == Promise!Spec
=============================================================================
