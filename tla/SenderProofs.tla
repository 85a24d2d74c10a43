---------------------------- MODULE SenderProofs ----------------------------
(***************************************************************************)
(* Proofs about Sender, for files of any size: types, that a body which    *)
(* ended properly is the whole compressed file, and that Sender implements *)
(* Delivery.                                                               *)
(***************************************************************************)
EXTENDS Sender, SequenceTheorems, TLAPS

(* The body of a request that succeeds, with its end.                      *)
Body == [i \in 1..size + 2 |->
           IF i <= size THEN i ELSE IF i = size + 1 THEN Footer ELSE End]

(* How much of it left the pipe, and how much of that arrived.             *)
Taken == Len(received) + (IF complete THEN 1 ELSE 0)
Sent == Taken + Len(wire)

(* What is received, under way, in the pipe and inside gzip are successive *)
(* pieces of the body.                                                     *)
PiecesInv ==
  /\ complete => Len(received) = size + 1 /\ wire = <<>>
  /\ \A i \in 1..Len(received) : i <= size + 1 /\ received[i] = Body[i]
  /\ \A i \in 1..Len(wire) : wire[i] = Body[Taken + i]
  /\ \A i \in 1..Len(chunk) : chunk[i] = Body[Sent + i]
  /\ \A i \in 1..Len(buffer) : buffer[i] = Body[Sent + Len(chunk) + i]

(* How far the copier is, and with it the pieces.                          *)
CopierInv ==
  /\ copier = "none" => main \in {"start", "returned"} /\ Sent = 0
  /\ main = "start" => copier = "none"
  /\ copier = "none" => transport = "idle"
  /\ copier \in {"none", "done"} => chunk = <<>>
  /\ copier = "none" => offset = 0
  /\ copier \in {"none", "reading", "writing"} =>
       Sent + Len(chunk) + Len(buffer) = offset
  /\ copier = "reading" => chunk = <<>>
  /\ copier \in {"writing", "closing"} \/ writeEnd = "eof" => buffer = <<>>
  /\ copier = "closing" => Sent + Len(chunk) = size + 1
  /\ writeEnd = "open" <=> copier # "done"

(* The end of the body is sent once, after all the rest.                   *)
TransportInv ==
  /\ conn = "none" <=> transport = "idle"
  /\ transport = "finished" => Sent = size + 2 /\ writeEnd = "eof"
  /\ transport # "finished" => Sent <= size + 1
  /\ transport # "finished" /\ writeEnd = "eof" => Sent = size + 1

(* The data loader says 201 to a whole body only, and Send is told once.   *)
AnswerInv ==
  /\ reply = 201 => complete
  /\ main = "returned" <=> result # "nothing"
  /\ result = "success" => complete

IInv == TypeOK /\ PiecesInv /\ CopierInv /\ TransportInv /\ AnswerInv

-----------------------------------------------------------------------------
(* What comes out of the file goes into the stream.                        *)
LEMMA BlocksAreStream ==
  ASSUME NEW s \in Seq(1..MaxSize) PROVE s \in Seq(Stream)
<1>1. s \in [1..Len(s) -> 1..MaxSize] /\ Len(s) \in Nat
  BY LenProperties
<1>2. s \in [1..Len(s) -> Stream]
  BY <1>1 DEF Stream
<1> QED
  BY <1>1, <1>2

LEMMA ChunksAreSent ==
  ASSUME NEW s \in Seq(Stream) PROVE s \in Seq(Stream \cup {End})
<1>1. s \in [1..Len(s) -> Stream] /\ Len(s) \in Nat
  BY LenProperties
<1>2. s \in [1..Len(s) -> Stream \cup {End}]
  BY <1>1
<1> QED
  BY <1>1, <1>2

(* Nothing has left the file yet.                                          *)
LEMMA InitEstablishesIInv == Init => IInv
<1> SUFFICES ASSUME Init PROVE IInv
  OBVIOUS
<1>1. /\ Len(received) = 0 /\ Len(wire) = 0 /\ Len(chunk) = 0
      /\ Len(buffer) = 0
  BY EmptySeq DEF Init
<1>2. TypeOK
  <2>1. /\ buffer \in Seq(1..MaxSize) /\ wire \in Seq(Stream \cup {End})
        /\ chunk \in Seq(Stream) /\ received \in Seq(Stream)
    BY EmptySeq DEF Init
  <2>2. size \in 0..MaxSize /\ offset \in 0..size
    BY SenderAssumption DEF Init, SenderAssumption
  <2> QED
    BY <2>1, <2>2 DEF Init, TypeOK
<1>3. Sent = 0
  BY <1>1 DEF Init, Sent, Taken
<1>4. PiecesInv
  BY <1>1 DEF Init, PiecesInv
<1>5. CopierInv /\ TransportInv
  BY <1>1, <1>2, <1>3 DEF Init, TypeOK, CopierInv, TransportInv
<1>6. AnswerInv
  BY SenderAssumption DEF Init, AnswerInv, SenderAssumption
<1> QED
  BY <1>2, <1>4, <1>5, <1>6 DEF IInv

(* The goroutine of Send moves nothing but itself and the read end.        *)
MainStep ==
  \/ OpenFails \/ OpenFile \/ RequestInvalid \/ StartRequest
  \/ ConnectFails \/ Connect \/ DoFails \/ CheckStatusCode
LEMMA MainKeepsIInv == IInv /\ MainStep => IInv'
<1> SUFFICES ASSUME IInv, MainStep PROVE IInv'
  OBVIOUS
<1> USE DEF IInv
<1>1. UNCHANGED <<size, offset, buffer, chunk, writeEnd, wire, received,
                  complete, reply>>
  BY DEF MainStep, OpenFails, OpenFile, RequestInvalid, StartRequest,
         ConnectFails, Connect, DoFails, CheckStatusCode, Return,
         fileVars, pipeVars, netVars, serverVars
<1>2. TypeOK'
  BY DEF TypeOK, MainStep, OpenFails, OpenFile, RequestInvalid, StartRequest,
         ConnectFails, Connect, DoFails, CheckStatusCode, Return,
         fileVars, pipeVars, netVars, serverVars
<1>3. UNCHANGED <<Body, Taken, Sent>>
  BY <1>1 DEF Body, Taken, Sent
<1>4. PiecesInv'
  BY <1>1, <1>3 DEF PiecesInv
<1>5. CopierInv' /\ TransportInv'
  <2>1. CASE OpenFile
    <3>1. copier = "none" /\ Sent = 0 /\ offset = 0
          /\ chunk = <<>> /\ copier' = "reading" /\ main' = "opened"
          /\ transport' = transport /\ conn' = conn
      BY <2>1 DEF OpenFile, CopierInv, TypeOK, AnswerInv, netVars
    <3> QED
      BY <1>1, <1>3, <3>1 DEF CopierInv, TransportInv
  <2>2. CASE ~OpenFile
    <3>1. /\ copier' = copier
          /\ main' # "start"
          /\ copier = "none" => main' = "returned"
          /\ \/ transport' = transport /\ conn' = conn
             \/ /\ transport = "idle" /\ transport' = "writing"
                /\ main = "sending" /\ conn' = "open"
      BY <2>2
      DEF CopierInv, TransportInv, MainStep, OpenFails, RequestInvalid, StartRequest,
          ConnectFails, Connect, DoFails, CheckStatusCode, Return, netVars
    <3> QED
      BY <1>1, <1>3, <3>1 DEF CopierInv, TransportInv
  <2> QED
    BY <2>1, <2>2
<1>6. AnswerInv'
  BY <1>1
  DEF AnswerInv, MainStep, OpenFails, OpenFile, RequestInvalid, StartRequest,
      ConnectFails, Connect, DoFails, CheckStatusCode, Return
<1> QED
  BY <1>2, <1>4, <1>5, <1>6

(* A block moves from the file into gzip, or all that gzip has moves on.   *)
LEMMA ReadBlockKeepsIInv == IInv /\ ReadBlock => IInv'
<1> SUFFICES ASSUME IInv, ReadBlock PROVE IInv'
  OBVIOUS
<1> USE DEF IInv
<1> DEFINE held == Append(buffer, offset + 1)
<1>1. /\ copier = "reading" /\ offset < size /\ offset' = offset + 1
      /\ chunk = <<>> /\ Len(chunk) = 0
      /\ UNCHANGED <<main, result, size, fileOpen, writeEnd, readEnd,
                     transport, conn, wire, received, complete, reply>>
  BY EmptySeq DEF ReadBlock, CopierInv, netVars, serverVars
<1>2. /\ size \in Nat /\ size <= MaxSize /\ offset \in Nat
      /\ Len(received) \in Nat /\ Len(wire) \in Nat /\ Len(buffer) \in Nat
  BY SenderAssumption DEF TypeOK, SenderAssumption
<1>3. UNCHANGED <<Body, Taken, Sent>> /\ Sent \in Nat
  BY <1>1, <1>2 DEF Body, Taken, Sent
<1>4. Sent + Len(buffer) = offset
  BY <1>1, <1>2, <1>3 DEF CopierInv
<1>5. /\ held \in Seq(1..MaxSize) /\ held \in Seq(Stream)
      /\ Len(held) = Len(buffer) + 1
  <2>1. offset + 1 \in 1..MaxSize /\ buffer \in Seq(1..MaxSize)
    BY <1>1, <1>2, SenderAssumption DEF TypeOK, SenderAssumption
  <2>2. held \in Seq(1..MaxSize) /\ Len(held) = Len(buffer) + 1
    BY <2>1
  <2> QED
    BY <2>2, BlocksAreStream
<1>6. ASSUME NEW i \in 1..Len(held) PROVE held[i] = Body[Sent + i]
  <2>1. CASE i = Len(buffer) + 1
    BY <1>1, <1>2, <1>3, <1>4, <2>1 DEF Body, TypeOK
  <2>2. CASE i # Len(buffer) + 1
    <3>1. i \in 1..Len(buffer) /\ held[i] = buffer[i]
      BY <1>2, <1>5, <2>2 DEF TypeOK
    <3> QED
      BY <1>1, <1>2, <1>3, <3>1 DEF PiecesInv
  <2> QED
    BY <2>1, <2>2
<1>7. CASE buffer' = held /\ UNCHANGED <<copier, chunk>>
  <2>1. TypeOK'
    BY <1>1, <1>2, <1>5, <1>7 DEF TypeOK
  <2>2. PiecesInv'
    BY <1>1, <1>2, <1>3, <1>6, <1>7 DEF PiecesInv
  <2>3. CopierInv'
    BY <1>1, <1>2, <1>3, <1>4, <1>5, <1>7 DEF CopierInv
  <2>4. TransportInv' /\ AnswerInv'
    BY <1>1, <1>3 DEF TransportInv, AnswerInv
  <2> QED
    BY <2>1, <2>2, <2>3, <2>4
<1>8. CASE buffer' = <<>> /\ chunk' = held /\ copier' = "writing"
  <2>1. buffer' \in Seq(1..MaxSize) /\ Len(buffer') = 0
    BY <1>8, EmptySeq
  <2>2. TypeOK'
    BY <1>1, <1>2, <1>5, <1>8, <2>1 DEF TypeOK
  <2>3. PiecesInv'
    BY <1>1, <1>2, <1>3, <1>6, <1>8, <2>1 DEF PiecesInv
  <2>4. CopierInv'
    BY <1>1, <1>2, <1>3, <1>4, <1>5, <1>8, <2>1 DEF CopierInv
  <2>5. TransportInv' /\ AnswerInv'
    BY <1>1, <1>3 DEF TransportInv, AnswerInv
  <2> QED
    BY <2>2, <2>3, <2>4, <2>5
<1> QED
  BY <1>7, <1>8 DEF ReadBlock

(* What gzip has left and the footer are the rest of the stream.           *)
LEMMA FinishStreamKeepsIInv == IInv /\ FinishStream => IInv'
<1> SUFFICES ASSUME IInv, FinishStream PROVE IInv'
  OBVIOUS
<1> USE DEF IInv
<1> DEFINE held == Append(buffer, Footer)
<1>1. /\ copier = "reading" /\ offset = size /\ copier' = "closing"
      /\ chunk = <<>> /\ Len(chunk) = 0 /\ chunk' = held /\ buffer' = <<>>
      /\ UNCHANGED <<main, result, size, offset, fileOpen, writeEnd, readEnd,
                     transport, conn, wire, received, complete, reply>>
  BY EmptySeq DEF FinishStream, CopierInv, netVars, serverVars
<1>2. /\ size \in Nat /\ size <= MaxSize /\ offset \in Nat
      /\ Len(received) \in Nat /\ Len(wire) \in Nat /\ Len(buffer) \in Nat
      /\ buffer \in Seq(Stream)
  BY SenderAssumption, BlocksAreStream DEF TypeOK, SenderAssumption
<1>3. UNCHANGED <<Body, Taken, Sent>> /\ Sent \in Nat
  BY <1>1, <1>2 DEF Body, Taken, Sent
<1>4. Sent + Len(buffer) = size
  BY <1>1, <1>2, <1>3 DEF CopierInv
<1>5. held \in Seq(Stream) /\ Len(held) = Len(buffer) + 1
  BY <1>1, <1>2 DEF Stream
<1>6. ASSUME NEW i \in 1..Len(held) PROVE held[i] = Body[Sent + i]
  <2>1. CASE i = Len(buffer) + 1
    BY <1>1, <1>2, <1>3, <1>4, <2>1 DEF Body
  <2>2. CASE i # Len(buffer) + 1
    <3>1. i \in 1..Len(buffer) /\ held[i] = buffer[i]
      BY <1>2, <1>5, <2>2
    <3> QED
      BY <1>1, <1>2, <1>3, <3>1 DEF PiecesInv
  <2> QED
    BY <2>1, <2>2
<1>7. buffer' \in Seq(1..MaxSize) /\ Len(buffer') = 0
  BY <1>1, EmptySeq
<1>8. TypeOK'
  BY <1>1, <1>2, <1>5, <1>7 DEF TypeOK
<1>9. PiecesInv'
  BY <1>1, <1>2, <1>3, <1>6, <1>7 DEF PiecesInv
<1>10. CopierInv'
  BY <1>1, <1>2, <1>3, <1>4, <1>5, <1>7 DEF CopierInv
<1>11. TransportInv' /\ AnswerInv'
  BY <1>1, <1>3 DEF TransportInv, AnswerInv
<1> QED
  BY <1>8, <1>9, <1>10, <1>11

(* The copier ends or goes on; nothing but a chunk nobody will read        *)
(* changes.                                                                *)
LEMMA CopierKeepsIInv ==
  IInv /\ (ReadFails \/ ChunkTaken \/ WriteFails) => IInv'
<1> SUFFICES ASSUME IInv, ReadFails \/ ChunkTaken \/ WriteFails PROVE IInv'
  OBVIOUS
<1> USE DEF IInv
<1>1. /\ chunk' = <<>> /\ Len(chunk') = 0 /\ chunk' \in Seq(Stream)
      /\ chunk # <<>> => copier' = "done" /\ writeEnd' = "error"
      /\ UNCHANGED <<main, result, size, offset, buffer, readEnd,
                     transport, conn, wire, received, complete, reply>>
  BY EmptySeq
  DEF ReadFails, ChunkTaken, WriteFails, CopierEnds, CopierInv,
      netVars, serverVars
<1>2. Len(received) \in Nat /\ Len(wire) \in Nat /\ Len(buffer) \in Nat
  BY DEF TypeOK
<1>3. UNCHANGED <<Body, Taken, Sent>> /\ Sent \in Nat
  BY <1>1, <1>2 DEF Body, Taken, Sent
<1>4. TypeOK'
  <2>1. /\ copier' \in {"reading", "done"} /\ fileOpen' \in BOOLEAN
        /\ writeEnd' \in {"open", "eof", "error"}
    BY DEF TypeOK, ReadFails, ChunkTaken, WriteFails, CopierEnds
  <2> QED
    BY <1>1, <2>1 DEF TypeOK
<1>5. chunk = <<>> \/ buffer = <<>>
  BY DEF CopierInv, ReadFails, ChunkTaken, WriteFails
<1>6. chunk = <<>> => Len(chunk) = 0
  BY EmptySeq
<1>7. buffer = <<>> => Len(buffer) = 0
  BY EmptySeq
<1>8. PiecesInv'
  <2>1. /\ complete' => Len(received') = size' + 1 /\ wire' = <<>>
        /\ \A i \in 1..Len(received') : i <= size' + 1 /\ received'[i] = Body'[i]
        /\ \A i \in 1..Len(wire') : wire'[i] = Body'[Taken' + i]
    BY <1>1, <1>3 DEF PiecesInv
  <2>2. \A i \in 1..Len(chunk') : chunk'[i] = Body'[Sent' + i]
    BY <1>1
  <2>3. ASSUME NEW i \in 1..Len(buffer')
        PROVE  buffer'[i] = Body'[Sent' + Len(chunk') + i]
    <3>1. buffer' = buffer /\ i \in 1..Len(buffer) /\ Len(buffer) # 0
      BY <1>1, <1>2
    <3>2. Len(chunk) = Len(chunk')
      BY <1>1, <1>5, <1>6, <1>7, <3>1
    <3> QED
      BY <1>3, <3>1, <3>2 DEF PiecesInv
  <2> HIDE DEF IInv
  <2> QED
    BY <2>1, <2>2, <2>3 DEF PiecesInv
<1>9. /\ copier' \in {"reading", "done"}
      /\ copier' = "reading" =>
           copier = "writing" /\ chunk = <<>> /\ writeEnd' = writeEnd
      /\ copier' = "done" =>
           \/ writeEnd' = "error"
           \/ writeEnd' = "eof" /\ copier = "closing" /\ chunk = <<>>
      /\ copier \in {"reading", "writing", "closing"}
  BY DEF ReadFails, ChunkTaken, WriteFails, CopierEnds
<1>10. CopierInv'
  BY <1>1, <1>2, <1>3, <1>6, <1>9 DEF CopierInv
<1>11. writeEnd = "open" /\ transport # "finished"
  BY <1>9 DEF CopierInv, TransportInv
<1>12. writeEnd' = "eof" => Sent = size + 1
  BY <1>2, <1>3, <1>6, <1>9, <1>11 DEF CopierInv
<1>13. TransportInv' /\ AnswerInv'
  BY <1>1, <1>3, <1>11, <1>12 DEF TransportInv, AnswerInv
<1> QED
  BY <1>4, <1>8, <1>10, <1>13

(* The transport takes what waits in the pipe, all of it.                  *)
LEMMA SendChunkKeepsIInv == IInv /\ SendChunk => IInv'
<1> SUFFICES ASSUME IInv, SendChunk PROVE IInv'
  OBVIOUS
<1> USE DEF IInv
<1>1. /\ transport = "writing" /\ chunk # <<>> /\ chunk' = <<>>
      /\ wire' = wire \o chunk
      /\ chunk' \in Seq(Stream) /\ Len(chunk') = 0
      /\ UNCHANGED <<main, result, copier, size, offset, buffer, fileOpen,
                     writeEnd, readEnd, transport, conn, received, complete,
                     reply>>
  BY EmptySeq DEF SendChunk, fileVars, serverVars
<1>2. /\ size \in Nat /\ wire \in Seq(Stream \cup {End})
      /\ chunk \in Seq(Stream) /\ chunk \in Seq(Stream \cup {End})
      /\ Len(received) \in Nat /\ Len(wire) \in Nat /\ Len(chunk) \in Nat
      /\ Len(buffer) \in Nat
  BY SenderAssumption, ChunksAreSent DEF TypeOK, SenderAssumption
<1>3. /\ wire' \in Seq(Stream \cup {End}) /\ Len(wire') = Len(wire) + Len(chunk)
      /\ \A i \in 1..Len(wire') :
           wire'[i] = IF i <= Len(wire) THEN wire[i] ELSE chunk[i - Len(wire)]
  BY <1>1, <1>2, ConcatProperties
<1>4. /\ UNCHANGED <<Body, Taken>> /\ Taken \in Nat
      /\ Sent' = Sent + Len(chunk) /\ Sent \in Nat
  <2>1. UNCHANGED <<Body, Taken>>
    BY <1>1 DEF Body, Taken
  <2>2. Taken \in Nat
    BY <1>2 DEF Taken
  <2> QED
    BY <1>2, <1>3, <2>1, <2>2 DEF Sent
<1>5. copier \in {"writing", "closing"} /\ ~complete
  <2>1. copier \notin {"none", "done", "reading"}
    BY <1>1 DEF CopierInv
  <2>2. complete => Sent = size + 2
    BY <1>2 DEF PiecesInv, Sent, Taken
  <2>3. Sent <= size + 1
    BY <1>1 DEF TransportInv
  <2> QED
    BY <1>2, <2>1, <2>2, <2>3 DEF TypeOK
<1>6. TypeOK'
  BY <1>1, <1>3 DEF TypeOK
<1>7. PiecesInv'
  <2>1. ASSUME NEW i \in 1..Len(wire') PROVE wire'[i] = Body[Taken + i]
    <3>1. CASE i <= Len(wire)
      BY <1>2, <1>3, <3>1 DEF PiecesInv
    <3>2. CASE i > Len(wire)
      <4>1. i - Len(wire) \in 1..Len(chunk)
        BY <1>2, <1>3, <3>2
      <4>2. wire'[i] = Body[Sent + (i - Len(wire))]
        BY <1>2, <1>3, <3>2, <4>1 DEF PiecesInv
      <4> QED
        BY <1>2, <1>4, <4>2 DEF Sent
    <3> QED
      BY <1>2, <1>3, <3>1, <3>2
  <2>2. \A i \in 1..Len(buffer') : buffer'[i] = Body[Sent' + i]
    BY <1>1, <1>2, <1>4 DEF PiecesInv
  <2> QED
    BY <1>1, <1>2, <1>4, <1>5, <2>1, <2>2 DEF PiecesInv
<1>8. CopierInv'
  BY <1>1, <1>2, <1>4, <1>5 DEF CopierInv
<1>9. writeEnd = "open" /\ Sent' <= size + 1
  <2>1. copier = "writing" => Sent + Len(chunk) + Len(buffer) = offset
    BY DEF CopierInv
  <2>2. copier = "closing" => Sent + Len(chunk) = size + 1
    BY DEF CopierInv
  <2>3. offset \in 0..size
    BY DEF TypeOK
  <2> QED
    BY <1>2, <1>4, <1>5, <2>1, <2>2, <2>3 DEF CopierInv
<1>10. TransportInv' /\ AnswerInv'
  BY <1>1, <1>9 DEF TransportInv, AnswerInv
<1> QED
  BY <1>6, <1>7, <1>8, <1>10

(* The end of the body comes after the footer.                             *)
LEMMA SendEndKeepsIInv == IInv /\ SendEnd => IInv'
<1> SUFFICES ASSUME IInv, SendEnd PROVE IInv'
  OBVIOUS
<1> USE DEF IInv
<1>1. /\ transport = "writing" /\ transport' = "finished" /\ conn = "open"
      /\ chunk = <<>> /\ Len(chunk) = 0 /\ wire' = Append(wire, End)
      /\ writeEnd = "eof" /\ readEnd' = "closed"
      /\ UNCHANGED <<main, result, copier, size, offset, buffer, fileOpen,
                     chunk, writeEnd, conn, received, complete, reply>>
  BY EmptySeq DEF SendEnd, fileVars, serverVars
<1>2. /\ size \in Nat /\ wire \in Seq(Stream \cup {End})
      /\ Len(received) \in Nat /\ Len(wire) \in Nat /\ Len(buffer) \in Nat
  BY SenderAssumption DEF TypeOK, SenderAssumption
<1>3. /\ wire' \in Seq(Stream \cup {End}) /\ Len(wire') = Len(wire) + 1
      /\ \A i \in 1..Len(wire) : wire'[i] = wire[i]
      /\ wire'[Len(wire) + 1] = End
  BY <1>1, <1>2
<1>4. /\ UNCHANGED <<Body, Taken>> /\ Taken \in Nat
      /\ Sent = size + 1 /\ Sent' = size + 2
  <2>1. UNCHANGED <<Body, Taken>>
    BY <1>1 DEF Body, Taken
  <2>2. Taken \in Nat
    BY <1>2 DEF Taken
  <2>3. Sent = size + 1
    BY <1>1 DEF TransportInv
  <2> QED
    BY <1>2, <1>3, <2>1, <2>2, <2>3 DEF Sent
<1>5. ~complete /\ copier = "done"
  <2>1. complete => Sent = size + 2
    BY <1>2 DEF PiecesInv, Sent, Taken
  <2> QED
    BY <1>1, <1>2, <1>4, <2>1 DEF CopierInv
<1>6. Len(buffer) = 0
  BY <1>1, EmptySeq DEF CopierInv
<1>7. Body[size + 2] = End
  BY <1>2 DEF Body
<1>8. PiecesInv'
  <2>1. ASSUME NEW i \in 1..Len(wire') PROVE wire'[i] = Body[Taken + i]
    <3>1. CASE i <= Len(wire)
      BY <1>2, <1>3, <3>1 DEF PiecesInv
    <3>2. CASE i = Len(wire) + 1
      BY <1>2, <1>3, <1>4, <1>7, <3>2 DEF Sent
    <3> QED
      BY <1>2, <1>3, <3>1, <3>2
  <2> QED
    BY <1>1, <1>2, <1>4, <1>5, <1>6, <2>1 DEF PiecesInv
<1>9. TypeOK' /\ CopierInv' /\ TransportInv' /\ AnswerInv'
  BY <1>1, <1>2, <1>3, <1>4, <1>5, <1>6
  DEF TypeOK, CopierInv, TransportInv, AnswerInv
<1> QED
  BY <1>8, <1>9

(* The connection goes, and what is on it may still arrive.                *)
LEMMA BreakKeepsIInv == IInv /\ (AbortBody \/ ConnectionBreaks) => IInv'
<1> SUFFICES ASSUME IInv, AbortBody \/ ConnectionBreaks PROVE IInv'
  OBVIOUS
<1> USE DEF IInv
<1>1. /\ conn = "open" /\ conn' = "broken" /\ readEnd' = "closed"
      /\ transport' \in {transport, "aborted"}
      /\ transport = "finished" => transport' = "finished"
      /\ UNCHANGED <<main, result, copier, size, offset, buffer, fileOpen,
                     chunk, writeEnd, wire, received, complete, reply>>
  BY DEF AbortBody, ConnectionBreaks, fileVars, serverVars
<1>2. UNCHANGED <<Body, Taken, Sent>>
  BY <1>1 DEF Body, Taken, Sent
<1>3. TypeOK' /\ PiecesInv' /\ AnswerInv'
  BY <1>1, <1>2 DEF TypeOK, PiecesInv, AnswerInv
<1>4. copier # "none" /\ transport # "idle" /\ transport' # "idle"
  BY <1>1 DEF CopierInv, TransportInv
<1>5. CopierInv' /\ TransportInv'
  BY <1>1, <1>2, <1>4 DEF CopierInv, TransportInv
<1> QED
  BY <1>3, <1>5

(* What arrives is the next piece of the body, and its end comes last.     *)
LEMMA ReceiveKeepsIInv == IInv /\ Receive => IInv'
<1> SUFFICES ASSUME IInv, Receive PROVE IInv'
  OBVIOUS
<1> USE DEF IInv
<1>1. /\ wire # <<>> /\ wire' = Tail(wire)
      /\ UNCHANGED <<main, result, copier, size, offset, buffer, fileOpen,
                     chunk, writeEnd, readEnd, transport, conn, reply>>
  BY DEF Receive, fileVars, pipeVars
<1>2. /\ size \in Nat /\ size <= MaxSize /\ wire \in Seq(Stream \cup {End})
      /\ received \in Seq(Stream)
      /\ Len(received) \in Nat /\ Len(wire) \in Nat /\ Len(chunk) \in Nat
      /\ Len(buffer) \in Nat
  BY SenderAssumption DEF TypeOK, SenderAssumption
<1>3. /\ wire' \in Seq(Stream \cup {End}) /\ Len(wire') = Len(wire) - 1
      /\ Len(wire) > 0 /\ Head(wire) = wire[1]
      /\ \A i \in 1..Len(wire') : wire'[i] = wire[i + 1]
  BY <1>1, <1>2
<1>4. ~complete /\ Taken = Len(received) /\ Body' = Body
  BY <1>1 DEF PiecesInv, Taken, Body
<1>5. Len(received) + Len(wire) <= size + 2
  BY <1>2, <1>4 DEF TransportInv, Sent
<1>6. Head(wire) = Body[Len(received) + 1]
  BY <1>2, <1>3, <1>4 DEF PiecesInv
<1>7. CASE Head(wire) = End
  <2>1. complete' = TRUE /\ received' = received
    BY <1>7 DEF Receive
  <2>2. Len(received) = size + 1
    BY <1>2, <1>3, <1>5, <1>6, <1>7, SenderAssumption
    DEF Body, SenderAssumption
  <2>3. Len(wire) = 1 /\ Len(wire') = 0 /\ wire' = <<>>
    BY <1>2, <1>3, <1>5, <2>2
  <2>4. Taken' = Taken + 1 /\ Sent' = Sent /\ Sent = size + 2
    BY <1>2, <1>4, <2>1, <2>2, <2>3 DEF Taken, Sent
  <2>5. PiecesInv'
    <3>1. \A i \in 1..Len(received') : i <= size + 1 /\ received'[i] = Body[i]
      BY <2>1 DEF PiecesInv
    <3>2. \A i \in 1..Len(wire') : wire'[i] = Body[Taken' + i]
      BY <2>3
    <3>3. complete' => Len(received') = size' + 1 /\ wire' = <<>>
      BY <1>1, <2>1, <2>2, <2>3
    <3>4. \A i \in 1..Len(chunk') : chunk'[i] = Body[Sent' + i]
      BY <1>1, <2>4 DEF PiecesInv
    <3>5. \A i \in 1..Len(buffer') :
            buffer'[i] = Body[Sent' + Len(chunk') + i]
      BY <1>1, <2>4 DEF PiecesInv
    <3>6. Body' = Body /\ size' = size
      BY <1>1, <1>4
    <3> QED
      BY <3>1, <3>2, <3>3, <3>4, <3>5, <3>6 DEF PiecesInv
  <2>6. TypeOK' /\ CopierInv' /\ TransportInv' /\ AnswerInv'
    BY <1>1, <1>2, <1>3, <2>1, <2>4
    DEF TypeOK, CopierInv, TransportInv, AnswerInv
  <2> QED
    BY <2>5, <2>6
<1>8. CASE Head(wire) # End
  <2>1. complete' = complete /\ received' = Append(received, Head(wire))
    BY <1>8 DEF Receive
  <2>2. Head(wire) \in Stream
    BY <1>1, <1>2, <1>8
  <2>3. /\ received' \in Seq(Stream) /\ Len(received') = Len(received) + 1
        /\ \A i \in 1..Len(received) : received'[i] = received[i]
        /\ received'[Len(received) + 1] = Head(wire)
    BY <1>2, <2>1, <2>2
  <2>4. Taken' = Taken + 1 /\ Sent' = Sent
    BY <1>2, <1>3, <1>4, <2>1, <2>3 DEF Taken, Sent
  <2>5. Len(received) + 1 <= size + 1
    BY <1>2, <1>3, <1>5, <1>6, <1>8 DEF Body
  <2>6. ASSUME NEW i \in 1..Len(received')
        PROVE  i <= size + 1 /\ received'[i] = Body[i]
    BY <1>2, <1>6, <2>3, <2>5 DEF PiecesInv
  <2>7. ASSUME NEW i \in 1..Len(wire') PROVE wire'[i] = Body[Taken' + i]
    <3>1. wire'[i] = Body[Taken + (i + 1)]
      BY <1>2, <1>3 DEF PiecesInv
    <3>2. Taken' + i = Taken + (i + 1)
      BY <1>2, <1>4, <2>4
    <3> QED
      BY <3>1, <3>2
  <2>8. PiecesInv'
    BY <1>1, <1>4, <2>1, <2>4, <2>6, <2>7 DEF PiecesInv
  <2>9. TypeOK' /\ CopierInv' /\ TransportInv' /\ AnswerInv'
    BY <1>1, <1>2, <1>3, <2>1, <2>3, <2>4
    DEF TypeOK, CopierInv, TransportInv, AnswerInv
  <2> QED
    BY <2>8, <2>9
<1> QED
  BY <1>7, <1>8

(* IInv is inductive.                                                      *)
LEMMA NextKeepsIInv == IInv /\ [Next]_vars => IInv'
<1> SUFFICES ASSUME IInv, [Next]_vars PROVE IInv'
  OBVIOUS
<1>1. CASE Reply
  <2>1. /\ reply' \in Statuses /\ (reply' = 201 => complete)
        /\ UNCHANGED <<main, result, copier, size, offset, buffer, fileOpen,
                       chunk, writeEnd, readEnd, transport, conn, wire,
                       received, complete>>
    BY <1>1 DEF Reply, fileVars, pipeVars, netVars
  <2>2. UNCHANGED <<Body, Taken, Sent>>
    BY <2>1 DEF Body, Taken, Sent
  <2> QED
    BY <2>1, <2>2
    DEF IInv, TypeOK, PiecesInv, CopierInv, TransportInv, AnswerInv
<1>2. CASE UNCHANGED vars
  <2>1. UNCHANGED <<Body, Taken, Sent>>
    BY <1>2 DEF Body, Taken, Sent, vars, fileVars, netVars, serverVars
  <2> QED
    BY <1>2, <2>1
    DEF vars, fileVars, pipeVars, netVars, serverVars,
        IInv, TypeOK, PiecesInv, CopierInv, TransportInv, AnswerInv
<1> QED
  BY <1>1, <1>2, MainKeepsIInv, ReadBlockKeepsIInv, FinishStreamKeepsIInv,
     CopierKeepsIInv, SendChunkKeepsIInv, SendEndKeepsIInv, BreakKeepsIInv,
     ReceiveKeepsIInv
  DEF Next, MainStep, Copier

LEMMA Invariance == Spec => []IInv
  BY InitEstablishesIInv, NextKeepsIInv, PTL DEF Spec

-----------------------------------------------------------------------------
(* A body that ended is all of the compressed stream.                      *)
LEMMA EndedIsWhole == IInv => CompleteIsWhole
<1> SUFFICES ASSUME IInv, complete PROVE received = Whole
  BY DEF CompleteIsWhole
<1>1. /\ size \in Nat /\ received \in Seq(Stream)
      /\ Len(received) = size + 1
  BY SenderAssumption DEF IInv, TypeOK, PiecesInv, SenderAssumption
<1>2. ASSUME NEW i \in 1..size + 1 PROVE received[i] = Whole[i]
  <2>1. received[i] = Body[i]
    BY <1>1 DEF IInv, PiecesInv
  <2> QED
    BY <1>1, <2>1 DEF Body, Whole
<1>3. received = [i \in 1..size + 1 |-> received[i]]
  BY <1>1, LenProperties
<1>4. Whole = [i \in 1..size + 1 |-> Whole[i]]
  BY DEF Whole
<1> QED
  BY <1>2, <1>3, <1>4

(* Every variable keeps its type, for files of any size.                   *)
THEOREM TypeCorrect == Spec => []TypeOK
<1>1. IInv => TypeOK
  BY DEF IInv
<1> QED
  BY <1>1, Invariance, PTL

(* The data loader never takes the body of a send whose reading failed, or *)
(* was cut off, for a complete one.                                        *)
THEOREM EndsWhole == Spec => []CompleteIsWhole
  BY EndedIsWhole, Invariance, PTL

(* Send tells once, and tells success only of a file that arrived whole.   *)
THEOREM ImplementsDelivery == Spec => DeliversOrFails
<1>1. Init => Promise!Init
  BY DEF Init, Promise!Init
<1>2. IInv /\ IInv' /\ [Next]_vars
        => [Promise!Next]_<<complete /\ received = Whole, result>>
  <2> SUFFICES ASSUME IInv, IInv', [Next]_vars,
                      ~UNCHANGED <<complete /\ received = Whole, result>>
               PROVE  Promise!Next
    OBVIOUS
  <2>1. /\ (complete /\ received = Whole) = complete
        /\ (complete /\ received = Whole)' = complete'
        /\ complete \in BOOLEAN /\ complete' \in BOOLEAN
    <3>1. IInv' => CompleteIsWhole'
      BY EndedIsWhole, PTL
    <3>2. complete \in BOOLEAN /\ complete' \in BOOLEAN
      BY DEF IInv, TypeOK
    <3>3. (complete => received = Whole) /\ (complete => received = Whole)'
      BY <3>1, EndedIsWhole DEF CompleteIsWhole
    <3> QED
      BY <3>2, <3>3
  <2>2. CASE Receive
    <3>1. result' = result /\ complete' # complete
      BY <2>1, <2>2 DEF Receive
    <3>2. complete' = TRUE
      BY <2>2, <3>1 DEF Receive
    <3> QED
      BY <2>1, <3>1, <3>2 DEF Promise!Next, Promise!Deliver
  <2>3. CASE ~Receive
    <3>1. complete' = complete
      BY <2>3
      DEF Next, Copier, MainStep, OpenFails, OpenFile, RequestInvalid,
          StartRequest, ConnectFails, Connect, DoFails, CheckStatusCode,
          Return, ReadBlock, ReadFails, FinishStream, ChunkTaken, WriteFails,
          SendChunk, SendEnd, AbortBody, ConnectionBreaks, Reply, vars,
          serverVars
    <3>2. result' # result
      BY <2>1, <3>1
    <3>3. /\ main # "returned" /\ result' \in {"success", "failure"}
          /\ result' = "success" => complete
      BY <3>2
      DEF IInv, AnswerInv, TypeOK, Next, Copier, OpenFails, OpenFile,
          RequestInvalid, StartRequest, ConnectFails, Connect, DoFails,
          CheckStatusCode, Return, ReadBlock, ReadFails, FinishStream,
          ChunkTaken, WriteFails, SendChunk, SendEnd, AbortBody,
          ConnectionBreaks, Receive, Reply, vars
    <3>4. result = "nothing"
      BY <3>3 DEF IInv, AnswerInv
    <3> QED
      BY <2>1, <3>1, <3>3, <3>4 DEF Promise!Next, Promise!Tell
  <2> QED
    BY <2>2, <2>3
<1> QED
  BY <1>1, <1>2, Invariance, PTL DEF Spec, DeliversOrFails, Promise!Spec

-----------------------------------------------------------------------------
(* Who has its file open, and that a Send which returned left no pipe that *)
(* a goroutine could block on.                                             *)
FreeInv ==
  /\ fileOpen <=> copier \in {"reading", "writing", "closing"}
  /\ main = "returned" => copier = "none" \/ readEnd = "closed"

LEMMA NextKeepsFreeInv == IInv /\ FreeInv /\ [Next]_vars => FreeInv'
<1> SUFFICES ASSUME IInv, FreeInv, [Next]_vars PROVE FreeInv'
  OBVIOUS
<1> USE DEF FreeInv
<1>1. CASE UNCHANGED vars
  BY <1>1 DEF vars, fileVars, pipeVars
<1>2. CASE MainStep
  BY <1>2
  DEF MainStep, OpenFails, OpenFile, RequestInvalid, StartRequest,
      ConnectFails, Connect, DoFails, CheckStatusCode, Return, fileVars,
      pipeVars, IInv, CopierInv
<1>3. CASE Copier
  BY <1>3
  DEF Copier, ReadBlock, ReadFails, FinishStream, ChunkTaken, WriteFails,
      CopierEnds
<1>4. CASE SendChunk \/ SendEnd \/ AbortBody \/ ConnectionBreaks
           \/ Receive \/ Reply
  BY <1>4
  DEF SendChunk, SendEnd, AbortBody, ConnectionBreaks, Receive, Reply,
      fileVars, pipeVars
<1> QED
  BY <1>1, <1>2, <1>3, <1>4 DEF Next, MainStep

LEMMA FreeInvariance == Spec => []FreeInv
<1>1. Init => FreeInv
  BY DEF Init, FreeInv
<1> QED
  BY <1>1, Invariance, NextKeepsFreeInv, PTL DEF Spec

(* An open file has steps left, a finished one has none.                   *)
ClosedAtEnd == StepsLeft = 0 <=> ~fileOpen
LEMMA StepsAreLeft == IInv /\ FreeInv => ClosedAtEnd
<1> SUFFICES ASSUME IInv, FreeInv PROVE StepsLeft = 0 <=> ~fileOpen
  BY DEF ClosedAtEnd
<1>1. size \in Nat /\ offset \in Nat /\ offset <= size
  BY SenderAssumption DEF IInv, TypeOK
<1> QED
  BY <1>1 DEF IInv, TypeOK, FreeInv, StepsLeft

(* A step of the goroutine that compresses is one less to take.            *)
LEMMA CopierStepsAreCounted ==
  ASSUME IInv, Copier PROVE StepsLeft' < StepsLeft
<1>1. /\ size \in Nat /\ offset \in Nat /\ offset <= size /\ size' = size
  BY SenderAssumption
  DEF IInv, TypeOK, Copier, ReadBlock, ReadFails, FinishStream, ChunkTaken,
      WriteFails
<1> QED
  BY <1>1
  DEF StepsLeft, Copier, ReadBlock, ReadFails, FinishStream, ChunkTaken,
      WriteFails, CopierEnds

(* Once Send has returned, the goroutine it started waits for nobody and   *)
(* ends after at most the steps its file has left, for files of any size.  *)
THEOREM FreesCopier == Spec => CopierRunsOut
<1> DEFINE RunsOut ==
      main = "returned" /\ fileOpen =>
        /\ copier # "reading" /\ chunk # <<>> => readEnd = "closed"
        /\ StepsLeft' < StepsLeft \/ UNCHANGED <<copier, offset, size>>
        /\ StepsLeft' = 0 <=> ~fileOpen'
<1>1. IInv' /\ FreeInv' => ClosedAtEnd'
  BY StepsAreLeft, PTL
<1>2. ASSUME IInv, FreeInv, IInv', FreeInv', [Next]_vars PROVE [RunsOut]_vars
  <2> SUFFICES ASSUME Next, main = "returned", fileOpen
               PROVE  StepsLeft' < StepsLeft
                      \/ UNCHANGED <<copier, offset, size>>
    BY <1>1, <1>2 DEF FreeInv, ClosedAtEnd
  <2>1. CASE Copier
    BY <1>2, <2>1, CopierStepsAreCounted
  <2>2. CASE ~Copier
    BY <2>2
    DEF Next, OpenFails, OpenFile, RequestInvalid, StartRequest,
        ConnectFails, Connect, DoFails, CheckStatusCode, SendChunk, SendEnd,
        AbortBody, ConnectionBreaks, Receive, Reply, fileVars
  <2> QED
    BY <2>1, <2>2
<1> QED
  BY <1>2, Invariance, FreeInvariance, PTL DEF Spec, CopierRunsOut
=============================================================================
