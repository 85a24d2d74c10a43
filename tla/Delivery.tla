------------------------------ MODULE Delivery ------------------------------
(***************************************************************************)
(* What sending a file promises: the receiver gets the whole file or does  *)
(* not have it, the sender is told once, and is told of success only when  *)
(* the receiver has the file. A failure may be told of a file that arrived *)
(* all the same: the answer got lost.                                      *)
(***************************************************************************)
VARIABLES delivered, \* does the receiver have the whole file?
          told       \* what the sender was told: "nothing", "success", "failure"

Init == delivered = FALSE /\ told = "nothing"

Deliver == ~delivered /\ delivered' = TRUE /\ UNCHANGED told

Tell(answer) ==
  /\ told = "nothing"
  /\ answer = "success" => delivered
  /\ told' = answer
  /\ UNCHANGED delivered

Next == Deliver \/ \E answer \in {"success", "failure"} : Tell(answer)

Spec == Init /\ [][Next]_<<delivered, told>>
=============================================================================
