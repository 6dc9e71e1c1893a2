----------------------------- MODULE TunerTable -----------------------------
(***************************************************************************)
(* What tv_hal.c keeps for the DTV service, without saying how: the tuners *)
(* the TV HAL has announced, each with the stream that was selected on it. *)
(* A tuner's stream changes only by an operation on that tuner; announcing *)
(* or withdrawing another tuner leaves it alone.                           *)
(*                                                                         *)
(* TvHal, which keeps them in an array that it shifts, is shown to         *)
(* implement this specification when the HAL's notifications do not fall   *)
(* into a call of the I/O thread.                                          *)
(***************************************************************************)
CONSTANTS Tuner, Stream, NoStream

VARIABLE acting               \* from the known tuners to their streams

Known == DOMAIN acting

Init == acting = [d \in {} |-> NoStream]

(* All are forgotten when the service is registered. *)
Forget == acting' = [d \in {} |-> NoStream]

Announce(d) ==
  /\ d \notin Known
  /\ acting' = [e \in Known \union {d} |-> IF e = d THEN NoStream ELSE acting[e]]

Withdraw(d) ==
  /\ d \in Known
  /\ acting' = [e \in Known \ {d} |-> acting[e]]

Select(d, s) ==
  /\ d \in Known
  /\ acting' = [acting EXCEPT ![d] = s]

Next ==
  \/ Forget
  \/ \E d \in Tuner : \/ Announce(d)
                      \/ Withdraw(d)
                      \/ \E s \in Stream \union {NoStream} : Select(d, s)

Spec == Init /\ [][Next]_acting
=============================================================================
