------------------------------- MODULE Outbox -------------------------------
(***************************************************************************)
(* What tvd's send path promises to its client, without saying how: the    *)
(* PDUs handed to io_state_send (src/io.c) reach the client in the order   *)
(* they were handed over, each one once, until the connection is over.     *)
(* When it is over, a suffix of what is still under way may be lost.       *)
(*                                                                         *)
(* IoState is shown to implement this specification when sendmsg does not  *)
(* fail on a working connection.                                           *)
(***************************************************************************)
EXTENDS Naturals, Sequences

CONSTANT Pdu                \* the messages the daemon can send

VARIABLES chan,             \* the PDUs accepted and not yet read, oldest first
          link              \* the connection to the client

vars == <<chan, link>>

TypeOK == /\ chan \in Seq(Pdu)
          /\ link \in {"new", "up", "down"}

Init == /\ chan = <<>>
        /\ link = "new"

Open == /\ link = "new"
        /\ link' = "up"
        /\ UNCHANGED chan

Send(w) == /\ link = "up"
           /\ chan' = Append(chan, w)
           /\ UNCHANGED link

Deliver == /\ chan # <<>>
           /\ chan' = Tail(chan)
           /\ UNCHANGED link

(* Either end closes: the first n PDUs under way can still be read. *)
Close == /\ link # "new"
         /\ link' = "down"
         /\ \E n \in 0..Len(chan) : chan' = SubSeq(chan, 1, n)

Next == Open \/ (\E w \in Pdu : Send(w)) \/ Deliver \/ Close

Spec == Init /\ [][Next]_vars
=============================================================================
