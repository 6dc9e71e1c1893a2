---------------------------- MODULE TvdProtocol ----------------------------
(***************************************************************************)
(* The protocol of doc/ipc.txt as its client sees it, abstract of sockets, *)
(* queues and callbacks: every command is answered once and in order, by a *)
(* response or by an error; only a successful register or unregister       *)
(* command changes what is registered; the DTV service answers and         *)
(* notifies only while it is registered.  A packet that is no command is   *)
(* dropped.                                                                *)
(*                                                                         *)
(* Module Tvd is shown to implement it.  Unregistering a service that is   *)
(* not registered succeeds in the code (registry.c:153), and does so here. *)
(***************************************************************************)
EXTENDS Integers, Sequences

CONSTANTS Cmd,            \* commands
          Junk,           \* packets that are no commands
          Ntf             \* notifications

SERVICE_REGISTRY == 0
SERVICE_DTV      == 1
OPCODE_ERROR             == 0
OPCODE_REGISTER_MODULE   == 1
OPCODE_UNREGISTER_MODULE == 2

(* A message from the daemon; value is an error's code and 0 otherwise. *)
Response(c)   == [service |-> c.service, opcode |-> c.opcode, value |-> 0]
Error(c, err) == [service |-> c.service, opcode |-> OPCODE_ERROR, value |-> err]
ErrorCode == 1..7
Errors(c)  == {Error(c, err) : err \in ErrorCode}
Answers(c) == {Response(c)} \union Errors(c)
Message == (UNION {Answers(c) : c \in Cmd}) \union Ntf

IsRegister(c)   == c.service = SERVICE_REGISTRY /\ c.opcode = OPCODE_REGISTER_MODULE
IsUnregister(c) == c.service = SERVICE_REGISTRY /\ c.opcode = OPCODE_UNREGISTER_MODULE

VARIABLES requests,       \* packets sent and not yet handled, oldest first
          chan,           \* messages on their way to the client
          registered,     \* whether DTV is registered
          link            \* "new", "up" or "down"

vars == <<requests, chan, registered, link>>

TypeOK == /\ requests \in Seq(Cmd \union Junk)
          /\ chan \in Seq(Message)
          /\ registered \in BOOLEAN
          /\ link \in {"new", "up", "down"}

Init == /\ requests = <<>>
        /\ chan = <<>>
        /\ registered = FALSE
        /\ link = "new"

Open == /\ link = "new"
        /\ link' = "up"
        /\ UNCHANGED <<requests, chan, registered>>

Request(c) == /\ link = "up"
              /\ requests' = Append(requests, c)
              /\ UNCHANGED <<chan, registered, link>>

(* What a successful command needs and does to the registration. *)
Succeeds(c) ==
  \/ /\ IsRegister(c)
     /\ c.arg = SERVICE_DTV /\ ~registered
     /\ registered' = TRUE
  \/ /\ IsUnregister(c)
     /\ c.arg = SERVICE_DTV
     /\ registered' = FALSE
  \/ /\ c.service = SERVICE_DTV
     /\ registered
     /\ UNCHANGED registered

Ignore == /\ link = "up"
          /\ requests # <<>> /\ Head(requests) \in Junk
          /\ requests' = Tail(requests)
          /\ UNCHANGED <<chan, registered, link>>

Answer == /\ link = "up"
          /\ requests # <<>> /\ Head(requests) \in Cmd
          /\ requests' = Tail(requests)
          /\ UNCHANGED link
          /\ LET c == Head(requests) IN
               \/ /\ Succeeds(c)
                  /\ chan' = Append(chan, Response(c))
               \/ /\ \E w \in Errors(c) : chan' = Append(chan, w)
                  /\ UNCHANGED registered

Notify(n) == /\ link = "up"
             /\ registered
             /\ chan' = Append(chan, n)
             /\ UNCHANGED <<requests, registered, link>>

Deliver == /\ chan # <<>>
           /\ chan' = Tail(chan)
           /\ UNCHANGED <<requests, registered, link>>

(* The messages under way at the end, a last answer among them, arrive up  *)
(* to some point; open requests stay unanswered.  What the daemon still    *)
(* does with its registration does not concern a client that is gone.      *)
Close == /\ link # "new"
         /\ link' = "down"
         /\ requests' = <<>>
         /\ \/ \E n \in 0..Len(chan) : chan' = SubSeq(chan, 1, n)
            \/ /\ link = "up"
               /\ requests # <<>> /\ Head(requests) \in Cmd
               /\ \E w \in Answers(Head(requests)) : chan' = Append(chan, w)
         /\ registered' \in BOOLEAN

Next == \/ Open
        \/ \E c \in Cmd \union Junk : Request(c)
        \/ Ignore
        \/ Answer
        \/ \E n \in Ntf : Notify(n)
        \/ Deliver
        \/ Close

Spec == Init /\ [][Next]_vars
=============================================================================
