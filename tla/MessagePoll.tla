---------------------------- MODULE MessagePoll ----------------------------
(***************************************************************************)
(* The interface every message transport of the chat server implements     *)
(* (A5/Chatroom/include/MessagePoll.h): putMessage hands a message over,   *)
(* getMessage takes one back.  Two strengths of the promise are stated:    *)
(* Spec is the queue a user of the interface expects, LossySpec the weaker *)
(* one in which everything that is waiting may vanish at once.             *)
(***************************************************************************)
EXTENDS Sequences

CONSTANT Message          \* what may be put

VARIABLES queue,          \* put and not yet taken, oldest first
          got             \* history: what getMessage returned, in order

vars == <<queue, got>>

TypeOK == queue \in Seq(Message) /\ got \in Seq(Message)

Init == queue = <<>> /\ got = <<>>

putMessage(msg) == /\ queue' = Append(queue, msg)
                   /\ UNCHANGED got

getMessage == /\ queue # <<>>
              /\ got' = Append(got, Head(queue))
              /\ queue' = Tail(queue)

Lose == /\ queue' = <<>>
        /\ UNCHANGED got

Next == getMessage \/ \E msg \in Message : putMessage(msg)

Spec == Init /\ [][Next]_vars

LossySpec == Init /\ [][Next \/ Lose]_vars
=============================================================================
