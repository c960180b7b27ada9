---------------------------- MODULE RequestReply ----------------------------
(***************************************************************************)
(* What the control channel promises to a host program: requests are taken *)
(* one at a time, in the order they were sent, each gets one reply, and    *)
(* the replies arrive in that order.                                       *)
(***************************************************************************)
EXTENDS Naturals, Sequences

CONSTANTS
  Requests,  \* what a host may send
  NoRequest, \* none of them
  Window     \* requests a host has without a reply, at most

VARIABLES
  requests,  \* sent and not served
  replies,   \* served and not received
  received   \* the last request whose reply was received

vars == <<requests, replies, received>>

Init == requests = <<>> /\ replies = <<>> /\ received = NoRequest

Send(r) ==
  /\ Len(requests) + Len(replies) < Window
  /\ requests' = Append(requests, r)
  /\ UNCHANGED <<replies, received>>

Serve ==
  /\ requests # <<>>
  /\ replies' = Append(replies, Head(requests))
  /\ requests' = Tail(requests)
  /\ UNCHANGED received

Receive ==
  /\ replies # <<>>
  /\ received' = Head(replies)
  /\ replies' = Tail(replies)
  /\ UNCHANGED requests

Next == (\E r \in Requests : Send(r)) \/ Serve \/ Receive

Safety == Init /\ [][Next]_vars

Spec == Safety /\ WF_vars(Serve) /\ WF_vars(Receive)
=============================================================================
