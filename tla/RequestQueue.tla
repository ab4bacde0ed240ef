---------------------------- MODULE RequestQueue ----------------------------
(***************************************************************************)
(* What the per-device request queue promises its two sides, the bus that  *)
(* submits requests and the agent that reads wire commands, when no        *)
(* request is cancelled (spec.md sections 3, 4.1, 4.2, 5 and 8):           *)
(*   - a submitted request waits in one FIFO queue;                        *)
(*   - reads take the oldest request and deliver its command, either whole *)
(*     or as a header whose payload the next read delivers; only one       *)
(*     request is owed a payload at a time and nothing else goes out in    *)
(*     between;                                                            *)
(*   - a request is answered only after its command was delivered, and it  *)
(*     is completed exactly once.                                          *)
(* UrbQueue refines this specification (see RefinesRequestQueue there).    *)
(***************************************************************************)
EXTENDS Sequences

CONSTANTS
  Requests,   \* the requests of the bus
  NULL

VARIABLES
  accepted,   \* requests the queue has taken from the bus
  queue,      \* requests waiting for a read, oldest first
  owed,       \* the request whose header went out without its payload
  delivered,  \* requests whose whole command went out, awaiting a reply
  done,       \* requests completed to the bus
  wire        \* chunks the agent has read, in order

vars == <<accepted, queue, owed, delivered, done, wire>>

Chunk(x, kind) == [urbr |-> x, kind |-> kind]

Init ==
  /\ accepted = {} /\ queue = <<>> /\ owed = NULL
  /\ delivered = {} /\ done = {} /\ wire = <<>>

\* The bus hands a request over; it joins the end of the queue.
Submit(u) ==
  /\ u \notin accepted
  /\ accepted' = accepted \cup {u}
  /\ queue' = Append(queue, u)
  /\ UNCHANGED <<owed, delivered, done, wire>>

\* A read takes the oldest request and its buffer holds the whole command.
DeliverWhole ==
  /\ queue # <<>> /\ owed = NULL
  /\ delivered' = delivered \cup {Head(queue)}
  /\ wire' = Append(wire, Chunk(Head(queue), "full"))
  /\ queue' = Tail(queue)
  /\ UNCHANGED <<accepted, owed, done>>

\* A read takes the oldest request and its buffer holds only the header.
DeliverHeader ==
  /\ queue # <<>> /\ owed = NULL
  /\ owed' = Head(queue)
  /\ wire' = Append(wire, Chunk(Head(queue), "hdr"))
  /\ queue' = Tail(queue)
  /\ UNCHANGED <<accepted, delivered, done>>

\* The next read delivers the payload owed.
DeliverPayload ==
  /\ owed # NULL
  /\ delivered' = delivered \cup {owed}
  /\ wire' = Append(wire, Chunk(owed, "payload"))
  /\ owed' = NULL
  /\ UNCHANGED <<accepted, queue, done>>

Deliver == DeliverWhole \/ DeliverHeader \/ DeliverPayload

\* The peer's reply to a delivered request completes it.
Reply(u) ==
  /\ u \in delivered
  /\ delivered' = delivered \ {u}
  /\ done' = done \cup {u}
  /\ UNCHANGED <<accepted, queue, owed, wire>>

Next == Deliver \/ \E u \in Requests : Submit(u) \/ Reply(u)

Spec == Init /\ [][Next]_vars

\* The bus submits every request, the agent keeps reading and the peer
\* answers every command: then every request is delivered and completed.
FairSpec ==
  /\ Spec /\ WF_vars(Deliver)
  /\ \A u \in Requests : WF_vars(Submit(u)) /\ WF_vars(Reply(u))

=============================================================================
