-------------------------- MODULE AbstractChannels --------------------------
(***************************************************************************)
(* What the channels of a workflow promise, without coroutines: each is a  *)
(* bounded queue of accepted values.  A value leaves the queue from the    *)
(* front into the hands of a receiver, and a value in hand is delivered.   *)
(* Every value sent is a different one, so a set is enough for the hands.  *)
(***************************************************************************)
EXTENDS Naturals, Sequences

CONSTANTS
    Chans,          \* the channels
    Vals,           \* the values that can be sent
    Size            \* the capacity of each queue

VARIABLES
    queue,          \* accepted values no receiver has claimed, oldest first
    hands,          \* values claimed by a receiver that has not run yet
    delivered,      \* values receivers have returned with
    closed          \* Close was called

vars == <<queue, hands, delivered, closed>>

Fresh(c) == {v \in Vals : v \notin hands[c] \cup delivered[c]
                          /\ \A i \in DOMAIN queue[c] : queue[c][i] # v}

Init ==
    /\ queue = [c \in Chans |-> <<>>]
    /\ hands = [c \in Chans |-> {}]
    /\ delivered = [c \in Chans |-> {}]
    /\ closed = [c \in Chans |-> FALSE]

\* A value is accepted into the queue.
Accept(c, v) ==
    /\ ~closed[c]
    /\ Len(queue[c]) < Size[c]
    /\ queue' = [queue EXCEPT ![c] = Append(@, v)]
    /\ UNCHANGED <<hands, delivered, closed>>

\* A value goes straight to a waiting receiver; nothing is queued before it.
HandOver(c, v) ==
    /\ ~closed[c]
    /\ queue[c] = <<>>
    /\ hands' = [hands EXCEPT ![c] = @ \cup {v}]
    /\ UNCHANGED <<queue, delivered, closed>>

\* A receiver takes the value of a sender that waits.
Meet(c, v) ==
    /\ ~closed[c]
    /\ queue[c] = <<>>
    /\ delivered' = [delivered EXCEPT ![c] = @ \cup {v}]
    /\ UNCHANGED <<queue, hands, closed>>

\* A receiver takes the oldest value.
Receive(c) ==
    /\ queue[c] # <<>>
    /\ queue' = [queue EXCEPT ![c] = Tail(@)]
    /\ delivered' = [delivered EXCEPT ![c] = @ \cup {Head(queue[c])}]
    /\ UNCHANGED <<hands, closed>>

\* The same, and a sender that waits gets the room.
ReceiveAndAccept(c, v) ==
    /\ queue[c] # <<>>
    /\ queue' = [queue EXCEPT ![c] = Append(Tail(@), v)]
    /\ delivered' = [delivered EXCEPT ![c] = @ \cup {Head(queue[c])}]
    /\ UNCHANGED <<hands, closed>>

\* A receiver returns with the value it has in hand.
Deliver(c, v) ==
    /\ v \in hands[c]
    /\ hands' = [hands EXCEPT ![c] = @ \ {v}]
    /\ delivered' = [delivered EXCEPT ![c] = @ \cup {v}]
    /\ UNCHANGED <<queue, closed>>

Close(c) ==
    /\ closed' = [closed EXCEPT ![c] = TRUE]
    /\ UNCHANGED <<queue, hands, delivered>>

\* Coroutines do something else.
Idle == UNCHANGED vars

Next ==
    \/ Idle
    \/ \E c \in Chans :
        \/ Receive(c) \/ Close(c)
        \/ \E v \in hands[c] : Deliver(c, v)
        \/ \E v \in Fresh(c) : \/ Accept(c, v) \/ HandOver(c, v) \/ Meet(c, v)
                               \/ ReceiveAndAccept(c, v)

Spec == Init /\ [][Next]_vars
=============================================================================
