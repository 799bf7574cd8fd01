---------------------------- MODULE HttpService ----------------------------
(***************************************************************************)
(* What the HTTP server promises to its clients and to the COBOL program,  *)
(* whatever servers, goroutines and channels it is made of: requests are   *)
(* handed to the program one at a time in the order they were queued, and  *)
(* once each; a request gets at most one reply, made while it was the one  *)
(* in hand; and a client is answered only with the reply to its request.   *)
(* A connection may be lost at any time.                                   *)
(***************************************************************************)
EXTENDS Naturals, Sequences

CONSTANTS Clients, None

VARIABLES
    queue,      \* the requests not yet handed to the program
    taken,      \* the requests that have been handed to it
    inHand,     \* the last of those
    reply,      \* the number of the reply each request got, 0 for none
    outcome     \* what each client has seen

vars == <<queue, taken, inHand, reply, outcome>>

InQueue == {queue[i] : i \in DOMAIN queue}

Init ==
    /\ queue = <<>>
    /\ taken = {}
    /\ inHand = None
    /\ reply = [c \in Clients |-> 0]
    /\ outcome = [c \in Clients |-> "none"]

Arrive(c) ==
    /\ outcome[c] = "none"
    /\ outcome' = [outcome EXCEPT ![c] = "pending"]
    /\ UNCHANGED <<queue, taken, inHand, reply>>

Enqueue(c) ==
    /\ outcome[c] # "none"
    /\ c \notin InQueue \cup taken
    /\ queue' = Append(queue, c)
    /\ UNCHANGED <<taken, inHand, reply, outcome>>

Take ==
    /\ queue # <<>>
    /\ inHand' = Head(queue)
    /\ queue' = Tail(queue)
    /\ taken' = taken \cup {Head(queue)}
    /\ UNCHANGED <<reply, outcome>>

\* The reply is new: no request has got this one before.
Reply ==
    /\ inHand # None
    /\ reply[inHand] = 0
    /\ reply'[inHand] # 0
    /\ \A c \in Clients : reply[c] # reply'[inHand]
    /\ reply' = [reply EXCEPT ![inHand] = reply'[inHand]]
    /\ UNCHANGED <<queue, taken, inHand, outcome>>

Deliver(c) ==
    /\ outcome[c] = "pending"
    /\ reply[c] # 0
    /\ outcome' = [outcome EXCEPT ![c] = "answered"]
    /\ UNCHANGED <<queue, taken, inHand, reply>>

Lose ==
    /\ \E lost \in SUBSET {c \in Clients : outcome[c] = "pending"} :
          outcome' = [c \in Clients |-> IF c \in lost THEN "lost" ELSE outcome[c]]
    /\ UNCHANGED <<queue, taken, inHand, reply>>

Next ==
    \/ Take
    \/ Reply
    \/ Lose
    \/ \E c \in Clients : Arrive(c) \/ Enqueue(c) \/ Deliver(c)

Spec == Init /\ [][Next]_vars
=============================================================================
