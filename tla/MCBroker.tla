------------------------------ MODULE MCBroker ------------------------------
(* The requests that TLC runs Broker with. *)
EXTENDS Broker

CONSTANTS main, w1, w2, w3,   \* threads
          b1, b2, b3,       \* names of boxes
          x, y                \* characters

Request(code, n) == create_register_request(code, None, n)
Requests4(n) == {Request(code, n) : code \in RegisterRequests}

\* A box, a subscriber and a publisher, and one more request of any kind.
OneBox == <<{Request(REQUEST_CREATE_BOX, b1)}, {Request(REQUEST_REGISTER_SUBSCRIBER, b1)},
            {Request(REQUEST_REGISTER_PUBLISHER, b1)},
            Requests4(b1) \cup {create_list_request(REQUEST_LIST_BOX, None)}>>

\* Five requests, each of any kind for any box.
FiveRequests == [k \in 1 .. 5 |-> UNION {Requests4(n) : n \in Boxes}]

BoxAndWorkerSymmetry == Permutations(Boxes) \cup Permutations(Workers)

\* A box is removed while it has a subscriber.
RemovedUnderSubscriber ==
    <<{Request(REQUEST_CREATE_BOX, b1)}, {Request(REQUEST_REGISTER_SUBSCRIBER, b1)},
      {Request(REQUEST_REMOVE_BOX, b1)}>>

\* A box takes the place of one that was removed.
BoxAfterBox == <<{Request(REQUEST_CREATE_BOX, b1)}, {Request(REQUEST_REGISTER_PUBLISHER, b1)},
                 {Request(REQUEST_REMOVE_BOX, b1)}, {Request(REQUEST_CREATE_BOX, b2)},
                 {Request(REQUEST_REGISTER_SUBSCRIBER, b2)}, {Request(REQUEST_REGISTER_PUBLISHER, b2)}>>

\* Messages that can be told apart.
TwoMessages == <<<<x>>, <<y>>>>
ShortAndLong == <<<<x>>, <<y, x, y>>>>
ThreeMessages == <<<<x>>, <<y>>, <<x>>>>
=============================================================================
