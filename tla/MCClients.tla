----------------------------- MODULE MCClients -----------------------------
(* The scenes that TLC plays with Clients. *)
EXTENDS Clients

CONSTANTS main, w1, w2, w3, \* threads
          b1, b2,           \* names of boxes
          c1, c2, c3, c4, c5, c6,   \* clients, each called after its pipe
          x, y              \* characters

Do(code, n, r) == [code |-> code, box |-> n, round |-> r]
Creation(n, r) == Do(REQUEST_CREATE_BOX, n, r)
Removal(n, r) == Do(REQUEST_REMOVE_BOX, n, r)
List(r) == Do(REQUEST_LIST_BOX, None, r)
Publishes(n, r) == Do(REQUEST_REGISTER_PUBLISHER, n, r)
Subscribes(n, r) == Do(REQUEST_REGISTER_SUBSCRIBER, n, r)

Scene(threads, cmd) == [cmd |-> cmd, threads |-> threads, fragile |-> {}, deaf |-> {}, interrupted |-> FALSE]
Two == {w1, w2}
Three == {w1, w2, w3}

\* A box, and at the same time its subscriber and its publisher.
Session == Scene(Two, (c1 :> Creation(b1, 1)) @@ (c2 :> Subscribes(b1, 2)) @@ (c3 :> Publishes(b1, 2)))

\* A box is removed: after somebody has subscribed, or while somebody
\* subscribes, publishes, or has a session with it.
RemovedAfter == Scene(Three, (c1 :> Creation(b1, 1)) @@ (c2 :> Subscribes(b1, 2))
                             @@ (c3 :> Subscribes(b1, 3)) @@ (c4 :> Removal(b1, 4)))
SubscribedWhile == Scene(Two, (c1 :> Creation(b1, 1)) @@ (c2 :> Subscribes(b1, 2)) @@ (c3 :> Removal(b1, 2)))
PublishedWhile == Scene(Two, (c1 :> Creation(b1, 1)) @@ (c2 :> Publishes(b1, 2)) @@ (c3 :> Removal(b1, 2)))
RemovedWhile == Scene(Two, (c1 :> Creation(b1, 1)) @@ (c2 :> Subscribes(b1, 2))
                           @@ (c3 :> Removal(b1, 3)) @@ (c4 :> Publishes(b1, 3)))

\* The box of a session is removed; another box gets a subscriber meanwhile.
Overtaken == Scene(Two, (c1 :> Creation(b1, 1)) @@ (c2 :> Creation(b2, 2)) @@ (c3 :> Subscribes(b1, 3))
                        @@ (c4 :> Publishes(b1, 4)) @@ (c5 :> Removal(b1, 5)) @@ (c6 :> Subscribes(b2, 6)))

\* Boxes are listed while others are made, and afterwards.
Listing == Scene(Three, (c1 :> Creation(b1, 1)) @@ (c2 :> Creation(b2, 2)) @@ (c3 :> List(2)) @@ (c4 :> List(3)))

\* The last box is removed while boxes are listed.
ListedWhile == Scene(Two, (c1 :> Creation(b1, 1)) @@ (c2 :> Creation(b2, 2)) @@ (c3 :> Removal(b2, 3)) @@ (c4 :> List(3)))

\* A box takes the slot of one that is removed, while that one's subscriber
\* has its session.
Reused == Scene(Two, (c1 :> Creation(b1, 1)) @@ (c2 :> Subscribes(b1, 2)) @@ (c3 :> Removal(b1, 3))
                     @@ (c4 :> Creation(b2, 4)) @@ (c5 :> Publishes(b2, 5)))

\* A subscriber that does not read, and a removal behind it.
Deaf == [Scene(Two, (c1 :> Creation(b1, 1)) @@ (c2 :> Subscribes(b1, 2)) @@ (c3 :> Publishes(b1, 3))
                      @@ (c4 :> Removal(b1, 4))) EXCEPT !.deaf = {c2}]

\* Two boxes of one name are made at the same time.
Twins == Scene(Two, (c1 :> Creation(b1, 1)) @@ (c2 :> Creation(b1, 1)) @@ (c3 :> Removal(b1, 2)) @@ (c4 :> List(3)))

\* Publishers of one box, one after the other has begun or ended.
TwoPublishers == Scene(Three, (c1 :> Creation(b1, 1)) @@ (c2 :> Publishes(b1, 2)) @@ (c3 :> Publishes(b1, 3))
                              @@ (c4 :> Removal(b1, 4)))

\* Clients are killed: those of a session, or the manager that made the box.
\* Or all is interrupted.
Interrupted == [Scene(Two, (c1 :> Creation(b1, 1)) @@ (c2 :> Subscribes(b1, 2)) @@ (c3 :> Publishes(b1, 3)))
                  EXCEPT !.interrupted = TRUE]
Killed == [Interrupted EXCEPT !.interrupted = FALSE, !.fragile = {c2, c3}]
ManagerKilled == [Scene(Two, (c1 :> Creation(b1, 1)) @@ (c2 :> Publishes(b1, 2)) @@ (c3 :> List(3)))
                    EXCEPT !.fragile = {c1}]

AllScenes == {Session, RemovedAfter, SubscribedWhile, PublishedWhile, RemovedWhile, Overtaken, Listing,
              ListedWhile, Reused, Deaf, Twins, TwoPublishers, Killed, ManagerKilled, Interrupted}

TwoMessages == <<<<x>>, <<y>>>>
NoRequests == <<>>
=============================================================================
