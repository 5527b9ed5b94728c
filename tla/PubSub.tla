------------------------------- MODULE PubSub -------------------------------
(***************************************************************************)
(* What mbroker promises for a box: a log of messages that only grows, of  *)
(* which every subscriber receives each message once, from the first one   *)
(* on and in order, at its own pace and until its session ends.  A box has *)
(* an end: the message that reaches it is cut, and is the last.            *)
(***************************************************************************)
EXTENDS Integers, Sequences

CONSTANTS Subscribers,  \* the sessions that subscribers may have
          Sendable      \* the messages

VARIABLES log,  \* the messages in the box
          got   \* got[s]: what the subscriber of session s has received

psVars == <<log, got>>

PSInit == log = <<>> /\ got = [s \in Subscribers |-> <<>>]

Cut(m) == {SubSeq(m, 1, k) : k \in 1 .. Len(m)}

Publish == /\ log = <<>> \/ log[Len(log)] \in Sendable
           /\ \E m \in Sendable : \E part \in Cut(m) : log' = Append(log, part)
           /\ UNCHANGED got

Receive(s) == /\ Len(got[s]) < Len(log)
              /\ got' = [got EXCEPT ![s] = Append(@, log[Len(@) + 1])]
              /\ UNCHANGED log

\* The session ends; the next one begins with the first message.
Leave(s) == /\ got' = [got EXCEPT ![s] = <<>>]
            /\ UNCHANGED log

PSNext == Publish \/ \E s \in Subscribers : Receive(s) \/ Leave(s)

PSSpec == PSInit /\ [][PSNext]_psVars
=============================================================================
