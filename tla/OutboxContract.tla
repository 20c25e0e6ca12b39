--------------------------- MODULE OutboxContract ---------------------------
(***************************************************************************)
(* What the durable event bus promises its publishers and subscribers,     *)
(* whatever its workers, transactions and retries do: an event is unknown  *)
(* until its publication commits, its handlers run only while it is        *)
(* pending, it leaves "pending" exactly once, and it is reported delivered *)
(* only when every subscribed handler has completed at least once.         *)
(* EventOutbox implements this specification.                              *)
(***************************************************************************)
CONSTANTS Events, Handlers

VARIABLES state,  \* what an observer of the outbox table sees of each event
          done    \* the handlers that have completed at least once

vars == <<state, done>>

Init == /\ state = [e \in Events |-> "unpublished"]
        /\ done = [e \in Events |-> {}]

Publish(e) == /\ state[e] = "unpublished"
              /\ state' = [state EXCEPT ![e] = "pending"]
              /\ UNCHANGED done

Handle(e, h) == /\ state[e] = "pending"
                /\ done' = [done EXCEPT ![e] = @ \cup {h}]
                /\ UNCHANGED state

\* One commit may settle several events: D are delivered, G are given up.
Settle(D, G) ==
  /\ D \cap G = {}
  /\ \A e \in D \cup G : state[e] = "pending"
  /\ \A e \in D : done[e] = Handlers
  /\ state' = [e \in Events |-> IF e \in D THEN "delivered"
                                ELSE IF e \in G THEN "dead_letter" ELSE state[e]]
  /\ UNCHANGED done

Next == \/ \E e \in Events : Publish(e)
        \/ \E e \in Events, h \in Handlers : Handle(e, h)
        \/ \E D, G \in SUBSET Events : Settle(D, G)

Spec == Init /\ [][Next]_vars
=============================================================================
