-------------------------- MODULE RealtimeChannel --------------------------
(***************************************************************************)
(* A channel of the generated WebSocket server, on several instances of    *)
(* the service with REDIS_URL set.  A message is sent at once to the       *)
(* sockets of the instance that received it, except to its sender, and     *)
(* goes through Redis to every instance that is subscribed, this one       *)
(* included, which sends it to all its sockets.  A new connection is sent  *)
(* the last messages of its instance.  What the channel declares as its    *)
(* ordering is written into the server and never read.                     *)
(*                                                                         *)
(* A process handles one socket or Redis event at a time.  Topics never    *)
(* select receivers and are left out, as are refused connections.          *)
(***************************************************************************)
EXTENDS Integers, Sequences, FiniteSets

CONSTANTS
    Instances,
    Clients,
    NoInstance,   \* where a client without a connection is
    Limit,        \* N of persistence: last_N, and 0 for none
    MaxMessages,  \* bound: messages published
    MaxRestarts   \* bound: restarts of instances

ASSUME ChannelAssumption ==
    /\ NoInstance \notin Instances
    /\ Limit \in Nat /\ MaxMessages \in Nat /\ MaxRestarts \in Nat

VARIABLES
    at,       \* where each client has its connection
    joined,   \* how many messages were published before that connection
    inbox,    \* the messages sent over it, in order
    sent,     \* client and instance of each message; its number is its name
    buffer,   \* messageBuffers of each instance
    pub, sub, \* the two connections of an instance to Redis: "starting", "up", "down"
    out,      \* what redisPub has published and Redis has not handled
    in,       \* what Redis has sent to redisSub
    restarts

links == <<pub, sub>>
vars == <<at, joined, inbox, sent, buffer, links, out, in, restarts>>

Connected(i) == {c \in Clients : at[c] = i}

(* socket.send() of message m to every client of S.                        *)
Send(S, m) == [c \in Clients |-> IF c \in S THEN Append(inbox[c], m) ELSE inbox[c]]

Init ==
    /\ at = [c \in Clients |-> NoInstance]
    /\ joined = [c \in Clients |-> 0] /\ inbox = [c \in Clients |-> <<>>]
    /\ sent = <<>> /\ buffer = [i \in Instances |-> <<>>]
    /\ pub = [i \in Instances |-> "starting"] /\ sub = [i \in Instances |-> "starting"]
    /\ out = [i \in Instances |-> <<>>] /\ in = [i \in Instances |-> <<>>]
    /\ restarts = 0

-----------------------------------------------------------------------------
Connect(c, i) ==
    /\ at[c] = NoInstance
    /\ at' = [at EXCEPT ![c] = i] /\ joined' = [joined EXCEPT ![c] = Len(sent)]
    /\ inbox' = [inbox EXCEPT ![c] = buffer[i]]
    /\ UNCHANGED <<sent, buffer, links, out, in, restarts>>

Close(c) ==
    /\ at[c] # NoInstance
    /\ at' = [at EXCEPT ![c] = NoInstance]
    /\ joined' = [joined EXCEPT ![c] = 0] /\ inbox' = [inbox EXCEPT ![c] = <<>>]
    /\ UNCHANGED <<sent, buffer, links, out, in, restarts>>

(* persistMessage.                                                         *)
Persisted(buf, m) ==
    IF Len(buf) >= Limit THEN Tail(Append(buf, m)) ELSE Append(buf, m)

(* redisPub is not null: neither connect() has rejected.                   *)
Publishes(i) == pub[i] # "down" /\ sub[i] # "down"

(* Mutant of Publish: the sender is not excluded.                          *)
PublishToAll(c) ==
    /\ at[c] # NoInstance /\ Len(sent) < MaxMessages
    /\ LET i == at[c]  m == Len(sent) + 1 IN
          /\ sent' = Append(sent, [client |-> c, instance |-> i])
          /\ buffer' = [buffer EXCEPT ![i] = Persisted(@, m)]
          /\ inbox' = Send(Connected(i), m)
          /\ out' = IF Publishes(i) THEN [out EXCEPT ![i] = Append(@, m)] ELSE out
    /\ UNCHANGED <<at, joined, links, in, restarts>>

(* The message handler of a socket: the message is persisted and broadcast *)
Publish(c) ==
    /\ at[c] # NoInstance /\ Len(sent) < MaxMessages
    /\ LET i == at[c]  m == Len(sent) + 1 IN
          /\ sent' = Append(sent, [client |-> c, instance |-> i])
          /\ buffer' = [buffer EXCEPT ![i] = Persisted(@, m)]
          /\ inbox' = Send(Connected(i) \ {c}, m)
          /\ out' = IF Publishes(i) THEN [out EXCEPT ![i] = Append(@, m)] ELSE out
    /\ UNCHANGED <<at, joined, links, in, restarts>>

-----------------------------------------------------------------------------
(* Commands wait in the client until it is connected.                      *)
PubConnects(i) ==
    /\ pub[i] = "starting" /\ pub' = [pub EXCEPT ![i] = "up"]
    /\ UNCHANGED <<at, joined, inbox, sent, buffer, sub, out, in, restarts>>

SubConnects(i) ==
    /\ sub[i] = "starting" /\ sub' = [sub EXCEPT ![i] = "up"]
    /\ UNCHANGED <<at, joined, inbox, sent, buffer, pub, out, in, restarts>>

(* connect() rejects: redisPub and redisSub are null from then on, but the *)
(* other connection goes on with the commands it was given.                *)
PubFails(i) ==
    /\ pub[i] = "starting" /\ pub' = [pub EXCEPT ![i] = "down"]
    /\ out' = [out EXCEPT ![i] = <<>>]
    /\ UNCHANGED <<at, joined, inbox, sent, buffer, sub, in, restarts>>

SubFails(i) ==
    /\ sub[i] = "starting" /\ sub' = [sub EXCEPT ![i] = "down"]
    /\ UNCHANGED <<at, joined, inbox, sent, buffer, pub, out, in, restarts>>

(* Mutant of Relay: a publication may be overtaken, as if over a pool of   *)
(* connections.                                                            *)
RelayOvertaken(i) ==
    /\ pub[i] = "up"
    /\ \E k \in 1 .. Len(out[i]) :
          /\ out' = [out EXCEPT ![i] = SubSeq(@, 1, k - 1) \o SubSeq(@, k + 1, Len(@))]
          /\ in' = [j \in Instances |->
                IF sub[j] = "up" THEN Append(in[j], out[i][k]) ELSE in[j]]
    /\ UNCHANGED <<at, joined, inbox, sent, buffer, links, restarts>>

(* Redis handles a PUBLISH: it goes to those subscribed now, and is kept   *)
(* for nobody else.                                                        *)
Relay(i) ==
    /\ pub[i] = "up" /\ out[i] # <<>>
    /\ out' = [out EXCEPT ![i] = Tail(@)]
    /\ in' = [j \in Instances |->
          IF sub[j] = "up" THEN Append(in[j], Head(out[i])) ELSE in[j]]
    /\ UNCHANGED <<at, joined, inbox, sent, buffer, links, restarts>>

(* Mutant of Deliver: a return in the loop where there is a continue.      *)
DeliverToOne(i) ==
    /\ in[i] # <<>>
    /\ in' = [in EXCEPT ![i] = Tail(@)]
    /\ inbox' = IF Connected(i) = {} THEN inbox
                ELSE Send({CHOOSE c \in Connected(i) : TRUE}, Head(in[i]))
    /\ UNCHANGED <<at, joined, sent, buffer, links, out, restarts>>

(* The callback of redisSub.subscribe().                                   *)
Deliver(i) ==
    /\ in[i] # <<>>
    /\ in' = [in EXCEPT ![i] = Tail(@)]
    /\ inbox' = Send(Connected(i), Head(in[i]))
    /\ UNCHANGED <<at, joined, sent, buffer, links, out, restarts>>

(* The process dies, as it does when it loses Redis: the clients have no   *)
(* "error" listener.                                                       *)
Restart(i) ==
    /\ restarts < MaxRestarts /\ restarts' = restarts + 1
    /\ at' = [c \in Clients |-> IF at[c] = i THEN NoInstance ELSE at[c]]
    /\ joined' = [c \in Clients |-> IF at[c] = i THEN 0 ELSE joined[c]]
    /\ inbox' = [c \in Clients |-> IF at[c] = i THEN <<>> ELSE inbox[c]]
    /\ buffer' = [buffer EXCEPT ![i] = <<>>]
    /\ pub' = [pub EXCEPT ![i] = "starting"] /\ sub' = [sub EXCEPT ![i] = "starting"]
    /\ out' = [out EXCEPT ![i] = <<>>] /\ in' = [in EXCEPT ![i] = <<>>]
    /\ UNCHANGED sent

Next ==
    \/ \E c \in Clients :
          Close(c) \/ Publish(c) \/ \E i \in Instances : Connect(c, i)
    \/ \E i \in Instances :
          \/ PubConnects(i) \/ SubConnects(i) \/ PubFails(i) \/ SubFails(i)
          \/ Relay(i) \/ Deliver(i) \/ Restart(i)

(* Redis and the event loops go on; nobody has to publish or stay.         *)
Spec ==
    /\ Init /\ [][Next]_vars
    /\ \A i \in Instances : WF_vars(Relay(i)) /\ WF_vars(Deliver(i))
-----------------------------------------------------------------------------
TypeOK ==
    /\ at \in [Clients -> Instances \cup {NoInstance}]
    /\ joined \in [Clients -> 0 .. Len(sent)]
    /\ \A c \in Clients : \A k \in DOMAIN inbox[c] : inbox[c][k] \in DOMAIN sent
    /\ sent \in Seq([client : Clients, instance : Instances])
    /\ \A i \in Instances : Len(buffer[i]) <= Limit
    /\ pub \in [Instances -> {"starting", "up", "down"}]
    /\ sub \in [Instances -> {"starting", "up", "down"}]

Copies(c, m) == {k \in DOMAIN inbox[c] : inbox[c][k] = m}
Heard(c, m) == Copies(c, m) # {}

(* The first copy of l comes before the first copy of m.                   *)
InOrder(c, l, m) == \E k \in Copies(c, l) : \A n \in Copies(c, m) : k < n

(* Messages of one instance, its restarts included, are first heard in the *)
(* order they were published, though each comes twice on some sockets.     *)
(* Only on that instance may the newer one be heard first: by a client     *)
(* that joined in between, from the history, and by the sender of the      *)
(* older one, which hears its own message from Redis.                      *)
FirstCopiesInOrder ==
    \A c \in Clients, l, m \in DOMAIN sent :
        /\ l < m /\ sent[l].instance = sent[m].instance
        /\ Heard(c, l) /\ Heard(c, m)
        /\ at[c] = sent[l].instance => joined[c] < l /\ sent[l].client # c
        => InOrder(c, l, m)

(* The sender hears its message from Redis, though it is excluded from the *)
(* broadcast; the other clients of its instance hear it twice, and nobody  *)
(* else does.                                                              *)
CopiesAccounted ==
    \A c \in Clients, m \in DOMAIN sent :
        Cardinality(Copies(c, m)) <=
            IF at[c] = sent[m].instance /\ (sent[m].client = c => m <= joined[c])
            THEN 2 ELSE 1

(* A message that is published while redisPub of its instance and redisSub *)
(* of a client's are connected reaches that client, unless the client      *)
(* leaves or the instance loses its connection.                            *)
Speaks(m) == m \in DOMAIN sent /\ pub[sent[m].instance] = "up"
Waits(m) == \E k \in DOMAIN out[sent[m].instance] : out[sent[m].instance][k] = m

Reaches(c, j, m) ==
    (at[c] = j /\ sub[j] = "up" /\ Speaks(m) /\ Waits(m))
    ~> (Heard(c, m) \/ at[c] # j \/ ~Speaks(m))

EveryoneHears == \A c \in Clients, j \in Instances, m \in 1 .. MaxMessages : Reaches(c, j, m)
=============================================================================
