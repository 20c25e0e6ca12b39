------------------------ MODULE RealtimeChannelProofs ------------------------
(***************************************************************************)
(* Proofs about RealtimeChannel for any instances, clients, size of the    *)
(* history and number of messages and restarts.                            *)
(***************************************************************************)
EXTENDS RealtimeChannel, FiniteSetTheorems, SequenceTheorems, TLAPS

Elems(s) == {s[k] : k \in 1 .. Len(s)}
Published == 1 .. Len(sent)

Types ==
  /\ at \in [Clients -> Instances \cup {NoInstance}]
  /\ joined \in [Clients -> 0 .. Len(sent)]
  /\ inbox \in [Clients -> Seq(Nat)]
  /\ sent \in Seq([client : Clients, instance : Instances])
  /\ buffer \in [Instances -> Seq(Nat)]
  /\ pub \in [Instances -> {"starting", "up", "down"}]
  /\ sub \in [Instances -> {"starting", "up", "down"}]
  /\ out \in [Instances -> Seq(Nat)] /\ in \in [Instances -> Seq(Nat)]

\* Messages of instance i, in the order they were published.
Log(s, i) ==
  /\ \A k \in 1 .. Len(s) : s[k] \in Published /\ sent[s[k]].instance = i
  /\ \A k, l \in 1 .. Len(s) : k < l => s[k] < s[l]

History(i) == Log(buffer[i], i) /\ Len(buffer[i]) <= Limit

\* The messages of each instance are in order, and none is there twice.
Incoming(j) ==
  /\ \A k \in 1 .. Len(in[j]) : in[j][k] \in Published
  /\ \A k, l \in 1 .. Len(in[j]) :
       k < l /\ sent[in[j][k]].instance = sent[in[j][l]].instance => in[j][k] < in[j][l]

\* What Redis has sent on is older than what it has still to handle.
Behind(i, j) ==
  \A x \in Elems(in[j]), y \in Elems(out[i]) : sent[x].instance = i => x < y

\* Message m is on its way to client c through Redis.
Ahead(c, m) == m \in Elems(out[sent[m].instance]) \/ m \in Elems(in[at[c]])

\* The client gets m from its own instance, when it is published or on connecting.
Direct(c, m) == sent[m].instance = at[c] /\ (sent[m].client = c => m <= joined[c])

Counted(c) ==
  \A m \in Published :
    Cardinality(Copies(c, m)) <= (IF Direct(c, m) THEN 1 ELSE 0) + (IF Ahead(c, m) THEN 0 ELSE 1)

\* Nothing on its way is older than what was heard from the same other instance.
Past(c) ==
  \A x \in Elems(inbox[c]), y \in Published :
    Ahead(c, y) /\ sent[x].instance = sent[y].instance /\ sent[x].instance # at[c] => x < y

\* What others publish on the instance of a client is heard at once.
Present(c) ==
  \A m \in Published :
    sent[m].instance = at[c] /\ joined[c] < m /\ sent[m].client # c => Heard(c, m)

Sorted(c) ==
  \A l, m \in Published :
    /\ l < m /\ sent[l].instance = sent[m].instance
    /\ Heard(c, l) /\ Heard(c, m)
    /\ at[c] = sent[l].instance => joined[c] < l /\ sent[l].client # c
    => InOrder(c, l, m)

Client(c) ==
  \/ at[c] = NoInstance /\ inbox[c] = <<>>
  \/ /\ at[c] \in Instances /\ \A x \in Elems(inbox[c]) : x \in Published
     /\ Counted(c) /\ Past(c) /\ Present(c) /\ Sorted(c)

Queues ==
  /\ \A i \in Instances : Log(out[i], i) /\ History(i) /\ Incoming(i)
  /\ \A i, j \in Instances : Behind(i, j)

IInv == Types /\ Queues /\ \A c \in Clients : Client(c)

-----------------------------------------------------------------------------
(* Sequences of messages *)

Positions(s, m) == {k \in DOMAIN s : s[k] = m}
Before(s, l, m) == \E k \in Positions(s, l) : \A n \in Positions(s, m) : k < n

LEMMA AppendMessage ==
  ASSUME NEW s \in Seq(Nat), NEW x \in Nat
  PROVE  /\ Append(s, x) \in Seq(Nat) /\ Len(Append(s, x)) = Len(s) + 1 /\ Len(s) \in Nat
         /\ \A k \in 1 .. Len(s) : Append(s, x)[k] = s[k]
         /\ Append(s, x)[Len(s) + 1] = x
         /\ Elems(Append(s, x)) = Elems(s) \cup {x}
<1>1. /\ Append(s, x) \in Seq(Nat) /\ Len(Append(s, x)) = Len(s) + 1 /\ Len(s) \in Nat
      /\ \A k \in 1 .. Len(s) : Append(s, x)[k] = s[k]
      /\ Append(s, x)[Len(s) + 1] = x
  OBVIOUS
<1>2. \A k : k \in 1 .. Len(s) + 1 <=> k \in 1 .. Len(s) \/ k = Len(s) + 1
  BY <1>1
<1>3. Elems(Append(s, x)) = Elems(s) \cup {x}
  BY <1>1, <1>2 DEF Elems
<1>4. QED
  BY <1>1, <1>3

LEMMA TailMessages ==
  ASSUME NEW s \in Seq(Nat), s # <<>>
  PROVE  /\ Tail(s) \in Seq(Nat) /\ Len(Tail(s)) = Len(s) - 1 /\ Len(s) \in Nat \ {0}
         /\ \A k \in 1 .. Len(s) - 1 : Tail(s)[k] = s[k + 1]
         /\ Head(s) = s[1] /\ Head(s) \in Nat /\ Head(s) \in Elems(s)
         /\ Elems(Tail(s)) \subseteq Elems(s)
<1>1. /\ Tail(s) \in Seq(Nat) /\ Len(Tail(s)) = Len(s) - 1 /\ Len(s) \in Nat \ {0}
      /\ \A k \in 1 .. Len(s) - 1 : Tail(s)[k] = s[k + 1]
      /\ Head(s) = s[1] /\ Head(s) \in Nat
  OBVIOUS
<1>2. Head(s) \in Elems(s)
  BY <1>1 DEF Elems
<1>3. \A k \in 1 .. Len(Tail(s)) : k + 1 \in 1 .. Len(s)
  BY <1>1
<1>4. Elems(Tail(s)) \subseteq Elems(s)
  BY <1>1, <1>3 DEF Elems
<1>5. QED
  BY <1>1, <1>2, <1>4

LEMMA PositionsFinite ==
  ASSUME NEW s \in Seq(Nat), NEW m
  PROVE  /\ IsFiniteSet(Positions(s, m)) /\ Cardinality(Positions(s, m)) \in Nat
         /\ Positions(s, m) # {} <=> m \in Elems(s)
<1>1. Len(s) \in Nat /\ DOMAIN s = 1 .. Len(s)
  OBVIOUS
<1>2. IsFiniteSet(1 .. Len(s))
  BY <1>1, FS_Interval
<1>3. Positions(s, m) \subseteq 1 .. Len(s)
  BY <1>1 DEF Positions
<1>4. IsFiniteSet(Positions(s, m))
  BY <1>2, <1>3, FS_Subset
<1>5. QED
  BY <1>1, <1>4, FS_CardinalityType DEF Positions, Elems

\* One more message is heard: its count grows by one, the others stay.
LEMMA AppendPositions ==
  ASSUME NEW s \in Seq(Nat), NEW x \in Nat, NEW m \in Nat
  PROVE  /\ m # x => Positions(Append(s, x), m) = Positions(s, m)
         /\ m = x => Cardinality(Positions(Append(s, x), m)) = Cardinality(Positions(s, m)) + 1
<1>1. /\ DOMAIN s = 1 .. Len(s) /\ DOMAIN Append(s, x) = 1 .. Len(s) + 1
      /\ \A k \in 1 .. Len(s) : Append(s, x)[k] = s[k] /\ k # Len(s) + 1
      /\ Append(s, x)[Len(s) + 1] = x
      /\ \A k : k \in 1 .. Len(s) + 1 <=> k \in 1 .. Len(s) \/ k = Len(s) + 1
  BY AppendMessage
<1>2. CASE m # x
  BY <1>1, <1>2 DEF Positions
<1>3. CASE m = x
  <2>1. Positions(Append(s, x), m) = Positions(s, m) \cup {Len(s) + 1}
    BY <1>1, <1>3 DEF Positions
  <2>2. Len(s) + 1 \notin Positions(s, m)
    BY <1>1 DEF Positions
  <2>3. IsFiniteSet(Positions(s, m))
    BY PositionsFinite
  <2>4. QED
    BY <1>3, <2>1, <2>2, <2>3, FS_AddElement
<1>4. QED
  BY <1>2, <1>3

\* A later message comes after what was heard before.
LEMMA AppendBefore ==
  ASSUME NEW s \in Seq(Nat), NEW x \in Nat, NEW l \in Nat, NEW m \in Nat,
         l \in Elems(s), m \in Elems(s) => Before(s, l, m)
  PROVE  Before(Append(s, x), l, m)
<1>1. /\ DOMAIN s = 1 .. Len(s) /\ DOMAIN Append(s, x) = 1 .. Len(s) + 1 /\ Len(s) \in Nat
      /\ \A k \in 1 .. Len(s) : Append(s, x)[k] = s[k] /\ k < Len(s) + 1
      /\ \A k : k \in 1 .. Len(s) + 1 <=> k \in 1 .. Len(s) \/ k = Len(s) + 1
  BY AppendMessage
<1>2. PICK k \in Positions(s, l) : \A n \in Positions(s, m) : k < n
  <2>1. CASE m \in Elems(s)
    BY <2>1 DEF Before
  <2>2. CASE m \notin Elems(s)
    BY <2>2, PositionsFinite
  <2>3. QED
    BY <2>1, <2>2
<1>3. k \in Positions(Append(s, x), l) /\ k < Len(s) + 1
  BY <1>1 DEF Positions
<1>4. \A n \in Positions(Append(s, x), m) : n \in Positions(s, m) \/ n = Len(s) + 1
  BY <1>1 DEF Positions
<1>5. QED
  BY <1>2, <1>3, <1>4 DEF Before

\* The history of an instance holds a message at most once.
LEMMA LogPositions ==
  ASSUME NEW s \in Seq(Nat), NEW i, Log(s, i), NEW m \in Nat
  PROVE  /\ Cardinality(Positions(s, m)) <= 1
         /\ m \in Elems(s) => m \in Published /\ sent[m].instance = i
         /\ m \notin Elems(s) => Cardinality(Positions(s, m)) = 0
<1>1. DOMAIN s = 1 .. Len(s) /\ Len(s) \in Nat /\ \A k \in 1 .. Len(s) : s[k] \in Nat
  OBVIOUS
<1>2. CASE m \in Elems(s)
  <2>1. PICK k \in 1 .. Len(s) : s[k] = m
    BY <1>2 DEF Elems
  <2>2. \A n \in 1 .. Len(s) : s[n] = m => n = k
    BY <1>1, <2>1 DEF Log
  <2>3. Positions(s, m) = {k}
    BY <1>1, <2>1, <2>2 DEF Positions
  <2>4. Cardinality({k}) = 1
    BY FS_Singleton
  <2>5. Cardinality(Positions(s, m)) = 1
    BY <2>3, <2>4
  <2>6. QED
    BY <1>2, <2>1, <2>5 DEF Log
<1>3. CASE m \notin Elems(s)
  <2>1. Positions(s, m) = {}
    BY <1>3, PositionsFinite
  <2>2. Cardinality({}) = 0
    BY FS_EmptySet
  <2>3. Cardinality(Positions(s, m)) = 0
    BY <2>1, <2>2
  <2>4. QED
    BY <1>3, <2>3
<1>4. QED
  BY <1>2, <1>3

-----------------------------------------------------------------------------
(* What a step leaves alone *)

\* In the terms of the lemmas about sequences.
LEMMA InboxFacts ==
  ASSUME Types, NEW c \in Clients
  PROVE  /\ inbox[c] \in Seq(Nat)
         /\ \A m : /\ Copies(c, m) = Positions(inbox[c], m)
                   /\ Heard(c, m) <=> m \in Elems(inbox[c])
         /\ \A l, m : InOrder(c, l, m) <=> Before(inbox[c], l, m)
<1>1. inbox[c] \in Seq(Nat)
  BY DEF Types
<1>2. \A m : Copies(c, m) = Positions(inbox[c], m)
  BY DEF Copies, Positions
<1>3. \A m : Heard(c, m) <=> m \in Elems(inbox[c])
  BY <1>1, <1>2, PositionsFinite DEF Heard
<1>4. QED
  BY <1>1, <1>2, <1>3 DEF InOrder, Before

\* A client whose connection a step does not touch, and for which no message is
\* put on its way.
LEMMA ClientKept ==
  ASSUME Types, NEW c \in Clients, Client(c), sent' = sent, at'[c] = at[c], joined'[c] = joined[c],
         inbox'[c] = inbox[c],
         at[c] \in Instances => \A m \in Published : Ahead(c, m)' => Ahead(c, m)
  PROVE  Client(c)'
<1>1. CASE at[c] = NoInstance /\ inbox[c] = <<>>
  BY <1>1 DEF Client
<1>2. CASE at[c] \in Instances /\ ~(at[c] = NoInstance /\ inbox[c] = <<>>)
  <2>1. /\ \A x \in Elems(inbox[c]) : x \in Published
        /\ Counted(c) /\ Past(c) /\ Present(c) /\ Sorted(c)
    BY <1>2 DEF Client
  <2>2. \A m : Copies(c, m)' = Copies(c, m)
    BY DEF Copies
  <2>3. Counted(c)'
    <3>1. ASSUME NEW m \in Published
          PROVE  Cardinality(Copies(c, m)) <=
                   (IF Direct(c, m)' THEN 1 ELSE 0) + (IF Ahead(c, m)' THEN 0 ELSE 1)
      <4>1. Direct(c, m)' <=> Direct(c, m)
        BY DEF Direct
      <4>2. Ahead(c, m)' => Ahead(c, m)
        BY <1>2
      <4>3. Cardinality(Copies(c, m)) \in Nat
        BY InboxFacts, PositionsFinite
      <4>4. QED
        BY <2>1, <4>1, <4>2, <4>3 DEF Counted
    <3>2. QED
      BY <2>2, <3>1 DEF Counted, Published
  <2>4. Past(c)'
    BY <1>2, <2>1 DEF Past, Published
  <2>5. Present(c)' /\ Sorted(c)'
    BY <2>1, <2>2 DEF Present, Sorted, Heard, InOrder, Published
  <2>6. QED
    BY <1>2, <2>1, <2>3, <2>4, <2>5 DEF Client, Published
<1>3. QED
  BY <1>1, <1>2 DEF Client

-----------------------------------------------------------------------------
(* One lemma for each action *)

\* Queues and histories hold numbers, which name what was sent.
LEMMA QueueFacts ==
  ASSUME Types, NEW i \in Instances
  PROVE  /\ out[i] \in Seq(Nat) /\ in[i] \in Seq(Nat) /\ buffer[i] \in Seq(Nat)
         /\ sent \in Seq([client : Clients, instance : Instances])
         /\ Len(sent) \in Nat /\ Published \subseteq Nat
         /\ \A m \in Published : sent[m].client \in Clients /\ sent[m].instance \in Instances
<1>1. sent \in Seq([client : Clients, instance : Instances])
  BY DEF Types
<1>2. \A m \in Published : sent[m] \in [client : Clients, instance : Instances]
  BY <1>1, ElementOfSeq DEF Published
<1>3. /\ Len(sent) \in Nat /\ Published \subseteq Nat
      /\ \A m \in Published : sent[m].client \in Clients /\ sent[m].instance \in Instances
  BY <1>1, <1>2 DEF Published
<1>4. out[i] \in Seq(Nat) /\ in[i] \in Seq(Nat) /\ buffer[i] \in Seq(Nat)
  BY DEF Types
<1>5. QED
  BY <1>1, <1>3, <1>4

\* A connection gets the history of its instance, and nothing newer than it.
LEMMA ConnectKeepsIInv ==
  ASSUME IInv, NEW c \in Clients, NEW i \in Instances, Connect(c, i)
  PROVE  IInv'
<1>1. /\ at[c] = NoInstance
      /\ at' = [at EXCEPT ![c] = i] /\ joined' = [joined EXCEPT ![c] = Len(sent)]
      /\ inbox' = [inbox EXCEPT ![c] = buffer[i]]
      /\ UNCHANGED <<sent, buffer, pub, sub, out, in, restarts>>
  BY DEF Connect, links
<1>2. /\ at'[c] = i /\ joined'[c] = Len(sent) /\ inbox'[c] = buffer[i]
      /\ \A b \in Clients \ {c} : /\ at'[b] = at[b] /\ joined'[b] = joined[b]
                                  /\ inbox'[b] = inbox[b]
  BY <1>1 DEF IInv, Types
<1>3. Types'
  <2>1. Len(sent) \in 0 .. Len(sent)
    BY QueueFacts DEF IInv
  <2>2. QED
    BY <1>1, <2>1, QueueFacts DEF IInv, Types
<1>4. Queues'
  BY <1>1 DEF IInv, Queues, Log, History, Incoming, Behind, Published
<1>5. \A b \in Clients \ {c} : Client(b)'
  <2>1. ASSUME NEW b \in Clients \ {c}, NEW m
        PROVE  Ahead(b, m)' <=> Ahead(b, m)
    BY <1>1, <1>2 DEF Ahead
  <2>2. QED
    BY <1>1, <1>2, <2>1, ClientKept DEF IInv
<1>6. Client(c)'
  <2>1. buffer[i] \in Seq(Nat) /\ Log(buffer[i], i)
    BY QueueFacts DEF IInv, Queues, History
  <2>2. \A m : Copies(c, m)' = Positions(buffer[i], m)
    BY <1>2 DEF Copies, Positions
  <2>3. \A m \in Published : /\ Cardinality(Copies(c, m)') <= 1
                             /\ Cardinality(Copies(c, m)') \in Nat
                             /\ Heard(c, m)' => sent[m].instance = i
                             /\ ~Heard(c, m)' => Cardinality(Copies(c, m)') = 0
    BY <2>1, <2>2, LogPositions, PositionsFinite, QueueFacts DEF IInv, Heard
  <2>4. \A x \in Elems(inbox'[c]) : x \in Published /\ sent[x].instance = i
    BY <1>2, <2>1 DEF Log, Elems
  <2>5. \A m \in Published : m <= joined'[c] /\ joined'[c] \in Nat
    BY <1>2, QueueFacts DEF IInv, Published
  <2>6. Published' = Published
    BY <1>1 DEF Published
  <2>7. Counted(c)'
    <3>1. \A m \in Published : Heard(c, m)' => Direct(c, m)'
      BY <1>1, <1>2, <2>3, <2>5 DEF Direct
    <3>2. QED
      BY <2>3, <2>6, <3>1 DEF Counted
  <2>8. Past(c)'
    BY <1>1, <1>2, <2>4 DEF Past
  <2>9. Present(c)'
    <3>1. \A m \in Published : ~(joined'[c] < m)
      BY <2>5, QueueFacts DEF IInv
    <3>2. QED
      BY <2>6, <3>1 DEF Present
  <2>10. Sorted(c)'
    <3>1. \A m \in Published : ~(joined'[c] < m)
      BY <2>5, QueueFacts DEF IInv
    <3>2. QED
      BY <1>1, <1>2, <2>3, <2>6, <3>1 DEF Sorted
  <2>11. QED
    BY <1>2, <2>4, <2>6, <2>7, <2>8, <2>9, <2>10 DEF Client
<1>7. QED
  BY <1>3, <1>4, <1>5, <1>6 DEF IInv

LEMMA CloseKeepsIInv ==
  ASSUME IInv, NEW c \in Clients, Close(c)
  PROVE  IInv'
<1>1. /\ at' = [at EXCEPT ![c] = NoInstance] /\ joined' = [joined EXCEPT ![c] = 0]
      /\ inbox' = [inbox EXCEPT ![c] = <<>>]
      /\ UNCHANGED <<sent, buffer, pub, sub, out, in, restarts>>
  BY DEF Close, links
<1>2. /\ at'[c] = NoInstance /\ inbox'[c] = <<>>
      /\ \A b \in Clients \ {c} : /\ at'[b] = at[b] /\ joined'[b] = joined[b]
                                  /\ inbox'[b] = inbox[b]
  BY <1>1 DEF IInv, Types
<1>3. Types'
  <2>1. 0 \in 0 .. Len(sent) /\ <<>> \in Seq(Nat)
    BY DEF IInv, Types
  <2>2. QED
    BY <1>1, <2>1 DEF IInv, Types
<1>4. Queues'
  BY <1>1 DEF IInv, Queues, Log, History, Incoming, Behind, Published
<1>5. \A b \in Clients \ {c} : Client(b)'
  <2>1. ASSUME NEW b \in Clients \ {c}, NEW m
        PROVE  Ahead(b, m)' <=> Ahead(b, m)
    BY <1>1, <1>2 DEF Ahead
  <2>2. QED
    BY <1>1, <1>2, <2>1, ClientKept DEF IInv
<1>6. Client(c)'
  BY <1>2 DEF Client
<1>7. QED
  BY <1>3, <1>4, <1>5, <1>6 DEF IInv

\* A connection to Redis comes up, or fails for good and what waited for it is lost.
LEMMA LinkKeepsIInv ==
  ASSUME IInv, NEW i \in Instances, PubConnects(i) \/ SubConnects(i) \/ PubFails(i) \/ SubFails(i)
  PROVE  IInv'
<1>1. /\ UNCHANGED <<at, joined, inbox, sent, buffer, in, restarts>>
      /\ pub' \in [Instances -> {"starting", "up", "down"}]
      /\ sub' \in [Instances -> {"starting", "up", "down"}]
      /\ out' = out \/ out' = [out EXCEPT ![i] = <<>>]
  BY DEF PubConnects, SubConnects, PubFails, SubFails, IInv, Types
<1>2. \A j \in Instances : out'[j] = out[j] \/ out'[j] = <<>>
  BY <1>1 DEF IInv, Types
<1>3. Elems(<<>>) = {} /\ Len(<<>>) = 0 /\ <<>> \in Seq(Nat)
  BY DEF Elems
<1>4. Types'
  BY <1>1, <1>3 DEF IInv, Types
<1>5. Queues'
  <2>1. ASSUME NEW j \in Instances
        PROVE  Log(out[j], j)'
    <3>1. CASE out'[j] = out[j]
      BY <1>1, <3>1 DEF IInv, Queues, Log, Published
    <3>2. CASE out'[j] = <<>>
      BY <1>3, <3>2 DEF Log
    <3>3. QED
      BY <1>2, <3>1, <3>2
  <2>2. \A j \in Instances : History(j)' /\ Incoming(j)'
    BY <1>1 DEF IInv, Queues, Log, History, Incoming, Published
  <2>3. \A j, k \in Instances : Behind(j, k)'
    BY <1>1, <1>2, <1>3 DEF IInv, Queues, Behind
  <2>4. QED
    BY <2>1, <2>2, <2>3 DEF Queues
<1>6. ASSUME NEW b \in Clients
      PROVE  Client(b)'
  <2>1. \A m \in Published : Ahead(b, m)' => Ahead(b, m)
    BY <1>1, <1>2, <1>3, QueueFacts DEF IInv, Ahead
  <2>2. QED
    BY <1>1, <2>1, ClientKept DEF IInv
<1>7. QED
  BY <1>4, <1>5, <1>6 DEF IInv

\* The first of a queue leaves it: the rest is in order, and newer.
LEMMA RestOfLog ==
  ASSUME NEW s \in Seq(Nat), s # <<>>, NEW i, Log(s, i)
  PROVE  /\ Log(Tail(s), i) /\ \A y \in Elems(Tail(s)) : Head(s) < y
         /\ Head(s) \in Published /\ sent[Head(s)].instance = i
<1>1. /\ Len(Tail(s)) = Len(s) - 1 /\ Len(s) \in Nat \ {0} /\ Head(s) = s[1]
      /\ \A k \in 1 .. Len(s) - 1 : Tail(s)[k] = s[k + 1]
  BY TailMessages
<1>2. \A k \in 1 .. Len(s) - 1 : k + 1 \in 1 .. Len(s) /\ 1 < k + 1 /\ 1 \in 1 .. Len(s)
  BY <1>1
<1>3. \A k \in 1 .. Len(Tail(s)) : /\ Tail(s)[k] \in Published
                                   /\ sent[Tail(s)[k]].instance = i
                                   /\ Head(s) < Tail(s)[k]
  BY <1>1, <1>2 DEF Log
<1>4. ASSUME NEW k \in 1 .. Len(Tail(s)), NEW l \in 1 .. Len(Tail(s)), k < l
      PROVE  Tail(s)[k] < Tail(s)[l]
  <2>1. k + 1 \in 1 .. Len(s) /\ l + 1 \in 1 .. Len(s) /\ k + 1 < l + 1
    BY <1>1, <1>4
  <2>2. Tail(s)[k] = s[k + 1] /\ Tail(s)[l] = s[l + 1]
    BY <1>1
  <2>3. QED
    BY <2>1, <2>2 DEF Log
<1>5. QED
  BY <1>1, <1>3, <1>4 DEF Log, Elems

\* Redis takes the oldest message of an instance and sends it to those linked:
\* it is newer than all they were sent from that instance.
LEMMA RelayKeepsIInv ==
  ASSUME IInv, NEW i \in Instances, Relay(i)
  PROVE  IInv'
<1> DEFINE x == Head(out[i])
<1>1. /\ out[i] # <<>> /\ out' = [out EXCEPT ![i] = Tail(out[i])]
      /\ in' = [j \in Instances |-> IF sub[j] = "up" THEN Append(in[j], x) ELSE in[j]]
      /\ UNCHANGED <<at, joined, inbox, sent, buffer, pub, sub, restarts>>
  BY DEF Relay, links, IInv, Types
<1>2. /\ out[i] \in Seq(Nat) /\ Tail(out[i]) \in Seq(Nat)
      /\ x \in Nat /\ x \in Elems(out[i]) /\ Elems(Tail(out[i])) \subseteq Elems(out[i])
  BY <1>1, TailMessages, QueueFacts DEF IInv
<1>3. /\ Log(Tail(out[i]), i) /\ \A y \in Elems(Tail(out[i])) : x < y
      /\ x \in Published /\ sent[x].instance = i
  BY <1>1, <1>2, RestOfLog DEF IInv, Queues
<1> HIDE DEF x
<1>4. /\ out'[i] = Tail(out[i]) /\ \A j \in Instances \ {i} : out'[j] = out[j]
      /\ \A j \in Instances : in'[j] = in[j] \/ in'[j] = Append(in[j], x)
  BY <1>1 DEF IInv, Types
<1>5. \A j \in Instances : /\ Elems(out'[j]) \subseteq Elems(out[j])
                           /\ Elems(in'[j]) \subseteq Elems(in[j]) \cup {x}
                           /\ in[j] \in Seq(Nat) /\ in'[j] \in Seq(Nat)
  <2>1. ASSUME NEW j \in Instances
        PROVE  Elems(out'[j]) \subseteq Elems(out[j])
    BY <1>2, <1>4
  <2>2. ASSUME NEW j \in Instances
        PROVE  Elems(in'[j]) \subseteq Elems(in[j]) \cup {x} /\ in'[j] \in Seq(Nat)
    <3>1. in[j] \in Seq(Nat)
      BY QueueFacts DEF IInv
    <3>2. Append(in[j], x) \in Seq(Nat) /\ Elems(Append(in[j], x)) = Elems(in[j]) \cup {x}
      BY <1>2, <3>1, AppendMessage
    <3>3. QED
      BY <1>4, <3>1, <3>2
  <2>3. QED
    BY <2>1, <2>2, QueueFacts DEF IInv
<1>6. Types'
  <2>1. out' \in [Instances -> Seq(Nat)]
    BY <1>1, <1>2 DEF IInv, Types
  <2>2. in' \in [Instances -> Seq(Nat)]
    BY <1>1, <1>5
  <2>3. QED
    BY <1>1, <2>1, <2>2 DEF IInv, Types
<1>7. Queues'
  <2>1. ASSUME NEW j \in Instances
        PROVE  Log(out[j], j)'
    BY <1>1, <1>3, <1>4 DEF IInv, Queues, Log, Published
  <2>2. ASSUME NEW j \in Instances
        PROVE  Incoming(j)'
    <3>1. CASE in'[j] = in[j]
      <4>1. sent' = sent /\ Incoming(j)
        BY <1>1 DEF IInv, Queues
      <4>2. QED
        BY <3>1, <4>1 DEF Incoming, Published
    <3>2. CASE in'[j] = Append(in[j], x)
      <4>1. /\ Len(in'[j]) = Len(in[j]) + 1 /\ Len(in[j]) \in Nat
            /\ \A k \in 1 .. Len(in[j]) : in'[j][k] = in[j][k] /\ in[j][k] \in Elems(in[j])
            /\ in'[j][Len(in[j]) + 1] = x
        BY <1>2, <1>5, <3>2, AppendMessage DEF Elems
      <4>2. \A k \in 1 .. Len(in[j]) : in[j][k] \in Published
        BY DEF IInv, Queues, Incoming
      <4>3. \A k \in 1 .. Len(in[j]) : sent[in[j][k]].instance = i => in[j][k] < x
        BY <1>2, <4>1 DEF IInv, Queues, Behind
      <4>4. \A k \in 1 .. Len(in'[j]) : k \in 1 .. Len(in[j]) \/ k = Len(in[j]) + 1
        BY <4>1
      <4>5. \A k \in 1 .. Len(in'[j]) : in'[j][k] \in Published
        BY <1>3, <4>1, <4>2, <4>4
      <4>6. ASSUME NEW k \in 1 .. Len(in'[j]), NEW l \in 1 .. Len(in'[j]), k < l,
                   sent[in'[j][k]].instance = sent[in'[j][l]].instance
            PROVE  in'[j][k] < in'[j][l]
        <5>1. k \in 1 .. Len(in[j])
          BY <4>1, <4>6
        <5>2. CASE l \in 1 .. Len(in[j])
          BY <4>1, <4>6, <5>1, <5>2 DEF IInv, Queues, Incoming
        <5>3. CASE l = Len(in[j]) + 1
          BY <1>3, <4>1, <4>3, <4>6, <5>1, <5>3
        <5>4. QED
          BY <4>4, <5>2, <5>3
      <4>7. QED
        BY <1>1, <4>5, <4>6 DEF Incoming, Published
    <3>3. QED
      BY <1>4, <3>1, <3>2
  <2>3. ASSUME NEW k \in Instances, NEW j \in Instances
        PROVE  Behind(k, j)'
    <3>1. ASSUME NEW y \in Elems(in'[j]), NEW z \in Elems(out'[k]), sent[y].instance = k
          PROVE  y < z
      <4>1. z \in Elems(out[k])
        BY <1>5
      <4>2. CASE y \in Elems(in[j])
        BY <3>1, <4>1, <4>2 DEF IInv, Queues, Behind
      <4>3. CASE y = x
        BY <1>3, <1>4, <3>1, <4>3
      <4>4. QED
        BY <1>5, <4>2, <4>3
    <3>2. QED
      BY <1>1, <3>1 DEF Behind
  <2>4. \A j \in Instances : History(j)'
    BY <1>1 DEF IInv, Queues, History, Log, Published
  <2>5. QED
    BY <2>1, <2>2, <2>3, <2>4 DEF Queues
<1>8. ASSUME NEW b \in Clients
      PROVE  Client(b)'
  <2>1. ASSUME at[b] \in Instances, NEW m \in Published, Ahead(b, m)'
        PROVE  Ahead(b, m)
    <3>1. m \in Elems(out'[sent[m].instance]) \/ m \in Elems(in'[at[b]])
      BY <1>1, <2>1 DEF Ahead
    <3>2. x \in Elems(out[sent[x].instance])
      BY <1>2, <1>3
    <3>3. QED
      BY <1>5, <2>1, <3>1, <3>2, QueueFacts DEF IInv, Ahead
  <2>2. QED
    BY <1>1, <2>1, ClientKept DEF IInv
<1>9. QED
  BY <1>6, <1>7, <1>8 DEF IInv

\* An instance dies, and with it its queues, its history and its connections.
LEMMA RestartKeepsIInv ==
  ASSUME IInv, NEW i \in Instances, Restart(i)
  PROVE  IInv'
<1>1. /\ at' = [c \in Clients |-> IF at[c] = i THEN NoInstance ELSE at[c]]
      /\ joined' = [c \in Clients |-> IF at[c] = i THEN 0 ELSE joined[c]]
      /\ inbox' = [c \in Clients |-> IF at[c] = i THEN <<>> ELSE inbox[c]]
      /\ buffer' = [buffer EXCEPT ![i] = <<>>] /\ pub' = [pub EXCEPT ![i] = "starting"]
      /\ sub' = [sub EXCEPT ![i] = "starting"]
      /\ out' = [out EXCEPT ![i] = <<>>] /\ in' = [in EXCEPT ![i] = <<>>]
      /\ sent' = sent
  BY DEF Restart, links
<1>2. /\ out'[i] = <<>> /\ in'[i] = <<>> /\ buffer'[i] = <<>>
      /\ \A j \in Instances \ {i} : out'[j] = out[j] /\ in'[j] = in[j] /\ buffer'[j] = buffer[j]
  BY <1>1 DEF IInv, Types
<1>3. Elems(<<>>) = {} /\ Len(<<>>) = 0 /\ <<>> \in Seq(Nat)
  BY DEF Elems
<1>4. Types'
  <2>1. at' \in [Clients -> Instances \cup {NoInstance}]
    BY <1>1 DEF IInv, Types
  <2>2. joined' \in [Clients -> 0 .. Len(sent)]
    BY <1>1, QueueFacts DEF IInv, Types
  <2>3. inbox' \in [Clients -> Seq(Nat)]
    BY <1>1, <1>3 DEF IInv, Types
  <2>4. QED
    BY <1>1, <1>3, <2>1, <2>2, <2>3 DEF IInv, Types
<1>5. Queues'
  <2>1. ASSUME NEW j \in Instances
        PROVE  Log(out[j], j)' /\ History(j)' /\ Incoming(j)'
    <3>1. CASE j = i
      BY <1>2, <1>3, <3>1, ChannelAssumption DEF Log, History, Incoming
    <3>2. CASE j # i
      BY <1>1, <1>2, <3>2 DEF IInv, Queues, Log, History, Incoming, Published
    <3>3. QED
      BY <3>1, <3>2
  <2>2. ASSUME NEW k \in Instances, NEW j \in Instances
        PROVE  Behind(k, j)'
    BY <1>1, <1>2, <1>3 DEF IInv, Queues, Behind
  <2>3. QED
    BY <2>1, <2>2 DEF Queues
<1>6. ASSUME NEW b \in Clients
      PROVE  Client(b)'
  <2>1. CASE at[b] = i
    BY <1>1, <2>1 DEF Client
  <2>2. CASE at[b] # i
    <3>1. at'[b] = at[b] /\ joined'[b] = joined[b] /\ inbox'[b] = inbox[b]
      BY <1>1, <2>2
    <3>2. \A j \in Instances : /\ Elems(out'[j]) \subseteq Elems(out[j])
                               /\ Elems(in'[j]) \subseteq Elems(in[j])
      BY <1>2, <1>3
    <3>3. at[b] \in Instances => \A m \in Published : Ahead(b, m)' => Ahead(b, m)
      BY <1>1, <3>1, <3>2, QueueFacts DEF IInv, Ahead
    <3>4. QED
      BY <1>1, <3>1, <3>3, ClientKept DEF IInv
  <2>3. QED
    BY <2>1, <2>2
<1>7. QED
  BY <1>4, <1>5, <1>6 DEF IInv

\* The callback of an instance sends the oldest message from Redis to all its
\* clients: the sender's own instance has sent it before to the others there.
LEMMA DeliverKeepsIInv ==
  ASSUME IInv, NEW i \in Instances, Deliver(i)
  PROVE  IInv'
<1>0. PICK x : x = Head(in[i])
  OBVIOUS
<1>1. /\ in[i] # <<>> /\ in' = [in EXCEPT ![i] = Tail(in[i])]
      /\ inbox' = [c \in Clients |-> IF at[c] = i THEN Append(inbox[c], x) ELSE inbox[c]]
      /\ UNCHANGED <<at, joined, sent, buffer, pub, sub, out, restarts>>
  BY <1>0 DEF Deliver, links, Send, Connected, IInv, Types
<1>2. /\ in[i] \in Seq(Nat) /\ Tail(in[i]) \in Seq(Nat)
      /\ x \in Nat /\ x \in Elems(in[i]) /\ Elems(Tail(in[i])) \subseteq Elems(in[i])
      /\ Len(Tail(in[i])) = Len(in[i]) - 1 /\ Len(in[i]) \in Nat \ {0} /\ x = in[i][1]
      /\ \A k \in 1 .. Len(in[i]) - 1 : Tail(in[i])[k] = in[i][k + 1]
  BY <1>0, <1>1, TailMessages, QueueFacts DEF IInv
<1>3. /\ in'[i] = Tail(in[i]) /\ \A j \in Instances \ {i} : in'[j] = in[j]
  BY <1>1 DEF IInv, Types
<1>4. \A k \in 1 .. Len(in[i]) - 1 : k + 1 \in 1 .. Len(in[i]) /\ 1 \in 1 .. Len(in[i]) /\ 1 < k + 1
  BY <1>2
<1>5. /\ x \in Published
      /\ \A y \in Elems(in'[i]) : sent[y].instance = sent[x].instance => x < y
  <2>1. x \in Published
    BY <1>2 DEF IInv, Queues, Incoming
  <2>2. ASSUME NEW k \in 1 .. Len(Tail(in[i])), sent[Tail(in[i])[k]].instance = sent[x].instance
        PROVE  x < Tail(in[i])[k]
    BY <1>2, <1>4, <2>2 DEF IInv, Queues, Incoming
  <2>3. QED
    BY <1>3, <2>1, <2>2 DEF Elems
<1>6. \A j \in Instances : Elems(in'[j]) \subseteq Elems(in[j])
  BY <1>2, <1>3
<1>7. \A c \in Clients : inbox[c] \in Seq(Nat) /\ Append(inbox[c], x) \in Seq(Nat)
  BY <1>2, InboxFacts DEF IInv
<1>8. Types'
  <2>1. in' \in [Instances -> Seq(Nat)]
    BY <1>1, <1>2 DEF IInv, Types
  <2>2. inbox' \in [Clients -> Seq(Nat)]
    BY <1>1, <1>7
  <2>3. QED
    BY <1>1, <2>1, <2>2 DEF IInv, Types
<1>9. Queues'
  <2>1. \A j \in Instances : Log(out[j], j)' /\ History(j)'
    BY <1>1 DEF IInv, Queues, History, Log, Published
  <2>2. ASSUME NEW j \in Instances
        PROVE  Incoming(j)'
    <3>1. CASE j # i
      <4>1. sent' = sent /\ in'[j] = in[j] /\ Incoming(j)
        BY <1>1, <1>3, <3>1 DEF IInv, Queues
      <4>2. QED
        BY <4>1 DEF Incoming, Published
    <3>2. CASE j = i
      <4>1. \A k \in 1 .. Len(in'[i]) : in'[i][k] \in Published
        BY <1>2, <1>3, <1>4 DEF IInv, Queues, Incoming
      <4>2. ASSUME NEW k \in 1 .. Len(in'[i]), NEW l \in 1 .. Len(in'[i]), k < l,
                   sent[in'[i][k]].instance = sent[in'[i][l]].instance
            PROVE  in'[i][k] < in'[i][l]
        <5>1. k + 1 \in 1 .. Len(in[i]) /\ l + 1 \in 1 .. Len(in[i]) /\ k + 1 < l + 1
          <6>1. k \in 1 .. Len(in[i]) - 1 /\ l \in 1 .. Len(in[i]) - 1 /\ k < l
            BY <1>2, <1>3, <4>2
          <6>2. QED
            BY <1>2, <6>1
        <5>2. in'[i][k] = in[i][k + 1] /\ in'[i][l] = in[i][l + 1]
          BY <1>2, <1>3
        <5>3. QED
          BY <4>2, <5>1, <5>2 DEF IInv, Queues, Incoming
      <4>3. sent' = sent
        BY <1>1
      <4>4. Incoming(i)'
        BY <4>1, <4>2, <4>3 DEF Incoming, Published
      <4>5. QED
        BY <3>2, <4>4
    <3>3. QED
      BY <3>1, <3>2
  <2>3. \A k, j \in Instances : Behind(k, j)'
    BY <1>1, <1>6 DEF IInv, Queues, Behind
  <2>4. QED
    BY <2>1, <2>2, <2>3 DEF Queues
<1>10. ASSUME NEW b \in Clients
       PROVE  Client(b)'
  <2>1. at[b] \in Instances => \A m \in Published : Ahead(b, m)' => Ahead(b, m)
    BY <1>1, <1>6 DEF Ahead
  <2>2. CASE at[b] # i
    <3>1. inbox'[b] = inbox[b]
      BY <1>1, <2>2
    <3>2. QED
      BY <1>1, <2>1, <3>1, ClientKept DEF IInv
  <2>3. CASE at[b] = i
    <3>1. /\ inbox'[b] = Append(inbox[b], x) /\ inbox[b] \in Seq(Nat)
          /\ at'[b] = at[b] /\ at[b] = i /\ joined'[b] = joined[b] /\ sent' = sent
          /\ Published' = Published /\ i # NoInstance /\ Published \subseteq Nat
      BY <1>1, <1>7, <2>3, QueueFacts, ChannelAssumption DEF IInv, Published
    <3>2. /\ \A y \in Elems(inbox[b]) : y \in Published
          /\ Counted(b) /\ Past(b) /\ Present(b) /\ Sorted(b)
      BY <3>1 DEF IInv, Client
    <3>3. Elems(inbox'[b]) = Elems(inbox[b]) \cup {x}
      BY <1>2, <3>1, AppendMessage
    <3>4. \A m : /\ Copies(b, m) = Positions(inbox[b], m)
                 /\ Copies(b, m)' = Positions(inbox'[b], m)
                 /\ Heard(b, m) <=> m \in Elems(inbox[b])
                 /\ Heard(b, m)' <=> Heard(b, m) \/ m = x
                 /\ \A l : /\ InOrder(b, l, m) <=> Before(inbox[b], l, m)
                           /\ InOrder(b, l, m)' <=> Before(inbox'[b], l, m)
      <4>1. \A m : Heard(b, m)' <=> m \in Elems(inbox'[b])
        <5>1. inbox'[b] \in Seq(Nat)
          BY <1>7, <3>1
        <5>2. \A m : Heard(b, m)' <=> Positions(inbox'[b], m) # {}
          BY DEF Heard, Copies, Positions
        <5>3. QED
          BY <5>1, <5>2, PositionsFinite
      <4>2. QED
        BY <3>3, <4>1, InboxFacts DEF IInv, Copies, Positions, InOrder, Before
    <3>5. Ahead(b, x) /\ ~Ahead(b, x)'
      <4>1. x \notin Elems(in'[i])
        BY <1>2, <1>5
      <4>2. \A y \in Elems(out[sent[x].instance]) : x < y
        BY <1>2, <1>5, QueueFacts DEF IInv, Queues, Behind
      <4>3. x \notin Elems(out[sent[x].instance])
        BY <1>2, <4>2
      <4>4. out' = out
        BY <1>1
      <4>5. ~Ahead(b, x)'
        BY <3>1, <4>1, <4>3, <4>4 DEF Ahead
      <4>6. QED
        BY <1>2, <3>1, <4>5 DEF Ahead
    <3>6. Counted(b)'
      <4>1. ASSUME NEW m \in Published
            PROVE  Cardinality(Copies(b, m)') <=
                     (IF Direct(b, m)' THEN 1 ELSE 0) + (IF Ahead(b, m)' THEN 0 ELSE 1)
        <5>1. Direct(b, m)' <=> Direct(b, m)
          BY <3>1 DEF Direct
        <5>2. Cardinality(Copies(b, m)) \in Nat
          BY <3>1, <3>4, PositionsFinite
        <5>3. Cardinality(Copies(b, m)) <=
                (IF Direct(b, m) THEN 1 ELSE 0) + (IF Ahead(b, m) THEN 0 ELSE 1)
          BY <3>2 DEF Counted
        <5>4. CASE m # x
          <6>1. Copies(b, m)' = Copies(b, m)
            BY <1>2, <3>1, <3>4, <5>4, AppendPositions
          <6>2. Ahead(b, m)' => Ahead(b, m)
            BY <2>1, <3>1
          <6>3. QED
            BY <5>1, <5>2, <5>3, <6>1, <6>2
        <5>5. CASE m = x
          <6>1. Cardinality(Copies(b, m)') = Cardinality(Copies(b, m)) + 1
            BY <1>2, <3>1, <3>4, <5>5, AppendPositions
          <6>2. Ahead(b, m) /\ ~Ahead(b, m)'
            BY <3>5, <5>5
          <6>3. QED
            BY <5>1, <5>2, <5>3, <6>1, <6>2
        <5>6. QED
          BY <5>4, <5>5
      <4>2. QED
        BY <3>1, <4>1 DEF Counted
    <3>7. Past(b)'
      <4>1. ASSUME NEW z \in Elems(inbox'[b]), NEW y \in Published, Ahead(b, y)',
                   sent[z].instance = sent[y].instance, sent[z].instance # i
            PROVE  z < y
        <5>1. Ahead(b, y)
          BY <2>1, <3>1, <4>1
        <5>2. CASE z \in Elems(inbox[b])
          BY <3>1, <3>2, <4>1, <5>1, <5>2 DEF Past
        <5>3. CASE z = x
          <6>1. y \in Elems(out[sent[y].instance]) \/ y \in Elems(in'[i])
            BY <1>1, <3>1, <4>1 DEF Ahead
          <6>2. QED
            BY <1>2, <1>5, <4>1, <5>3, <6>1, QueueFacts DEF IInv, Queues, Behind
        <5>4. QED
          BY <3>3, <5>2, <5>3
      <4>2. QED
        BY <3>1, <4>1 DEF Past
    <3>8. Present(b)'
      BY <3>1, <3>2, <3>4 DEF Present
    <3>9. Sorted(b)'
      <4>1. ASSUME NEW l \in Published, NEW m \in Published, l < m,
                   sent[l].instance = sent[m].instance, Heard(b, l)', Heard(b, m)',
                   at[b] = sent[l].instance => joined[b] < l /\ sent[l].client # b
            PROVE  InOrder(b, l, m)'
        <5>1. l \in Nat /\ m \in Nat /\ l # m
          BY <3>1, <4>1
        <5>2. Heard(b, l)
          <6>1. CASE at[b] = sent[l].instance
            BY <3>2, <4>1, <6>1 DEF Present
          <6>2. CASE at[b] # sent[l].instance
            <7>1. ASSUME ~Heard(b, l)
                  PROVE  FALSE
              <8>1. l = x /\ Heard(b, m)
                BY <3>4, <4>1, <5>1, <7>1
              <8>2. m < l
                BY <3>2, <3>4, <3>5, <4>1, <6>2, <8>1 DEF Past
              <8>3. QED
                BY <4>1, <5>1, <8>2
            <7>2. QED
              BY <7>1
          <6>3. QED
            BY <6>1, <6>2
        <5>3. Heard(b, m) => InOrder(b, l, m)
          BY <3>2, <4>1, <5>2 DEF Sorted
        <5>4. Before(Append(inbox[b], x), l, m)
          BY <1>2, <3>1, <3>4, <5>1, <5>2, <5>3, AppendBefore
        <5>5. QED
          BY <3>1, <3>4, <5>4
      <4>2. QED
        BY <3>1, <4>1 DEF Sorted
    <3>10. \A y \in Elems(inbox'[b]) : y \in Published
      BY <1>5, <3>2, <3>3
    <3>11. QED
      BY <3>1, <3>6, <3>7, <3>8, <3>9, <3>10 DEF Client
  <2>4. QED
    BY <2>2, <2>3
<1>11. QED
  BY <1>8, <1>9, <1>10 DEF IInv

\* A message is new to every queue and inbox; the clients of its instance but
\* the sender hear it at once.
LEMMA PublishKeepsIInv ==
  ASSUME IInv, NEW c \in Clients, Publish(c)
  PROVE  IInv'
<1>1. PICK i : i = at[c]
  OBVIOUS
<1>2. PICK x : x = Len(sent) + 1
  OBVIOUS
<1>3. PICK msg : msg = [client |-> c, instance |-> i]
  OBVIOUS
<1>4. /\ i # NoInstance /\ sent' = Append(sent, msg)
      /\ buffer' = [buffer EXCEPT ![i] = Persisted(buffer[i], x)]
      /\ inbox' = [b \in Clients |->
             IF at[b] = i /\ b # c THEN Append(inbox[b], x) ELSE inbox[b]]
      /\ out' = out \/ out' = [out EXCEPT ![i] = Append(out[i], x)]
      /\ UNCHANGED <<at, joined, pub, sub, in, restarts>>
  <2>1. at[c] \in Instances \cup {NoInstance}
    BY DEF IInv, Types
  <2>2. QED
    BY <1>1, <1>2, <1>3, <2>1 DEF Publish, links, Send, Connected, IInv, Types
<1>5. /\ i \in Instances /\ x \in Nat /\ x \notin Published
      /\ \A m \in Published : m \in Nat /\ m < x
  BY <1>1, <1>2, <1>4, QueueFacts DEF IInv, Types, Published
<1>6. /\ Len(sent') = x /\ sent'[x].client = c /\ sent'[x].instance = i /\ x \in Published' /\ Published \subseteq Published'
      /\ \A m \in Published : sent'[m] = sent[m]
      /\ \A m \in Published' : m \in Published \/ m = x
      /\ sent' \in Seq([client : Clients, instance : Instances])
  <2>1. sent \in Seq([client : Clients, instance : Instances])
    BY DEF IInv, Types
  <2>2. /\ Len(sent') = x /\ sent'[x] = msg /\ \A m \in 1 .. Len(sent) : sent'[m] = sent[m]
        /\ sent' \in Seq([client : Clients, instance : Instances]) /\ Len(sent) \in Nat
    <3>1. msg \in [client : Clients, instance : Instances]
      BY <1>3, <1>5
    <3>2. QED
      BY <1>2, <1>4, <2>1, <3>1
  <2>3. \A m \in 1 .. x : m \in 1 .. Len(sent) \/ m = x
    BY <1>2, <2>2
  <2>4. msg.client = c /\ msg.instance = i
    BY <1>3
  <2>5. QED
    BY <1>2, <1>5, <2>2, <2>3, <2>4 DEF Published
\* A queue or history of this instance with the new message at its end.
<1>7. ASSUME NEW s \in Seq(Nat), Log(s, i)
      PROVE  Log(Append(s, x), i)'
  <2>1. /\ Len(Append(s, x)) = Len(s) + 1 /\ Len(s) \in Nat
        /\ \A k \in 1 .. Len(s) : Append(s, x)[k] = s[k]
        /\ Append(s, x)[Len(s) + 1] = x
        /\ \A k \in 1 .. Len(s) + 1 : k \in 1 .. Len(s) \/ k = Len(s) + 1
    BY <1>5, AppendMessage
  <2>2. \A k \in 1 .. Len(s) : s[k] \in Published /\ sent[s[k]].instance = i /\ s[k] < x
    BY <1>5, <1>7 DEF Log
  <2>3. \A k \in 1 .. Len(s) + 1 : /\ Append(s, x)[k] \in Published'
                                   /\ sent'[Append(s, x)[k]].instance = i
    BY <1>5, <1>6, <2>1, <2>2
  <2>4. ASSUME NEW k \in 1 .. Len(s) + 1, NEW l \in 1 .. Len(s) + 1, k < l
        PROVE  Append(s, x)[k] < Append(s, x)[l]
    <3>1. k \in 1 .. Len(s)
      BY <2>1, <2>4
    <3>2. QED
      BY <1>7, <2>1, <2>2, <2>4, <3>1 DEF Log
  <2>5. QED
    BY <2>1, <2>3, <2>4 DEF Log
<1>8. ASSUME NEW s \in Seq(Nat), NEW j, Log(s, j)
      PROVE  Log(s, j)'
  BY <1>6, <1>8 DEF Log
<1>9. \A j \in Instances : /\ out[j] \in Seq(Nat) /\ buffer[j] \in Seq(Nat)
                           /\ in[j] \in Seq(Nat) /\ Log(out[j], j) /\ History(j)
  BY QueueFacts DEF IInv, Queues
<1>10. PICK buf : buf = Append(buffer[i], x)
  OBVIOUS
<1>11. /\ buf \in Seq(Nat) /\ buf # <<>> /\ Log(buf, i)' /\ Len(buf) = Len(buffer[i]) + 1
       /\ Len(buffer[i]) \in Nat /\ Len(buffer[i]) <= Limit /\ Limit \in Nat
  <2>1. /\ buffer[i] \in Seq(Nat) /\ Log(buffer[i], i) /\ Len(buffer[i]) <= Limit
    BY <1>5, <1>9 DEF History
  <2>2. /\ buf \in Seq(Nat) /\ Len(buf) = Len(buffer[i]) + 1 /\ Len(buffer[i]) \in Nat
    BY <1>5, <1>10, <2>1, AppendMessage
  <2>3. Log(buf, i)'
    BY <1>7, <1>10, <2>1
  <2>4. buf # <<>>
    <3>1. Len(buf) # 0
      BY <2>2
    <3>2. QED
      BY <3>1
  <2>5. QED
    BY <2>1, <2>2, <2>3, <2>4, ChannelAssumption
<1>12. /\ Log(Tail(buf), i)' /\ Tail(buf) \in Seq(Nat) /\ Len(Tail(buf)) = Len(buf) - 1
  <2>1. /\ Len(Tail(buf)) = Len(buf) - 1 /\ Len(buf) \in Nat \ {0} /\ Tail(buf) \in Seq(Nat)
        /\ \A k \in 1 .. Len(buf) - 1 : Tail(buf)[k] = buf[k + 1]
    BY <1>11, TailMessages
  <2>2. \A k \in 1 .. Len(buf) - 1 : k + 1 \in 1 .. Len(buf)
    BY <2>1
  <2>3. \A k \in 1 .. Len(buf) : buf[k] \in Published' /\ sent'[buf[k]].instance = i
    BY <1>11 DEF Log
  <2>4. \A k, l \in 1 .. Len(buf) : k < l => buf[k] < buf[l]
    BY <1>11 DEF Log
  <2>5. ASSUME NEW k \in 1 .. Len(Tail(buf)), NEW l \in 1 .. Len(Tail(buf)), k < l
        PROVE  Tail(buf)[k] < Tail(buf)[l]
    <3>1. k + 1 \in 1 .. Len(buf) /\ l + 1 \in 1 .. Len(buf) /\ k + 1 < l + 1
      BY <2>1, <2>5
    <3>2. QED
      BY <2>1, <2>4, <3>1
  <2>6. \A k \in 1 .. Len(Tail(buf)) : /\ Tail(buf)[k] \in Published'
                                       /\ sent'[Tail(buf)[k]].instance = i
    BY <2>1, <2>2, <2>3
  <2>7. QED
    BY <2>1, <2>5, <2>6 DEF Log
<1>13. ASSUME NEW j \in Instances
       PROVE  buffer'[j] \in Seq(Nat) /\ Log(buffer[j], j)' /\ Len(buffer'[j]) <= Limit
  <2>1. CASE j = i
    <3>1. buffer'[i] = Persisted(buffer[i], x)
      BY <1>4, <1>5 DEF IInv, Types
    <3>2. QED
      <4>1. buffer'[i] = buf \/ buffer'[i] = Tail(buf)
        BY <1>10, <3>1 DEF Persisted
      <4>2. Len(buffer'[i]) <= Limit
        <5>1. CASE Len(buffer[i]) >= Limit
          BY <1>10, <1>11, <1>12, <3>1, <5>1 DEF Persisted
        <5>2. CASE ~(Len(buffer[i]) >= Limit)
          BY <1>10, <1>11, <3>1, <5>2 DEF Persisted
        <5>3. QED
          BY <5>1, <5>2
      <4>3. buffer'[i] \in Seq(Nat) /\ Log(buffer[i], i)'
        BY <1>11, <1>12, <4>1 DEF Log
      <4>4. QED
        BY <2>1, <4>2, <4>3
  <2>2. CASE j # i
    <3>1. buffer'[j] = buffer[j]
      BY <1>4, <2>2 DEF IInv, Types
    <3>2. QED
      <4>1. Log(buffer[j], j) /\ Len(buffer[j]) <= Limit
        BY <1>9 DEF History
      <4>2. Log(buffer[j], j)'
        BY <1>6, <3>1, <4>1 DEF Log
      <4>3. QED
        BY <1>9, <3>1, <4>1, <4>2
  <2>3. QED
    BY <2>1, <2>2
<1>14. ASSUME NEW j \in Instances
       PROVE  /\ out'[j] \in Seq(Nat) /\ Log(out[j], j)'
              /\ Elems(out'[j]) \subseteq Elems(out[j]) \cup {x}
  <2>1. out'[j] = out[j] \/ (j = i /\ out'[j] = Append(out[j], x))
    <3>1. /\ out \in [Instances -> Seq(Nat)]
          /\ out' = out \/ out' = [out EXCEPT ![i] = Append(out[i], x)]
      BY <1>4 DEF IInv, Types
    <3>2. CASE out' = [out EXCEPT ![i] = Append(out[i], x)]
      BY <3>1, <3>2
    <3>3. QED
      BY <3>1, <3>2
  <2>2. CASE out'[j] = out[j]
    <3>1. Log(out[j], j)'
      BY <1>6, <1>9, <2>2 DEF Log
    <3>2. QED
      BY <1>9, <2>2, <3>1
  <2>3. CASE j = i /\ out'[j] = Append(out[j], x)
    <3>1. PICK s \in Seq(Nat) : s = out[i]
      BY <1>5, <1>9
    <3>2. Log(s, i)
      BY <1>5, <1>9, <3>1
    <3>3. Log(Append(s, x), i)'
      BY <1>7, <3>2
    <3>4. out'[i] = Append(s, x)
      BY <2>3, <3>1
    <3>5. Log(out[i], i)'
      BY <3>3, <3>4 DEF Log
    <3>6. Append(s, x) \in Seq(Nat) /\ Elems(Append(s, x)) = Elems(s) \cup {x}
      BY <1>5, AppendMessage
    <3>7. QED
      BY <2>3, <3>1, <3>4, <3>5, <3>6
  <2>4. QED
    BY <2>1, <2>2, <2>3
<1>15. \A b \in Clients : /\ inbox[b] \in Seq(Nat)
                          /\ inbox'[b] = IF at[b] = i /\ b # c THEN Append(inbox[b], x)
                                         ELSE inbox[b]
                          /\ at'[b] = at[b] /\ joined'[b] = joined[b]
  BY <1>4, InboxFacts DEF IInv
<1>16. Types'
  <2>1. inbox' \in [Clients -> Seq(Nat)]
    BY <1>4, <1>5, <1>15, AppendMessage
  <2>2. out' \in [Instances -> Seq(Nat)]
    BY <1>4, <1>14 DEF IInv, Types
  <2>3. buffer' \in [Instances -> Seq(Nat)]
    BY <1>4, <1>13 DEF IInv, Types
  <2>4. joined' \in [Clients -> 0 .. Len(sent')]
    <3>1. \A n \in 0 .. Len(sent) : n \in 0 .. Len(sent')
      BY <1>2, <1>6, QueueFacts DEF IInv
    <3>2. QED
      BY <1>4, <3>1 DEF IInv, Types
  <2>5. QED
    BY <1>4, <1>6, <2>1, <2>2, <2>3, <2>4 DEF IInv, Types
<1>17. Queues'
  <2>1. ASSUME NEW j \in Instances
        PROVE  Log(out[j], j)' /\ History(j)'
    BY <1>13, <1>14 DEF Log, History
  <2>2. ASSUME NEW j \in Instances
        PROVE  Incoming(j)'
    <3>1. in'[j] = in[j] /\ Incoming(j)
      BY <1>4 DEF IInv, Queues
    <3>2. QED
      BY <1>6, <3>1 DEF Incoming
  <2>3. ASSUME NEW k \in Instances, NEW j \in Instances
        PROVE  Behind(k, j)'
    <3>1. \A y \in Elems(in[j]) : y \in Published
      BY DEF IInv, Queues, Incoming, Elems
    <3>2. ASSUME NEW y \in Elems(in[j]), NEW z \in Elems(out'[k]), sent[y].instance = k
          PROVE  y < z
      BY <1>5, <1>14, <3>1, <3>2 DEF IInv, Queues, Behind
    <3>3. in'[j] = in[j]
      BY <1>4
    <3>4. QED
      BY <1>6, <3>1, <3>2, <3>3 DEF Behind
  <2>4. QED
    BY <2>1, <2>2, <2>3 DEF Queues
<1>18. ASSUME NEW b \in Clients
       PROVE  Client(b)'
  <2>1. CASE at[b] = NoInstance /\ inbox[b] = <<>>
    BY <1>4, <1>15, <2>1 DEF Client
  <2>2. CASE ~(at[b] = NoInstance /\ inbox[b] = <<>>)
    <3>1. /\ at[b] \in Instances /\ \A y \in Elems(inbox[b]) : y \in Published
          /\ Counted(b) /\ Past(b) /\ Present(b) /\ Sorted(b)
      BY <2>2 DEF IInv, Client
    <3>2. PICK Hear : b \in Hear <=> at[b] = i /\ b # c
      <4>1. b \in {a \in Clients : at[a] = i /\ a # c} <=> at[b] = i /\ b # c
        OBVIOUS
      <4>2. QED
        BY <4>1
    <3>3. /\ inbox[b] \in Seq(Nat) /\ at'[b] = at[b] /\ joined'[b] = joined[b]
          /\ b \in Hear => inbox'[b] = Append(inbox[b], x)
          /\ b \notin Hear => inbox'[b] = inbox[b]
      BY <1>15, <3>2
    <3>4. /\ b \in Hear => Elems(inbox'[b]) = Elems(inbox[b]) \cup {x}
          /\ b \notin Hear => Elems(inbox'[b]) = Elems(inbox[b])
          /\ inbox'[b] \in Seq(Nat) /\ x \notin Elems(inbox[b])
      <4>1. /\ Append(inbox[b], x) \in Seq(Nat)
            /\ Elems(Append(inbox[b], x)) = Elems(inbox[b]) \cup {x}
        BY <1>5, <3>3, AppendMessage
      <4>2. x \notin Elems(inbox[b])
        BY <1>5, <3>1
      <4>3. CASE b \in Hear
        BY <3>3, <4>1, <4>2, <4>3
      <4>4. CASE b \notin Hear
        BY <3>3, <4>2, <4>4
      <4>5. QED
        BY <4>3, <4>4
    <3>5. \A m : Copies(b, m) = Positions(inbox[b], m) /\ Copies(b, m)' = Positions(inbox'[b], m)
      BY InboxFacts DEF Copies, Positions
    <3>5a. \A m : Heard(b, m) <=> m \in Elems(inbox[b])
      BY InboxFacts DEF IInv
    <3>5b. \A m : Heard(b, m)' <=> Heard(b, m) \/ (b \in Hear /\ m = x)
      <4>1. \A m : Heard(b, m)' <=> m \in Elems(inbox'[b])
        <5>1. inbox'[b] \in Seq(Nat)
          BY <3>4
        <5>2. \A m : Heard(b, m)' <=> Positions(inbox'[b], m) # {}
          BY DEF Heard, Copies, Positions
        <5>3. QED
          BY <5>1, <5>2, PositionsFinite
      <4>2. CASE b \in Hear
        BY <3>4, <3>5a, <4>1, <4>2
      <4>3. CASE b \notin Hear
        BY <3>4, <3>5a, <4>1, <4>3
      <4>4. QED
        BY <4>2, <4>3
    <3>5c. \A l, m : /\ InOrder(b, l, m) <=> Before(inbox[b], l, m)
                     /\ InOrder(b, l, m)' <=> Before(inbox'[b], l, m)
      BY <3>5 DEF InOrder, Before
    <3>6. ASSUME NEW m \in Published
          PROVE  /\ Ahead(b, m)' => Ahead(b, m)
                 /\ Direct(b, m)' <=> Direct(b, m)
      <4>1. sent'[m] = sent[m] /\ sent[m].instance \in Instances /\ m # x
        BY <1>5, <1>6, QueueFacts DEF IInv
      <4>2. m \in Elems(out'[sent[m].instance]) => m \in Elems(out[sent[m].instance])
        BY <1>14, <4>1
      <4>3. in'[at'[b]] = in[at[b]]
        BY <1>4
      <4>4. Ahead(b, m)' => Ahead(b, m)
        BY <4>1, <4>2, <4>3 DEF Ahead
      <4>5. QED
        BY <3>3, <4>1, <4>4 DEF Direct
    <3>7. Counted(b)'
      <4>1. ASSUME NEW m \in Published
            PROVE  Cardinality(Copies(b, m)') <=
                     (IF Direct(b, m)' THEN 1 ELSE 0) + (IF Ahead(b, m)' THEN 0 ELSE 1)
        <5>1. Copies(b, m)' = Copies(b, m)
          <6>1. m \in Nat /\ m # x
            BY <1>5
          <6>2. Positions(Append(inbox[b], x), m) = Positions(inbox[b], m)
            BY <1>5, <3>3, <6>1, AppendPositions
          <6>3. inbox'[b] = Append(inbox[b], x) \/ inbox'[b] = inbox[b]
            BY <3>3
          <6>4. QED
            BY <3>5, <6>2, <6>3
        <5>2. Cardinality(Copies(b, m)) \in Nat
          BY <3>3, <3>5, PositionsFinite
        <5>3. Cardinality(Copies(b, m)) <=
                (IF Direct(b, m) THEN 1 ELSE 0) + (IF Ahead(b, m) THEN 0 ELSE 1)
          BY <3>1 DEF Counted
        <5>4. QED
          BY <3>6, <5>1, <5>2, <5>3
      <4>2. Cardinality(Copies(b, x)') <=
              (IF Direct(b, x)' THEN 1 ELSE 0) + (IF Ahead(b, x)' THEN 0 ELSE 1)
        <5>1. Cardinality(Positions(inbox[b], x)) = 0
          <6>1. Positions(inbox[b], x) = {}
            BY <3>3, <3>4, PositionsFinite
          <6>2. Cardinality({}) = 0
            BY FS_EmptySet
          <6>3. QED
            BY <6>1, <6>2
        <5>2. CASE b \in Hear
          <6>1. Cardinality(Copies(b, x)') = 1
            <7>1. Cardinality(Positions(Append(inbox[b], x), x)) =
                    Cardinality(Positions(inbox[b], x)) + 1
              BY <1>5, <3>3, AppendPositions
            <7>2. Copies(b, x)' = Positions(Append(inbox[b], x), x)
              BY <3>3, <3>5, <5>2
            <7>3. QED
              BY <5>1, <7>1, <7>2
          <6>2. Direct(b, x)'
            BY <1>5, <1>6, <3>2, <3>3, <5>2 DEF Direct
          <6>3. QED
            BY <6>1, <6>2
        <5>3. CASE b \notin Hear
          BY <3>3, <3>5, <5>1, <5>3
        <5>4. QED
          BY <5>2, <5>3
      <4>3. QED
        BY <1>6, <4>1, <4>2 DEF Counted
    <3>8. Past(b)'
      <4>1. ASSUME NEW z \in Elems(inbox'[b]), NEW y \in Published', Ahead(b, y)',
                   sent'[z].instance = sent'[y].instance, sent'[z].instance # at[b]
            PROVE  z < y
        <5>1. z # x
          BY <1>5, <1>6, <3>2, <3>4, <4>1
        <5>2. z \in Elems(inbox[b]) /\ z \in Published
          BY <3>1, <3>4, <5>1
        <5>3. CASE y = x
          BY <1>5, <5>2, <5>3
        <5>4. CASE y \in Published
          BY <1>6, <3>1, <3>6, <4>1, <5>2, <5>4 DEF Past
        <5>5. QED
          BY <1>6, <5>3, <5>4
      <4>2. QED
        BY <3>3, <4>1 DEF Past
    <3>9. Present(b)'
      <4>1. ASSUME NEW m \in Published', sent'[m].instance = at[b], joined[b] < m,
                   sent'[m].client # b
            PROVE  Heard(b, m)'
        <5>1. CASE m = x
          BY <1>6, <3>2, <3>5b, <4>1, <5>1
        <5>2. CASE m \in Published
          <6>1. sent[m].instance = at[b] /\ joined[b] < m /\ sent[m].client # b
            BY <1>6, <4>1, <5>2
          <6>2. Heard(b, m)
            BY <3>1, <5>2, <6>1 DEF Present
          <6>3. QED
            BY <3>5b, <6>2
        <5>3. QED
          BY <1>6, <5>1, <5>2
      <4>2. QED
        BY <3>3, <4>1 DEF Present
    <3>10. Sorted(b)'
      <4>1. ASSUME NEW l \in Published', NEW m \in Published', l < m,
                   sent'[l].instance = sent'[m].instance, Heard(b, l)', Heard(b, m)',
                   at[b] = sent'[l].instance => joined[b] < l /\ sent'[l].client # b
            PROVE  InOrder(b, l, m)'
        <5>1. l \in Published /\ l \in Nat /\ m \in Nat /\ l # x
          <6>1. (l \in Published \/ l = x) /\ (m \in Published \/ m = x) /\ l < m
            BY <1>6, <4>1
          <6>2. QED
            BY <1>5, <6>1
        <5>2. Heard(b, l)
          BY <3>5b, <4>1, <5>1
        <5>3. Heard(b, m) => InOrder(b, l, m)
          <6>1. Heard(b, m) => m \in Published
            BY <3>1, <3>5a
          <6>2. QED
            BY <1>6, <3>1, <4>1, <5>1, <5>2, <6>1 DEF Sorted
        <5>4. CASE b \in Hear
          <6>1. Before(Append(inbox[b], x), l, m)
            BY <1>5, <3>3, <3>5a, <3>5c, <5>1, <5>2, <5>3, AppendBefore
          <6>2. QED
            BY <3>3, <3>5c, <5>4, <6>1
        <5>5. CASE b \notin Hear
          BY <3>3, <3>5b, <3>5c, <4>1, <5>3, <5>5
        <5>6. QED
          BY <5>4, <5>5
      <4>2. QED
        BY <3>3, <4>1 DEF Sorted
    <3>11. \A y \in Elems(inbox'[b]) : y \in Published'
      BY <1>6, <3>1, <3>4
    <3>12. QED
      BY <3>1, <3>3, <3>7, <3>8, <3>9, <3>10, <3>11 DEF Client
  <2>3. QED
    BY <2>1, <2>2
<1>19. QED
  BY <1>16, <1>17, <1>18 DEF IInv

-----------------------------------------------------------------------------
(* The invariant of the specification *)

LEMMA IInvInit == Init => IInv
<1> SUFFICES ASSUME Init PROVE IInv
  OBVIOUS
<1>1. <<>> \in Seq(Nat) /\ Len(<<>>) = 0 /\ Elems(<<>>) = {}
  BY DEF Elems
<1>2. Types
  <2>1. sent \in Seq([client : Clients, instance : Instances]) /\ 0 \in 0 .. Len(sent)
    BY DEF Init
  <2>2. QED
    BY <1>1, <2>1 DEF Init, Types
<1>3. Queues
  BY <1>1, ChannelAssumption DEF Init, Queues, Log, History, Incoming, Behind
<1>4. \A c \in Clients : Client(c)
  BY DEF Init, Client
<1>5. QED
  BY <1>2, <1>3, <1>4 DEF IInv

LEMMA IInvStep == IInv /\ [Next]_vars => IInv'
<1> SUFFICES ASSUME IInv, [Next]_vars PROVE IInv'
  OBVIOUS
<1>1. CASE Next
  BY <1>1, CloseKeepsIInv, PublishKeepsIInv, ConnectKeepsIInv, LinkKeepsIInv, RelayKeepsIInv,
     DeliverKeepsIInv, RestartKeepsIInv DEF Next
<1>2. CASE UNCHANGED vars
  <2>1. UNCHANGED <<at, joined, inbox, sent, buffer, pub, sub, out, in, restarts>>
    BY <1>2 DEF vars, links
  <2>2. Types' /\ Queues'
    BY <2>1 DEF IInv, Types, Queues, Log, History, Incoming, Behind, Published
  <2>3. ASSUME NEW b \in Clients
        PROVE  Client(b)'
    <3>1. \A m : Ahead(b, m)' <=> Ahead(b, m)
      BY <2>1 DEF Ahead
    <3>2. QED
      BY <2>1, <3>1, ClientKept DEF IInv
  <2>4. QED
    BY <2>2, <2>3 DEF IInv
<1>3. QED
  BY <1>1, <1>2

LEMMA SpecIInv == Spec => []IInv
BY IInvInit, IInvStep, PTL DEF Spec

\* Connections, histories, links and what was heard stay in their domains; the
\* history of an instance never outgrows the declared last_N.
THEOREM ChannelTypeOK == Spec => []TypeOK
<1>1. IInv => TypeOK
  <2> SUFFICES ASSUME IInv PROVE TypeOK
    OBVIOUS
  <2>1. ASSUME NEW c \in Clients, NEW k \in DOMAIN inbox[c]
        PROVE  inbox[c][k] \in DOMAIN sent
    <3>1. k \in 1 .. Len(inbox[c]) /\ DOMAIN sent = Published
      BY DEF IInv, Types, Published
    <3>2. inbox[c] # <<>> /\ inbox[c][k] \in Elems(inbox[c])
      BY <3>1 DEF Elems
    <3>3. QED
      BY <3>1, <3>2 DEF IInv, Client
  <2>2. \A i \in Instances : Len(buffer[i]) <= Limit
    BY DEF IInv, Queues, History
  <2>3. QED
    BY <2>1, <2>2 DEF IInv, Types, TypeOK
<1>2. QED
  BY <1>1, SpecIInv, PTL

\* Nobody hears a message more than twice, and twice only the clients of its
\* instance, who hear it directly and from Redis; not its sender, unless the
\* sender has connected again since and found it in the history.
THEOREM CopiesBounded == Spec => []CopiesAccounted
<1>1. IInv => CopiesAccounted
  <2> SUFFICES ASSUME IInv, NEW c \in Clients, NEW m \in DOMAIN sent
               PROVE  Cardinality(Copies(c, m)) <=
                        IF at[c] = sent[m].instance /\ (sent[m].client = c => m <= joined[c])
                        THEN 2 ELSE 1
    BY DEF CopiesAccounted
  <2>1. m \in Published /\ Cardinality(Copies(c, m)) \in Nat
    <3>1. /\ sent \in Seq([client : Clients, instance : Instances])
          /\ inbox[c] \in Seq(Nat) /\ Copies(c, m) = Positions(inbox[c], m)
      BY InboxFacts DEF IInv, Types
    <3>2. m \in Published
      BY <3>1 DEF Published
    <3>3. QED
      BY <3>1, <3>2, PositionsFinite
  <2>2. CASE inbox[c] = <<>>
    <3>1. Copies(c, m) = {}
      BY <2>2 DEF Copies
    <3>2. Cardinality({}) = 0
      BY FS_EmptySet
    <3>3. Cardinality(Copies(c, m)) = 0
      BY <3>1, <3>2
    <3>4. QED
      BY <3>3
  <2>3. CASE Counted(c)
    <3>1. Cardinality(Copies(c, m)) <=
            (IF Direct(c, m) THEN 1 ELSE 0) + (IF Ahead(c, m) THEN 0 ELSE 1)
      BY <2>1, <2>3 DEF Counted
    <3>2. QED
      BY <2>1, <3>1 DEF Direct
  <2>4. QED
    BY <2>2, <2>3 DEF IInv, Client
<1>2. QED
  BY <1>1, SpecIInv, PTL

\* Whatever the server does with the declared ordering, a client first hears the
\* messages of one instance in the order they were published there, across
\* restarts, reconnections and failing links; the exceptions are those of
\* FirstCopiesInOrder, on the instance of the client itself.
THEOREM FirstCopiesOrdered == Spec => []FirstCopiesInOrder
<1>1. IInv => FirstCopiesInOrder
  <2> SUFFICES ASSUME IInv, NEW c \in Clients, NEW l \in DOMAIN sent, NEW m \in DOMAIN sent,
                      l < m, sent[l].instance = sent[m].instance, Heard(c, l), Heard(c, m),
                      at[c] = sent[l].instance => joined[c] < l /\ sent[l].client # c
               PROVE  InOrder(c, l, m)
    BY DEF FirstCopiesInOrder
  <2>1. DOMAIN sent = Published
    BY DEF IInv, Types, Published
  <2>2. inbox[c] # <<>>
    BY DEF Heard, Copies
  <2>3. Sorted(c)
    BY <2>2 DEF IInv, Client
  <2>4. QED
    BY <2>1, <2>3 DEF Sorted
<1>2. QED
  BY <1>1, SpecIInv, PTL
=============================================================================
