------------------------------ MODULE HubProofs ------------------------------
(***************************************************************************)
(* Theorems about Hub, for any feeds, connections and buffer size.         *)
(***************************************************************************)
EXTENDS Hub, TLAPS

-----------------------------------------------------------------------------
(* Closing.  ClosedOnce is not inductive: that a handler which ends finds  *)
(* its connection in the map, or closed already, rests on what it did      *)
(* before.  A connection is in the map of its feed exactly from Register   *)
(* until Run closes it.                                                    *)

MemberOK(c) ==
  /\ closes[c] \in {0, 1}
  /\ c \in clients[Feed[c]] <=> handler[c] \in {"read", "unregister"} /\ closes[c] = 0
  /\ \A f \in Feeds : c \in clients[f] => f = Feed[c]
  /\ handler[c] \in {"away", "register"} => closes[c] = 0
  /\ handler[c] = "gone" => closes[c] = 1

(* The part of the types the proof needs.                                  *)
MapsOK ==
  /\ clients \in [Feeds -> SUBSET Conns]
  /\ handler \in [Conns -> {"away", "register", "read", "unregister", "gone"}]
  /\ closes \in [Conns -> Nat]

MemberInv == MapsOK /\ \A c \in Conns : MemberOK(c)

LEMMA MemberInit == Init => MemberInv
  BY FeedAssumption DEF Init, MemberInv, MapsOK, MemberOK

(* A step of the handler of c that leaves the map alone.                   *)
LEMMA MemberHandler ==
  ASSUME MemberInv, NEW c \in Conns, Upgrade(c) \/ ReadFails(c)
  PROVE  MemberInv'
<1>1. /\ UNCHANGED <<clients, closes>>
      /\ \/ handler[c] = "away" /\ handler' = [handler EXCEPT ![c] = "register"]
         \/ handler[c] = "read" /\ handler' = [handler EXCEPT ![c] = "unregister"]
  BY DEF Upgrade, ReadFails
<1>2. MapsOK'
  BY <1>1 DEF MemberInv, MapsOK
<1>3. ASSUME NEW x \in Conns PROVE MemberOK(x)'
  BY <1>1 DEF MemberInv, MapsOK, MemberOK
<1>4. QED
  BY <1>2, <1>3 DEF MemberInv

LEMMA MemberRegister ==
  ASSUME MemberInv, NEW c \in Conns, Register(c)
  PROVE  MemberInv'
<1>1. /\ handler[c] = "register" /\ handler' = [handler EXCEPT ![c] = "read"]
      /\ clients' = [clients EXCEPT ![Feed[c]] = clients[Feed[c]] \cup {c}]
      /\ closes' = closes /\ Feed[c] \in Feeds
  BY FeedAssumption DEF Register
<1>2. MapsOK'
  BY <1>1 DEF MemberInv, MapsOK
<1>3. ASSUME NEW x \in Conns PROVE MemberOK(x)'
  <2>1. \A f \in Feeds : x \in clients'[f] <=>
                           x \in clients[f] \/ (x = c /\ f = Feed[c])
    BY <1>1 DEF MemberInv, MapsOK
  <2>2. MemberOK(x) /\ Feed[x] \in Feeds
    BY FeedAssumption DEF MemberInv
  <2>3. handler'[x] = IF x = c THEN "read" ELSE handler[x]
    BY <1>1 DEF MemberInv, MapsOK
  <2>4. QED
    BY <1>1, <2>1, <2>2, <2>3 DEF MemberOK
<1>4. QED
  BY <1>2, <1>3 DEF MemberInv

(* Both ways out of the map: the handler's own, and a reaper's.            *)
LEMMA MemberRemove ==
  ASSUME MemberInv, NEW c \in Conns, Remove(c),
         \/ handler' = handler
         \/ handler[c] = "unregister" /\ handler' = [handler EXCEPT ![c] = "gone"]
  PROVE  MemberInv'
<1>1. Feed[c] \in Feeds /\ closes[c] \in Nat
  BY FeedAssumption DEF MemberInv, MapsOK
<1>2. closes' = [closes EXCEPT ![c] = IF c \in clients[Feed[c]] THEN closes[c] + 1
                                                              ELSE closes[c]]
  BY DEF Remove
<1>3. MapsOK'
  <2>1. closes' \in [Conns -> Nat]
    BY <1>1, <1>2 DEF MemberInv, MapsOK
  <2>2. clients' \in [Feeds -> SUBSET Conns] /\ handler' \in
          [Conns -> {"away", "register", "read", "unregister", "gone"}]
    BY <1>1 DEF Remove, MemberInv, MapsOK
  <2>3. QED
    BY <2>1, <2>2 DEF MapsOK
<1>4. ASSUME NEW x \in Conns PROVE MemberOK(x)'
  <2>1. MemberOK(x) /\ Feed[x] \in Feeds
    BY FeedAssumption DEF MemberInv
  <2>2. CASE x = c
    <3>1. \A f \in Feeds : c \in clients'[f] <=> c \in clients[f] /\ f # Feed[c]
      BY <1>1 DEF Remove, MemberInv, MapsOK
    <3>2. closes'[c] = IF c \in clients[Feed[c]] THEN closes[c] + 1 ELSE closes[c]
      BY <1>2 DEF MemberInv, MapsOK
    <3>3. \/ handler'[c] = handler[c]
          \/ handler[c] = "unregister" /\ handler'[c] = "gone"
      BY DEF MemberInv, MapsOK
    <3>4. QED
      BY <2>1, <2>2, <3>1, <3>2, <3>3 DEF MemberOK
  <2>3. CASE x # c
    <3>1. /\ \A f \in Feeds : x \in clients'[f] <=> x \in clients[f]
          /\ closes'[x] = closes[x] /\ handler'[x] = handler[x]
      BY <1>1, <1>2, <2>3 DEF Remove, MemberInv, MapsOK
    <3>2. QED
      BY <2>1, <3>1 DEF MemberOK
  <2>4. QED
    BY <2>2, <2>3
<1>5. QED
  BY <1>3, <1>4 DEF MemberInv

LEMMA MemberRest ==
  ASSUME MemberInv, UNCHANGED <<clients, handler, closes>>
  PROVE  MemberInv'
  BY DEF MemberInv, MapsOK, MemberOK

LEMMA MemberNext == MemberInv /\ [Next]_vars => MemberInv'
<1> SUFFICES ASSUME MemberInv, [Next]_vars PROVE MemberInv'
  OBVIOUS
<1>1. CASE UNCHANGED vars \/ Idle
  BY <1>1, MemberRest DEF vars, Idle
<1>2. ASSUME NEW f \in Feeds, Take(f) \/ Announce(f)
      PROVE  MemberInv'
  BY <1>2, MemberRest DEF Take, Announce, netVars
<1>3. ASSUME NEW c \in Conns, Unregister(c) \/ Reap(c)
      PROVE  MemberInv'
  BY <1>3, MemberRemove DEF Unregister, Reap
<1>4. ASSUME NEW c \in Conns,
             Write(c) \/ CartUpdate(c) \/ Stick(c) \/ Unstick(c) \/ Leave(c)
      PROVE  MemberInv'
  BY <1>4, MemberRest DEF Write, WriteArrives, WriteLost, WriteFails, CartUpdate,
     Stick, Unstick, Leave
<1>5. QED
  BY <1>1, <1>2, <1>3, <1>4, MemberHandler, MemberRegister DEF Next, Environment, Run

(* A connection is closed exactly once: by its handler's unregistration or *)
(* by the reaper of a failed write, whichever Run receives first.          *)
THEOREM ConnectionsClosedOnce == Spec => []ClosedOnce
<1>1. MemberInv => ClosedOnce
  BY FeedAssumption DEF MemberInv, MapsOK, MemberOK, ClosedOnce
<1>2. QED
  BY MemberInit, MemberNext, <1>1, PTL DEF Spec, Safety

-----------------------------------------------------------------------------
(* Order.  What a live subscriber got last is the message its feed took    *)
(* last, or the one before if Run has not come to it in this round; and a  *)
(* browser that is out of the map, or about to be, is dead.                *)

Taken(f) == accepted[f] - Len(queue[f])

FeedOK(f) ==
  /\ queue[f] \in Seq(Int) /\ accepted[f] \in Int
  /\ \A i \in 1 .. Len(queue[f]) : queue[f][i] = Taken(f) + i

RunOK ==
  /\ writing \in [feed : Feeds, msg : Int, left : SUBSET Conns]
  /\ writing.left # {} =>
       writing.left \subseteq clients[writing.feed] /\ writing.msg = Taken(writing.feed)

Run1(c)    == \A i \in 1 .. Len(received[c]) - 1 : received[c][i + 1] = received[c][i] + 1
Latest(c)  == received[c][Len(received[c])]
Expects(c) == IF c \in writing.left THEN Taken(Feed[c]) - 1 ELSE Taken(Feed[c])

PeerOK(c) ==
  /\ received[c] \in Seq(Int) /\ reapers[c] \in Nat
  /\ handler[c] \in {"away", "register"} => received[c] = <<>>
  /\ reapers[c] > 0 \/ closes[c] > 0 \/ handler[c] \in {"unregister", "gone"}
       => peer[c] = "dead"
  /\ peer[c] # "dead" /\ received[c] # <<>> => Latest(c) = Expects(c)
  /\ Run1(c)

VarsOK ==
  /\ queue \in [Feeds -> Seq(Int)] /\ accepted \in [Feeds -> Int]
  /\ received \in [Conns -> Seq(Int)] /\ reapers \in [Conns -> Nat]
  /\ peer \in [Conns -> {"up", "stuck", "dead"}]

GapInv ==
  /\ VarsOK /\ RunOK
  /\ \A f \in Feeds : FeedOK(f)
  /\ \A c \in Conns : PeerOK(c)


LEMMA GapInit == Init => GapInv
<1> SUFFICES ASSUME Init PROVE GapInv
  OBVIOUS
<1>1. VarsOK
  BY DEF Init, VarsOK
<1>2. RunOK
  BY FeedAssumption DEF Init, RunOK
<1>3. ASSUME NEW f \in Feeds PROVE FeedOK(f)
  BY DEF Init, FeedOK
<1>4. ASSUME NEW c \in Conns PROVE PeerOK(c)
  BY DEF Init, PeerOK, Run1
<1>5. QED
  BY <1>1, <1>2, <1>3, <1>4 DEF GapInv

(* A connection that gets nothing in a step, while its feed takes nothing. *)
LEMMA PeerKept ==
  ASSUME GapInv, NEW c \in Conns, received'[c] = received[c], reapers'[c] \in Nat,
         Expects(c)' = Expects(c),
         handler'[c] \in {"away", "register"} => handler[c] \in {"away", "register"},
         peer'[c] # "dead" => peer[c] # "dead",
         reapers'[c] > 0 \/ closes'[c] > 0 \/ handler'[c] \in {"unregister", "gone"}
           => peer'[c] = "dead"
  PROVE  PeerOK(c)'
<1>1. PeerOK(c)
  BY DEF GapInv
<1>2. Latest(c)' = Latest(c) /\ Run1(c)'
  BY <1>1 DEF Latest, Run1, PeerOK
<1>3. QED
  BY <1>1, <1>2 DEF PeerOK

LEMMA GapBroadcast ==
  ASSUME GapInv, NEW g \in Feeds, Broadcast(g),
         UNCHANGED <<clients, writing, handler, reapers, closes, peer, received>>
  PROVE  GapInv'
<1>1. VarsOK'
  <2>1. accepted' \in [Feeds -> Int]
    BY DEF Broadcast, GapInv, VarsOK
  <2>2. queue' \in [Feeds -> Seq(Int)]
    <3>1. accepted'[g] \in Int /\ queue[g] \in Seq(Int) /\ queue \in [Feeds -> Seq(Int)]
      BY <2>1 DEF GapInv, VarsOK
    <3>2. Append(queue[g], accepted'[g]) \in Seq(Int)
      BY <3>1
    <3>3. queue' = queue \/ queue' = [queue EXCEPT ![g] = Append(queue[g], accepted'[g])]
      BY DEF Broadcast
    <3>4. QED
      BY <3>1, <3>2, <3>3
  <2>3. QED
    BY <2>1, <2>2 DEF GapInv, VarsOK
<1>2. ASSUME NEW f \in Feeds PROVE FeedOK(f)' /\ Taken(f)' = Taken(f)
  <2>1. FeedOK(f)
    BY DEF GapInv
  <2>2. CASE queue'[f] = queue[f] /\ accepted'[f] = accepted[f]
    BY <2>1, <2>2 DEF FeedOK, Taken
  <2>3. CASE /\ accepted'[f] = accepted[f] + 1
             /\ queue'[f] = Append(queue[f], accepted[f] + 1)
    <3>1. /\ Len(queue'[f]) = Len(queue[f]) + 1 /\ queue'[f] \in Seq(Int)
          /\ \A i \in 1 .. Len(queue[f]) : queue'[f][i] = queue[f][i]
          /\ queue'[f][Len(queue[f]) + 1] = accepted[f] + 1
          /\ Len(queue[f]) \in Nat
      BY <2>1, <2>3 DEF FeedOK
    <3>2. Taken(f)' = Taken(f)
      BY <2>1, <2>3, <3>1 DEF Taken, FeedOK
    <3>3. ASSUME NEW i \in 1 .. Len(queue'[f]) PROVE queue'[f][i] = Taken(f) + i
      <4>1. CASE i \in 1 .. Len(queue[f])
        BY <2>1, <3>1, <4>1 DEF FeedOK
      <4>2. CASE i = Len(queue[f]) + 1
        BY <2>1, <3>1, <4>2 DEF FeedOK, Taken
      <4>3. QED
        BY <3>1, <4>1, <4>2
    <3>4. QED
      BY <2>1, <2>3, <3>1, <3>2, <3>3 DEF FeedOK
  <2>4. \/ queue'[f] = queue[f] /\ accepted'[f] = accepted[f]
        \/ /\ accepted'[f] = accepted[f] + 1
           /\ queue'[f] = Append(queue[f], accepted[f] + 1)
    BY DEF Broadcast, GapInv, VarsOK
  <2>5. QED
    BY <2>2, <2>3, <2>4
<1>3. RunOK'
  BY <1>2 DEF GapInv, RunOK
<1>4. ASSUME NEW c \in Conns PROVE PeerOK(c)'
  <2>1. PeerOK(c) /\ Feed[c] \in Feeds
    BY FeedAssumption DEF GapInv
  <2>2. Expects(c)' = Expects(c)
    BY <1>2, <2>1 DEF Expects
  <2>3. QED
    BY <2>1, <2>2, PeerKept DEF PeerOK
<1>5. QED
  BY <1>1, <1>2, <1>3, <1>4 DEF GapInv

(* Steps of handlers, reapers and browsers.                                *)
LEMMA GapConnection ==
  ASSUME GapInv, MemberInv, NEW c \in Conns,
         \/ Upgrade(c) \/ Register(c) \/ ReadFails(c) \/ Unregister(c) \/ Reap(c)
         \/ Stick(c) \/ Unstick(c) \/ Leave(c)
  PROVE  GapInv'
<1>1. UNCHANGED <<queue, accepted, writing, received>>
  BY DEF Upgrade, Register, ReadFails, Unregister, Reap, Stick, Unstick, Leave,
     feedVars, netVars
<1>2. RunOK'
  <2>1. writing.left = {} \/ UNCHANGED clients
    BY DEF Upgrade, Register, ReadFails, Unregister, Reap, Stick, Unstick, Leave, Selecting
  <2>2. \A f \in Feeds : Taken(f)' = Taken(f)
    BY <1>1 DEF Taken
  <2>3. QED
    BY <1>1, <2>1, <2>2 DEF GapInv, RunOK
<1>3. \A f \in Feeds : FeedOK(f)'
  BY <1>1 DEF GapInv, FeedOK, Taken
<1>4. reapers' \in [Conns -> Nat] /\ peer' \in [Conns -> {"up", "stuck", "dead"}]
  <2>1. reapers \in [Conns -> Nat] /\ peer \in [Conns -> {"up", "stuck", "dead"}]
    BY DEF GapInv, VarsOK
  <2>2. reapers' = reapers \/ (reapers[c] > 0 /\ reapers' = [reapers EXCEPT ![c] = reapers[c] - 1])
    BY DEF Upgrade, Register, ReadFails, Unregister, Reap, Stick, Unstick, Leave
  <2>3. reapers' \in [Conns -> Nat]
    BY <2>1, <2>2
  <2>4. peer' \in [Conns -> {"up", "stuck", "dead"}]
    BY <2>1 DEF Upgrade, Register, ReadFails, Unregister, Reap, Stick, Unstick, Leave,
       netVars
  <2>5. QED
    BY <2>3, <2>4
<1>5. ASSUME NEW x \in Conns PROVE PeerOK(x)'
  <2>1. PeerOK(x) /\ Expects(x)' = Expects(x) /\ received'[x] = received[x]
    BY <1>1 DEF GapInv, Expects, Taken
  <2>2. CASE x # c
    <3>1. handler'[x] = handler[x] /\ closes'[x] = closes[x] /\ reapers'[x] = reapers[x]
          /\ peer'[x] = peer[x]
      BY <2>2 DEF Upgrade, Register, ReadFails, Unregister, Reap, Remove, Stick, Unstick,
         Leave, netVars, GapInv, VarsOK, MemberInv, MapsOK
    <3>2. QED
      BY <2>1, <3>1, PeerKept DEF PeerOK
  <2>3. CASE x = c
    <3>1. CASE Upgrade(c) \/ Register(c) \/ Stick(c) \/ Unstick(c) \/ Leave(c)
      <4>1. /\ handler'[c] \in {"away", "register"} => handler[c] \in {"away", "register"}
            /\ peer'[c] # "dead" => peer[c] # "dead"
            /\ reapers'[c] = reapers[c] /\ closes'[c] = closes[c]
            /\ handler'[c] \in {"unregister", "gone"} => handler[c] = handler'[c]
            /\ peer[c] = "dead" => peer'[c] = "dead"
        BY <3>1 DEF Upgrade, Register, Stick, Unstick, Leave, netVars, GapInv, VarsOK,
           MemberInv, MapsOK
      <4>2. QED
        BY <2>1, <2>3, <4>1, PeerKept DEF PeerOK
    <3>2. CASE ReadFails(c) \/ Unregister(c) \/ Reap(c)
      <4>1. closes[c] \in Nat
        BY DEF MemberInv, MapsOK
      <4>2. peer[c] = "dead" /\ peer' = peer
        BY <2>1, <2>3, <3>2, <4>1 DEF ReadFails, Unregister, Reap, PeerOK, netVars
      <4>3. handler'[c] \in {"away", "register"} => handler[c] \in {"away", "register"}
        BY <3>2 DEF ReadFails, Unregister, Reap, MemberInv, MapsOK
      <4>4. QED
        BY <1>4, <2>1, <2>3, <4>2, <4>3, PeerKept
    <3>3. QED
      BY <3>1, <3>2
  <2>4. QED
    BY <2>2, <2>3
<1>6. QED
  BY <1>1, <1>2, <1>3, <1>4, <1>5 DEF GapInv, VarsOK

LEMMA GapTake ==
  ASSUME GapInv, MemberInv, NEW g \in Feeds, Take(g)
  PROVE  GapInv'
<1>1. /\ queue[g] # <<>> /\ queue[g] \in Seq(Int) /\ accepted[g] \in Int
      /\ \A i \in 1 .. Len(queue[g]) : queue[g][i] = Taken(g) + i
  BY DEF Take, GapInv, FeedOK
<1>2. /\ writing.left = {} /\ queue' = [queue EXCEPT ![g] = Tail(queue[g])]
      /\ writing' = [feed |-> g, msg |-> Head(queue[g]), left |-> clients[g]]
      /\ UNCHANGED <<clients, accepted, handler, reapers, closes, peer, received>>
  BY DEF Take, Selecting, netVars
<1>3. /\ Len(queue[g]) \in Nat \ {0} /\ Tail(queue[g]) \in Seq(Int)
      /\ Len(Tail(queue[g])) = Len(queue[g]) - 1
      /\ \A i \in 1 .. Len(queue[g]) - 1 : Tail(queue[g])[i] = queue[g][i + 1]
      /\ Head(queue[g]) = queue[g][1]
  BY <1>1
<1>4. queue' \in [Feeds -> Seq(Int)] /\ queue'[g] = Tail(queue[g])
  BY <1>2, <1>3 DEF GapInv, VarsOK
<1>5. VarsOK'
  BY <1>2, <1>4 DEF GapInv, VarsOK
<1>6. Taken(g)' = Taken(g) + 1 /\ Head(queue[g]) = Taken(g) + 1
  BY <1>1, <1>2, <1>3, <1>4 DEF Taken
<1>7. \A f \in Feeds : f # g => queue'[f] = queue[f] /\ Taken(f)' = Taken(f)
  BY <1>2 DEF GapInv, VarsOK, Taken
<1>8. ASSUME NEW f \in Feeds PROVE FeedOK(f)'
  <2>1. CASE f = g
    <3>1. ASSUME NEW i \in 1 .. Len(queue'[g]) PROVE queue'[g][i] = Taken(g)' + i
      <4>1. i \in 1 .. Len(queue[g]) - 1 /\ i + 1 \in 1 .. Len(queue[g])
        BY <1>3, <1>4
      <4>2. queue'[g][i] = Taken(g) + (i + 1)
        BY <1>1, <1>3, <1>4, <4>1
      <4>3. Taken(g) \in Int
        BY <1>1, <1>3 DEF Taken
      <4>4. QED
        BY <1>6, <4>1, <4>2, <4>3
    <3>2. queue'[g] \in Seq(Int) /\ accepted'[g] \in Int
      BY <1>1, <1>2, <1>3, <1>4
    <3>3. QED
      BY <2>1, <3>1, <3>2 DEF FeedOK
  <2>2. CASE f # g
    BY <1>2, <1>7, <2>2 DEF GapInv, FeedOK
  <2>3. QED
    BY <2>1, <2>2
<1>9. RunOK'
  <2>1. Taken(g) + 1 \in Int /\ clients[g] \in SUBSET Conns
    BY <1>1, <1>3 DEF Taken, MemberInv, MapsOK
  <2>2. /\ writing' \in [feed : Feeds, msg : Int, left : SUBSET Conns]
        /\ writing'.feed = g /\ writing'.left = clients'[g]
        /\ writing'.msg = Taken(g)'
    BY <1>2, <1>6, <2>1
  <2>3. QED
    BY <2>2 DEF RunOK
<1>10. ASSUME NEW c \in Conns PROVE PeerOK(c)'
  <2>1. PeerOK(c) /\ MemberOK(c) /\ Feed[c] \in Feeds
    BY FeedAssumption DEF GapInv, MemberInv
  <2>2. CASE peer[c] = "dead" \/ received[c] = <<>>
    BY <1>2, <2>1, <2>2 DEF PeerOK, Run1
  <2>3. CASE peer[c] # "dead" /\ received[c] # <<>>
    <3>1. c \in clients[Feed[c]]
      BY <2>1, <2>3 DEF PeerOK, MemberOK, MemberInv, MapsOK
    <3>2. c \in writing'.left <=> Feed[c] = g
      BY <1>2, <2>1, <3>1 DEF MemberOK
    <3>3. Expects(c) = Taken(Feed[c]) /\ Taken(g) \in Int
      BY <1>1, <1>2, <1>3 DEF Expects, Taken
    <3>4. Expects(c)' = Expects(c)
      BY <1>6, <1>7, <2>1, <3>2, <3>3 DEF Expects
    <3>5. QED
      BY <1>2, <2>1, <3>4, PeerKept DEF PeerOK
  <2>4. QED
    BY <2>2, <2>3
<1>11. QED
  BY <1>5, <1>8, <1>9, <1>10 DEF GapInv

LEMMA GapWrite ==
  ASSUME GapInv, MemberInv, NEW c \in Conns, Write(c)
  PROVE  GapInv'
<1>1. /\ c \in writing.left /\ writing' = [writing EXCEPT !.left = writing.left \ {c}]
      /\ UNCHANGED <<clients, queue, accepted, handler, closes, peer>>
      /\ \/ peer[c] = "dead" /\ received' = received
         \/ /\ received' = [received EXCEPT ![c] = Append(received[c], writing.msg)]
            /\ peer[c] = "up"
      /\ \/ reapers' = reapers
         \/ peer[c] = "dead" /\ reapers' = [reapers EXCEPT ![c] = reapers[c] + 1]
  BY DEF Write, WriteArrives, WriteLost, WriteFails, Written, feedVars, netVars
<1>2. writing \in [feed : Feeds, msg : Int, left : SUBSET Conns]
  BY DEF GapInv, RunOK
<1>3. /\ writing'.left = writing.left \ {c} /\ writing'.feed = writing.feed
      /\ writing'.msg = writing.msg
      /\ writing' \in [feed : Feeds, msg : Int, left : SUBSET Conns]
  BY <1>1, <1>2
<1>4. reapers' \in [Conns -> Nat]
  BY <1>1 DEF GapInv, VarsOK
<1>5. received' \in [Conns -> Seq(Int)]
  <2>1. received \in [Conns -> Seq(Int)] /\ writing.msg \in Int
    BY <1>2 DEF GapInv, VarsOK
  <2>2. Append(received[c], writing.msg) \in Seq(Int)
    BY <2>1
  <2>3. QED
    BY <1>1, <2>1, <2>2
<1>6. VarsOK'
  BY <1>1, <1>4, <1>5 DEF GapInv, VarsOK
<1>7. \A f \in Feeds : Taken(f)' = Taken(f) /\ FeedOK(f)'
  BY <1>1 DEF GapInv, Taken, FeedOK
<1>8. RunOK'
  BY <1>1, <1>2, <1>3, <1>7 DEF GapInv, RunOK
<1>9. ASSUME NEW x \in Conns PROVE PeerOK(x)'
  <2>1. PeerOK(x) /\ Feed[x] \in Feeds
    BY FeedAssumption DEF GapInv
  <2>2. CASE x # c
    <3>1. received'[x] = received[x] /\ reapers'[x] = reapers[x]
      BY <1>1, <2>2 DEF GapInv, VarsOK
    <3>2. Expects(x)' = Expects(x)
      BY <1>3, <1>7, <2>1, <2>2 DEF Expects
    <3>3. QED
      BY <1>1, <2>1, <3>1, <3>2, PeerKept DEF PeerOK
  <2>3. CASE x = c /\ peer[c] = "dead" /\ received' = received
    BY <1>1, <1>4, <2>1, <2>3 DEF PeerOK, Run1
  <2>4. CASE /\ x = c /\ peer[c] = "up" /\ reapers' = reapers
             /\ received'[c] = Append(received[c], writing.msg)
    <3>1. writing.msg = Taken(writing.feed) /\ c \in clients[writing.feed]
      BY <1>1 DEF GapInv, RunOK
    <3>2. PICK m \in Int : m = writing.msg
      BY <1>2
    <3>3. /\ received[c] \in Seq(Int) /\ Len(received[c]) \in Nat
          /\ Len(received'[c]) = Len(received[c]) + 1 /\ received'[c] \in Seq(Int)
          /\ \A i \in 1 .. Len(received[c]) : received'[c][i] = received[c][i]
          /\ received'[c][Len(received[c]) + 1] = m
      BY <2>1, <2>4, <3>2 DEF PeerOK
    <3>4. writing.feed = Feed[c]
      BY <1>2, <3>1 DEF MemberInv, MemberOK
    <3>5. m = Taken(Feed[c]) /\ Expects(c) = m - 1 /\ Expects(c)' = m
      BY <1>1, <1>3, <1>7, <2>1, <2>4, <3>1, <3>2, <3>4 DEF Expects
    <3>6. received[c] # <<>> => received[c][Len(received[c])] = m - 1
      BY <2>1, <2>4, <3>5 DEF PeerOK, Latest
    <3>7. Latest(c)' = Expects(c)'
      BY <3>3, <3>5 DEF Latest
    <3>8. Run1(c)'
      <4> SUFFICES ASSUME NEW i \in 1 .. Len(received'[c]) - 1
                   PROVE  received'[c][i + 1] = received'[c][i] + 1
        BY DEF Run1
      <4>1. CASE i = Len(received[c])
        <5>1. received[c] # <<>> /\ received'[c][i] = m - 1 /\ received'[c][i + 1] = m
          BY <3>3, <3>6, <4>1
        <5>2. QED
          BY <5>1
      <4>2. CASE i # Len(received[c])
        <5>1. i \in 1 .. Len(received[c]) - 1 /\ i \in 1 .. Len(received[c])
              /\ i + 1 \in 1 .. Len(received[c])
          BY <3>3, <4>2
        <5>2. QED
          BY <2>1, <2>4, <3>3, <5>1 DEF PeerOK, Run1
      <4>3. QED
        BY <4>1, <4>2
    <3>9. handler'[c] = handler[c] /\ handler[c] \notin {"away", "register"}
      BY <1>1, <3>1, <3>4 DEF MemberInv, MemberOK
    <3>10. QED
      BY <1>1, <2>1, <2>4, <3>3, <3>7, <3>8, <3>9 DEF PeerOK
  <2>5. QED
    BY <1>1, <2>2, <2>3, <2>4 DEF GapInv, VarsOK
<1>10. QED
  BY <1>6, <1>7, <1>8, <1>9 DEF GapInv

LEMMA GapNext == GapInv /\ MemberInv /\ [Next]_vars => GapInv'
<1> SUFFICES ASSUME GapInv, MemberInv, [Next]_vars PROVE GapInv'
  OBVIOUS
<1>1. CASE UNCHANGED vars \/ Idle
  <2>1. UNCHANGED vars
    BY <1>1 DEF Idle
  <2>2. VarsOK' /\ RunOK' /\ \A f \in Feeds : FeedOK(f)'
    BY <2>1 DEF vars, GapInv, VarsOK, RunOK, FeedOK, Taken
  <2>3. \A c \in Conns : PeerOK(c)'
    BY <2>1 DEF vars, GapInv, PeerOK, Latest, Expects, Taken, Run1
  <2>4. QED
    BY <2>2, <2>3 DEF GapInv
<1>2. ASSUME NEW f \in Feeds, Announce(f)
      PROVE  GapInv'
  BY <1>2, GapBroadcast DEF Announce, netVars
<1>3. ASSUME NEW c \in Conns, CartUpdate(c)
      PROVE  GapInv'
  BY <1>3, GapBroadcast, FeedAssumption DEF CartUpdate, netVars
<1>4. QED
  BY <1>1, <1>2, <1>3, GapTake, GapConnection, GapWrite DEF Next, Environment, Run

(* What a browser has got is an unbroken run of its feed, in order: no     *)
(* message twice, none overtaken, none missing in between.                 *)
THEOREM FeedsGapless == Spec => []Gapless
<1>1. GapInv => Gapless
  BY DEF GapInv, PeerOK, Run1, Gapless
<1>2. QED
  BY MemberInit, MemberNext, GapInit, GapNext, <1>1, PTL DEF Spec, Safety


-----------------------------------------------------------------------------
(* Types, and the buffer that a broadcast never overfills.                 *)

LEMMA TypeBroadcast ==
  ASSUME TypeOK, NEW f \in Feeds, Broadcast(f),
         UNCHANGED <<clients, writing, handler, reapers, closes, peer, received>>
  PROVE  TypeOK'
<1>1. published' \in [Feeds -> Nat]
  BY DEF Broadcast, TypeOK
<1>2. CASE Len(queue[f]) < Buffer
  <2>1. accepted' = [accepted EXCEPT ![f] = accepted[f] + 1]
        /\ queue' = [queue EXCEPT ![f] = Append(queue[f], accepted'[f])]
    BY <1>2 DEF Broadcast
  <2>2. accepted' \in [Feeds -> Nat] /\ accepted'[f] \in Nat \ {0}
    BY <2>1 DEF TypeOK
  <2>3. Append(queue[f], accepted'[f]) \in Seq(Nat \ {0})
        /\ Len(Append(queue[f], accepted'[f])) = Len(queue[f]) + 1
    BY <2>2 DEF TypeOK
  <2>4. queue' \in [Feeds -> Seq(Nat \ {0})]
    BY <2>1, <2>3 DEF TypeOK
  <2>5. ASSUME NEW g \in Feeds PROVE Len(queue'[g]) <= Buffer
    <3>1. CASE g = f
      <4>1. queue'[g] = Append(queue[f], accepted'[f]) /\ Len(queue[f]) \in Nat
        BY <2>1, <3>1 DEF TypeOK
      <4>2. QED
        BY <1>2, <2>3, <4>1, BoundAssumption
    <3>2. CASE g # f
      BY <2>1, <3>2 DEF TypeOK
    <3>3. QED
      BY <3>1, <3>2
  <2>6. QED
    BY <1>1, <2>2, <2>4, <2>5 DEF TypeOK
<1>3. CASE ~ (Len(queue[f]) < Buffer)
  BY <1>1, <1>3 DEF Broadcast, TypeOK
<1>4. QED
  BY <1>2, <1>3

LEMMA TypeTake ==
  ASSUME TypeOK, NEW f \in Feeds, Take(f)
  PROVE  TypeOK'
<1>1. queue[f] \in Seq(Nat \ {0}) /\ queue[f] # <<>> /\ Len(queue[f]) <= Buffer
  BY DEF Take, TypeOK
<1>2. /\ Head(queue[f]) \in Nat /\ Tail(queue[f]) \in Seq(Nat \ {0})
      /\ Len(Tail(queue[f])) = Len(queue[f]) - 1 /\ Len(queue[f]) \in Nat
  BY <1>1
<1>3. writing' = [feed |-> f, msg |-> Head(queue[f]), left |-> clients[f]]
      /\ queue' = [queue EXCEPT ![f] = Tail(queue[f])]
  BY DEF Take
<1>4. writing' \in [feed : Feeds, msg : Nat, left : SUBSET Conns]
  BY <1>2, <1>3 DEF TypeOK
<1>5. queue' \in [Feeds -> Seq(Nat \ {0})]
  BY <1>2, <1>3 DEF TypeOK
<1>6. \A g \in Feeds : Len(queue'[g]) <= Buffer
  BY <1>1, <1>2, <1>3, BoundAssumption DEF TypeOK
<1>7. QED
  BY <1>4, <1>5, <1>6 DEF Take, TypeOK, netVars

LEMMA TypeConnection ==
  ASSUME TypeOK, NEW c \in Conns,
         \/ Upgrade(c) \/ Register(c) \/ ReadFails(c) \/ Unregister(c) \/ Reap(c)
  PROVE  TypeOK'
<1>1. /\ UNCHANGED <<queue, accepted, published, writing, peer, received>>
      /\ Feed[c] \in Feeds
  BY FeedAssumption DEF Upgrade, Register, ReadFails, Unregister, Reap, feedVars, netVars
<1>2. clients' \in [Feeds -> SUBSET Conns]
  <2>1. CASE Unregister(c) \/ Reap(c)
    <3>1. clients' = [clients EXCEPT ![Feed[c]] = clients[Feed[c]] \ {c}]
      BY <2>1 DEF Unregister, Reap, Remove
    <3>2. clients[Feed[c]] \ {c} \in SUBSET Conns
      BY <1>1 DEF TypeOK
    <3>3. QED
      BY <1>1, <3>1, <3>2 DEF TypeOK
  <2>2. CASE Register(c)
    <3>1. clients' = [clients EXCEPT ![Feed[c]] = clients[Feed[c]] \cup {c}]
      BY <2>2 DEF Register
    <3>2. clients[Feed[c]] \cup {c} \in SUBSET Conns
      BY <1>1 DEF TypeOK
    <3>3. QED
      BY <1>1, <3>1, <3>2 DEF TypeOK
  <2>3. CASE Upgrade(c) \/ ReadFails(c)
    <3>1. clients' = clients
      BY <2>3 DEF Upgrade, ReadFails
    <3>2. QED
      BY <3>1 DEF TypeOK
  <2>4. QED
    BY <2>1, <2>2, <2>3
<1>3. handler' \in [Conns -> {"away", "register", "read", "unregister", "gone"}]
  BY DEF Upgrade, Register, ReadFails, Unregister, Reap, TypeOK
<1>4. reapers' \in [Conns -> Nat]
  <2>1. CASE Reap(c)
    <3>1. reapers[c] \in Nat /\ reapers[c] > 0
      BY <2>1 DEF Reap, TypeOK
    <3>2. reapers[c] - 1 \in Nat
      BY <3>1
    <3>3. QED
      BY <2>1, <3>2 DEF Reap, TypeOK
  <2>2. CASE ~ Reap(c)
    BY <2>2 DEF Upgrade, Register, ReadFails, Unregister, TypeOK
  <2>3. QED
    BY <2>1, <2>2
<1>5. closes' \in [Conns -> Nat]
  <2>1. CASE Unregister(c) \/ Reap(c)
    <3>1. PICK n \in {closes[c], closes[c] + 1} : closes' = [closes EXCEPT ![c] = n]
      BY <2>1 DEF Unregister, Reap, Remove
    <3>2. QED
      BY <3>1 DEF TypeOK
  <2>2. CASE Upgrade(c) \/ Register(c) \/ ReadFails(c)
    BY <2>2 DEF Upgrade, Register, ReadFails, TypeOK
  <2>3. QED
    BY <2>1, <2>2
<1>6. QED
  BY <1>1, <1>2, <1>3, <1>4, <1>5 DEF TypeOK

LEMMA TypeWrite ==
  ASSUME TypeOK, NEW c \in Conns, Write(c)
  PROVE  TypeOK'
<1>1. /\ UNCHANGED <<clients, queue, accepted, published, handler, closes, peer>>
      /\ writing' = [writing EXCEPT !.left = writing.left \ {c}]
  BY DEF Write, WriteArrives, WriteLost, WriteFails, Written, feedVars, netVars
<1>2. writing' \in [feed : Feeds, msg : Nat, left : SUBSET Conns] /\ writing.msg \in Nat
  BY <1>1 DEF TypeOK
<1>3. received' \in [Conns -> Seq(Nat)]
  <2>1. CASE WriteArrives(c)
    <3>1. received' = [received EXCEPT ![c] = Append(received[c], writing.msg)]
      BY <2>1 DEF WriteArrives
    <3>2. received[c] \in Seq(Nat) /\ writing.msg \in Nat
      BY DEF TypeOK
    <3>3. Append(received[c], writing.msg) \in Seq(Nat)
      BY <3>2
    <3>4. QED
      BY <3>1, <3>3 DEF TypeOK
  <2>2. CASE WriteLost(c) \/ WriteFails(c)
    <3>1. received' = received
      BY <2>2 DEF WriteLost, WriteFails, netVars
    <3>2. QED
      BY <3>1 DEF TypeOK
  <2>3. QED
    BY <2>1, <2>2 DEF Write
<1>4. reapers' \in [Conns -> Nat]
  BY DEF Write, WriteArrives, WriteLost, WriteFails, TypeOK
<1>5. QED
  BY <1>1, <1>2, <1>3, <1>4 DEF TypeOK

(* Every variable keeps its type, and no buffer ever holds more than its   *)
(* capacity, whatever the broadcasters, Run and the browsers do.           *)
THEOREM TypeCorrect == Spec => []TypeOK
<1>1. Init => TypeOK
  BY FeedAssumption, BoundAssumption DEF Init, TypeOK
<1>2. TypeOK /\ [Next]_vars => TypeOK'
  <2> SUFFICES ASSUME TypeOK, [Next]_vars PROVE TypeOK'
    OBVIOUS
  <2>1. CASE UNCHANGED vars \/ Idle
    <3>1. UNCHANGED vars
      BY <2>1 DEF Idle
    <3>2. QED
      BY <3>1 DEF vars, TypeOK
  <2>2. ASSUME NEW f \in Feeds, Announce(f) PROVE TypeOK'
    BY <2>2, TypeBroadcast DEF Announce, netVars
  <2>3. ASSUME NEW c \in Conns, CartUpdate(c) PROVE TypeOK'
    BY <2>3, TypeBroadcast, FeedAssumption DEF CartUpdate, netVars
  <2>4. ASSUME NEW c \in Conns, Stick(c) \/ Unstick(c) \/ Leave(c) PROVE TypeOK'
    BY <2>4 DEF Stick, Unstick, Leave, feedVars, TypeOK
  <2>5. QED
    BY <2>1, <2>2, <2>3, <2>4, TypeTake, TypeConnection, TypeWrite DEF Next, Environment, Run
<1>3. QED
  BY <1>1, <1>2, PTL DEF Spec, Safety

=============================================================================
