--------------------------------- MODULE Hub ---------------------------------
(***************************************************************************)
(* The WebSocket hub of websocket/hub.go: one goroutine, Run, that alone   *)
(* owns the client maps and does every write; one handler goroutine per    *)
(* connection, which registers, reads until an error and unregisters; and  *)
(* the short-lived goroutines a failed write leaves behind to unregister   *)
(* its connection.  Register and unregister are unbuffered channels, so    *)
(* their senders wait for Run; broadcasts go through a buffer and are      *)
(* dropped when it is full, so their senders never wait.                   *)
(*                                                                         *)
(* The three feeds (stock, order, cart) are the same code three times over *)
(* one loop.  On the cart feed the clients themselves publish.             *)
(***************************************************************************)
EXTENDS Integers, Sequences, FiniteSets

CONSTANTS
  Feeds,      (* stock, order, cart                                          *)
  Conns,      (* connections; a browser that reconnects is a new one         *)
  Feed,       (* Feed[c]: the feed c subscribes to                           *)
  CartFeed,   (* the feed on which clients publish                           *)
  Buffer,     (* capacity of a broadcast channel: 256 in the code            *)
  MaxPublished (* bound: MaxPublished[f] broadcasts are made on feed f       *)

ASSUME FeedAssumption ==
  /\ Feed \in [Conns -> Feeds]
  /\ CartFeed \in Feeds
ASSUME BoundAssumption ==
  /\ Buffer \in Nat \ {0}
  /\ MaxPublished \in [Feeds -> Nat]

VARIABLES
  clients,   (* clients[f]: the connections in the map of feed f              *)
  queue,     (* queue[f]: the broadcast channel of f, oldest message first    *)
  accepted,  (* accepted[f]: messages ever put in queue[f]; each is named by  *)
             (* its number, 1, 2, ...                                         *)
  published, (* published[f]: broadcasts made on f, the dropped ones included *)
  writing,   (* the broadcast Run is in: message and connections left to write*)
  handler,   (* handler[c]: where the goroutine of c stands                   *)
  reapers,   (* reapers[c]: goroutines waiting to unregister c after a failed *)
             (* write                                                         *)
  closes,    (* closes[c]: how often Run has closed c                         *)
  peer,      (* peer[c]: the browser: "up", "stuck" (not reading, so a write  *)
             (* to it blocks) or "dead"                                       *)
  received   (* received[c]: the messages the browser has got                 *)

vars == <<clients, queue, accepted, published, writing, handler, reapers, closes,
          peer, received>>
feedVars == <<queue, accepted, published>>
netVars  == <<peer, received>>

(* Run is in its select, ready to receive.                                 *)
Selecting == writing.left = {}

-----------------------------------------------------------------------------
(* Broadcasts: BroadcastStock, BroadcastOrder, BroadcastCart.              *)

Broadcast_OneTooMany(f) ==
  /\ published[f] < MaxPublished[f]
  /\ published' = [published EXCEPT ![f] = @ + 1]
  /\ IF Len(queue[f]) <= Buffer
     THEN /\ accepted' = [accepted EXCEPT ![f] = @ + 1]
          /\ queue' = [queue EXCEPT ![f] = Append(@, accepted'[f])]
     ELSE UNCHANGED <<accepted, queue>>
Broadcast(f) ==
  /\ published[f] < MaxPublished[f]
  /\ published' = [published EXCEPT ![f] = @ + 1]
  /\ IF Len(queue[f]) < Buffer
     THEN /\ accepted' = [accepted EXCEPT ![f] = @ + 1]
          /\ queue' = [queue EXCEPT ![f] = Append(@, accepted'[f])]
     ELSE UNCHANGED <<accepted, queue>>

(* The order service, after a commit.                                      *)
Announce(f) ==
  /\ f # CartFeed
  /\ Broadcast(f)
  /\ UNCHANGED <<clients, writing, handler, reapers, closes, netVars>>

(* HandleCartWS relays what the till sends.                                *)
CartUpdate(c) ==
  /\ Feed[c] = CartFeed
  /\ handler[c] = "read" /\ peer[c] = "up" /\ closes[c] = 0
  /\ Broadcast(CartFeed)
  /\ UNCHANGED <<clients, writing, handler, reapers, closes, netVars>>

-----------------------------------------------------------------------------
(* Connections: HandleStockWS, HandleOrderWS, HandleCartWS, and the cases  *)
(* of Run they meet in.                                                    *)

Upgrade(c) ==
  /\ handler[c] = "away" /\ peer[c] = "up"
  /\ handler' = [handler EXCEPT ![c] = "register"]
  /\ UNCHANGED <<clients, feedVars, writing, reapers, closes, netVars>>

Register(c) ==
  /\ Selecting
  /\ handler[c] = "register"
  /\ clients' = [clients EXCEPT ![Feed[c]] = @ \cup {c}]
  /\ handler' = [handler EXCEPT ![c] = "read"]
  /\ UNCHANGED <<feedVars, writing, reapers, closes, netVars>>

(* ReadMessage fails: the browser has left, or Run has closed the          *)
(* connection.  The deferred send follows.                                 *)
ReadFails(c) ==
  /\ handler[c] = "read"
  /\ peer[c] = "dead" \/ closes[c] > 0
  /\ handler' = [handler EXCEPT ![c] = "unregister"]
  /\ UNCHANGED <<clients, feedVars, writing, reapers, closes, netVars>>

Remove_Always(c) ==
  /\ clients' = [clients EXCEPT ![Feed[c]] = @ \ {c}]
  /\ closes'  = [closes EXCEPT ![c] = @ + 1]
(* Run closes a connection when it takes it out of the map, and ignores    *)
(* one that is no longer there.                                            *)
Remove(c) ==
  /\ clients' = [clients EXCEPT ![Feed[c]] = @ \ {c}]
  /\ closes'  = [closes EXCEPT ![c] = IF c \in clients[Feed[c]] THEN @ + 1 ELSE @]

Unregister(c) ==
  /\ Selecting
  /\ handler[c] = "unregister"
  /\ Remove(c)
  /\ handler' = [handler EXCEPT ![c] = "gone"]
  /\ UNCHANGED <<feedVars, writing, reapers, netVars>>

Reap(c) ==
  /\ Selecting
  /\ reapers[c] > 0
  /\ Remove(c)
  /\ reapers' = [reapers EXCEPT ![c] = @ - 1]
  /\ UNCHANGED <<feedVars, writing, handler, netVars>>

-----------------------------------------------------------------------------
(* Run writes a broadcast to each client in turn.                          *)

Take_Newest(f) ==
  /\ Selecting
  /\ queue[f] # <<>>
  /\ writing' = [feed |-> f, msg |-> queue[f][Len(queue[f])], left |-> clients[f]]
  /\ queue' = [queue EXCEPT ![f] = SubSeq(@, 1, Len(@) - 1)]
  /\ UNCHANGED <<clients, accepted, published, handler, reapers, closes, netVars>>
Take(f) ==
  /\ Selecting
  /\ queue[f] # <<>>
  /\ writing' = [feed |-> f, msg |-> Head(queue[f]), left |-> clients[f]]
  /\ queue' = [queue EXCEPT ![f] = Tail(@)]
  /\ UNCHANGED <<clients, accepted, published, handler, reapers, closes, netVars>>

Written(c) == writing' = [writing EXCEPT !.left = @ \ {c}]

WriteArrives(c) ==
  /\ c \in writing.left
  /\ peer[c] = "up"
  /\ received' = [received EXCEPT ![c] = Append(@, writing.msg)]
  /\ Written(c)
  /\ UNCHANGED <<clients, feedVars, handler, reapers, closes, peer>>

(* The kernel still takes the bytes, but nobody reads them.                *)
WriteLost(c) ==
  /\ c \in writing.left
  /\ peer[c] = "dead"
  /\ Written(c)
  /\ UNCHANGED <<clients, feedVars, handler, reapers, closes, netVars>>

(* The error starts a goroutine to unregister c: Run must not send to a    *)
(* channel only Run receives from.                                         *)
WriteFails(c) ==
  /\ c \in writing.left
  /\ peer[c] = "dead"
  /\ Written(c)
  /\ reapers' = [reapers EXCEPT ![c] = @ + 1]
  /\ UNCHANGED <<clients, feedVars, handler, closes, netVars>>

(* Without the goroutine Run would stand at the send, waiting for itself.  *)
Write_SendInline(c) ==
  /\ reapers[c] = 0
  /\ \/ WriteArrives(c)
     \/ WriteLost(c)
     \/ /\ c \in writing.left /\ peer[c] = "dead"
        /\ reapers' = [reapers EXCEPT ![c] = 1]
        /\ UNCHANGED <<clients, feedVars, writing, handler, closes, netVars>>
Write(c) == WriteArrives(c) \/ WriteLost(c) \/ WriteFails(c)

-----------------------------------------------------------------------------
(* Browsers.  No write deadline is set, so a write to a browser that has   *)
(* stopped reading blocks until the browser reads again or dies.           *)

Stick(c) ==
  /\ peer[c] = "up" /\ handler[c] # "away"
  /\ peer' = [peer EXCEPT ![c] = "stuck"]
  /\ UNCHANGED <<clients, feedVars, writing, handler, reapers, closes, received>>

Unstick(c) ==
  /\ peer[c] = "stuck"
  /\ peer' = [peer EXCEPT ![c] = "up"]
  /\ UNCHANGED <<clients, feedVars, writing, handler, reapers, closes, received>>

Leave(c) ==
  /\ peer[c] # "dead" /\ handler[c] # "away"
  /\ peer' = [peer EXCEPT ![c] = "dead"]
  /\ UNCHANGED <<clients, feedVars, writing, handler, reapers, closes, received>>

-----------------------------------------------------------------------------
Init ==
  /\ clients = [f \in Feeds |-> {}]
  /\ queue = [f \in Feeds |-> <<>>]
  /\ accepted = [f \in Feeds |-> 0]
  /\ published = [f \in Feeds |-> 0]
  /\ writing = [feed |-> CartFeed, msg |-> 0, left |-> {}]
  /\ handler = [c \in Conns |-> "away"]
  /\ reapers = [c \in Conns |-> 0]
  /\ closes = [c \in Conns |-> 0]
  /\ peer = [c \in Conns |-> "up"]
  /\ received = [c \in Conns |-> <<>>]

Run ==
  \/ \E f \in Feeds : Take(f)
  \/ \E c \in Conns : Register(c) \/ Unregister(c) \/ Reap(c) \/ Write(c)

Environment ==
  \/ \E f \in Feeds : Announce(f)
  \/ \E c \in Conns : \/ CartUpdate(c) \/ Upgrade(c)
                      \/ Stick(c) \/ Unstick(c) \/ Leave(c)

(* Every connection is over and every message handled.                     *)
Idle ==
  /\ \A c \in Conns : handler[c] = "gone" /\ reapers[c] = 0
  /\ \A f \in Feeds : queue[f] = <<>>
  /\ Selecting
  /\ UNCHANGED vars

Next == Environment \/ Run \/ Idle \/ \E c \in Conns : ReadFails(c)

(* Run goes on as long as it can; a Go select picks at random among its    *)
(* ready cases, so each is strongly fair: no case is passed over for ever. *)
(* A goroutine whose read has failed goes on.  Browsers, tills and the     *)
(* order service owe nothing.                                              *)
Fairness ==
  /\ \A f \in Feeds : SF_vars(Take(f))
  /\ \A c \in Conns : /\ SF_vars(Register(c) \/ Unregister(c))
                      /\ SF_vars(Reap(c))
                      /\ WF_vars(Write(c)) /\ WF_vars(ReadFails(c))

Safety == Init /\ [][Next]_vars
Spec   == Safety /\ Fairness

-----------------------------------------------------------------------------
(* Properties.                                                             *)

TypeOK ==
  /\ clients \in [Feeds -> SUBSET Conns]
  /\ queue \in [Feeds -> Seq(Nat \ {0})]
  /\ \A f \in Feeds : Len(queue[f]) <= Buffer
  /\ accepted \in [Feeds -> Nat] /\ published \in [Feeds -> Nat]
  /\ writing \in [feed : Feeds, msg : Nat, left : SUBSET Conns]
  /\ handler \in [Conns -> {"away", "register", "read", "unregister", "gone"}]
  /\ reapers \in [Conns -> Nat] /\ closes \in [Conns -> Nat]
  /\ peer \in [Conns -> {"up", "stuck", "dead"}]
  /\ received \in [Conns -> Seq(Nat)]

(* Whichever of its handler and the reapers of failed writes comes first,  *)
(* and however many they are, a connection is closed once, and none is     *)
(* left in a map, or open, when its handler has ended.                     *)
ClosedOnce ==
  \A c \in Conns :
    /\ closes[c] <= 1
    /\ handler[c] = "gone" => closes[c] = 1 /\ \A f \in Feeds : c \notin clients[f]
    /\ c \in clients[Feed[c]] => closes[c] = 0

(* What a browser has got is an unbroken run of its feed's messages, in    *)
(* order: none twice, none overtaken, and none missing in between that the *)
(* buffer accepted, though one Run serves every feed and clients come and  *)
(* go.                                                                     *)
Gapless ==
  \A c \in Conns : \A i \in 1 .. Len(received[c]) - 1 :
    received[c][i + 1] = received[c][i] + 1

NoneStuck == \A c \in Conns : peer[c] # "stuck"

(* If from some time on no browser is stuck, a message accepted while a    *)
(* browser is subscribed reaches it, unless the browser dies.              *)
Reaches ==
  \A c \in Conns : \A n \in 1 .. MaxPublished[Feed[c]] :
    (/\ c \in clients[Feed[c]]
     /\ \E i \in DOMAIN queue[Feed[c]] : queue[Feed[c]][i] = n)
      ~> (peer[c] = "dead" \/ \E i \in DOMAIN received[c] : received[c][i] = n)
Delivered == <>[]NoneStuck => Reaches

(* On the same condition no goroutine leaks: handlers of dead browsers end *)
(* and so does every reaper, while Run never waits for itself.             *)
Ends ==
  \A c \in Conns :
    (peer[c] = "dead" /\ handler[c] # "away") ~> (handler[c] = "gone" /\ reapers[c] = 0)
NoLeak == <>[]NoneStuck => Ends

=============================================================================
