-------------------------------- MODULE Mirror --------------------------------
(***************************************************************************)
(* The customer display (pages/MirrorDisplayPage.tsx) behind the cart      *)
(* socket of the till (pages/POSPage.tsx).  Every change of the cart is    *)
(* sent as a whole; the server hands it on to whoever is connected then.   *)
(* A cart is reduced to whether it has items and what is due for it, which *)
(* is negative when a voucher exceeds the goods.  The display counts       *)
(* SUCCESS_DISPLAY_MS in Display ticks.  The till's page may be left and   *)
(* opened again: each opening has a socket and a memory of its own, but    *)
(* cartStore.ts keeps the cart until the whole application is reloaded.    *)
(***************************************************************************)
EXTENDS Integers, Sequences, TerminalConstants

VARIABLES
  cart,       (* the till's cart                                           *)
  lastTotal,  (* lastGrandTotalRef of the till                             *)
  tillLine,   (* the cart socket of this opening of the page               *)
  opening,    (* which opening it is: how many carts were sent before it   *)
  toServer,   (* sent by the till, not yet relayed                         *)
  mirrorLine, (* the display's socket                                      *)
  toMirror,   (* relayed, not yet handled                                  *)
  shown,      (* cartData                                                  *)
  had,        (* hadItemsRef                                               *)
  last,       (* lastGrandTotalRef of the display                          *)
  banner,     (* successAmount, 0 for null                                 *)
  timers,     (* ticks left of each timer that will hide the banner        *)
  (* book-keeping of the model, read by no guard but MaxLog's *)
  log,        (* the carts sent so far                                     *)
  handled,    (* the number of the message handled last                    *)
  source,     (* the opening it came from                                  *)
  age         (* ticks since the banner was put up                         *)

till    == <<cart, lastTotal, tillLine, opening, toServer, log>>
display == <<shown, had, last, banner, timers, handled, source, age>>
mirrorVars    == <<till, mirrorLine, toMirror, display>>

Message == [n : Nat \ {0}, opening : Nat, items : BOOLEAN, due : Int]

-----------------------------------------------------------------------------
(* The till.                                                               *)

Remembered(c) == IF c.due > 0 THEN c.due ELSE lastTotal

(* An emptied cart goes out with the total last asked for.                 *)
Due_AsIs(c) == c.due
Due(c) == IF ~ c.items /\ Remembered(c) > 0 THEN Remembered(c) ELSE c.due

Sent(c) ==
  [n |-> Len(log) + 1, opening |-> opening, items |-> c.items, due |-> Due(c)]

(* Any change of items or voucher, answers that come while the page is     *)
(* left included: the effect sends the cart if the socket is open and      *)
(* otherwise does nothing.                                                 *)
ChangeCart(c) ==
  /\ c # cart
  /\ cart' = c
  /\ IF tillLine = "open"
     THEN /\ Len(log) < MaxLog
          /\ log' = Append(log, c)
          /\ lastTotal' = Remembered(c)
          /\ toServer' = toServer \cup {Sent(c)}
     ELSE UNCHANGED <<log, lastTotal, toServer>>
  /\ UNCHANGED <<tillLine, opening, mirrorLine, toMirror, display>>

OpenTill ==
  /\ tillLine = "connecting"
  /\ tillLine' = "open"
  /\ UNCHANGED <<cart, lastTotal, opening, toServer, log, mirrorLine, toMirror, display>>

(* The socket is lost, or closed as the page is left.  Of what it sent the *)
(* server may have received any prefix.                                    *)
CloseTill ==
  /\ tillLine # "closed"
  /\ tillLine' = "closed"
  /\ \E k \in opening .. Len(log) : toServer' = {m \in toServer : m.n <= k}
  /\ UNCHANGED <<cart, lastTotal, opening, log, mirrorLine, toMirror, display>>

(* The page is opened again, after another page of the application, which  *)
(* keeps the cart, or by a reload, which does not; lastGrandTotalRef is    *)
(* new either way.                                                         *)
ReopenTill ==
  /\ tillLine = "closed" /\ Len(log) < MaxLog
  /\ tillLine' = "connecting"
  /\ opening' = Len(log)
  /\ lastTotal' = 0
  /\ cart' \in {cart, Empty}
  /\ UNCHANGED <<toServer, log, mirrorLine, toMirror, display>>

-----------------------------------------------------------------------------
(* The server: module Hub.  Each socket is read in order, by a goroutine   *)
(* of its own.  A message is lost on a display that is not registered, and *)
(* when the buffer is full.                                                *)

Oldest(m) == \A o \in toServer : o.opening = m.opening => m.n <= o.n

Relay ==
  /\ \E m \in toServer :
       /\ Oldest(m)
       /\ toServer' = toServer \ {m}
       /\ \/ mirrorLine = "up" /\ toMirror' = Append(toMirror, m)
          \/ UNCHANGED toMirror
  /\ UNCHANGED <<cart, lastTotal, tillLine, opening, log, mirrorLine, display>>

-----------------------------------------------------------------------------
(* The display.                                                            *)

ConnectMirror ==
  /\ mirrorLine = "down"
  /\ mirrorLine' = "up"
  /\ UNCHANGED <<till, toMirror, display>>

DisconnectMirror ==
  /\ mirrorLine = "up"
  /\ mirrorLine' = "down"
  /\ toMirror' = <<>>
  /\ UNCHANGED <<till, display>>

ReloadMirror ==
  /\ mirrorLine' = "down" /\ toMirror' = <<>>
  /\ shown' = NoCart /\ had' = FALSE /\ last' = 0 /\ banner' = 0 /\ timers' = {}
  /\ handled' = 0 /\ source' = 0 /\ age' = 0
  /\ UNCHANGED till

(* The empty cart after one with items is taken for a payment.             *)
Amount(m) == IF m.due > 0 THEN m.due ELSE last
Thanks(m) == had /\ ~ m.items /\ Amount(m) > 0

Timers_NotCleared(m) == IF Thanks(m) THEN timers \cup {Display} ELSE timers
Timers_ClearedAfterwards(m) == timers
Timers_Prolonged(m) ==
  IF Thanks(m) THEN {t + Display : t \in timers \cup {0}} ELSE timers
Timers(m) == IF Thanks(m) THEN {Display} ELSE timers

Banner_Kept(m) == IF Thanks(m) THEN Amount(m) ELSE banner
Banner(m) == IF Thanks(m) THEN Amount(m) ELSE 0

(* onmessage for "cart_update".                                            *)
CartUpdate ==
  /\ toMirror # <<>>
  /\ LET m == Head(toMirror) IN
     /\ had'    = m.items
     /\ shown'  = IF m.items THEN [items |-> TRUE, due |-> m.due] ELSE NoCart
     /\ last'   = IF m.items /\ m.due # 0 THEN m.due ELSE last
     /\ banner' = Banner(m)
     /\ timers' = Timers(m)
     /\ age'    = 0
     /\ handled' = m.n /\ source' = m.opening
  /\ toMirror' = Tail(toMirror)
  /\ UNCHANGED <<till, mirrorLine>>

(* Time passes while a timer runs; a timer that is due may fire late, but  *)
(* before the next tick.                                                   *)
Tick ==
  /\ timers # {} /\ 0 \notin timers
  /\ timers' = {t - 1 : t \in timers}
  /\ age' = age + 1
  /\ UNCHANGED <<till, mirrorLine, toMirror, shown, had, last, banner, handled, source>>

TimerFires ==
  /\ 0 \in timers
  /\ timers' = timers \ {0}
  /\ banner' = 0
  /\ UNCHANGED <<till, mirrorLine, toMirror, shown, had, last, handled, source, age>>

-----------------------------------------------------------------------------
MirrorInit ==
  /\ cart = Empty
  /\ lastTotal = 0
  /\ tillLine = "connecting"
  /\ opening = 0
  /\ toServer = {}
  /\ mirrorLine = "down"
  /\ toMirror = <<>>
  /\ shown = NoCart /\ had = FALSE /\ last = 0 /\ banner = 0 /\ timers = {}
  /\ log = <<>> /\ handled = 0 /\ source = 0 /\ age = 0

MirrorNext ==
  \/ \E c \in Carts : ChangeCart(c)
  \/ OpenTill \/ CloseTill \/ ReopenTill
  \/ Relay
  \/ ConnectMirror \/ DisconnectMirror \/ ReloadMirror
  \/ CartUpdate
  \/ Tick \/ TimerFires

(* Time passes, timers fire; a connected page handles what it received.    *)
MirrorFairness ==
  /\ WF_mirrorVars(Tick) /\ WF_mirrorVars(TimerFires)
  /\ WF_mirrorVars(Relay) /\ WF_mirrorVars(CartUpdate)

MirrorSafety == MirrorInit /\ [][MirrorNext]_mirrorVars
MirrorSpec   == MirrorSafety /\ MirrorFairness

-----------------------------------------------------------------------------
(* Properties.                                                             *)

MirrorTypeOK ==
  /\ cart \in Carts
  /\ lastTotal \in Nat
  /\ tillLine \in {"connecting", "open", "closed"}
  /\ opening \in Nat
  /\ toServer \subseteq Message
  /\ mirrorLine \in {"down", "up"}
  /\ toMirror \in Seq(Message)
  /\ shown \in Carts \cup {NoCart}
  /\ had \in BOOLEAN
  /\ last \in Int
  /\ banner \in Nat
  /\ timers \subseteq 0 .. Display
  /\ log \in Seq(Carts)
  /\ handled \in Nat /\ source \in Nat
  /\ age \in Nat

(* While the message of the last cart the till has sent is the one handled *)
(* last, the display shows that cart, and no banner over it, or no cart:   *)
(* whatever was lost before, and whatever timers are still running.        *)
ShowsCart ==
  (handled # 0 /\ handled = Len(log)) =>
    IF log[handled].items THEN shown = log[handled] /\ banner = 0 ELSE shown = NoCart

(* d is the last positive total among the carts o + 1 to n.                *)
LastAsked(d, o, n) ==
  \E i \in o + 1 .. n : log[i].due = d /\ d > 0 /\ \A j \in i + 1 .. n : log[j].due <= 0

(* The amount the display gives thanks for was asked for: as the last      *)
(* positive total since the till's page was opened, also when the display  *)
(* missed that one; only if there is none since, it may be an older one.   *)
ThanksForAsked ==
  banner # 0 =>
    \/ LastAsked(banner, source, handled)
    \/ /\ \A i \in source + 1 .. handled : log[i].due <= 0
       /\ \E i \in 1 .. Len(log) : log[i].due = banner

(* A timer set for an earlier banner never takes a later one down: a       *)
(* banner stays its full time unless a new message replaces it or the page *)
(* is opened again.                                                        *)
BannerStays ==
  [][banner # 0 /\ banner' = 0 =>
       age >= Display \/ CartUpdate \/ ReloadMirror]_mirrorVars

(* No banner stays for good, also when the socket is gone.                 *)
BannerEnds == banner # 0 ~> banner = 0
=============================================================================
