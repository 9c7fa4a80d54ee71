--------------------------------- MODULE Grid ---------------------------------
(***************************************************************************)
(* The stock a till shows for a product (the product grid of               *)
(* pages/POSPage.tsx, seen through one product), against the stock in the  *)
(* database.  A fetch sets it, a message on /ws/stock subtracts what was   *)
(* sold (by any till, this one included), and nothing orders the two.      *)
(* Messages are counted in pieces: one about q pieces is q pieces that     *)
(* happen to travel together.  Sales are of one piece or more.  A          *)
(* behaviour is one opening of the page, which starts with no grid, no     *)
(* socket and no fetch under way.                                          *)
(***************************************************************************)
EXTENDS Integers, TerminalConstants

(* Copies of the stock: the one shown, and those in answers under way.     *)
Copies == Fetches \cup {Screen}

VARIABLES
  stock,   (* products.stock, committed                                    *)
  unsent,  (* pieces sold whose broadcast is still to come                 *)
  feed,    (* pieces in messages on their way to the till                  *)
  line,    (* the till's stock socket                                      *)
  asked,   (* the fetches the server has not yet read the list for         *)
  copy,    (* copy[c]: a stock read from the database, and changed since   *)
  (* book-keeping of the model, read by no guard but MaxSilent's *)
  low,     (* low[c]: how many pieces too low copy c may be                *)
  high     (* high[c]: how many pieces too high                            *)

gridVars == <<stock, unsent, feed, line, asked, copy, low, high>>

Live(c) == copy[c] # Absent

Raised(C, k) == [c \in Copies |-> IF c \in C /\ Live(c) THEN high[c] + k ELSE high[c]]

-----------------------------------------------------------------------------
(* The server.                                                             *)

(* A sale commits, also one of a piece that is not there (OrderTx); its    *)
(* broadcast follows the commit.                                           *)
Sell(k) ==
  /\ k <= stock + MaxShort
  /\ stock'  = stock - k
  /\ unsent' = unsent + k
  /\ UNCHANGED <<feed, line, asked, copy, low, high>>

(* Cancellations and deliveries are not broadcast ...                      *)
PutBack(k) ==
  /\ stock + unsent + feed + k <= Shelf
  /\ \A c \in Copies : low[c] + k <= MaxSilent
  /\ stock' = stock + k
  /\ low'   = [c \in Copies |-> IF Live(c) THEN low[c] + k ELSE low[c]]
  /\ UNCHANGED <<unsent, feed, line, asked, copy, high>>

(* ... nor are corrections and product forms.                              *)
TakeOff(k) ==
  /\ k <= stock + MaxShort
  /\ stock' = stock - k
  /\ high'  = Raised(Copies, k)
  /\ UNCHANGED <<unsent, feed, line, asked, copy, low>>

(* BroadcastStock reaches the tills that are registered then, or is        *)
(* dropped without a word because the hub's buffer is full.                *)
Announced_BeforeCommit(k) == TRUE
Announced(k) == k <= unsent

Broadcast(k) ==
  /\ Announced(k)
  /\ unsent' = unsent - k
  /\ \/ line = "up" /\ feed' = feed + k /\ UNCHANGED high
     \/ high' = Raised(Copies, k) /\ UNCHANGED feed
  /\ UNCHANGED <<stock, line, asked, copy, low>>

-----------------------------------------------------------------------------
(* The till.                                                               *)

(* useWebSocket: connected 100 ms after the page opens, and again 3 s      *)
(* after a loss.  What was on its way then is lost.                        *)
ConnectTill ==
  /\ line = "down"
  /\ line' = "up"
  /\ UNCHANGED <<stock, unsent, feed, asked, copy, low, high>>

DisconnectTill ==
  /\ line = "up"
  /\ line' = "down"
  /\ feed' = 0
  /\ high' = Raised(Copies, feed)
  /\ UNCHANGED <<stock, unsent, asked, copy, low>>

(* The handler of "stock_update" changes what is shown; the answers under  *)
(* way stay as they were read.                                             *)
After_UnlessFetching(k) ==
  IF asked # {} \/ \E f \in Fetches : Live(f) THEN copy[Screen] ELSE copy[Screen] - k
After(k) == copy[Screen] - k

StockUpdate(k) ==
  /\ k <= feed
  /\ feed' = feed - k
  /\ copy' = IF Live(Screen) THEN [copy EXCEPT ![Screen] = After(k)] ELSE copy
  /\ high' = Raised(Fetches, k)
  /\ UNCHANGED <<stock, unsent, line, asked, low>>

(* fetchProducts: when the page opens, when page, search or category       *)
(* changes, and after a checkout.  Nothing cancels an earlier one.         *)
Ask(f) ==
  /\ f \notin asked /\ ~ Live(f)
  /\ asked' = asked \cup {f}
  /\ UNCHANGED <<stock, unsent, feed, line, copy, low, high>>

(* The server reads the list; sales not yet announced, or announced and    *)
(* not yet handled, are in it already.                                     *)
Read(f) ==
  /\ f \in asked
  /\ asked' = asked \ {f}
  /\ copy'  = [copy EXCEPT ![f] = stock]
  /\ low'   = [low  EXCEPT ![f] = unsent + feed]
  /\ high'  = [high EXCEPT ![f] = 0]
  /\ UNCHANGED <<stock, unsent, feed, line>>

(* The answer replaces the grid, whichever was asked for first.            *)
Apply(f) ==
  /\ Live(f)
  /\ copy' = [copy EXCEPT ![Screen] = copy[f], ![f] = Absent]
  /\ low'  = [low  EXCEPT ![Screen] = low[f],  ![f] = 0]
  /\ high' = [high EXCEPT ![Screen] = high[f], ![f] = 0]
  /\ UNCHANGED <<stock, unsent, feed, line, asked>>

(* The call fails and the grid is emptied; or its list lacks the product.  *)
Lose(f) ==
  /\ f \in asked \/ Live(f)
  /\ asked' = asked \ {f}
  /\ copy' = [copy EXCEPT ![Screen] = Absent, ![f] = Absent]
  /\ low'  = [low  EXCEPT ![Screen] = 0, ![f] = 0]
  /\ high' = [high EXCEPT ![Screen] = 0, ![f] = 0]
  /\ UNCHANGED <<stock, unsent, feed, line>>

-----------------------------------------------------------------------------
GridInit ==
  /\ stock \in 0 .. Shelf
  /\ unsent = 0 /\ feed = 0
  /\ line = "down"
  /\ asked = {}
  /\ copy = [c \in Copies |-> Absent]
  /\ low  = [c \in Copies |-> 0]
  /\ high = [c \in Copies |-> 0]

GridNext ==
  \/ \E k \in 1 .. Shelf :
       Sell(k) \/ PutBack(k) \/ TakeOff(k) \/ Broadcast(k) \/ StockUpdate(k)
  \/ ConnectTill \/ DisconnectTill
  \/ \E f \in Fetches : Ask(f) \/ Read(f) \/ Apply(f) \/ Lose(f)

GridSpec == GridInit /\ [][GridNext]_gridVars

-----------------------------------------------------------------------------
(* Properties.                                                             *)

GridTypeOK ==
  /\ stock \in Int /\ unsent \in Nat /\ feed \in Nat
  /\ line \in {"up", "down"}
  /\ asked \subseteq Fetches
  /\ copy \in [Copies -> Int \cup {Absent}]
  /\ low \in [Copies -> Nat] /\ high \in [Copies -> Nat]

(* What a copy would be if it were up to date: the stock before the sales  *)
(* whose messages the till has still to handle.                            *)
Expected == stock + unsent + feed

(* The grid is off by no more than its last refetch and the socket         *)
(* explain.  It may be too low by the sales that were in the refetched     *)
(* list but announced later, and by what was put back unannounced; too     *)
(* high by the sales handled while that answer was on its way, by those    *)
(* announced while the socket was down or the hub's buffer full, and by    *)
(* unannounced corrections.                                                *)
(* In particular a refetch that nothing overlaps leaves it exact.          *)
DriftExplained ==
  Live(Screen) => /\ Expected - low[Screen] <= copy[Screen]
                  /\ copy[Screen] <= Expected + high[Screen]

=============================================================================
