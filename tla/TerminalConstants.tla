-------------------------- MODULE TerminalConstants --------------------------
(* The sizes of the terminal: the till's product grid (module Grid) and    *)
(* the customer display (module Mirror).                                   *)
EXTENDS Integers

CONSTANTS
  (* the product grid *)
  Fetches,  (* the product lists a till may be waiting for at one time     *)
  Screen,   (* the grid itself                                             *)
  Absent,   (* the product is not in the grid, or the answer not read      *)
  Shelf,    (* bound: pieces on the shelf                                  *)
  MaxShort, (* bound: pieces sold that were not there                      *)
  MaxSilent,(* bound: pieces put back unannounced that a copy may miss     *)
  (* the customer display *)
  Carts,    (* states of the cart: [items, due]                            *)
  NoCart,   (* nothing shown                                               *)
  Display,  (* how long the banner stays, in ticks                         *)
  MaxLog    (* bound: cart changes that are sent                           *)

ASSUME GridAssumption ==
  /\ Screen \notin Fetches
  /\ Absent \notin Int
  /\ Shelf \in Nat /\ MaxShort \in Nat /\ MaxSilent \in Nat

Empty == [items |-> FALSE, due |-> 0]

ASSUME MirrorAssumption ==
  /\ Carts \subseteq [items : BOOLEAN, due : Int]
  /\ \A c \in Carts : ~ c.items => c.due <= 0
  /\ Empty \in Carts
  /\ NoCart \notin Carts
  /\ Display \in Nat \ {0} /\ MaxLog \in Nat
=============================================================================
