-------------------------------- MODULE MCHub --------------------------------
(* An instance of Hub for TLC: a till and a mirror on the cart feed, and   *)
(* a stock feed that nobody follows but that Run has to serve as well.     *)
EXTENDS Hub

CONSTANTS till, mirror

MCFeed == [c \in Conns |-> "cart"]
MCMaxPublished == [f \in Feeds |-> IF f = "cart" THEN 3 ELSE 1]
=============================================================================
