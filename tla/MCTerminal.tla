------------------------------ MODULE MCTerminal ------------------------------
(* An instance of the two socket-fed displays of the terminal, the till's  *)
(* product grid and the customer's mirror.  They share no state, so a      *)
(* behaviour is one of the one or one of the other.                        *)
EXTENDS Grid, Mirror

VARIABLE part

(* Two totals to tell apart.                                               *)
MCCarts == {Empty} \cup {[items |-> TRUE, due |-> d] : d \in {2, 3}}

Init == part \in {"grid", "mirror"} /\ GridInit /\ MirrorInit

Next ==
  /\ UNCHANGED part
  /\ \/ part = "grid" /\ GridNext /\ UNCHANGED mirrorVars
     \/ part = "mirror" /\ MirrorNext /\ UNCHANGED gridVars

Spec == Init /\ [][Next]_<<part, gridVars, mirrorVars>> /\ MirrorFairness
=============================================================================
