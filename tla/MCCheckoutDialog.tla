------------------------- MODULE MCCheckoutDialog -------------------------
(* CheckoutDialog for TLC: checkouts and payments are model values. *)
EXTENDS CheckoutDialog, TLC
CONSTANTS c1, c2, p1, p2, o1
Symmetry == Permutations(Checkouts) \cup Permutations(Posts)

\* Two checkouts and a payment of another tab where nothing is left behind, two
\* checkouts where one is created late, else one; only where the buyer goes back
\* is a draft that is ready edited.
Scope ==
    /\ NothingLeftBehind \/
          /\ Cardinality({c \in Checkouts : draft[c] # NULL}) <= IF "late" \in upsets THEN 2 ELSE 1
          /\ \A o \in OtherPosts : payment[o] = "NONE"
    /\ "back" \in upsets \/
          \A c \in Checkouts :
             draft[c] # NULL => draft[c].version <= IF draft[c].active = NULL THEN 3 ELSE 4
=============================================================================
