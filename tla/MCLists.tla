------------------------------ MODULE MCLists -------------------------------
(***************************************************************************)
(* Lists with two games of one file and one of two discs, and a collection *)
(* beside Favorites that someone may have written by hand.                 *)
(***************************************************************************)
EXTENDS Lists, TLC

CONSTANTS g, h, m

MCDiscCount == (g :> 0) @@ (h :> 0) @@ (m :> 2)
MCByHand == {[n \in Names |-> NoFile]} \cup
            {[n \in Names |-> IF n = "c" THEN Unended(l) ELSE NoFile] :
               l \in {<<<<g, 0>>, <<h, 0>>>>, <<<<h, 0>>, <<g, 0>>>>}}

Symmetric == Permutations({g, h})

=============================================================================
