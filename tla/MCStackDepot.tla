---------------------------- MODULE MCStackDepot ----------------------------
EXTENDS StackDepot, TLC

CONSTANTS h1, h2, h3

(* h1 and h2 share a bucket. *)
Hash == h1 :> 1 @@ h2 :> 1 @@ h3 :> 2

Flags == {-1, 0, 1}
=============================================================================
