----------------------------- MODULE MCContents -----------------------------
(* Contents with connections and handles that TLC may permute.             *)
EXTENDS Contents, TLC

CONSTANTS c1, c2, h1, h2

MCConns   == { c1, c2 }
MCHandles == { h1, h2 }
Symmetry  == Permutations(MCConns) \cup Permutations(MCHandles)
=============================================================================
