--------------------------- MODULE MCFetchPipeline ---------------------------
(* Small instances of FetchPipeline for TLC. *)
EXTENDS FetchPipeline, TLC

CONSTANTS c1, c2, c3, a, r, k1, k2

(* Two callers in the one worker. *)
Alone == (c1 :> a) @@ (c2 :> a)

(* Two callers in a live worker, one in a worker in replay mode.           *)
Replaying == (c1 :> a) @@ (c2 :> a) @@ (c3 :> r)

(* The callers of the one worker are alike, and so are its keys. *)
Symmetry == Permutations(Clients) \union Permutations(Keys)
=============================================================================
