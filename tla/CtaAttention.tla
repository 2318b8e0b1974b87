---------------------------- MODULE CtaAttention ----------------------------
(***************************************************************************)
(* What one CTA of the forward kernel promises, whatever its warpgroups,   *)
(* pipelines and barriers do: every share of every work tile it is given   *)
(* is written to global memory exactly once, with the attention of that    *)
(* tile's query block over the tile's own key/value blocks, each key block *)
(* paired with its own value block, in the order the blocks are listed.    *)
(***************************************************************************)
EXTENDS Naturals, Sequences

CONSTANT Shares  (* the parts of a tile's output, one per MMA warpgroup    *)

VARIABLES
  work,  (* work[t]: the terms the output of tile t accumulates (given)    *)
  out    (* out[t][g]: what has been written for share g of tile t         *)

vars == <<work, out>>

Init == out = [t \in DOMAIN work |-> [g \in Shares |-> << >>]]

(* Some shares of one tile, none of them written before, are written.      *)
Write(t, G) ==
  /\ \A g \in G : out[t][g] = << >>
  /\ out' = [out EXCEPT ![t] =
               [g \in Shares |-> IF g \in G THEN <<work[t]>> ELSE out[t][g]]]
  /\ UNCHANGED work

Next == \E t \in DOMAIN work, G \in (SUBSET Shares) \ {{}} : Write(t, G)

Spec == Init /\ [][Next]_vars /\ WF_vars(Next)

=============================================================================
