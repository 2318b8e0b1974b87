------------------------------- MODULE Decoder -------------------------------
(***************************************************************************)
(* What generation promises: a call extends the prompt by tokens, each     *)
(* sampled from the model's distribution given exactly the text before it. *)
(* How many tokens one step adds, and how they were found, is not visible. *)
(* A call that is not sound extends its text too, by tokens of which       *)
(* nothing is promised; which calls are sound is the implementation's to   *)
(* say when they start.                                                    *)
(***************************************************************************)
EXTENDS Naturals, Sequences

VARIABLES text,   \* the prompt and the tokens emitted so far
          seen,   \* for each emitted token, what its distribution depended on
          busy,
          sound

vars == <<text, seen, busy, sound>>

Init == text = <<>> /\ seen = <<>> /\ ~busy /\ sound = TRUE

Call == ~busy /\ busy' /\ text' # <<>> /\ seen' = <<>> /\ sound' \in BOOLEAN

Emit ==
  /\ busy /\ busy' /\ sound' = sound
  /\ Len(text') > Len(text)
  /\ SubSeq(text', 1, Len(text)) = text
  /\ sound => seen' = seen \o [i \in 1 .. Len(text') - Len(text) |->
                                  SubSeq(text', 1, Len(text) + i - 1)]

Return == busy /\ ~busy' /\ text' = <<>> /\ seen' = <<>> /\ sound' = TRUE

Next == Call \/ Emit \/ Return

Spec == Init /\ [][Next]_vars
=============================================================================
