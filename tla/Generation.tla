----------------------------- MODULE Generation -----------------------------
(***************************************************************************)
(* decode and decode_speculative (utils/generation.py) over a sequence of  *)
(* calls on the same models: the K/V caches of the main and the draft      *)
(* model, the CUDA graphs kept between calls (DecodingCGCache) and the     *)
(* rotary table the captured graphs point to.                              *)
(*                                                                         *)
(* One step is one evaluation of a model.  A sampled token is any token:   *)
(* logits are represented by what they depend on.  The rows of a batch go  *)
(* through the same steps (equal lengths), so one row is modelled and the  *)
(* batch size only decides about allocation.                               *)
(***************************************************************************)
EXTENDS KvCache

CONSTANTS Token,        \* the vocabulary: 1 .. n
          EosToken,
          Arch,         \* the attention paths the models are built with
          MaxLength, PromptLength, BatchSize, Lookahead,   \* arguments of calls
          MaxCalls      \* bound on the calls of one session

ASSUME GenerationAssumption ==
  /\ Token \subseteq Nat \ {0} /\ EosToken \in Token
  /\ Arch \subseteq {"rotary", "flash", "plain"}
  /\ \A n \in MaxLength \cup PromptLength \cup BatchSize \cup Lookahead : n \in Nat \ {0}

VARIABLES arch,      \* how both models attend
          graphs,    \* model._decoding_cache of each model
          table,     \* the rotary cos/sin table of each model (shared by its layers)
          calls,     \* calls made so far
          call,      \* the arguments of the current call
          pc,
          ip,        \* inference_params of each model
          cells,     \* the K/V memory the current call uses, per model
          out,       \* torch.cat(sequences): the prompt and the tokens sampled
          last,      \* sequences[-1].shape[1]
          scores,    \* what the logits of each sampled token depended on
          drafts,    \* tokens_draft of the current round
          draftSeen, \* what the logits of each draft token depended on
          spec,      \* n_spec_tokens of the current round
          failed     \* an assertion, a missing graph or a write outside the cache

session == <<arch, graphs, table, calls>>
vars == <<arch, graphs, table, calls, call, pc, ip, cells, out, last, scores,
          drafts, draftSeen, spec, failed>>

Model == {"main", "draft"}
NoGraphs == [maxBatch |-> 0, maxLen |-> 0, kv |-> 0, params |-> InferenceParams(0, 0, 0),
             callables |-> {}]
NoCall == [kind |-> "none", cg |-> FALSE, batch |-> 1, prompt |-> 1, max |-> 1,
           lookahead |-> 1, eos |-> FALSE]

-----------------------------------------------------------------------------
(* The rotary table                                                        *)

\* _update_cos_sin_cache: a new tensor when the table is too short, missing,
\* or made in inference mode and now needed for training.
UpdateCosSinCache(t, len, training) ==
  IF len > t.len \/ (training /\ t.inference)
  THEN [id |-> t.id + 1, len |-> len, inference |-> ~training]
  ELSE t

Rotated(t, len) ==
  IF arch = "flash" THEN t ELSE UpdateCosSinCache(t, len, FALSE)

-----------------------------------------------------------------------------
(* CUDA graphs                                                             *)

Invalid(g, c) == c.batch > g.maxBatch \/ c.max > g.maxLen

(* Mutant: graphs of the old memory are kept when a new one is allocated.  *)
AllocatedKeepingGraphs(g, c) ==
  IF Invalid(g, c)
  THEN [maxBatch |-> c.batch, maxLen |-> c.max, kv |-> g.kv + 1,
        params |-> InferenceParams(c.max, c.batch, c.prompt), callables |-> g.callables]
  ELSE g
\* The part of update_graph_cache that allocates, with lengths_per_sample.
Allocated(g, c) ==
  IF Invalid(g, c)
  THEN [maxBatch |-> c.batch, maxLen |-> c.max, kv |-> g.kv + 1,
        params |-> InferenceParams(c.max, c.batch, c.prompt), callables |-> {}]
  ELSE g

Missing(g, c, seqlens) ==
  {n \in seqlens : ~\E k \in g.callables : k.batch = c.batch /\ k.seqlen = n}

Largest(S) == CHOOSE n \in S : \A k \in S : k <= n

\* capture_graph: the graph keeps the K/V memory, the rotary table and, as a
\* number, the offset of the moment; lengths_per_sample stays behind the offset.
CapturedGraph(g, t, c, n) ==
  [batch |-> c.batch, seqlen |-> n, kv |-> g.kv, table |-> t.id, offset |-> c.max - n]

UpdatedGraphs(g, t, c, seqlens) ==
  LET fresh == Allocated(g, c)
      missing == Missing(fresh, c, seqlens)
      rotated == IF missing = {} THEN t ELSE Rotated(t, fresh.params.maxLen)
      lengths == IF missing = {} THEN fresh.params.lengths ELSE c.max - Largest(missing)
  IN  [fresh EXCEPT !.callables = fresh.callables
                                    \cup {CapturedGraph(fresh, rotated, c, n) : n \in missing},
                    !.params = [fresh.params EXCEPT !.lengths = lengths]]

UpdatedTable(g, t, c, seqlens) ==
  LET fresh == Allocated(g, c)
  IN  IF Missing(fresh, c, seqlens) = {} THEN t
      ELSE Rotated(t, fresh.params.maxLen)

\* The calls capture_graph makes pass the assertions.
Capturable(g, t, c, seqlens) ==
  LET fresh == Allocated(g, c)
  IN  \A n \in Missing(fresh, c, seqlens) :
        Accepts(arch, [fresh.params EXCEPT !.offset = c.max - n, !.lengths = c.max - n],
                FreshCache(fresh.maxLen), c.batch, n, Rotated(t, fresh.params.maxLen).len)

(* Mutant: no graph for the lookahead plus the last token.                 *)
DecodingSeqlensOneShort(c, m) ==
  IF c.kind = "decode" THEN (IF m = "main" THEN {1} ELSE {})
  ELSE IF m = "draft" THEN {1, 2} ELSE 1 .. c.lookahead

DecodingSeqlens(c, m) ==
  IF c.kind = "decode" THEN (IF m = "main" THEN {1} ELSE {})
  ELSE IF m = "draft" THEN {1, 2} ELSE 1 .. c.lookahead + 1

-----------------------------------------------------------------------------
(* Calling a model                                                         *)

\* The graph dispatch() finds for n tokens.
GraphFor(m, n) == {k \in graphs[m].callables : k.batch = call.batch /\ k.seqlen = n}

Replays(m) == call.cg /\ ip[m].offset > 0

Replayed(m, n) == CHOOSE k \in GraphFor(m, n) : TRUE

\* inference_params as the kernels see them: a replayed graph has the offset
\* it was captured with, and run() has stored seqlen in lengths_per_sample.
SeenParams(m, n) ==
  IF Replays(m)
  THEN [ip[m] EXCEPT !.offset = Replayed(m, n).offset, !.lengths = ip[m].offset]
  ELSE ip[m]

\* A graph replays kernels, not the assertions before them.
CanCall(m, toks) ==
  IF Replays(m)
  THEN /\ GraphFor(m, Len(toks)) # {}
       /\ Fits(cells[m], WriteAt(arch, SeenParams(m, Len(toks))), Len(toks))
  ELSE Accepts(arch, ip[m], cells[m], call.batch, Len(toks),
               Rotated(table[m], ip[m].maxLen).len)

\* The kernels of a graph read the table of the capture, which is freed when the
\* module makes another: its memory may hold anything then.
TableIntact(m, n) ==
  IF Replays(m) /\ arch # "flash" /\ Replayed(m, n).table # table[m].id
  THEN BOOLEAN ELSE {TRUE}

Evaluated(m, toks) ==
  {Evaluate(arch, SeenParams(m, Len(toks)), cells[m], toks, ip[m].offset, intact) :
     intact \in TableIntact(m, Len(toks))}

\* The logits of the last n of toks.
Logits(m, toks, after, n) ==
  Contexts(arch, SeenParams(m, Len(toks)), after, Len(toks), n)

\* The effect of get_logits: the cache, the table of an eager call, and
\* lengths_per_sample when a graph ran.
ModelCalled(m, toks, after, offset) ==
  /\ cells' = [cells EXCEPT ![m] = after]
  /\ ip' = [ip EXCEPT ![m] = [ip[m] EXCEPT !.offset = offset,
                                           !.lengths = SeenParams(m, Len(toks)).lengths]]
  /\ table' = IF Replays(m) THEN table
              ELSE [table EXCEPT ![m] = Rotated(table[m], ip[m].maxLen)]
  /\ UNCHANGED <<arch, graphs, calls, call, failed>>

Crash ==
  /\ failed' = TRUE /\ pc' = "done"
  /\ UNCHANGED <<session, call, ip, cells, out, last, scores, drafts, draftSeen, spec>>

Suffix(s, n) == SubSeq(s, Len(s) - n + 1, Len(s))
AtMost(a, b) == IF a <= b THEN a ELSE b

Sampled(new, seen, next) ==
  /\ out' = out \o new /\ last' = Len(new) /\ scores' = scores \o seen /\ pc' = next
  /\ drafts' = <<>> /\ draftSeen' = <<>> /\ spec' = 0

-----------------------------------------------------------------------------
(* Starting and ending a call                                              *)

Used(c) == IF c.kind = "decode" THEN {"main"} ELSE Model

\* A call finds or captures its graphs first: nothing asks whether those it finds
\* can still be replayed.  When a capture fails, so does the call.
Begin(c) ==
  /\ pc = "idle" /\ calls < MaxCalls /\ calls' = calls + 1
  /\ c.kind = "speculative" => (c.batch = 1 /\ ~c.eos)
  /\ LET graphed == IF c.cg THEN Used(c) ELSE {}
         updated(m) == UpdatedGraphs(graphs[m], table[m], c, DecodingSeqlens(c, m))
         params(m) == IF m \in graphed THEN Reset(updated(m).params, c.max, c.batch)
                      ELSE InferenceParams(c.max, c.batch, NoLengths)
     IN  IF \A m \in graphed : Capturable(graphs[m], table[m], c, DecodingSeqlens(c, m))
         THEN /\ graphs' = [m \in Model |->
                              IF m \in graphed THEN [updated(m) EXCEPT !.params = params(m)]
                              ELSE graphs[m]]
              /\ table' = [m \in Model |->
                             IF m \in graphed
                             THEN UpdatedTable(graphs[m], table[m], c, DecodingSeqlens(c, m))
                             ELSE table[m]]
              /\ ip' = [m \in Model |-> params(m)]
              /\ cells' = [m \in Model |->
                             FreshCache(IF m \in graphed THEN updated(m).maxLen ELSE c.max)]
              /\ pc' = IF c.kind = "decode" THEN "decode"
                       ELSE IF c.prompt >= c.max - 1 THEN "single" ELSE "choose"
              /\ UNCHANGED failed
         ELSE failed' = TRUE /\ pc' = "done" /\ UNCHANGED <<graphs, table, ip, cells>>
  /\ call' = c
  /\ out' = [i \in 1 .. c.prompt |-> 1] /\ last' = c.prompt
  /\ scores' = <<>> /\ drafts' = <<>> /\ draftSeen' = <<>> /\ spec' = 0
  /\ UNCHANGED arch

\* The cache of graphs keeps inference_params: reset overwrites the offset and the
\* lengths the call has left there before anything reads them.
Return ==
  /\ pc = "done" /\ ~failed /\ pc' = "idle"
  /\ call' = NoCall /\ out' = <<>> /\ last' = 0 /\ scores' = <<>>
  /\ drafts' = <<>> /\ draftSeen' = <<>> /\ spec' = 0
  /\ ip' = [m \in Model |-> InferenceParams(0, 0, NoLengths)]
  /\ cells' = [m \in Model |-> FreshCache(0)]
  /\ UNCHANGED <<session, failed>>

\* The model is trained on sequences of length len between two calls.
Train(len) ==
  /\ pc = "idle" /\ arch # "flash" /\ 0 < calls /\ calls < MaxCalls
  /\ table' = [table EXCEPT !["main"] = UpdateCosSinCache(table["main"], len, TRUE)]
  /\ UNCHANGED <<arch, graphs, calls, call, pc, ip, cells, out, last, scores,
                 drafts, draftSeen, spec, failed>>

-----------------------------------------------------------------------------
(* decode                                                                  *)

(* Mutant: the last token is not generated.                                *)
ShouldStopEarly ==
  /\ ip["main"].offset # 0
  /\ \/ call.eos /\ out[Len(out)] = EosToken
     \/ ip["main"].offset >= call.max - 2

ShouldStop ==
  /\ ip["main"].offset # 0
  /\ \/ call.eos /\ out[Len(out)] = EosToken
     \/ ip["main"].offset >= call.max - 1

DecodeStep ==
  /\ pc = "decode" /\ ~ShouldStop
  /\ LET toks == Suffix(out, last)
     IN  IF CanCall("main", toks)
         THEN \E after \in Evaluated("main", toks), t \in Token :
                /\ ModelCalled("main", toks, after, ip["main"].offset + Len(toks))
                /\ Sampled(<<t>>, Logits("main", toks, after, 1), "decode")
         ELSE Crash

DecodeDone ==
  /\ pc = "decode" /\ ShouldStop /\ pc' = "done"
  /\ UNCHANGED <<session, call, ip, cells, out, last, scores, drafts, draftSeen, spec, failed>>

-----------------------------------------------------------------------------
(* decode_speculative                                                      *)

First == ip["main"].offset = 0

\* One token from the main model: too close to max_length to speculate.
SingleStep ==
  /\ pc = "single"
  /\ LET toks == IF First THEN out ELSE Suffix(out, 1)
     IN  IF CanCall("main", toks)
         THEN \E after \in Evaluated("main", toks), t \in Token :
                /\ ModelCalled("main", toks, after, ip["main"].offset + Len(toks))
                /\ Sampled(<<t>>, Logits("main", toks, after, 1), "done")
         ELSE Crash

\* The top of the loop, and n_spec_tokens.
Choose ==
  /\ pc = "choose"
  /\ LET m == ip["main"].offset
         d == ip["draft"].offset
     IN  IF First
         THEN /\ pc' = "draft" /\ spec' = AtMost(call.lookahead, call.max - call.prompt - 1)
         ELSE IF m >= call.max - 1 THEN pc' = "done" /\ UNCHANGED spec
         ELSE IF m >= call.max - 2 THEN pc' = "single" /\ UNCHANGED spec
         ELSE /\ pc' = "draft" /\ spec' = AtMost(call.lookahead, call.max - d - 2)
  /\ UNCHANGED <<session, call, ip, cells, out, last, scores, drafts, draftSeen, failed>>

\* sample_tokens_draft, one token.
DraftStep ==
  /\ pc = "draft"
  /\ LET toks == IF drafts # <<>> THEN Suffix(drafts, 1)
                 ELSE IF First THEN out
                 ELSE Suffix(out, AtMost(2, last))
     IN  IF CanCall("draft", toks)
         THEN \E after \in Evaluated("draft", toks), t \in Token :
                /\ ModelCalled("draft", toks, after, ip["draft"].offset + Len(toks))
                /\ drafts' = Append(drafts, t)
                /\ draftSeen' = draftSeen \o Logits("draft", toks, after, 1)
                /\ pc' = IF Len(drafts) + 1 = spec THEN "verify" ELSE "draft"
                /\ UNCHANGED <<out, last, scores, spec>>
         ELSE Crash

\* The offsets after `generated` of the evaluated tokens were kept.
MainOffset(generated) ==
  IF First THEN call.prompt + generated - 1 ELSE ip["main"].offset + generated
(* Mutant: the draft model is taken to be as far as the main model.        *)
DraftOffsetOfMain(generated) == MainOffset(generated)
DraftOffset(generated) ==
  IF generated > 1 THEN MainOffset(generated) - 1 ELSE MainOffset(generated)

\* sample_speculative: a prefix of the drafts is accepted, then one token is
\* sampled from the main model (from the difference, if a draft was rejected).
(* Mutant: no token is sampled after the last draft.                       *)
AcceptedDrafts(k, t) == IF k = Len(drafts) THEN drafts ELSE SubSeq(drafts, 1, k) \o <<t>>
Accepted(k, t) == SubSeq(drafts, 1, k) \o <<t>>

VerifyStep ==
  /\ pc = "verify"
  /\ LET toks == (IF First THEN out ELSE Suffix(out, 1)) \o drafts
     IN  IF CanCall("main", toks)
         THEN \E after \in Evaluated("main", toks), k \in 0 .. spec, t \in Token :
                /\ cells' = [cells EXCEPT !["main"] = after]
                /\ ip' = [ip EXCEPT !["main"] =
                                      [ip["main"] EXCEPT
                                         !.offset = MainOffset(k + 1),
                                         !.lengths = SeenParams("main", Len(toks)).lengths],
                                    !["draft"] =
                                      [ip["draft"] EXCEPT !.offset = DraftOffset(k + 1)]]
                /\ table' = IF Replays("main") THEN table
                            ELSE [table EXCEPT !["main"] =
                                    Rotated(table["main"], ip["main"].maxLen)]
                /\ Sampled(Accepted(k, t),
                           SubSeq(Logits("main", toks, after, spec + 1), 1, k + 1), "choose")
                /\ UNCHANGED <<arch, graphs, calls, call, failed>>
         ELSE Crash

-----------------------------------------------------------------------------
Call == [kind : {"decode", "speculative"}, cg : BOOLEAN, batch : BatchSize,
         prompt : PromptLength, max : MaxLength, lookahead : Lookahead, eos : BOOLEAN]

NoTable == [id |-> 0, len |-> 0, inference |-> FALSE]

Init ==
  /\ arch \in Arch
  /\ graphs = [m \in Model |-> NoGraphs] /\ table = [m \in Model |-> NoTable]
  /\ calls = 0 /\ call = NoCall /\ pc = "idle"
  /\ ip = [m \in Model |-> InferenceParams(0, 0, NoLengths)]
  /\ cells = [m \in Model |-> FreshCache(0)]
  /\ out = <<>> /\ last = 0 /\ scores = <<>>
  /\ drafts = <<>> /\ draftSeen = <<>> /\ spec = 0 /\ failed = FALSE

\* Arguments a kind of call does not have are fixed, and the batch without graphs:
\* its rows go through the same steps in memory of their own.
Relevant(c) ==
  /\ c.kind = "decode" => \A n \in Lookahead : c.lookahead <= n
  /\ ~c.cg => \A n \in BatchSize : c.batch <= n

Step == DecodeStep \/ DecodeDone \/ SingleStep \/ Choose \/ DraftStep \/ VerifyStep \/ Return

Next == \/ \E c \in Call : Relevant(c) /\ Begin(c)
        \/ \E len \in MaxLength : Train(len)
        \/ Step

Spec == Init /\ [][Next]_vars

-----------------------------------------------------------------------------
(* Properties                                                              *)

\* Graphs can be replayed at a later offset when the kernels they recorded read it
\* from lengths_per_sample (the fast paths of a capture behind position 0), and while
\* the rotary table they point to is the module's.  Only graphs of fewer than
\* max_length tokens are ever replayed.
GraphsUsable ==
  call.cg =>
    \A m \in Used(call) : \A k \in graphs[m].callables :
      (k.batch = call.batch /\ k.seqlen \in DecodingSeqlens(call, m) /\ k.seqlen < call.max) =>
        /\ arch # "plain" /\ k.offset > 0
        /\ arch = "rotary" => k.table = table[m].id

\* Every emitted token was sampled from logits that depend on exactly the text
\* before it, and every draft token likewise: rejected drafts, entries of
\* earlier calls and re-evaluated positions never leak into the context
\* (the offset arithmetic of decode_speculative against the K/V cache).
LogitsSeeThePrefix ==
  /\ \A i \in DOMAIN scores : scores[i] = SubSeq(out, 1, call.prompt + i - 1)
  /\ \A i \in DOMAIN draftSeen : draftSeen[i] = out \o SubSeq(drafts, 1, i - 1)

\* That holds of every call without graphs and of every call whose graphs can be
\* replayed, whatever calls and trainings came before (generation.py:672-673 keeps
\* graphs by batch and length alone, so it does not hold of the others).
UsableGraphsSeeThePrefix == GraphsUsable => LogitsSeeThePrefix

\* The calls the code cannot serve: a prompt longer than max_length; graphs for more
\* tokens than max_length; with rotary, graphs for fewer sequences than their cache was
\* made for, or on a retrained model whose new table is shorter than that cache.
Refused(c) ==
  \/ c.prompt > c.max
  \/ /\ c.cg
     /\ \E m \in Used(c) :
          LET g == Allocated(graphs[m], c)
          IN  \/ \E n \in DecodingSeqlens(c, m) : n > c.max
              \/ /\ arch # "flash"
                 /\ \/ c.batch < g.maxBatch
                    \/ Rotated(table[m], g.params.maxLen).len < g.maxLen

\* No call fails: _update_kv_cache's assertions hold, the appends of the fast
\* paths stay inside the cache, and dispatch() finds a captured graph for every
\* number of tokens the decoding loops pass.
CallsNeverFail == ~failed

\* Only those calls fail.
OnlyRefusedCallsFail == failed => Refused(call)

\* A graph points to the K/V memory its inference_params own and, where it can be
\* replayed at all, to the module's rotary table.
PointsAtLiveMemory(m, k) ==
  /\ k.kv = graphs[m].kv
  /\ (arch = "rotary" /\ k.offset > 0) => k.table = table[m].id

\* As long as a graph is kept, nothing takes that memory away but training the model
\* and a call without graphs for more positions than the table has: allocations, captures
\* and the prompt passes of other calls never do (generation.py:635-682, rotary.py:392-398).
StaysLive ==
  \A m \in Model : \A k \in graphs[m].callables \cap graphs'[m].callables :
    PointsAtLiveMemory(m, k) =>
      \/ PointsAtLiveMemory(m, k)'
      \/ pc = "idle" /\ calls' = calls
      \/ ~call.cg /\ table[m].len < call.max
GraphsStayLive == [][StaysLive]_vars

\* A finished call returns max_length tokens unless it met eos (generation.py:298).
EndsAtMaxLength ==
  (pc = "done" /\ ~failed /\ call.prompt < call.max) =>
    \/ Len(out) = call.max
    \/ call.eos /\ out[Len(out)] = EosToken /\ Len(out) < call.max

\* decode does, and both return one token after a prompt of that length or more.  A
\* speculative call may return one token too many: its last round is sized by the offset
\* of the draft model, which is one behind when a draft was accepted before.
EndsAtMaxLengthOrOneMore ==
  (pc = "done" /\ ~failed) =>
    \/ call.eos /\ out[Len(out)] = EosToken /\ Len(out) <= call.max
    \/ Len(out) = IF call.prompt < call.max THEN call.max ELSE call.prompt + 1
    \/ call.kind = "speculative" /\ call.prompt < call.max /\ Len(out) = call.max + 1

\* The calls implement the abstract decoder; sound are those whose graphs can be replayed.
D == INSTANCE Decoder WITH text <- out, seen <- scores, busy <- pc # "idle",
                           sound <- GraphsUsable
ImplementsDecoder == D!Spec
=============================================================================
