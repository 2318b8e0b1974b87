----------------------------- MODULE ModelPass -----------------------------
(***************************************************************************)
(* A forward and a backward pass of a model, as torch.autograd runs them   *)
(* over the package's Functions.  The forward pass makes its calls in      *)
(* order, so what it leaves is a function of the program p.  Backward runs *)
(* the derivative of any call all of whose consumers have run theirs: the  *)
(* engine's order among ready calls is left open.                          *)
(*                                                                         *)
(* The gradient of a tensor is, for each of its slices, a bag of edges,    *)
(* one per term of the chain rule: the derivative of the output slice      *)
(* `out` of call `call` with respect to `by`.  It is sound if every term   *)
(* was computed from the complete gradient of that output and from the     *)
(* values the forward pass used, and nothing has written over it.          *)
(***************************************************************************)
EXTENDS AutogradFunction

CONSTANTS Config,         \* the models to run
          ProgramOf(_)    \* the program of a model, see Program

VARIABLES config,    \* the model of this run, whose forward pass has run
          written,   \* cells of the forward pass that backward wrote over
          done,      \* calls whose backward ran; 0 is the call of backward itself
          pending    \* tensor |-> its gradient, as far as it has arrived

modelVars == <<config, written, done, pending>>

-----------------------------------------------------------------------------
(* The forward pass: for each call the memory of its parameters (bound),   *)
(* the values that its derivative depends on, and whether it requires a    *)
(* gradient (tracked).                                                     *)

CellOf(bound, n, name) == IF name \in DOMAIN bound THEN bound[name] ELSE Tensor(n, name)
Requires(train, tape, t) == t \in train \/ (t.call > 0 /\ tape[t.call].tracked)
Forward(calls, train, at, n) ==
  LET c == calls[n]
      bound == Binding(calls, at.tape, c)
      read(mem, cell) == IF cell \in DOMAIN mem THEN mem[cell] ELSE Value(cell)
      reads(mem, names) == [i \in DOMAIN names |-> read(mem, CellOf(bound, n, names[i]))]
      after == FoldLeft(LAMBDA mem, s : (CellOf(bound, n, s.to) :> Apply(s.op, reads(mem, s.from))) @@ mem,
                        at.mem, c.fn.steps)
  IN  [tape |-> Append(at.tape, [bound |-> bound, values |-> reads(after, c.fn.needs),
                                 tracked |-> \E t \in ToSet(c.in) : Requires(train, at.tape, t)]),
       mem |-> after]
ForwardPass(calls, train) ==
  FoldLeft(LAMBDA at, n : Forward(calls, train, at, n), [tape |-> <<>>, mem |-> NoMap], [n \in DOMAIN calls |-> n])

-----------------------------------------------------------------------------
(* What backward has to compute: the chain rule.                           *)

\* The derivative through a sum, or through the identity, is that of its
\* result: the name under which a Function may share one gradient.
Through(c, d) ==
  LET absent(x) == \E f \in DOMAIN c.fn.formals : c.fn.formals[f] = x /\ ~IsPassed(c.in[f])
      passing(s, x) == \/ s.op = "add"
                       \/ s.op \in {"dropout", "scale"} /\ s.from[1] = x /\ absent(s.from[2])
      users(x) == {i \in DOMAIN c.fn.steps : Uses(c.fn.steps[i], x)}
  IN  FoldLeft(LAMBDA x, s : IF Uses(s, x) /\ Cardinality(users(x)) = 1 /\ passing(s, x)
                             THEN s.to ELSE x, d, c.fn.steps)

\* The derivatives of call n, of its outputs `outs` by the slice d.
Derivatives(c, n, outs, d) ==
  LET slices == UNION {ToSet(Slices(c.fn, o)) : o \in outs}
  IN  SetToBag({[call |-> n, out |-> p, by |-> Through(c, d)] : p \in {p \in slices : Influences(c.fn, d, p)}})

\* The program with what its forward pass leaves, the calls backward runs,
\* their consumers and the outputs of theirs that get a gradient, and the
\* complete gradient of every tensor.
Compile(p) ==
  LET calls == p.calls
      pass == ForwardPass(calls, p.train)
      active == {n \in DOMAIN calls : pass.tape[n].tracked} \cap Reaching(calls, p.loss)
      consumers(t) == {n \in active : t \in ToSet(calls[n].in)}
      live(n) == {o \in ToSet(calls[n].fn.outs) : Tensor(n, o) = p.loss \/ consumers(Tensor(n, o)) # {}}
      seed(t) == IF t = p.loss THEN SetToBag({[call |-> 0, out |-> "loss", by |-> "loss"]}) ELSE EmptyBag
      edges(t, i) ==
        LET uses == UNION {{<<n, f>> : f \in {f \in DOMAIN calls[n].in : calls[n].in[f] = t}} : n \in consumers(t)}
            slice(u) == Slices(calls[u[1]].fn, calls[u[1]].fn.formals[u[2]])[i]
        IN  FoldSet(LAMBDA u, bag : bag (+) Derivatives(calls[u[1]], u[1], live(u[1]), slice(u)), seed(t), uses)
      tensors == p.train \cup UNION {{Tensor(n, o) : o \in live(n)} : n \in active}
  IN  p @@ pass
      @@ [active |-> active,
          consumers |-> [n \in active |-> {j \in active : \E t \in ToSet(calls[j].in) : t.call = n}],
          live |-> [n \in active |-> live(n)],
          gradient |-> [t \in tensors |-> [i \in DOMAIN SlicesOf(calls, t) |-> edges(t, i)]]]

Compiled == [c \in Config |-> Compile(ProgramOf(c))]

Fn(p, n) == p.calls[n].fn
Cell(p, n, name) == CellOf(p.tape[n].bound, n, name)
Read(p, cell) == IF cell \in written THEN Atom("gradient")
                 ELSE IF cell \in DOMAIN p.mem THEN p.mem[cell] ELSE Value(cell)

-----------------------------------------------------------------------------
ModelInit ==
  /\ config \in Config
  /\ written = {} /\ done = {} /\ pending = NoMap

Gradient(buffer, terms, sound) == [buffer |-> buffer, terms |-> terms, sound |-> sound, kept |-> TRUE]

\* loss.backward()
BackwardStarts(p) ==
  /\ done = {}
  /\ done' = {0}
  /\ pending' = p.loss :> Gradient(<<0, "loss", "given">>,
                                   <<SetToBag({[call |-> 0, out |-> "loss", by |-> "loss"]})>>, TRUE)
  /\ UNCHANGED <<config, written>>

\* What the backward of call n has for a name: a saved tensor as it is in
\* memory now, an attribute of ctx, or something it recomputes.
Available(p, n) ==
  LET fn == Fn(p, n)
      now(name) == Read(p, Cell(p, n, name))
      saved == [x \in ToSet(fn.restored) |-> now(fn.saved[Place(fn.restored, x)])]
      set == [x \in fn.attrs |-> now(x)]
      redo(v, s) == (s.to :> Apply(s.op, [i \in DOMAIN s.from |-> v[s.from[i]]])) @@ v
  IN  FoldLeft(redo, saved @@ set, fn.redo)

ValuesRight(p, n) ==
  LET v == Available(p, n)
      fn == Fn(p, n)
  IN  \A i \in DOMAIN fn.needs : fn.given[i] \in DOMAIN v /\ v[fn.given[i]] = p.tape[n].values[i]

\* The gradient of an output is complete and backward takes it for that
\* output's.
Complete(p, n, o) ==
  LET t == Tensor(n, o)
  IN  /\ t \in DOMAIN pending
      /\ pending[t].sound
      /\ pending[t].terms = p.gradient[t]
      /\ o \in ToSet(Fn(p, n).ingrads)
      /\ Place(Fn(p, n).outs, o) = Place(Fn(p, n).ingrads, o)

\* The gradient that the derivative of call n returns for parameter f, and
\* the buffer it is in.
Returned(p, n, f) ==
  LET fn == Fn(p, n)
      name == fn.formals[f]
      owner == IF name \in DOMAIN fn.shares THEN fn.shares[name] ELSE name
      wrt == fn.grads[Place(fn.formals, owner)]
      incoming(o) == pending[Tensor(n, o)].buffer
  IN  Gradient(CASE name \in DOMAIN fn.reuses /\ fn.reuses[name] \in p.live[n] -> incoming(fn.reuses[name])
                 [] name \in DOMAIN fn.passes -> incoming(fn.passes[name])
                 [] OTHER -> <<n, owner, "made">>,
               [i \in DOMAIN wrt |-> Derivatives(p.calls[n], n, p.live[n] \cap ToSet(fn.ingrads), wrt[i])],
               WellFormed(fn) /\ ValuesRight(p, n) /\ \A o \in p.live[n] : Complete(p, n, o))

\* The engine sums gradients as they arrive, in a buffer of the sum's own.
Arrive(t, gradient, waiting) ==
  LET with == waiting[t]
      sum == Gradient(<<t.call, t.name, "sum">>,
                      [i \in DOMAIN with.terms |-> with.terms[i] (+) gradient.terms[i]],
                      with.sound /\ gradient.sound)
  IN  (t :> IF t \in DOMAIN waiting THEN [sum EXCEPT !.kept = with.kept] ELSE gradient) @@ waiting

\* The engine keeps a gradient that backward returns only for a tensor that
\* requires one.
RequiresGradient(p, n, f) ==
  Fn(p, n).grads[f] # <<>> /\ Requires(p.train, p.tape, p.calls[n].in[f])

\* The derivative of call n, once its outputs' gradients are complete.
Backward(p, n) ==
  LET fn == Fn(p, n)
      in == p.calls[n].in
      returned == {f \in DOMAIN in : RequiresGradient(p, n, f)}
      over == {Returned(p, n, f).buffer : f \in {f \in returned : fn.formals[f] \in DOMAIN fn.reuses}}
      rest == [t \in DOMAIN pending \ {Tensor(n, o) : o \in ToSet(fn.outs)} |->
                 IF pending[t].buffer \in over THEN [pending[t] EXCEPT !.sound = FALSE, !.kept = FALSE]
                 ELSE pending[t]]
  IN  /\ 0 \in done
      /\ n \in p.active \ done
      /\ p.consumers[n] \subseteq done
      /\ done' = done \cup {n}
      /\ pending' = FoldSet(LAMBDA f, waiting : Arrive(in[f], Returned(p, n, f), waiting), rest, returned)
      /\ written' = written \cup {Cell(p, n, x) : x \in fn.clobbers}
      /\ UNCHANGED config

PassStep(p) == BackwardStarts(p) \/ \E n \in p.active : Backward(p, n)
ModelNext == PassStep(Compiled[config])

ModelSpec == ModelInit /\ [][ModelNext]_modelVars

-----------------------------------------------------------------------------
Loss(p) == Read(p, Cell(p, p.loss.call, p.loss.name))

\* The loss is the loss of the model the documentation describes, dropout included
\* ("The model definition is unchanged", gpt.py:464).
ForwardAsDocumented == Loss(Compiled[config]) = Compiled[config].documented

\* Whatever is fused, packed, recomputed, done in place or reordered, the loss is
\* that of the documented model, but for the places of two dropouts in a post-norm
\* GPT: embd_pdrop drops the first layer's attention, and nothing the embeddings.
LossIsReference(p) == Loss(p) = p.reference
ForwardEqualsReference == LossIsReference(Compiled[config])

\* When backward is over, every trained tensor has exactly the terms of the
\* chain rule, each computed from complete gradients and from the values of
\* the forward pass: whatever backwards saved, recomputed and wrote over,
\* and in whichever order the engine ran them.
ChainRule(p) ==
  p.active \subseteq done =>
    \A t \in p.train :
      LET terms == p.gradient[t]
      IN  \/ t \in DOMAIN pending /\ pending[t].sound /\ pending[t].terms = terms
          \/ t \notin DOMAIN pending /\ \A i \in DOMAIN terms : terms[i] = EmptyBag
GradientsAreChainRule == ChainRule(Compiled[config])

\* A backward that works in place never writes over a gradient that another
\* call has still to read.
WaitingGradientsKept == \A t \in DOMAIN pending : pending[t].kept
=============================================================================
