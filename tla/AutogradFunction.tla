-------------------------- MODULE AutogradFunction --------------------------
(***************************************************************************)
(* The custom torch.autograd Functions of the package as data, and the     *)
(* programs made of calls to them.                                         *)
(*                                                                         *)
(* A value is a term.  Memory maps cells to terms; a cell is named by the  *)
(* call that made it.  Views and in-place operations share cells, and a    *)
(* packed tensor (qkv, kv) has one cell per slice.                         *)
(*                                                                         *)
(* A Function is a record:                                                 *)
(*   formals    the positional parameters of forward                       *)
(*   parts      the slices of a packed tensor: qkv |-> <<"q", "k", "v">>   *)
(*   steps      what forward computes, [to, op, from] in order; a step to  *)
(*              a slice of a parameter is done in place                    *)
(*   outs       what forward returns                                       *)
(*   saved      what ctx.save_for_backward is given, and                   *)
(*   restored   what backward unpacks ctx.saved_tensors into               *)
(*   attrs      the attributes forward sets on ctx                         *)
(*   redo       what backward recomputes, written like steps               *)
(*   needs      what the derivative is a function of, and                  *)
(*   given      what backward passes for each of them                      *)
(*   ingrads    the outputs backward takes its arguments to belong to      *)
(*   grads      what backward returns for each parameter: the slices with  *)
(*              respect to which it differentiates, <<>> for None          *)
(*   reuses     parameter |-> output: the gradient is written over that    *)
(*              output's gradient                                          *)
(*   passes     parameter |-> output: its gradient is that output's        *)
(*   shares     parameter |-> parameter: both get one gradient tensor      *)
(*   clobbers   slices of parameters that backward writes over             *)
(***************************************************************************)
EXTENDS Integers, SequencesExt, BagsExt

Term(op, at, args) == [op |-> op, at |-> at, args |-> args, of |-> EmptyBag]
Atom(name) == Term(name, 0, <<>>)
Absent(value) == value.op \in {"None", "0.0", "False"}

\* Sums are taken in any order, and so are dropout and a scale per row.
Summands(value) == IF value.op = "sum" THEN value.of ELSE SetToBag({value})
Sum(a, b) ==
  LET x == Summands(a)
      y == Summands(b)
  IN  [Atom("sum") EXCEPT !.of = [t \in DOMAIN x \cup DOMAIN y |-> CopiesIn(t, x) + CopiesIn(t, y)]]
Scaled(value, scale) ==
  IF value.op = "dropout" THEN Term("dropout", 0, <<Term("scale", 0, <<value.args[1], scale>>), value.args[2]>>)
  ELSE Term("scale", 0, <<value, scale>>)

\* Dropout with p = 0, a scale or a summand that is None: the identity.
Apply(op, args) ==
  CASE op \in {"dropout", "scale", "add", "put_rows", "rows"} /\ Absent(args[2]) -> args[1]
    [] op = "or_default" -> IF Absent(args[1]) THEN Atom("default_scale") ELSE args[1]
    [] op = "add" /\ ~Absent(args[2]) -> Sum(args[1], args[2])
    [] op = "scale" /\ ~Absent(args[2]) -> Scaled(args[1], args[2])
    [] OTHER -> Term(op, 0, args)

NoMap == [x \in {} |-> x]
Function(fields) ==
  fields @@ [parts |-> NoMap, steps |-> <<>>, saved |-> <<>>, restored |-> <<>>, attrs |-> {},
             redo |-> <<>>, needs |-> <<>>, given |-> <<>>, reuses |-> NoMap, passes |-> NoMap, shares |-> NoMap,
             clobbers |-> {}]

Step(to, op, from) == [to |-> to, op |-> op, from |-> from]
None(n) == [i \in 1 .. n |-> <<>>]                    \* n gradients that are None
Of(names) == [i \in DOMAIN names |-> <<names[i]>>]    \* gradients of unpacked tensors

Slices(fn, name) == IF name \in DOMAIN fn.parts THEN fn.parts[name] ELSE <<name>>
Place(s, e) == CHOOSE i \in DOMAIN s : s[i] = e
Uses(step, name) == name \in ToSet(step.from)

\* The output slice p is computed from the parameter slice d.
Influences(fn, d, p) ==
  p \in FoldLeft(LAMBDA from, s : IF \E x \in from : Uses(s, x) THEN from \cup {s.to} ELSE from,
                 {d}, fn.steps)

\* The checks torch makes when backward unpacks and returns.
WellFormed(fn) ==
  /\ Len(fn.restored) = Len(fn.saved)
  /\ Len(fn.grads) >= Len(fn.formals)
  /\ \A i \in DOMAIN fn.grads : i > Len(fn.formals) => fn.grads[i] = <<>>

-----------------------------------------------------------------------------
(* Programs.  A tensor is an output of a call; an input or an option is    *)
(* one of call 0, a parameter of layer l (0: of the model) of call -l - 1. *)

Tensor(call, name) == [call |-> call, name |-> name]
Given(name) == Tensor(0, name)
Param(l, name) == Tensor(-l - 1, name)
Value(t) == Term(t.name, t.call, <<>>)
NoTensor == Given("None")
Zero == Given("0.0")
False == Given("False")
True == Given("True")

\* The arguments by name, those that are not None, and optional parts.
Bind(formals, in) == [x \in ToSet(formals) |-> in[Place(formals, x)]]
IsPassed(t) == t \notin {NoTensor, Zero, False}
If(condition, s) == IF condition THEN s ELSE <<>>

Then(calls, fn, in) == Append(calls, [fn |-> fn, in |-> in])
Out(calls, name) == Tensor(Len(calls), name)

SlicesOf(calls, t) == IF t.call <= 0 THEN <<t.name>> ELSE Slices(calls[t.call].fn, t.name)

\* The memory of the slices of a call's parameters; tape has that of the
\* calls before it.
Binding(calls, tape, c) ==
  LET cell(t, i) ==
        LET name == SlicesOf(calls, t)[i]
        IN  IF t.call > 0 /\ name \in DOMAIN tape[t.call].bound THEN tape[t.call].bound[name]
            ELSE Tensor(t.call, name)
      place == [f \in DOMAIN c.fn.formals |-> Slices(c.fn, c.fn.formals[f])]
      owner(p) == CHOOSE f \in DOMAIN place : p \in ToSet(place[f])
  IN  [p \in UNION {ToSet(place[f]) : f \in DOMAIN place} |-> cell(c.in[owner(p)], Place(place[owner(p)], p))]

\* The calls that the loss depends on.
Reaching(calls, loss) ==
  FoldRight(LAMBDA n, reach : IF n \in reach THEN reach \cup {t.call : t \in ToSet(calls[n].in)}
                              ELSE reach,
            [n \in DOMAIN calls |-> n], {loss.call})
=============================================================================
