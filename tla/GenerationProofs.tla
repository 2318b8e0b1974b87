-------------------------- MODULE GenerationProofs --------------------------
(***************************************************************************)
(* Proofs about Generation, for every vocabulary, every set of calls and   *)
(* every number of them: every token of a call whose graphs can be         *)
(* replayed is sampled from the text before it, only the calls named by    *)
(* Refused fail, graphs keep pointing at live memory, calls end where they *)
(* should or one token later, and the whole implements the abstract        *)
(* decoder.                                                                *)
(*                                                                         *)
(* The argument: main has evaluated all but the last token of out, draft   *)
(* all but its last token or two of out and drafts, whatever the graphs    *)
(* do.  As long as they can be replayed, the entries of a cache before its *)
(* model's offset are those of the text: what lies beyond the offset is    *)
(* never read, so rejected drafts and earlier calls do not matter, and a   *)
(* replayed graph sees the same cache as an eager call because its offset  *)
(* is not 0, which sends it down the path that appends.  Whether they can  *)
(* be replayed is settled when the call starts: a graph that points to the *)
(* table of the module and reads the lengths was captured when that table  *)
(* covered the whole cache, so no prompt pass replaces it.                 *)
(***************************************************************************)
EXTENDS Generation, SequenceTheorems, TLAPS

Tokens == Nat \ {0}
Text == Seq(Tokens)
Entry == Seq(Nat)         \* Stale is one, and no text

Params == [maxLen : Nat, maxBatch : Nat, offset : Nat, lengths : Int, rows : Nat]
Graph == [batch : Nat, seqlen : Nat, kv : Nat, table : Nat, offset : Nat]
GraphCache ==
  [maxBatch : Nat, maxLen : Nat, kv : Nat, params : Params, callables : SUBSET Graph]
Table == [id : Nat, len : Nat, inference : BOOLEAN]

Rows(m) == IF pc = "idle" THEN 0
           ELSE IF call.cg /\ m \in Used(call) THEN graphs[m].maxLen ELSE call.max

TypeInv ==
  /\ arch \in Arch
  /\ pc \in {"idle", "decode", "single", "choose", "draft", "verify", "done"}
  /\ call \in Call \cup {NoCall} /\ calls \in Nat
  /\ graphs \in [Model -> GraphCache] /\ table \in [Model -> Table]
  /\ ip \in [Model -> Params]
  /\ \A m \in Model : DOMAIN cells[m] = Cells(Rows(m))
  /\ cells = [m \in Model |-> cells[m]]
  /\ out \in Text /\ drafts \in Text
  /\ last \in Nat /\ spec \in Nat /\ failed = FALSE

\* Where graph k of model m lies: in the memory of its cache, and, if it reads its
\* offset from the lengths, in a rotary table that covers all of that cache.
PlacedIn(k, m) ==
  /\ k.kv = graphs[m].kv
  /\ k.offset + k.seqlen <= graphs[m].maxLen
  /\ k.table <= table[m].id
  /\ (arch = "rotary" /\ k.offset > 0 /\ k.table = table[m].id) =>
       graphs[m].maxLen <= table[m].len

GraphsInv(m) ==
  /\ graphs[m].params.maxLen <= graphs[m].maxLen
  /\ graphs[m].params.rows = graphs[m].maxBatch
  /\ \A k \in graphs[m].callables : PlacedIn(k, m)

\* The graphs of a model that the current call uses.
ReadyInv(m) ==
  /\ call.max <= graphs[m].maxLen /\ call.batch <= graphs[m].maxBatch
  /\ ip[m].rows = graphs[m].maxBatch
  /\ \A n \in DecodingSeqlens(call, m) :
       \E k \in graphs[m].callables : k.batch = call.batch /\ k.seqlen = n
  /\ ip[m].offset = 0 => ip[m].lengths \in {0, NoLengths}

CallInv ==
  IF pc = "idle"
  THEN call = NoCall /\ out = <<>> /\ scores = <<>> /\ drafts = <<>> /\ draftSeen = <<>>
  ELSE /\ call \in Call
       /\ \A m \in Used(call) : ip[m].maxLen = call.max
       /\ call.kind = "speculative" => call.batch = 1 /\ ~call.eos
       /\ IF call.cg THEN \A m \in Used(call) : ReadyInv(m)
          ELSE \A m \in Model : ip[m].lengths = NoLengths

\* The first n entries of cache c are those of a text; what the logits of the last n
\* tokens of a text depend on.
EntriesOf(c, text, n) == \A p \in 0 .. n - 1 : c[p] = SubSeq(text, 1, p + 1)
Prefixes(text, n) == [i \in 1 .. n |-> SubSeq(text, 1, Len(text) - n + i)]

\* What the tokens new depend on when they are sampled one after the other after s.
SampledAfter(s, new) == [i \in 1 .. Len(new) |-> SubSeq(s \o new, 1, Len(s) + i - 1)]

\* Each token of a text from position p on was sampled given the text before it.
SampledGiven(text, p, seen) ==
  /\ seen \in Seq(Entry) /\ Len(seen) = Len(text) - p
  /\ \A i \in 1 .. Len(seen) : seen[i] = SubSeq(text, 1, p + i - 1)

Behind == ip["main"].offset       \* what main has evaluated

\* The main model: nothing evaluated yet, or everything but the last token.
MainInv ==
  pc # "idle" =>
    /\ IF First THEN Len(out) = call.prompt /\ last = Len(out)
       ELSE Behind = Len(out) - 1 /\ call.prompt <= Behind /\ last \in 1 .. Len(out)
    /\ GraphsUsable => /\ EntriesOf(cells["main"], out, Behind)
                       /\ SampledGiven(out, call.prompt, scores)

\* The draft model: behind main by one token if it proposed the last but one itself.
DraftInv ==
  pc \in {"choose", "draft", "verify"} =>
    /\ ip["draft"].offset = IF drafts # <<>> THEN Len(out) + Len(drafts) - 1
                            ELSE IF First THEN 0 ELSE Len(out) - AtMost(2, last)
    /\ GraphsUsable => /\ EntriesOf(cells["draft"], out \o drafts, ip["draft"].offset)
                       /\ SampledGiven(out \o drafts, Len(out), draftSeen)

\* Where each loop is, and how far it can still go.
PlaceInv ==
  /\ pc \notin {"idle", "done", "decode"} => call.kind = "speculative"
  /\ pc = "decode" =>
       /\ call.kind = "decode"
       /\ ~First => last = 1 /\ (Len(out) <= call.max
                                 \/ (call.prompt >= call.max /\ Len(out) = call.prompt + 1))
  /\ pc = "single" => Len(out) = call.max - 1 \/ (First /\ call.prompt >= call.max - 1)
  /\ pc = "choose" => Len(out) <= call.max + 1
  /\ pc \in {"choose", "draft", "verify"} => call.prompt < call.max - 1
  /\ pc \in {"draft", "verify"} => /\ spec \in 1 .. call.lookahead
                                   /\ Len(out) + spec <= call.max
  /\ pc = "draft" => Len(drafts) < spec
  /\ pc = "verify" => Len(drafts) = spec
  /\ pc \notin {"draft", "verify"} => drafts = <<>> /\ draftSeen = <<>>
  /\ EndsAtMaxLengthOrOneMore

GenerationInv ==
  /\ TypeInv /\ CallInv /\ MainInv /\ DraftInv /\ PlaceInv
  /\ \A m \in Model : GraphsInv(m)

\* A failed call is one the code refuses, and what it sampled before stands.
SessionInv ==
  /\ failed \in BOOLEAN
  /\ IF failed THEN pc = "done" /\ Refused(call) /\ UsableGraphsSeeThePrefix
     ELSE GenerationInv

-----------------------------------------------------------------------------
(* Texts and their prefixes                                                *)

LEMMA TextLength ==
  ASSUME NEW s \in Text
  PROVE  Len(s) \in Nat /\ s \in [1 .. Len(s) -> Tokens] /\ SubSeq(s, 1, Len(s)) = s
BY LenProperties, SubSeqFull DEF Text

\* A prefix of a text is a text of the length asked for.
LEMMA PrefixIsText ==
  ASSUME NEW s \in Text, NEW n \in 0 .. Len(s)
  PROVE  /\ SubSeq(s, 1, n) \in Text /\ Len(SubSeq(s, 1, n)) = n
         /\ \A i \in 1 .. n : SubSeq(s, 1, n)[i] = s[i]
<1>1. Len(s) \in Nat /\ s \in [1 .. Len(s) -> Tokens] BY LenProperties DEF Text
<1>2. \A i \in 1 .. n : s[i] \in Tokens BY <1>1
<1>3. n \in Int /\ 1 \in Int BY <1>1
<1>4. /\ SubSeq(s, 1, n) \in Seq(Tokens)
      /\ Len(SubSeq(s, 1, n)) = IF 1 <= n THEN n - 1 + 1 ELSE 0
      /\ \A i \in 1 .. n - 1 + 1 : SubSeq(s, 1, n)[i] = s[1 + i - 1]
  BY <1>2, <1>3, SubSeqProperties
<1>5. Len(SubSeq(s, 1, n)) = n BY <1>1, <1>4
<1>6. \A i \in 1 .. n : SubSeq(s, 1, n)[i] = s[i] BY <1>1, <1>4
<1> QED BY <1>4, <1>5, <1>6 DEF Text

\* The rest of a text after its first n tokens.
LEMMA RestIsText ==
  ASSUME NEW s \in Text, NEW n \in 0 .. Len(s)
  PROVE  /\ SubSeq(s, n + 1, Len(s)) \in Text
         /\ Len(SubSeq(s, n + 1, Len(s))) = Len(s) - n
         /\ \A i \in 1 .. Len(s) - n : SubSeq(s, n + 1, Len(s))[i] = s[n + i]
<1>0. Len(s) \in Nat BY TextLength
<1>1. Len(s) \in Nat /\ s \in [1 .. Len(s) -> Tokens] BY LenProperties DEF Text
<1>2. \A i \in n + 1 .. Len(s) : s[i] \in Tokens BY <1>1
<1>3. n + 1 \in Int /\ Len(s) \in Int BY <1>1
<1>4. /\ SubSeq(s, n + 1, Len(s)) \in Seq(Tokens)
      /\ Len(SubSeq(s, n + 1, Len(s))) = IF n + 1 <= Len(s) THEN Len(s) - (n + 1) + 1 ELSE 0
      /\ \A i \in 1 .. Len(s) - (n + 1) + 1 : SubSeq(s, n + 1, Len(s))[i] = s[(n + 1) + i - 1]
  BY <1>2, <1>3, SubSeqProperties
<1>5. Len(SubSeq(s, n + 1, Len(s))) = Len(s) - n
  <2>1. CASE n + 1 <= Len(s)
    <3>1. Len(s) - (n + 1) + 1 = Len(s) - n BY <1>1
    <3> QED BY <2>1, <3>1, <1>4
  <2>2. CASE ~(n + 1 <= Len(s))
    <3>1. n = Len(s) BY <2>2, <1>0
    <3>2. Len(s) - n = 0 BY <3>1, <1>0
    <3> QED BY <2>2, <3>2, <1>4
  <2> QED BY <2>1, <2>2
<1>6. \A i \in 1 .. Len(s) - n : SubSeq(s, n + 1, Len(s))[i] = s[n + i] BY <1>1, <1>4
<1> QED BY <1>4, <1>5, <1>6 DEF Text

\* Two texts are equal when their tokens are.
LEMMA SameText ==
  ASSUME NEW s \in Text, NEW t \in Text, Len(s) = Len(t), \A i \in 1 .. Len(s) : s[i] = t[i]
  PROVE  s = t
BY SeqEqual DEF Text

LEMMA TextsConcat ==
  ASSUME NEW s \in Text, NEW t \in Text
  PROVE  /\ s \o t \in Text /\ Len(s \o t) = Len(s) + Len(t)
         /\ \A i \in 1 .. Len(s) + Len(t) :
              (s \o t)[i] = IF i <= Len(s) THEN s[i] ELSE t[i - Len(s)]
BY ConcatProperties DEF Text

LEMMA ConcatIsText ==
  ASSUME NEW s \in Text, NEW t \in Text
  PROVE  s \o t \in Text /\ Len(s \o t) = Len(s) + Len(t)
BY TextsConcat

LEMMA TextsAssociate ==
  ASSUME NEW s \in Text, NEW t \in Text, NEW u \in Text
  PROVE  (s \o t) \o u = s \o (t \o u)
BY ConcatAssociative DEF Text

\* A prefix of a prefix.
LEMMA PrefixOfPrefix ==
  ASSUME NEW s \in Text, NEW n \in 0 .. Len(s), NEW k \in 0 .. n
  PROVE  SubSeq(SubSeq(s, 1, n), 1, k) = SubSeq(s, 1, k)
<1>1. Len(s) \in Nat BY TextLength
<1>2. k \in 0 .. Len(s) BY <1>1
<1>3. /\ SubSeq(s, 1, n) \in Text /\ Len(SubSeq(s, 1, n)) = n
      /\ \A i \in 1 .. n : SubSeq(s, 1, n)[i] = s[i]
  BY PrefixIsText
<1>4. /\ SubSeq(s, 1, k) \in Text /\ Len(SubSeq(s, 1, k)) = k
      /\ \A i \in 1 .. k : SubSeq(s, 1, k)[i] = s[i]
  BY <1>2, PrefixIsText
<1> DEFINE p == SubSeq(s, 1, n)
<1>5. /\ SubSeq(p, 1, k) \in Text /\ Len(SubSeq(p, 1, k)) = k
      /\ \A i \in 1 .. k : SubSeq(p, 1, k)[i] = p[i]
  BY <1>3, PrefixIsText
<1>6. \A i \in 1 .. k : SubSeq(p, 1, k)[i] = SubSeq(s, 1, k)[i] BY <1>1, <1>3, <1>4, <1>5
<1> QED BY <1>4, <1>5, <1>6, SameText

\* What is appended to a text does not change its prefixes.
LEMMA PrefixOfConcat ==
  ASSUME NEW s \in Text, NEW t \in Text, NEW n \in 0 .. Len(s)
  PROVE  SubSeq(s \o t, 1, n) = SubSeq(s, 1, n)
<1>1. Len(s) \in Nat /\ Len(t) \in Nat BY TextLength
<1>2. /\ s \o t \in Text /\ Len(s \o t) = Len(s) + Len(t)
      /\ \A i \in 1 .. Len(s) + Len(t) :
           (s \o t)[i] = IF i <= Len(s) THEN s[i] ELSE t[i - Len(s)]
  BY TextsConcat
<1> DEFINE u == s \o t
<1>3. n \in 0 .. Len(u) BY <1>1, <1>2
<1>4. /\ SubSeq(u, 1, n) \in Text /\ Len(SubSeq(u, 1, n)) = n
      /\ \A i \in 1 .. n : SubSeq(u, 1, n)[i] = u[i]
  BY <1>2, <1>3, PrefixIsText
<1>5. /\ SubSeq(s, 1, n) \in Text /\ Len(SubSeq(s, 1, n)) = n
      /\ \A i \in 1 .. n : SubSeq(s, 1, n)[i] = s[i]
  BY PrefixIsText
<1>6. \A i \in 1 .. n : SubSeq(u, 1, n)[i] = SubSeq(s, 1, n)[i] BY <1>1, <1>2, <1>4, <1>5
<1> QED BY <1>4, <1>5, <1>6, SameText

\* A prefix that reaches into the second text.
LEMMA PrefixAcross ==
  ASSUME NEW s \in Text, NEW t \in Text, NEW n \in 0 .. Len(t)
  PROVE  SubSeq(s \o t, 1, Len(s) + n) = s \o SubSeq(t, 1, n)
<1>1. Len(s) \in Nat /\ Len(t) \in Nat BY TextLength
<1>2. /\ s \o t \in Text /\ Len(s \o t) = Len(s) + Len(t)
      /\ \A i \in 1 .. Len(s) + Len(t) :
           (s \o t)[i] = IF i <= Len(s) THEN s[i] ELSE t[i - Len(s)]
  BY TextsConcat
<1> DEFINE u == s \o t
           p == SubSeq(t, 1, n)
<1>3. Len(s) + n \in 0 .. Len(u) BY <1>1, <1>2
<1>4. /\ SubSeq(u, 1, Len(s) + n) \in Text /\ Len(SubSeq(u, 1, Len(s) + n)) = Len(s) + n
      /\ \A i \in 1 .. Len(s) + n : SubSeq(u, 1, Len(s) + n)[i] = u[i]
  BY <1>2, <1>3, PrefixIsText
<1>5. p \in Text /\ Len(p) = n /\ \A i \in 1 .. n : p[i] = t[i] BY PrefixIsText
<1>6. /\ s \o p \in Text /\ Len(s \o p) = Len(s) + Len(p)
      /\ \A i \in 1 .. Len(s) + Len(p) :
           (s \o p)[i] = IF i <= Len(s) THEN s[i] ELSE p[i - Len(s)]
  BY <1>5, TextsConcat
<1>7. \A i \in 1 .. Len(s) + n : SubSeq(u, 1, Len(s) + n)[i] = (s \o p)[i]
  <2> SUFFICES ASSUME NEW i \in 1 .. Len(s) + n PROVE u[i] = (s \o p)[i] BY <1>4
  <2>1. CASE i <= Len(s) BY <2>1, <1>1, <1>2, <1>5, <1>6
  <2>2. CASE i > Len(s)
    <3>1. i - Len(s) \in 1 .. n BY <2>2, <1>1
    <3>2. p[i - Len(s)] = t[i - Len(s)] BY <3>1, <1>5
    <3> QED BY <2>2, <3>2, <1>1, <1>2, <1>5, <1>6
  <2> QED BY <2>1, <2>2, <1>1
<1> QED BY <1>4, <1>5, <1>6, <1>7, SameText

\* A text from a known prefix and a prefix of the rest: what an append computes.
LEMMA PrefixAndRest ==
  ASSUME NEW s \in Text, NEW n \in 0 .. Len(s), NEW k \in 0 .. Len(s) - n
  PROVE  SubSeq(s, 1, n) \o SubSeq(SubSeq(s, n + 1, Len(s)), 1, k) = SubSeq(s, 1, n + k)
<1>1. Len(s) \in Nat BY TextLength
<1> DEFINE p == SubSeq(s, 1, n)
           r == SubSeq(s, n + 1, Len(s))
<1>2. p \in Text /\ Len(p) = n /\ \A i \in 1 .. n : p[i] = s[i] BY PrefixIsText
<1>3. r \in Text /\ Len(r) = Len(s) - n /\ \A i \in 1 .. Len(s) - n : r[i] = s[n + i]
  BY RestIsText
<1> HIDE DEF p, r
<1>4. p \o r \in Text /\ Len(p \o r) = Len(s)
      /\ \A i \in 1 .. Len(s) : (p \o r)[i] = IF i <= n THEN p[i] ELSE r[i - n]
  BY <1>1, <1>2, <1>3, TextsConcat
<1>5. \A i \in 1 .. Len(s) : (p \o r)[i] = s[i]
  <2> DEFINE w == p \o r
  <2> HIDE DEF w
  <2> SUFFICES ASSUME NEW i \in 1 .. Len(s) PROVE w[i] = s[i] BY DEF w
  <2>0. w[i] = IF i <= n THEN p[i] ELSE r[i - n] BY <1>4 DEF w
  <2>1. CASE i <= n BY <2>0, <2>1, <1>1, <1>2
  <2>2. CASE ~(i <= n)
    <3>1. i - n \in 1 .. Len(s) - n /\ n + (i - n) = i BY <2>2, <1>1
    <3>2. r[i - n] = s[n + (i - n)] BY <3>1, <1>3
    <3> QED BY <2>0, <2>2, <3>1, <3>2
  <2> QED BY <2>1, <2>2
<1>6. p \o r = s BY <1>4, <1>5, SameText
<1>7. k \in 0 .. Len(r) BY <1>1, <1>3
<1>8. SubSeq(p \o r, 1, Len(p) + k) = p \o SubSeq(r, 1, k) BY <1>2, <1>3, <1>7, PrefixAcross
<1> QED BY <1>2, <1>6, <1>8 DEF p, r

\* The tokens of two texts from the last token of the first one on.
LEMMA LastThenRest ==
  ASSUME NEW s \in Text, s # <<>>, NEW t \in Text, t # <<>>
  PROVE  SubSeq(s \o t, Len(s), Len(s) + Len(t)) = SubSeq(s, Len(s), Len(s)) \o t
<1> DEFINE u == s \o t
           n == Len(s)
           l == Len(s) + Len(t)
<1>1. n \in Nat \ {0} /\ Len(t) \in Nat \ {0} /\ u \in Text /\ Len(u) = l
  BY TextLength, TextsConcat, EmptySeq DEF Text
<1>2. SubSeq(u, n, n) = SubSeq(s, n, n)
  <2>1. n \in 1 .. Len(s) BY <1>1
  <2> QED BY <2>1, SubSeqOfConcat1 DEF Text
<1>3. SubSeq(u, n + 1, l) = t
  <2>1. n + 1 \in Len(s) + 1 .. Len(s) + Len(t) /\ l \in Len(s) + 1 .. Len(s) + Len(t)
    BY <1>1
  <2>2. SubSeq(u, n + 1, l) = SubSeq(t, n + 1 - Len(s), l - Len(s))
    BY <2>1, SubSeqOfConcat2 DEF Text
  <2>3. n + 1 - Len(s) = 1 /\ l - Len(s) = Len(t) BY <1>1
  <2> QED BY <2>2, <2>3, TextLength
<1>4. SubSeq(u, n, n) \o SubSeq(u, n + 1, l) = SubSeq(u, n, l)
  <2>1. n \in 1 .. Len(u) + 1 /\ n \in n - 1 .. Len(u) /\ l \in n .. Len(u) BY <1>1
  <2> QED BY <1>1, <2>1, ConcatAdjacentSubSeq DEF Text
<1> QED BY <1>2, <1>3, <1>4

-----------------------------------------------------------------------------
(* Evaluating tokens over a cache                                          *)

LEMMA TextIsEntry ==
  ASSUME NEW s \in Text
  PROVE  s \in Entry /\ s # Stale
<1>1. Tokens \subseteq Nat BY DEF Tokens
<1>2. s \in Entry BY <1>1, SeqMonotonic DEF Text, Entry
<1>3. ASSUME s = Stale PROVE FALSE
  <2>1. s = <<0>> BY <1>3 DEF Stale
  <2>2. Len(s) = 1 /\ s[1] = 0 BY <2>1
  <2>3. s[1] \in Tokens BY <2>2, TextLength
  <2> QED BY <2>2, <2>3 DEF Tokens
<1> QED BY <1>2, <1>3

\* Entries that are those of one text stand for its prefix.
LEMMA PastIsPrefix ==
  ASSUME NEW c, NEW text \in Text, NEW at \in 0 .. Len(text),
         EntriesOf(c, text, at)
  PROVE  Past(c, at) = SubSeq(text, 1, at)
<1>0. Len(text) \in Nat BY TextLength
<1>1. CASE at = 0
  <2>1. Past(c, at) = <<>> BY <1>1 DEF Past
  <2>2. SubSeq(text, 1, 0) = <<>> BY SubSeqEmpty
  <2> QED BY <1>1, <2>1, <2>2
<1>2. CASE at # 0
  <2> DEFINE prefix == SubSeq(text, 1, at)
  <2>1. at - 1 \in 0 .. at - 1 /\ (at - 1) + 1 = at BY <1>0, <1>2
  <2>2. c[at - 1] = prefix BY <2>1 DEF EntriesOf
  <2>3. Len(prefix) = at BY PrefixIsText
  <2>4. ASSUME NEW j \in Cells(at)
        PROVE  c[j] # Stale /\ c[j] = SubSeq(prefix, 1, j + 1)
    <3>1. j \in 0 .. at - 1 BY DEF Cells
    <3>2. j + 1 \in 0 .. at /\ j + 1 \in 0 .. Len(text) BY <1>0, <3>1
    <3>3. c[j] = SubSeq(text, 1, j + 1) BY <3>1 DEF EntriesOf
    <3>4. SubSeq(text, 1, j + 1) \in Text BY <3>2, PrefixIsText
    <3>5. SubSeq(prefix, 1, j + 1) = SubSeq(text, 1, j + 1) BY <3>2, PrefixOfPrefix
    <3> QED BY <3>3, <3>4, <3>5, TextIsEntry
  <2> HIDE DEF prefix
  <2>5. Past(c, at) = c[at - 1] BY <1>2, <2>2, <2>3, <2>4 DEF Past
  <2> QED BY <2>2, <2>5 DEF prefix
<1> QED BY <1>1, <1>2

\* A cache after the tokens toks were evaluated over the text past.
Appended(c, at, toks, past) ==
  [p \in DOMAIN c |->
     IF p \notin at .. at + Len(toks) - 1 THEN c[p]
     ELSE IF past = Stale THEN Stale
     ELSE past \o SubSeq(toks, 1, p - at + 1)]

\* after is cache c once the rest toks of a text was evaluated over its first entries.
Extended(c, text, at, toks, after) ==
  /\ at \in 0 .. Len(text) /\ at < Len(text)
  /\ \E rows \in Nat : DOMAIN c = 0 .. rows - 1 /\ Len(text) <= rows
  /\ EntriesOf(c, text, at)
  /\ toks = SubSeq(text, at + 1, Len(text))
  /\ after = Appended(c, at, toks, Past(c, at))

\* Evaluating the rest of a text over the entries of its beginning yields the
\* entries of the whole text, and logits that depend on its prefixes.
LEMMA EvaluationExtends ==
  ASSUME NEW text \in Text, NEW c, NEW at, NEW toks, NEW after,
         Extended(c, text, at, toks, after),
         NEW a, NEW params, WriteAt(a, params) = at
  PROVE  /\ EntriesOf(after, text, Len(text))
         /\ \A n \in 0 .. Len(text) :
              Contexts(a, params, after, Len(toks), n) = Prefixes(text, n)
<1> /\ at \in 0 .. Len(text) /\ at < Len(text)
    /\ EntriesOf(c, text, at) /\ toks = SubSeq(text, at + 1, Len(text))
    /\ after = Appended(c, at, toks, Past(c, at))
  BY DEF Extended
<1> PICK rows \in Nat : DOMAIN c = 0 .. rows - 1 /\ Len(text) <= rows BY DEF Extended
<1>0. Len(text) \in Nat BY TextLength
<1>1. Len(toks) = Len(text) - at /\ toks \in Text BY RestIsText
<1>2. at + Len(toks) - 1 = Len(text) - 1 /\ at + Len(toks) = Len(text) BY <1>0, <1>1
<1>3. DOMAIN c = 0 .. rows - 1 OBVIOUS
<1>5. Past(c, at) = SubSeq(text, 1, at) BY PastIsPrefix
<1>6. SubSeq(text, 1, at) \in Text BY PrefixIsText
<1>7. SubSeq(text, 1, at) # Stale BY <1>6, TextIsEntry
<1>8. after = [p \in 0 .. rows - 1 |->
                 IF p \notin at .. Len(text) - 1 THEN c[p]
                 ELSE SubSeq(text, 1, at) \o SubSeq(toks, 1, p - at + 1)]
  BY <1>2, <1>3, <1>5, <1>7 DEF Appended
<1>9. \A p \in 0 .. Len(text) - 1 : after[p] = SubSeq(text, 1, p + 1)
  <2> SUFFICES ASSUME NEW p \in 0 .. Len(text) - 1 PROVE after[p] = SubSeq(text, 1, p + 1)
    OBVIOUS
  <2>1. p \in 0 .. rows - 1 BY <1>0
  <2>2. CASE p < at
    <3>1. p \notin at .. Len(text) - 1 /\ p \in 0 .. at - 1 BY <2>2, <1>0
    <3>2. after[p] = c[p] BY <1>8, <2>1, <3>1
    <3> QED BY <3>1, <3>2 DEF EntriesOf
  <2>3. CASE p >= at
    <3>1. p \in at .. Len(text) - 1 /\ p - at + 1 \in 0 .. Len(text) - at
          /\ at + (p - at + 1) = p + 1
      BY <2>3, <1>0
    <3>2. after[p] = SubSeq(text, 1, at) \o SubSeq(toks, 1, p - at + 1) BY <1>8, <2>1, <3>1
    <3>3. SubSeq(text, 1, at) \o SubSeq(toks, 1, p - at + 1) = SubSeq(text, 1, at + (p - at + 1))
      BY <3>1, PrefixAndRest
    <3> QED BY <3>1, <3>2, <3>3
  <2> QED BY <2>2, <2>3, <1>0
<1>11. ASSUME NEW n \in 0 .. Len(text)
       PROVE  Contexts(a, params, after, Len(toks), n)
                = [i \in 1 .. n |-> SubSeq(text, 1, Len(text) - n + i)]
  <2>1. Contexts(a, params, after, Len(toks), n)
          = [i \in 1 .. n |-> IF Len(text) - n + i - 1 \in DOMAIN after
                              THEN after[Len(text) - n + i - 1] ELSE Stale]
    BY <1>2 DEF Contexts
  <2>2. DOMAIN after = 0 .. rows - 1 BY <1>8
  <2>3. ASSUME NEW i \in 1 .. n
        PROVE  /\ Len(text) - n + i - 1 \in DOMAIN after
               /\ after[Len(text) - n + i - 1] = SubSeq(text, 1, Len(text) - n + i)
    <3>1. Len(text) - n + i - 1 \in 0 .. Len(text) - 1 /\ Len(text) - n + i - 1 \in 0 .. rows - 1
          /\ (Len(text) - n + i - 1) + 1 = Len(text) - n + i
      BY <1>0
    <3> QED BY <3>1, <1>9, <2>2
  <2> QED BY <2>1, <2>3
<1>12. EntriesOf(after, text, Len(text)) BY <1>9 DEF EntriesOf
<1>13. \A n \in 0 .. Len(text) : Contexts(a, params, after, Len(toks), n) = Prefixes(text, n)
  BY <1>11 DEF Prefixes
<1> QED BY <1>12, <1>13

-----------------------------------------------------------------------------
(* Calling a model                                                         *)

InCall == pc # "idle" /\ TypeInv /\ CallInv /\ \A m \in Model : GraphsInv(m)

LEMMA CallTypes ==
  ASSUME NEW c \in Call
  PROVE  /\ c.kind \in {"decode", "speculative"} /\ c.cg \in BOOLEAN /\ c.eos \in BOOLEAN
         /\ c.batch \in Nat \ {0} /\ c.prompt \in Nat \ {0} /\ c.max \in Nat \ {0}
         /\ c.lookahead \in Nat \ {0}
         /\ Used(c) \subseteq Model /\ "main" \in Used(c)
         /\ c.kind = "speculative" => "draft" \in Used(c)
         /\ \A m \in Model : DecodingSeqlens(c, m) \subseteq Nat \ {0}
<1>1. /\ c.kind \in {"decode", "speculative"} /\ c.cg \in BOOLEAN /\ c.eos \in BOOLEAN
      /\ c.batch \in BatchSize /\ c.prompt \in PromptLength /\ c.max \in MaxLength
      /\ c.lookahead \in Lookahead
  BY DEF Call
<1>2. /\ c.batch \in Nat \ {0} /\ c.prompt \in Nat \ {0} /\ c.max \in Nat \ {0}
      /\ c.lookahead \in Nat \ {0}
  BY <1>1, GenerationAssumption
<1>3. Used(c) \subseteq Model /\ "main" \in Used(c)
      /\ (c.kind = "speculative" => "draft" \in Used(c))
  BY DEF Used, Model
<1>4. \A m \in Model : DecodingSeqlens(c, m) \subseteq Nat \ {0} BY <1>2 DEF DecodingSeqlens
<1> QED BY <1>1, <1>2, <1>3, <1>4

\* A replayed graph is one of the call's; the lengths a model sees are numbers, and
\* without graphs there are none.
LEMMA SeenTypes ==
  ASSUME InCall, NEW m \in Used(call), NEW n \in Nat,
         Replays(m) => n \in DecodingSeqlens(call, m)
  PROVE  /\ Replays(m) => /\ call.cg /\ ip[m].offset > 0 /\ GraphFor(m, n) # {}
                          /\ Replayed(m, n) \in graphs[m].callables
                          /\ Replayed(m, n).batch = call.batch /\ Replayed(m, n).seqlen = n
                          /\ SeenParams(m, n).offset = Replayed(m, n).offset
                          /\ SeenParams(m, n).lengths = ip[m].offset
         /\ ~Replays(m) => SeenParams(m, n) = ip[m]
         /\ SeenParams(m, n).lengths \in Int
         /\ ~call.cg => SeenParams(m, n).lengths = NoLengths
<1>1. call \in Call /\ (call.cg => ReadyInv(m))
      /\ (~call.cg => \A w \in Model : ip[w].lengths = NoLengths)
  BY DEF InCall, CallInv
<1>2. m \in Model /\ call.cg \in BOOLEAN BY <1>1, CallTypes
<1>3. ip[m] \in Params /\ ip[m].offset \in Nat /\ ip[m].lengths \in Int
  BY <1>2 DEF InCall, TypeInv, Params
<1>4. CASE Replays(m)
  <2>1. call.cg /\ ip[m].offset > 0 BY <1>4 DEF Replays
  <2>3. \E k \in graphs[m].callables : k.batch = call.batch /\ k.seqlen = n
    BY <1>1, <1>4, <2>1 DEF ReadyInv
  <2>4. GraphFor(m, n) # {} BY <2>3 DEF GraphFor
  <2>5. Replayed(m, n) \in GraphFor(m, n) BY <2>4 DEF Replayed
  <2>6. /\ Replayed(m, n) \in graphs[m].callables
        /\ Replayed(m, n).batch = call.batch /\ Replayed(m, n).seqlen = n
    BY <2>5 DEF GraphFor
  <2> DEFINE o == Replayed(m, n).offset
  <2>7. SeenParams(m, n) = [ip[m] EXCEPT !.offset = o, !.lengths = ip[m].offset]
    BY <1>4 DEF SeenParams
  <2> HIDE DEF o
  <2>8. SeenParams(m, n).offset = o /\ SeenParams(m, n).lengths = ip[m].offset
    BY <2>7, <1>3 DEF Params
  <2> QED BY <1>3, <1>4, <2>1, <2>4, <2>6, <2>8 DEF o
<1>5. CASE ~Replays(m)
  <2>1. SeenParams(m, n) = ip[m] BY <1>5 DEF SeenParams
  <2> QED BY <1>1, <1>2, <1>3, <1>5, <2>1
<1> QED BY <1>4, <1>5

\* An eager call writes the cache at the offset, with the positions that start there,
\* and appends with rotary only without graphs.
LEMMA EagerAtOffset ==
  ASSUME InCall, NEW m \in Used(call), ~Replays(m)
  PROVE  /\ WriteAt(arch, ip[m]) = ip[m].offset
         /\ PositionOf(arch, ip[m], ip[m].offset) = ip[m].offset
         /\ AttentionPath(arch, ip[m]) = "rotary_append" => ip[m].offset # 0 /\ ~call.cg
<1>1. call \in Call /\ (call.cg => ReadyInv(m))
      /\ (~call.cg => \A w \in Model : ip[w].lengths = NoLengths)
  BY DEF InCall, CallInv
<1>2. m \in Model /\ call.cg \in BOOLEAN BY <1>1, CallTypes
<1>3. ip[m] \in Params /\ ip[m].offset \in Nat /\ ip[m].lengths \in Int
  BY <1>2 DEF InCall, TypeInv, Params
<1>4. CASE ip[m].offset = 0
  <2>1. ip[m].lengths \in {0, NoLengths} BY <1>1, <1>2, <1>4 DEF ReadyInv
  <2>2. CacheSeqlens(ip[m]) = 0 BY <1>4, <2>1 DEF CacheSeqlens, NoLengths
  <2>3. AttentionPath(arch, ip[m]) = "write_then_attend" BY <1>4 DEF AttentionPath
  <2> QED BY <1>4, <2>2, <2>3 DEF WriteAt, PositionOf
<1>5. CASE ip[m].offset # 0
  <2>1. ~call.cg BY <1>3, <1>5 DEF Replays
  <2>2. ip[m].lengths = NoLengths BY <1>1, <1>2, <2>1
  <2>3. CacheSeqlens(ip[m]) = ip[m].offset BY <2>2 DEF CacheSeqlens
  <2> QED BY <1>3, <1>5, <2>1, <2>3 DEF WriteAt, PositionOf
<1> QED BY <1>4, <1>5

\* So does a replayed graph, when it is usable; and it reads a live table.
LEMMA SeenAtOffset ==
  ASSUME InCall, NEW m \in Used(call), NEW n \in Nat, GraphsUsable,
         Replays(m) => n \in DecodingSeqlens(call, m) /\ n < call.max
  PROVE  /\ WriteAt(arch, SeenParams(m, n)) = ip[m].offset
         /\ PositionOf(arch, SeenParams(m, n), ip[m].offset) = ip[m].offset
         /\ TableIntact(m, n) = {TRUE}
<1>1. call \in Call BY DEF InCall, CallInv
<1>2. m \in Model BY <1>1, CallTypes
<1>3. ip[m].offset \in Nat BY <1>2 DEF InCall, TypeInv, Params
<1>4. CASE Replays(m)
  <2>1. /\ call.cg /\ Replayed(m, n) \in graphs[m].callables
        /\ Replayed(m, n).batch = call.batch /\ Replayed(m, n).seqlen = n
        /\ SeenParams(m, n).offset = Replayed(m, n).offset
        /\ SeenParams(m, n).lengths = ip[m].offset
    BY <1>4, SeenTypes
  <2>2. n \in DecodingSeqlens(call, m) /\ n < call.max BY <1>4
  <2>3. /\ arch # "plain" /\ Replayed(m, n).offset > 0
        /\ arch = "rotary" => Replayed(m, n).table = table[m].id
    BY <2>1, <2>2 DEF GraphsUsable
  <2>4. Replayed(m, n) \in Graph BY <1>2, <2>1 DEF InCall, TypeInv, GraphCache
  <2>5. Replayed(m, n).offset \in Nat /\ Replayed(m, n).offset # 0 BY <2>3, <2>4 DEF Graph
  <2>6. ip[m].offset # NoLengths BY <1>3 DEF NoLengths
  <2>7. CacheSeqlens(SeenParams(m, n)) = ip[m].offset BY <2>1, <2>6 DEF CacheSeqlens
  <2>8. AttentionPath(arch, SeenParams(m, n)) # "write_then_attend"
    BY <2>1, <2>3, <2>5 DEF AttentionPath
  <2>9. arch \in {"rotary", "flash", "plain"} BY GenerationAssumption DEF InCall, TypeInv
  <2>10. TableIntact(m, n) = {TRUE} BY <2>3, <2>9 DEF TableIntact
  <2> QED BY <2>7, <2>8, <2>10 DEF WriteAt, PositionOf
<1>5. CASE ~Replays(m)
  <2>1. SeenParams(m, n) = ip[m] BY <1>5 DEF SeenParams
  <2>2. TableIntact(m, n) = {TRUE} BY <1>5 DEF TableIntact
  <2> QED BY <1>5, <2>1, <2>2, EagerAtOffset
<1> QED BY <1>4, <1>5

\* toks are the tokens of a text that model m has not evaluated.
RestFor(m, toks, text) ==
  /\ ip[m].offset < Len(text)
  /\ Len(text) <= call.max \/ (ip[m].offset = 0 /\ call.prompt > call.max)
  /\ toks = SubSeq(text, ip[m].offset + 1, Len(text))
  /\ Replays(m) => Len(toks) \in DecodingSeqlens(call, m) /\ Len(toks) < call.max

\* What a call on them achieves.
CallExtends(m, toks, text, after) ==
  /\ DOMAIN after = Cells(Rows(m))
  /\ (GraphsUsable /\ EntriesOf(cells[m], text, ip[m].offset)) =>
       /\ EntriesOf(after, text, Len(text))
       /\ \A n \in 0 .. Len(text) : Logits(m, toks, after, n) = Prefixes(text, n)
  /\ ip[m].offset + Len(toks) = Len(text)
  /\ SeenParams(m, Len(toks)).lengths \in Int
  /\ ~call.cg => SeenParams(m, Len(toks)).lengths = NoLengths

\* The tokens of a rest.
LEMMA RestTokens ==
  ASSUME InCall, NEW m \in Used(call), NEW text \in Text, NEW toks, RestFor(m, toks, text)
  PROVE  /\ m \in Model /\ ip[m].offset \in Nat /\ ip[m].offset \in 0 .. Len(text)
         /\ Len(text) \in Nat /\ Len(toks) \in Nat \ {0}
         /\ ip[m].offset + Len(toks) = Len(text)
         /\ Rows(m) \in Nat /\ call.max \in Nat /\ call.max <= Rows(m)
         /\ DOMAIN cells[m] = 0 .. Rows(m) - 1
<1>1. call \in Call /\ (call.cg => ReadyInv(m)) BY DEF InCall, CallInv
<1>2. m \in Model /\ call.cg \in BOOLEAN /\ call.max \in Nat BY <1>1, CallTypes
<1>3. ip[m].offset \in Nat BY <1>2 DEF InCall, TypeInv, Params
<1>4. Len(text) \in Nat BY TextLength
<1>5. ip[m].offset \in 0 .. Len(text) /\ ip[m].offset < Len(text) BY <1>3, <1>4 DEF RestFor
<1>6. Len(toks) = Len(text) - ip[m].offset BY <1>5, RestIsText DEF RestFor
<1>7. Len(toks) \in Nat \ {0} /\ ip[m].offset + Len(toks) = Len(text)
  <2> DEFINE at == ip[m].offset
             l == Len(text)
             n == Len(toks)
  <2>1. at \in 0 .. l /\ at < l /\ l \in Nat /\ n = l - at BY <1>4, <1>5, <1>6
  <2> HIDE DEF at, l, n
  <2>2. n \in Nat \ {0} /\ at + n = l BY <2>1
  <2> QED BY <2>2 DEF at, l, n
<1>8. graphs[m].maxLen \in Nat BY <1>2 DEF InCall, TypeInv, GraphCache
<1>9. Rows(m) \in Nat /\ call.max <= Rows(m)
  BY <1>1, <1>2, <1>8 DEF InCall, Rows, ReadyInv
<1>10. DOMAIN cells[m] = 0 .. Rows(m) - 1 BY <1>2 DEF InCall, TypeInv, Cells
<1> QED BY <1>2, <1>3, <1>4, <1>5, <1>7, <1>9, <1>10

\* A call that is made on the rest of a text extends the cache, and if the graphs are
\* usable, with the entries of that text.
LEMMA CallMade ==
  ASSUME InCall, NEW m \in Used(call), NEW text \in Text, NEW toks, RestFor(m, toks, text),
         CanCall(m, toks), NEW after \in Evaluated(m, toks)
  PROVE  CallExtends(m, toks, text, after)
<1>1. /\ m \in Model /\ ip[m].offset \in Nat /\ ip[m].offset \in 0 .. Len(text)
      /\ Len(text) \in Nat /\ Len(toks) \in Nat \ {0}
      /\ ip[m].offset + Len(toks) = Len(text) /\ Rows(m) \in Nat
      /\ DOMAIN cells[m] = 0 .. Rows(m) - 1
  BY RestTokens
<1>2. /\ ip[m].offset < Len(text)
      /\ toks = SubSeq(text, ip[m].offset + 1, Len(text))
      /\ Replays(m) => Len(toks) \in DecodingSeqlens(call, m) /\ Len(toks) < call.max
  BY DEF RestFor
<1> DEFINE seen == SeenParams(m, Len(toks))
           c == cells[m]
           at == ip[m].offset
           rows == Rows(m)
<1>3. seen.lengths \in Int /\ (~call.cg => seen.lengths = NoLengths)
  BY <1>1, <1>2, SeenTypes
<1>4. PICK intact \in TableIntact(m, Len(toks)) :
        after = Evaluate(arch, seen, c, toks, at, intact)
  BY DEF Evaluated
<1>5. DOMAIN after = Cells(rows)
  <2>1. DOMAIN after = DOMAIN c BY <1>4 DEF Evaluate
  <2> QED BY <1>1, <2>1 DEF Cells
<1>6. ASSUME GraphsUsable, EntriesOf(c, text, at)
      PROVE  /\ EntriesOf(after, text, Len(text))
             /\ \A n \in 0 .. Len(text) : Logits(m, toks, after, n) = Prefixes(text, n)
  <2>1. /\ WriteAt(arch, seen) = at /\ PositionOf(arch, seen, at) = at
        /\ TableIntact(m, Len(toks)) = {TRUE}
    BY <1>1, <1>2, <1>6, SeenAtOffset
  <2>2. Fits(c, WriteAt(arch, seen), Len(toks))
    BY DEF CanCall, Accepts, SeenParams
  <2>3. at + Len(toks) - 1 \in 0 .. rows - 1 BY <1>1, <2>1, <2>2 DEF Fits
  <2>4. Len(text) <= rows BY <1>1, <2>3
  <2>5. after = Appended(c, at, toks, Past(c, at))
    <3>1. intact = TRUE BY <2>1
    <3>2. Evaluate(arch, seen, c, toks, at, TRUE) = Appended(c, at, toks, Past(c, at))
      BY <2>1 DEF Evaluate, Appended
    <3> QED BY <1>4, <3>1, <3>2, Zenon
  <2>6. /\ at \in 0 .. Len(text) /\ at < Len(text) /\ rows \in Nat /\ DOMAIN c = 0 .. rows - 1
        /\ EntriesOf(c, text, at) /\ toks = SubSeq(text, at + 1, Len(text))
    BY <1>1, <1>2, <1>6
  <2>7. WriteAt(arch, seen) = at BY <2>1
  <2> HIDE DEF seen, at, c, rows
  <2>8. Extended(c, text, at, toks, after) BY <2>4, <2>5, <2>6 DEF Extended
  <2>9. /\ EntriesOf(after, text, Len(text))
        /\ \A n \in 0 .. Len(text) :
             Contexts(arch, seen, after, Len(toks), n) = Prefixes(text, n)
    BY <2>7, <2>8, EvaluationExtends
  <2> QED BY <2>9 DEF Logits, seen
<1> QED BY <1>1, <1>3, <1>5, <1>6 DEF CallExtends

-----------------------------------------------------------------------------
(* The rotary table and the graphs that point to it                        *)

LEMMA RotatedTable ==
  ASSUME NEW t \in Table, NEW len \in Nat
  PROVE  /\ Rotated(t, len) \in Table
         /\ Rotated(t, len) = t \/ (Rotated(t, len).id = t.id + 1 /\ t.len < len)
         /\ arch # "flash" => Rotated(t, len).len >= len
         /\ len <= t.len => Rotated(t, len) = t
<1>1. t.id \in Nat /\ t.len \in Nat BY DEF Table
<1> DEFINE new == [id |-> t.id + 1, len |-> len, inference |-> ~FALSE]
<1>2. new \in Table BY <1>1 DEF Table
<1>3. new.id = t.id + 1 /\ new.len = len OBVIOUS
<1>4. Rotated(t, len) = IF arch # "flash" /\ len > t.len THEN new ELSE t
  BY DEF Rotated, UpdateCosSinCache
<1> HIDE DEF new
<1>5. CASE len > t.len
  <2>1. ~(len <= t.len) /\ len >= len /\ t.len < len BY <1>1, <1>5
  <2> QED BY <1>2, <1>3, <1>4, <1>5, <2>1
<1>6. CASE ~(len > t.len)
  <2>1. t.len >= len BY <1>1, <1>6
  <2> QED BY <1>4, <1>6, <2>1
<1> QED BY <1>5, <1>6

LEMMA TrainedTable ==
  ASSUME NEW t \in Table, NEW len \in Nat
  PROVE  LET u == UpdateCosSinCache(t, len, TRUE)
         IN  u \in Table /\ (u = t \/ u.id = t.id + 1)
<1>1. t.id \in Nat /\ t.len \in Nat BY DEF Table
<1> DEFINE new == [id |-> t.id + 1, len |-> len, inference |-> ~TRUE]
           u == UpdateCosSinCache(t, len, TRUE)
<1>2. u = new \/ u = t BY DEF UpdateCosSinCache
<1>3. new \in Table /\ new.id = t.id + 1 BY <1>1 DEF Table
<1> HIDE DEF u, new
<1>4. u \in Table /\ (u = t \/ u.id = t.id + 1) BY <1>2, <1>3
<1> QED BY <1>4 DEF u

\* A new table leaves the graphs of the old one behind.
LEMMA GraphsOutliveTable ==
  ASSUME NEW m \in Model, GraphsInv(m), graphs[m] \in GraphCache, table[m] \in Table,
         UNCHANGED <<arch, graphs>>, table'[m] \in Table,
         table'[m] = table[m] \/ table'[m].id = table[m].id + 1
  PROVE  GraphsInv(m)'
<1>1. SUFFICES ASSUME NEW k \in graphs[m].callables PROVE PlacedIn(k, m)'
  BY DEF GraphsInv
<1>2. PlacedIn(k, m) BY DEF GraphsInv
<1>3. CASE table'[m] = table[m] BY <1>2, <1>3 DEF PlacedIn
<1>4. CASE table'[m].id = table[m].id + 1
  <2>1. k.table \in Nat /\ table[m].id \in Nat BY DEF GraphCache, Graph, Table
  <2>2. k.table <= table'[m].id /\ k.table # table'[m].id BY <1>2, <1>4, <2>1 DEF PlacedIn
  <2> QED BY <1>2, <2>2 DEF PlacedIn
<1> QED BY <1>3, <1>4

\* The table the module reads after m was called: a replayed graph does not touch it.
TableCalled(m) ==
  table' = IF Replays(m) THEN table
           ELSE [table EXCEPT ![m] = Rotated(table[m], ip[m].maxLen)]

\* An evaluation never takes the table from under a graph that could be replayed: it
\* makes graphs neither usable nor useless, and replaces no table but in an eager call
\* for more positions than it has.
LEMMA TableAfterCall ==
  ASSUME InCall, NEW m \in Used(call), UNCHANGED <<arch, graphs, call>>, TableCalled(m)
  PROVE  /\ table' \in [Model -> Table] /\ \A w \in Model : GraphsInv(w)'
         /\ GraphsUsable' = GraphsUsable
         /\ StaysLive
<1>1. /\ call \in Call /\ (call.cg => ReadyInv(m)) /\ ip[m].maxLen = call.max
      /\ \A w \in Model : GraphsInv(w)
      /\ graphs \in [Model -> GraphCache] /\ table \in [Model -> Table]
  BY DEF InCall, CallInv, TypeInv
<1>2. m \in Model /\ call.cg \in BOOLEAN /\ call.max \in Nat /\ Used(call) \subseteq Model
  BY <1>1, CallTypes
<1>3. graphs[m] \in GraphCache /\ table[m] \in Table BY <1>1, <1>2
<1> DEFINE t == table[m]
           r == Rotated(t, call.max)
<1>4. /\ r \in Table
      /\ r = t \/ (r.id = t.id + 1 /\ t.len < call.max)
  BY <1>2, <1>3, RotatedTable
<1>5. table' = IF Replays(m) THEN table ELSE [table EXCEPT ![m] = r]
  BY <1>1 DEF TableCalled
<1> HIDE DEF t, r
<1>6. table' \in [Model -> Table] BY <1>1, <1>2, <1>4, <1>5
<1>7. ASSUME NEW w \in Model
      PROVE  \/ table'[w] = table[w]
             \/ w = m /\ table'[w].id = table[w].id + 1 /\ table[w].len < call.max
  BY <1>1, <1>2, <1>4, <1>5 DEF t
<1>8. ASSUME NEW w \in Model PROVE GraphsInv(w)'
  <2>1. GraphsInv(w) /\ graphs[w] \in GraphCache /\ table[w] \in Table /\ table'[w] \in Table
    BY <1>1, <1>6
  <2> QED BY <1>7, <2>1, GraphsOutliveTable
<1>9. ASSUME NEW w \in Model, NEW k \in graphs[w].callables, arch = "rotary", k.offset > 0
      PROVE  \/ k.table = table'[w].id <=> k.table = table[w].id
             \/ ~call.cg /\ table[w].len < call.max
  <2> SUFFICES ASSUME ~(~call.cg /\ table[w].len < call.max)
               PROVE  k.table = table'[w].id <=> k.table = table[w].id
    OBVIOUS
  <2>1. CASE table'[w] = table[w] BY <2>1
  <2>2. CASE table'[w] # table[w]
    <3>1. w = m /\ table'[w].id = table[w].id + 1 /\ table[w].len < call.max BY <1>7, <2>2
    <3>2. call.cg BY <3>1
    <3>3. call.max <= graphs[w].maxLen BY <1>1, <3>1, <3>2 DEF ReadyInv
    <3>4. PlacedIn(k, w) BY <1>1 DEF GraphsInv
    <3>5. /\ graphs[w].maxLen \in Nat /\ table[w].len \in Nat /\ table[w].id \in Nat
          /\ k.table \in Nat
      BY <1>1 DEF GraphCache, Table, Graph
    <3>6. ~(graphs[w].maxLen <= table[w].len) BY <1>2, <3>1, <3>3, <3>5
    <3>7. k.table # table[w].id /\ k.table <= table[w].id BY <1>9, <3>4, <3>6 DEF PlacedIn
    <3>8. k.table # table'[w].id BY <3>1, <3>5, <3>7
    <3> QED BY <3>7, <3>8
  <2> QED BY <2>1, <2>2
<1>10. GraphsUsable' <=> GraphsUsable
  <2>1. Used(call)' = Used(call) BY DEF Used
  <2>2. \A w \in Model : DecodingSeqlens(call, w)' = DecodingSeqlens(call, w)
    BY DEF DecodingSeqlens
  <2>3. CASE ~call.cg BY <2>3 DEF GraphsUsable
  <2>4. CASE call.cg
    <3> DEFINE Can(k, w, id) == /\ arch # "plain" /\ k.offset > 0
                                /\ arch = "rotary" => k.table = id
    <3>1. ASSUME NEW w \in Model, NEW k \in graphs[w].callables
          PROVE  Can(k, w, table[w].id) <=> Can(k, w, table'[w].id)
      BY <1>9, <2>4
    <3>2. GraphsUsable <=>
            \A w \in Used(call) : \A k \in graphs[w].callables :
              (k.batch = call.batch /\ k.seqlen \in DecodingSeqlens(call, w)
               /\ k.seqlen < call.max) => Can(k, w, table[w].id)
      BY <2>4 DEF GraphsUsable
    <3>3. GraphsUsable' <=>
            \A w \in Used(call) : \A k \in graphs[w].callables :
              (k.batch = call.batch /\ k.seqlen \in DecodingSeqlens(call, w)
               /\ k.seqlen < call.max) => Can(k, w, table'[w].id)
      BY <1>2, <2>1, <2>2, <2>4 DEF GraphsUsable
    <3> HIDE DEF Can
    <3> QED BY <1>2, <3>1, <3>2, <3>3
  <2> QED BY <2>3, <2>4
<1>11. StaysLive
  <2> SUFFICES ASSUME NEW w \in Model, NEW k \in graphs[w].callables, PointsAtLiveMemory(w, k)
               PROVE  PointsAtLiveMemory(w, k)' \/ (~call.cg /\ table[w].len < call.max)
    BY DEF StaysLive
  <2> QED BY <1>9 DEF PointsAtLiveMemory
<1>12. GraphsUsable' = GraphsUsable
  <2>1. GraphsUsable \in BOOLEAN /\ GraphsUsable' \in BOOLEAN BY DEF GraphsUsable
  <2> QED BY <1>10, <2>1, Zenon
<1> QED BY <1>6, <1>8, <1>11, <1>12

\* A call the model cannot be given is one the code refuses.
LEMMA CallServed ==
  ASSUME InCall, NEW m \in Used(call), NEW text \in Text, NEW toks, RestFor(m, toks, text),
         ~CanCall(m, toks)
  PROVE  Refused(call)
<1>1. /\ m \in Model /\ ip[m].offset \in Nat /\ ip[m].offset \in 0 .. Len(text)
      /\ Len(text) \in Nat /\ Len(toks) \in Nat \ {0}
      /\ ip[m].offset + Len(toks) = Len(text)
      /\ Rows(m) \in Nat /\ call.max \in Nat /\ call.max <= Rows(m)
      /\ DOMAIN cells[m] = 0 .. Rows(m) - 1
  BY RestTokens
<1>2. /\ Len(text) <= call.max \/ (ip[m].offset = 0 /\ call.prompt > call.max)
      /\ Replays(m) => Len(toks) \in DecodingSeqlens(call, m) /\ Len(toks) < call.max
  BY DEF RestFor
<1>3. /\ call \in Call /\ (call.cg => ReadyInv(m)) /\ ip[m].maxLen = call.max
      /\ (~call.cg => \A w \in Model : ip[w].lengths = NoLengths)
      /\ graphs[m] \in GraphCache /\ table[m] \in Table /\ GraphsInv(m)
      /\ arch \in {"rotary", "flash", "plain"}
  BY <1>1, GenerationAssumption DEF InCall, CallInv, TypeInv
<1>4. call.cg \in BOOLEAN /\ call.batch \in Nat BY <1>3, CallTypes
<1> DEFINE n == Len(toks)
           at == ip[m].offset
<1>5. ~Replays(m)
  <2> SUFFICES ASSUME Replays(m) PROVE CanCall(m, toks) OBVIOUS
  <2>1. /\ call.cg /\ at > 0 /\ GraphFor(m, n) # {}
        /\ Replayed(m, n) \in graphs[m].callables /\ Replayed(m, n).seqlen = n
        /\ SeenParams(m, n).offset = Replayed(m, n).offset
        /\ SeenParams(m, n).lengths = at
    BY <1>1, <1>2, SeenTypes
  <2>2. Rows(m) = graphs[m].maxLen BY <2>1 DEF InCall, Rows
  <2> DEFINE k == Replayed(m, n)
  <2>3. k \in Graph /\ PlacedIn(k, m) BY <1>3, <2>1 DEF GraphCache, GraphsInv
  <2>4. k.offset \in Nat /\ k.offset + n <= Rows(m) BY <2>1, <2>2, <2>3 DEF PlacedIn, Graph
  <2>5. WriteAt(arch, SeenParams(m, n)) \in {k.offset, at}
    <3>1. CacheSeqlens(SeenParams(m, n)) = at BY <1>1, <2>1 DEF CacheSeqlens, NoLengths
    <3> QED BY <2>1, <3>1 DEF WriteAt
  <2> HIDE DEF k, n, at
  <2>6. at \in Nat /\ at + n <= Rows(m) /\ n \in Nat \ {0} BY <1>1, <1>2, <2>1 DEF n, at
  <2>7. ASSUME NEW o \in {k.offset, at} PROVE Fits(cells[m], o, n)
    <3>1. o \in Nat /\ o + n <= Rows(m) BY <2>4, <2>6
    <3>2. o >= 0 /\ o + n - 1 \in 0 .. Rows(m) - 1 BY <1>1, <2>6, <3>1
    <3> QED BY <1>1, <3>2 DEF Fits
  <2> QED BY <2>1, <2>5, <2>7 DEF CanCall, n
<1>6. CASE Len(text) > call.max
  <2>1. call.prompt > call.max BY <1>1, <1>2, <1>6
  <2> QED BY <2>1 DEF Refused
<1>7. CASE ~(Len(text) > call.max)
  <2> DEFINE len == Rotated(table[m], call.max).len
  <2>1. arch # "flash" => len \in Nat /\ len >= call.max
    <3>1. Rotated(table[m], call.max) \in Table BY <1>1, <1>3, RotatedTable
    <3>2. arch # "flash" => len >= call.max BY <1>1, <1>3, RotatedTable
    <3> QED BY <3>1, <3>2 DEF Table
  <2>2. ~Accepts(arch, ip[m], cells[m], call.batch, n, len)
    BY <1>3, <1>5 DEF CanCall
  <2>3. /\ WriteAt(arch, ip[m]) = at
        /\ AttentionPath(arch, ip[m]) = "rotary_append" => at # 0 /\ ~call.cg
    BY <1>5, EagerAtOffset
  <2> HIDE DEF n, at, len
  <2>4. at \in Nat /\ n \in Nat \ {0} /\ at + n <= call.max BY <1>1, <1>7 DEF n, at
  <2>5. Fits(cells[m], WriteAt(arch, ip[m]), n)
    <3>1. at >= 0 /\ at + n - 1 \in 0 .. Rows(m) - 1 BY <1>1, <2>4
    <3> QED BY <1>1, <2>3, <3>1 DEF Fits
  <2>6. arch # "flash"
    <3> SUFFICES ASSUME arch = "flash" PROVE FALSE OBVIOUS
    <3>1. AttentionPath(arch, ip[m]) # "rotary_append" BY DEF AttentionPath
    <3> QED BY <2>2, <2>5, <3>1 DEF Accepts
  <2>7. AttentionPath(arch, ip[m]) # "rotary_append"
    <3> SUFFICES ASSUME AttentionPath(arch, ip[m]) = "rotary_append" PROVE FALSE OBVIOUS
    <3>1. at > 0 /\ ~call.cg BY <2>3, <2>4
    <3>2. Rows(m) = call.max BY <3>1 DEF InCall, Rows
    <3>3. DOMAIN cells[m] \subseteq Cells(len) BY <1>1, <2>1, <2>6, <3>2 DEF Cells
    <3> QED BY <2>2, <2>5, <2>6, <3>1, <3>3 DEF Accepts, at
  <2>8. n <= len /\ at + n <= len BY <1>1, <2>1, <2>4, <2>6
  <2>9. ip[m].lengths # NoLengths /\ ip[m].rows # call.batch
    BY <2>2, <2>5, <2>6, <2>7, <2>8 DEF Accepts, at
  <2>10. call.cg BY <1>1, <1>3, <2>9
  <2>11. call.batch < graphs[m].maxBatch /\ ~Invalid(graphs[m], call)
    <3>1. /\ call.max <= graphs[m].maxLen /\ call.batch <= graphs[m].maxBatch
          /\ ip[m].rows = graphs[m].maxBatch
      BY <1>3, <2>10 DEF ReadyInv
    <3>2. graphs[m].maxBatch \in Nat /\ graphs[m].maxLen \in Nat BY <1>3 DEF GraphCache
    <3> QED BY <1>1, <1>4, <2>9, <3>1, <3>2 DEF Invalid
  <2>12. Allocated(graphs[m], call) = graphs[m] BY <2>11 DEF Allocated
  <2> QED BY <2>6, <2>10, <2>11, <2>12 DEF Refused
<1> QED BY <1>6, <1>7

-----------------------------------------------------------------------------
(* Extending a text                                                        *)

LEMMA TokenIsText ==
  ASSUME NEW t \in Token
  PROVE  <<t>> \in Text /\ Len(<<t>>) = 1 /\ t \in Tokens
<1>1. t \in Tokens BY GenerationAssumption DEF Tokens
<1> QED BY <1>1 DEF Text

\* Entries of a text stay entries of whatever it becomes.
LEMMA EntriesKept ==
  ASSUME NEW c, NEW s \in Text, NEW t \in Text, NEW n \in 0 .. Len(s), EntriesOf(c, s, n)
  PROVE  EntriesOf(c, s \o t, n)
<1>1. Len(s) \in Nat BY TextLength
<1>2. SUFFICES ASSUME NEW p \in 0 .. n - 1 PROVE c[p] = SubSeq(s \o t, 1, p + 1)
  BY DEF EntriesOf
<1>3. p + 1 \in 0 .. Len(s) BY <1>1
<1>4. SubSeq(s \o t, 1, p + 1) = SubSeq(s, 1, p + 1) BY <1>3, PrefixOfConcat
<1> QED BY <1>4 DEF EntriesOf

\* Entries of a text are entries of its prefixes.
LEMMA EntriesOfPrefix ==
  ASSUME NEW c, NEW s \in Text, NEW k \in Nat, EntriesOf(c, s, k),
         NEW n \in 0 .. Len(s), NEW j \in 0 .. n, j <= k
  PROVE  EntriesOf(c, SubSeq(s, 1, n), j)
<1>1. Len(s) \in Nat BY TextLength
<1>2. SUFFICES ASSUME NEW p \in 0 .. j - 1 PROVE c[p] = SubSeq(SubSeq(s, 1, n), 1, p + 1)
  BY DEF EntriesOf
<1>3. p + 1 \in 0 .. n /\ p \in 0 .. k - 1 BY <1>1
<1>4. SubSeq(SubSeq(s, 1, n), 1, p + 1) = SubSeq(s, 1, p + 1) BY <1>3, PrefixOfPrefix
<1> QED BY <1>3, <1>4 DEF EntriesOf

LEMMA EntriesConcat ==
  ASSUME NEW a \in Seq(Entry), NEW b \in Seq(Entry)
  PROVE  /\ a \o b \in Seq(Entry) /\ Len(a \o b) = Len(a) + Len(b)
         /\ \A i \in 1 .. Len(a) + Len(b) :
              (a \o b)[i] = IF i <= Len(a) THEN a[i] ELSE b[i - Len(a)]
  BY ConcatProperties

\* Tokens sampled one after the other extend what was sampled before.
LEMMA SampledExtends ==
  ASSUME NEW s \in Text, NEW new \in Text, NEW p \in 0 .. Len(s),
         NEW seen, SampledGiven(s, p, seen)
  PROVE  SampledGiven(s \o new, p, seen \o SampledAfter(s, new))
<1> DEFINE t == s \o new
           more == [i \in 1 .. Len(new) |-> SubSeq(t, 1, Len(s) + i - 1)]
<1>1. Len(s) \in Nat /\ Len(new) \in Nat /\ t \in Text /\ Len(t) = Len(s) + Len(new)
  BY TextLength, TextsConcat
<1>2. seen \in Seq(Entry) /\ Len(seen) = Len(s) - p
      /\ \A i \in 1 .. Len(seen) : seen[i] = SubSeq(s, 1, p + i - 1)
  BY DEF SampledGiven
<1>3. ASSUME NEW i \in 1 .. Len(new) PROVE SubSeq(t, 1, Len(s) + i - 1) \in Entry
  <2>1. Len(s) + i - 1 \in 0 .. Len(t) BY <1>1
  <2> QED BY <1>1, <2>1, PrefixIsText, TextIsEntry
<1>4. more \in Seq(Entry) /\ Len(more) = Len(new) BY <1>1, <1>3
<1>5. \A i \in 1 .. Len(new) : more[i] = SubSeq(t, 1, Len(s) + i - 1) OBVIOUS
<1> DEFINE all == seen \o more
<1> HIDE DEF more
<1>6. /\ all \in Seq(Entry) /\ Len(all) = Len(seen) + Len(more)
      /\ \A i \in 1 .. Len(seen) + Len(more) :
           all[i] = IF i <= Len(seen) THEN seen[i] ELSE more[i - Len(seen)]
  BY <1>2, <1>4, EntriesConcat
<1> HIDE DEF all, t
<1>7. Len(all) = Len(t) - p BY <1>1, <1>2, <1>4, <1>6
<1>8. ASSUME NEW i \in 1 .. Len(all) PROVE all[i] = SubSeq(t, 1, p + i - 1)
  <2>1. CASE i <= Len(seen)
    <3>1. i \in 1 .. Len(seen) /\ p + i - 1 \in 0 .. Len(s) BY <2>1, <1>1, <1>2
    <3>2. all[i] = seen[i] BY <2>1, <1>6
    <3>3. SubSeq(t, 1, p + i - 1) = SubSeq(s, 1, p + i - 1) BY <3>1, PrefixOfConcat DEF t
    <3> QED BY <3>1, <3>2, <3>3, <1>2
  <2>2. CASE ~(i <= Len(seen))
    <3>1. /\ i - Len(seen) \in 1 .. Len(new)
          /\ Len(s) + (i - Len(seen)) - 1 = p + i - 1
      BY <2>2, <1>1, <1>2, <1>4, <1>6
    <3>2. all[i] = more[i - Len(seen)] BY <2>2, <1>6
    <3> QED BY <3>1, <3>2, <1>5
  <2> QED BY <2>1, <2>2
<1> QED BY <1>6, <1>7, <1>8 DEF SampledGiven, SampledAfter, all, more, t

\* One sampled token depends on the text that was evaluated.
LEMMA OnePrefix ==
  ASSUME NEW s \in Text, NEW t \in Token
  PROVE  Prefixes(s, 1) = SampledAfter(s, <<t>>)
<1>1. Len(s) \in Nat /\ <<t>> \in Text /\ Len(<<t>>) = 1 BY TextLength, TokenIsText
<1>2. ASSUME NEW i \in 1 .. 1
      PROVE  SubSeq(s, 1, Len(s) - 1 + i) = SubSeq(s \o <<t>>, 1, Len(s) + i - 1)
  <2>1. Len(s) - 1 + i = Len(s) /\ Len(s) + i - 1 = Len(s) /\ Len(s) \in 0 .. Len(s) BY <1>1
  <2>2. SubSeq(s \o <<t>>, 1, Len(s)) = SubSeq(s, 1, Len(s)) BY <1>1, <2>1, PrefixOfConcat
  <2> QED BY <2>1, <2>2
<1> QED BY <1>1, <1>2 DEF Prefixes, SampledAfter

\* What follows from the invariant while a call runs.
LEMMA Running ==
  ASSUME GenerationInv, pc # "idle"
  PROVE  /\ InCall /\ call \in Call
         /\ "main" \in Used(call) /\ Used(call) \subseteq Model
         /\ call.prompt \in Nat \ {0} /\ call.max \in Nat /\ call.lookahead \in Nat \ {0}
         /\ call.cg \in BOOLEAN
         /\ ip \in [Model -> Params] /\ Behind \in Nat /\ ip["draft"].offset \in Nat
         /\ out \in Text /\ Len(out) \in Nat /\ drafts \in Text /\ Len(drafts) \in Nat
         /\ call.prompt <= Len(out)
         /\ GraphsUsable => /\ EntriesOf(cells["main"], out, Behind)
                            /\ SampledGiven(out, call.prompt, scores)
         /\ First => Behind = 0 /\ Len(out) = call.prompt /\ last = Len(out)
         /\ ~First => Behind = Len(out) - 1 /\ call.prompt <= Behind /\ last \in 1 .. Len(out)
<1>1. InCall BY DEF InCall, GenerationInv
<1>2. call \in Call BY DEF GenerationInv, CallInv
<1>3. /\ "main" \in Used(call) /\ Used(call) \subseteq Model
      /\ call.prompt \in Nat \ {0} /\ call.max \in Nat /\ call.lookahead \in Nat \ {0}
      /\ call.cg \in BOOLEAN
  BY <1>2, CallTypes
<1>4. ip \in [Model -> Params] /\ "main" \in Model /\ "draft" \in Model
  BY DEF GenerationInv, TypeInv, Model
<1>5. Behind \in Nat /\ ip["draft"].offset \in Nat BY <1>4 DEF Behind, Params
<1>6. out \in Text /\ Len(out) \in Nat /\ drafts \in Text /\ Len(drafts) \in Nat
  BY TextLength DEF GenerationInv, TypeInv
<1>7. /\ GraphsUsable => /\ EntriesOf(cells["main"], out, Behind)
                         /\ SampledGiven(out, call.prompt, scores)
      /\ First => Behind = 0 /\ Len(out) = call.prompt /\ last = Len(out)
      /\ ~First => Behind = Len(out) - 1 /\ call.prompt <= Behind /\ last \in 1 .. Len(out)
  BY DEF GenerationInv, MainInv, First, Behind
<1>8. call.prompt <= Len(out) BY <1>3, <1>5, <1>6, <1>7
<1> QED BY <1>1, <1>2, <1>3, <1>4, <1>5, <1>6, <1>7, <1>8

\* What a step within a call has to keep.
LEMMA CallKept ==
  ASSUME GenerationInv, pc # "idle", pc' # "idle", UNCHANGED <<graphs, call>>,
         \A m \in Used(call) : ip'[m].maxLen = ip[m].maxLen /\ ip'[m].rows = ip[m].rows,
         ~call.cg => \A m \in Model : ip'[m].lengths = NoLengths,
         call.cg => \A m \in Used(call) :
                      ip'[m].offset = 0 => ip'[m].lengths \in {0, NoLengths}
  PROVE  CallInv'
<1>1. /\ call \in Call
      /\ \A m \in Used(call) : ip[m].maxLen = call.max
      /\ call.kind = "speculative" => call.batch = 1 /\ ~call.eos
      /\ call.cg => \A m \in Used(call) : ReadyInv(m)
  BY DEF GenerationInv, CallInv
<1>2. Used(call)' = Used(call) BY DEF Used
<1>3. ASSUME call.cg, NEW m \in Used(call) PROVE ReadyInv(m)'
  <2>1. DecodingSeqlens(call, m)' = DecodingSeqlens(call, m) BY DEF DecodingSeqlens
  <2>2. ReadyInv(m) BY <1>1, <1>3
  <2> QED BY <1>3, <2>1, <2>2 DEF ReadyInv
<1> QED BY <1>1, <1>2, <1>3 DEF CallInv

\* What stays true of an invariant when one model was evaluated.
LEMMA EvaluationKept ==
  ASSUME GenerationInv, pc # "idle", NEW m \in Used(call),
         NEW after, DOMAIN after = Cells(Rows(m)), cells' = [cells EXCEPT ![m] = after],
         UNCHANGED <<arch, graphs, calls, call, failed>>, TableCalled(m),
         ip' \in [Model -> Params],
         \A w \in Model : ip'[w].maxLen = ip[w].maxLen /\ ip'[w].rows = ip[w].rows,
         ~call.cg => \A w \in Model : ip'[w].lengths = NoLengths,
         \A w \in Model : ip'[w].offset > 0 \/ ip'[w] = ip[w],
         pc' \in {"decode", "single", "choose", "draft", "verify", "done"},
         out' \in Text, drafts' \in Text, last' \in Nat, spec' \in Nat
  PROVE  /\ TypeInv' /\ CallInv' /\ \A w \in Model : GraphsInv(w)'
         /\ GraphsUsable' = GraphsUsable
         /\ cells'[m] = after /\ \A w \in Model \ {m} : cells'[w] = cells[w]
<1>1. /\ InCall /\ call \in Call /\ Used(call) \subseteq Model /\ m \in Model
      /\ call.cg \in BOOLEAN
  BY Running
<1>2. /\ table' \in [Model -> Table] /\ \A w \in Model : GraphsInv(w)'
      /\ GraphsUsable' = GraphsUsable
  BY <1>1, TableAfterCall
<1>3. pc' # "idle" OBVIOUS
<1>4. /\ cells = [w \in Model |-> cells[w]]
      /\ \A w \in Model : DOMAIN cells[w] = Cells(Rows(w))
  BY DEF GenerationInv, TypeInv
<1>5. cells'[m] = after /\ \A w \in Model \ {m} : cells'[w] = cells[w] BY <1>1, <1>4
<1>6. TypeInv'
  <2>1. ASSUME NEW w \in Model PROVE Rows(w)' = Rows(w)
    <3>1. Used(call)' = Used(call) BY DEF Used
    <3> QED BY <1>3, <3>1 DEF Rows
  <2>2. ASSUME NEW w \in Model PROVE DOMAIN cells'[w] = Cells(Rows(w)')
    BY <1>4, <1>5, <2>1, <2>2
  <2>3. cells' = [w \in Model |-> cells'[w]] BY <1>4
  <2> QED BY <1>2, <2>2, <2>3 DEF GenerationInv, TypeInv
<1>7. CallInv'
  <2>1. ASSUME call.cg, NEW w \in Used(call), ip'[w].offset = 0
        PROVE  ip'[w].lengths \in {0, NoLengths}
    <3>1. w \in Model /\ ip'[w] = ip[w] BY <1>1, <2>1
    <3>2. ReadyInv(w) BY <2>1 DEF GenerationInv, CallInv
    <3> QED BY <2>1, <3>1, <3>2 DEF ReadyInv
  <2> QED BY <1>1, <1>3, <2>1, CallKept
<1> QED BY <1>2, <1>5, <1>6, <1>7

\* Whether a call is refused, and whether its graphs are usable, depends on what it
\* finds alone.
LEMMA SameCall ==
  ASSUME NEW c, UNCHANGED <<arch, graphs, table>>, call' = c
  PROVE  /\ Refused(call)' <=> Refused(c)
         /\ call = c => GraphsUsable' = GraphsUsable
<1>1. Refused(call)' <=> Refused(c)
  BY DEF Refused, Used, Allocated, Invalid, DecodingSeqlens, Rotated, UpdateCosSinCache
<1>2. ASSUME call = c PROVE GraphsUsable' = GraphsUsable
  BY <1>2 DEF GraphsUsable, Used, DecodingSeqlens
<1> QED BY <1>1, <1>2

\* Every token was sampled given the text before it, if the graphs are usable.
LEMMA InvariantSeesPrefix ==
  ASSUME GenerationInv PROVE UsableGraphsSeeThePrefix
<1> SUFFICES ASSUME GraphsUsable PROVE LogitsSeeThePrefix BY DEF UsableGraphsSeeThePrefix
<1>1. ASSUME NEW i \in DOMAIN scores
      PROVE  scores[i] = SubSeq(out, 1, call.prompt + i - 1)
  <2>1. pc # "idle" BY <1>1 DEF GenerationInv, CallInv
  <2>2. SampledGiven(out, call.prompt, scores) BY <2>1, Running
  <2>3. DOMAIN scores = 1 .. Len(scores) BY <2>2 DEF SampledGiven
  <2> QED BY <1>1, <2>2, <2>3 DEF SampledGiven
<1>2. ASSUME NEW i \in DOMAIN draftSeen
      PROVE  draftSeen[i] = out \o SubSeq(drafts, 1, i - 1)
  <2>1. pc \in {"draft", "verify"}
    <3>1. pc # "idle" /\ draftSeen # <<>> BY <1>2 DEF GenerationInv, CallInv
    <3> QED BY <3>1 DEF GenerationInv, PlaceInv
  <2>2. SampledGiven(out \o drafts, Len(out), draftSeen)
    BY <2>1 DEF GenerationInv, DraftInv
  <2>3. /\ out \in Text /\ drafts \in Text /\ Len(out) \in Nat /\ Len(drafts) \in Nat
        /\ Len(out \o drafts) = Len(out) + Len(drafts)
    BY TextLength, ConcatIsText DEF GenerationInv, TypeInv
  <2>4. /\ Len(draftSeen) = Len(out \o drafts) - Len(out)
        /\ DOMAIN draftSeen = 1 .. Len(draftSeen)
    BY <2>2 DEF SampledGiven
  <2>5. i \in 1 .. Len(drafts) BY <1>2, <2>3, <2>4
  <2>6. draftSeen[i] = SubSeq(out \o drafts, 1, Len(out) + i - 1)
    BY <1>2, <2>2, <2>4 DEF SampledGiven
  <2> DEFINE j == i - 1
  <2>7. j \in 0 .. Len(drafts) /\ Len(out) + j = Len(out) + i - 1 BY <2>3, <2>5
  <2> HIDE DEF j
  <2>8. SubSeq(out \o drafts, 1, Len(out) + j) = out \o SubSeq(drafts, 1, j)
    BY <2>3, <2>7, PrefixAcross
  <2> QED BY <2>6, <2>7, <2>8 DEF j
<1> QED BY <1>1, <1>2 DEF LogitsSeeThePrefix

\* A call that fails shows nothing.
LEMMA Crashes ==
  ASSUME GenerationInv, pc # "idle", Refused(call), Crash
  PROVE  SessionInv' /\ UNCHANGED D!vars
<1>1. /\ failed' = TRUE /\ pc' = "done"
      /\ UNCHANGED <<arch, graphs, table, call, out, scores, drafts, draftSeen>>
  BY DEF Crash, session
<1>2. Refused(call)' /\ GraphsUsable' = GraphsUsable
  <2> DEFINE c == call
  <2>1. UNCHANGED <<arch, graphs, table>> /\ call' = c /\ call = c BY <1>1
  <2> HIDE DEF c
  <2> QED BY <2>1, SameCall
<1>3. UsableGraphsSeeThePrefix'
  <2>1. UsableGraphsSeeThePrefix BY InvariantSeesPrefix
  <2>2. LogitsSeeThePrefix' <=> LogitsSeeThePrefix BY <1>1 DEF LogitsSeeThePrefix
  <2> QED BY <1>2, <2>1, <2>2 DEF UsableGraphsSeeThePrefix
<1> QED BY <1>1, <1>2, <1>3 DEF SessionInv, D!vars

LEMMA StillRunning ==
  ASSUME GenerationInv' PROVE SessionInv'
BY DEF SessionInv, GenerationInv, TypeInv

-----------------------------------------------------------------------------
(* The main model samples one token                                        *)

\* The rest of the text is what main has not evaluated.
OneSampled(toks, after, t, next) ==
  /\ ModelCalled("main", toks, after, Behind + Len(toks))
  /\ Sampled(<<t>>, Logits("main", toks, after, 1), next)

\* There is room for one token more, or a prompt of any length was never evaluated.
OneTokenFits == Len(out) < call.max \/ First

LEMMA OneTokenRest ==
  ASSUME GenerationInv, pc \in {"decode", "single"}, OneTokenFits,
         NEW toks, toks = SubSeq(out, Behind + 1, Len(out))
  PROVE  RestFor("main", toks, out)
<1>1. pc # "idle" OBVIOUS
<1>2. /\ InCall /\ call \in Call /\ "main" \in Used(call)
      /\ call.prompt \in Nat \ {0} /\ call.max \in Nat /\ call.lookahead \in Nat \ {0}
      /\ Behind \in Nat /\ out \in Text /\ Len(out) \in Nat
      /\ First => Behind = 0 /\ Len(out) = call.prompt
      /\ ~First => Behind = Len(out) - 1 /\ call.prompt <= Behind
  BY <1>1, Running
<1>3. Behind < Len(out) /\ Behind \in 0 .. Len(out) BY <1>2
<1>4. Len(toks) = Len(out) - Behind BY <1>2, <1>3, RestIsText
<1>5. Replays("main") => Len(toks) \in DecodingSeqlens(call, "main") /\ Len(toks) < call.max
  <2> SUFFICES ASSUME Replays("main")
               PROVE  Len(toks) \in DecodingSeqlens(call, "main") /\ Len(toks) < call.max
    OBVIOUS
  <2>1. ~First BY <1>2 DEF Replays, First, Behind
  <2>2. Len(toks) = 1 BY <1>2, <1>4, <2>1
  <2>3. 1 \in DecodingSeqlens(call, "main") BY <1>2 DEF DecodingSeqlens
  <2>4. 1 < call.max BY <1>2, <2>1 DEF OneTokenFits
  <2> QED BY <2>2, <2>3, <2>4
<1>6. Len(out) <= call.max \/ (Behind = 0 /\ call.prompt > call.max)
  BY <1>2 DEF OneTokenFits
<1> QED BY <1>2, <1>3, <1>5, <1>6 DEF RestFor, Behind

LEMMA OneTokenSampled ==
  ASSUME GenerationInv, NEW next \in {"decode", "done"}, NEW t \in Token,
         \/ pc = "decode" /\ next = "decode"
         \/ pc = "single" /\ next = "done",
         OneTokenFits, NEW toks, toks = SubSeq(out, Behind + 1, Len(out)),
         CanCall("main", toks), NEW after \in Evaluated("main", toks),
         OneSampled(toks, after, t, next)
  PROVE  GenerationInv' /\ D!Emit
<1>1. /\ InCall /\ call \in Call /\ "main" \in Used(call) /\ Used(call) \subseteq Model
      /\ call.prompt \in Nat \ {0} /\ call.max \in Nat
      /\ call.cg \in BOOLEAN /\ ip \in [Model -> Params] /\ Behind \in Nat
      /\ out \in Text /\ Len(out) \in Nat /\ call.prompt <= Len(out)
      /\ GraphsUsable => /\ EntriesOf(cells["main"], out, Behind)
                         /\ SampledGiven(out, call.prompt, scores)
      /\ First => Behind = 0 /\ Len(out) = call.prompt
  BY Running
<1> DEFINE seen == SeenParams("main", Len(toks))
<1>2. CallExtends("main", toks, out, after)
  <2>1. RestFor("main", toks, out) BY OneTokenRest
  <2> QED BY <1>1, <2>1, CallMade
<1>3. /\ DOMAIN after = Cells(Rows("main"))
      /\ GraphsUsable => /\ EntriesOf(after, out, Len(out))
                         /\ Logits("main", toks, after, 1) = Prefixes(out, 1)
      /\ Behind + Len(toks) = Len(out) /\ seen.lengths \in Int
      /\ ~call.cg => seen.lengths = NoLengths
  <2>1. 1 \in 0 .. Len(out) BY <1>1
  <2> QED BY <1>1, <1>2, <2>1 DEF CallExtends, Behind
<1>4. /\ cells' = [cells EXCEPT !["main"] = after]
      /\ ip' = [ip EXCEPT !["main"] = [ip["main"] EXCEPT !.offset = Len(out),
                                                         !.lengths = seen.lengths]]
      /\ UNCHANGED <<arch, graphs, calls, call, failed>> /\ TableCalled("main")
      /\ out' = out \o <<t>> /\ last' = 1 /\ pc' = next
      /\ scores' = scores \o Logits("main", toks, after, 1)
      /\ drafts' = <<>> /\ draftSeen' = <<>> /\ spec' = 0
  BY <1>3, TokenIsText DEF OneSampled, ModelCalled, Sampled, TableCalled
<1> HIDE DEF seen
<1>7. /\ ip' \in [Model -> Params] /\ Behind' = Len(out)
      /\ \A m \in Model : ip'[m].maxLen = ip[m].maxLen /\ ip'[m].rows = ip[m].rows
      /\ ip'["main"].lengths = seen.lengths /\ \A m \in Model \ {"main"} : ip'[m] = ip[m]
  <2>1. "main" \in Model BY DEF Model
  <2>2. [ip["main"] EXCEPT !.offset = Len(out), !.lengths = seen.lengths] \in Params
    BY <1>1, <1>3, <2>1 DEF Params
  <2> QED BY <1>1, <1>4, <2>1, <2>2 DEF Behind, Params
<1>8. pc # "idle" /\ pc' # "idle" BY <1>4
<1> DEFINE new == <<t>>
<1>10. new \in Text /\ Len(new) = 1 /\ new[1] = t BY TokenIsText
<1>11. /\ out' = out \o new /\ out' \in Text /\ Len(out') = Len(out) + 1
       /\ out'[Len(out')] = t
  <2>1. out \o new \in Text /\ Len(out \o new) = Len(out) + 1
    BY <1>1, <1>10, TextsConcat
  <2>2. (out \o new)[Len(out) + 1] = new[1] BY <1>1, <1>10, TextsConcat
  <2> QED BY <1>4, <1>10, <2>1, <2>2
<1>12. Prefixes(out, 1) = SampledAfter(out, new)
  BY <1>1, OnePrefix
<1> HIDE DEF new
<1>9. /\ TypeInv' /\ CallInv' /\ \A w \in Model : GraphsInv(w)'
      /\ GraphsUsable' = GraphsUsable /\ cells'["main"] = after
  <2>1. ASSUME ~call.cg, NEW m \in Model PROVE ip'[m].lengths = NoLengths
    BY <1>1, <1>3, <1>7, <1>8, <2>1 DEF GenerationInv, CallInv
  <2>2. ASSUME NEW w \in Model PROVE ip'[w].offset > 0 \/ ip'[w] = ip[w]
    <3>1. ip'["main"].offset > 0 BY <1>1, <1>7 DEF Behind
    <3> QED BY <1>7, <3>1
  <2>3. pc' \in {"decode", "single", "choose", "draft", "verify", "done"} BY <1>4
  <2>4. drafts' \in Text /\ last' \in Nat /\ spec' \in Nat BY <1>4 DEF Text
  <2> QED BY <1>1, <1>3, <1>4, <1>7, <1>8, <1>11, <2>1, <2>2, <2>3, <2>4, EvaluationKept
<1>13. GraphsUsable => SampledGiven(out', call.prompt, scores')
  <2> SUFFICES ASSUME GraphsUsable PROVE SampledGiven(out', call.prompt, scores') OBVIOUS
  <2>1. call.prompt \in 0 .. Len(out) BY <1>1
  <2>2. scores' = scores \o SampledAfter(out, new) BY <1>3, <1>4, <1>12
  <2> QED BY <1>1, <1>10, <1>11, <2>1, <2>2, SampledExtends
<1>14. GraphsUsable => EntriesOf(cells'["main"], out', Behind')
  <2> SUFFICES ASSUME GraphsUsable PROVE EntriesOf(cells'["main"], out', Behind') OBVIOUS
  <2>2. Len(out) \in 0 .. Len(out) BY <1>1
  <2> QED BY <1>1, <1>3, <1>7, <1>9, <1>10, <1>11, <2>2, EntriesKept
<1>15. MainInv'
  <2>1. ~First' BY <1>1, <1>7 DEF First, Behind
  <2>2. Behind' = Len(out') - 1 /\ call'.prompt <= Behind' /\ last' \in 1 .. Len(out')
    BY <1>1, <1>4, <1>7, <1>11
  <2> QED BY <1>4, <1>9, <1>13, <1>14, <2>1, <2>2 DEF MainInv
<1>17. DraftInv' BY <1>4 DEF DraftInv
<1>18. PlaceInv'
  <2>1. pc = "decode" => call.kind = "decode" BY DEF GenerationInv, PlaceInv
  <2>2. \/ Len(out') <= call'.max
        \/ call'.prompt >= call'.max /\ Len(out') = call'.prompt + 1
    BY <1>1, <1>4, <1>11 DEF OneTokenFits
  <2>3. pc' = "done" => Len(out') = IF call'.prompt < call'.max THEN call'.max
                                    ELSE call'.prompt + 1
    <3>1. SUFFICES ASSUME pc' = "done"
                   PROVE  Len(out') = IF call.prompt < call.max THEN call.max
                                      ELSE call.prompt + 1
      BY <1>4
    <3>2. Len(out) = call.max - 1 \/ (First /\ call.prompt >= call.max - 1)
      BY <1>4, <3>1 DEF GenerationInv, PlaceInv
    <3>3. Len(out') = Len(out) + 1 /\ Len(out) \in Nat /\ call.max \in Nat /\ call.prompt \in Nat
          /\ call.prompt <= Len(out) /\ (First => Len(out) = call.prompt)
      BY <1>1, <1>11
    <3>4. CASE call.prompt < call.max
      <4>1. Len(out) = call.max - 1 BY <3>2, <3>3, <3>4
      <4>2. Len(out') = call.max BY <3>3, <4>1
      <4> QED BY <3>4, <4>2
    <3>5. CASE ~(call.prompt < call.max)
      <4>1. Len(out) = call.prompt BY <3>2, <3>3, <3>5
      <4> QED BY <3>3, <3>5, <4>1
    <3> QED BY <3>4, <3>5
  <2> QED BY <1>4, <2>1, <2>2, <2>3 DEF PlaceInv, EndsAtMaxLengthOrOneMore
<1>19. D!Emit
  <2>1. SubSeq(out', 1, Len(out)) = out
    <3>1. Len(out) \in 0 .. Len(out) BY <1>1
    <3> QED BY <1>1, <1>10, <1>11, <3>1, PrefixOfConcat, TextLength
  <2>2. Len(out') - Len(out) = Len(new) /\ Len(out') > Len(out) BY <1>1, <1>10, <1>11
  <2>3. GraphsUsable =>
          scores' = scores \o [i \in 1 .. Len(out') - Len(out) |->
                                 SubSeq(out', 1, Len(out) + i - 1)]
    BY <1>3, <1>4, <1>11, <1>12, <2>2 DEF SampledAfter
  <2> QED BY <1>8, <1>9, <2>1, <2>2, <2>3 DEF D!Emit
<1> QED BY <1>9, <1>15, <1>17, <1>18, <1>19 DEF GenerationInv

LEMMA DecodeSteps ==
  ASSUME GenerationInv, DecodeStep
  PROVE  SessionInv' /\ [D!Next]_(D!vars)
<1>1. pc = "decode" /\ pc # "idle" /\ ~ShouldStop BY DEF DecodeStep
<1>2. /\ call.prompt \in Nat \ {0} /\ call.max \in Nat
      /\ Behind \in Nat /\ out \in Text /\ Len(out) \in Nat
      /\ First => Behind = 0 /\ Len(out) = call.prompt /\ last = Len(out)
      /\ ~First => Behind = Len(out) - 1 /\ call.prompt <= Behind
      /\ InCall /\ "main" \in Used(call)
  BY <1>1, Running
<1>3. ~First => last = 1 BY <1>1 DEF GenerationInv, PlaceInv
<1>4. OneTokenFits
  <2>1. SUFFICES ASSUME ~First PROVE Len(out) < call.max BY DEF OneTokenFits
  <2>2. ~(Behind >= call.max - 1) BY <1>1, <2>1 DEF ShouldStop, First, Behind
  <2> QED BY <1>2, <2>1, <2>2
<1> DEFINE toks == Suffix(out, last)
<1>5. toks = SubSeq(out, Behind + 1, Len(out))
  <2>1. Len(out) - last + 1 = Behind + 1 BY <1>2, <1>3
  <2> QED BY <2>1 DEF Suffix
<1>6. IF CanCall("main", toks)
      THEN \E after \in Evaluated("main", toks), t \in Token :
             /\ ModelCalled("main", toks, after, ip["main"].offset + Len(toks))
             /\ Sampled(<<t>>, Logits("main", toks, after, 1), "decode")
      ELSE Crash
  BY DEF DecodeStep
<1> HIDE DEF toks
<1>7. RestFor("main", toks, out) BY <1>1, <1>4, <1>5, OneTokenRest
<1>8. CASE CanCall("main", toks)
  <2>1. PICK after \in Evaluated("main", toks), t \in Token :
               OneSampled(toks, after, t, "decode")
    BY <1>6, <1>8 DEF OneSampled, Behind
  <2> DEFINE next == "decode"
  <2>2. next \in {"decode", "done"} /\ pc = "decode" /\ next = "decode"
        /\ OneSampled(toks, after, t, next)
    BY <1>1, <2>1
  <2> HIDE DEF next
  <2>3. GenerationInv' /\ D!Emit BY <1>4, <1>5, <1>8, <2>2, OneTokenSampled
  <2> QED BY <2>3, StillRunning DEF D!Next
<1>9. CASE ~CanCall("main", toks)
  <2>1. Refused(call) BY <1>2, <1>7, <1>9, CallServed
  <2> QED BY <1>1, <1>6, <1>9, <2>1, Crashes
<1> QED BY <1>8, <1>9

LEMMA SingleSteps ==
  ASSUME GenerationInv, SingleStep
  PROVE  SessionInv' /\ [D!Next]_(D!vars)
<1>1. pc = "single" /\ pc # "idle" BY DEF SingleStep
<1>2. /\ call.max \in Nat /\ Behind \in Nat /\ out \in Text /\ Len(out) \in Nat
      /\ First => Behind = 0
      /\ ~First => Behind = Len(out) - 1
      /\ InCall /\ "main" \in Used(call)
  BY <1>1, Running
<1>3. OneTokenFits
  <2>1. Len(out) = call.max - 1 \/ First BY <1>1 DEF GenerationInv, PlaceInv
  <2> QED BY <1>2, <2>1 DEF OneTokenFits
<1> DEFINE toks == IF First THEN out ELSE Suffix(out, 1)
<1>4. toks = SubSeq(out, Behind + 1, Len(out))
  <2>1. CASE First
    <3>1. SubSeq(out, 1, Len(out)) = out /\ Behind + 1 = 1 BY <1>2, <2>1, TextLength
    <3> QED BY <2>1, <3>1
  <2>2. CASE ~First
    <3>1. Len(out) - 1 + 1 = Behind + 1 BY <1>2, <2>2
    <3> QED BY <2>2, <3>1 DEF Suffix
  <2> QED BY <2>1, <2>2
<1>5. IF CanCall("main", toks)
      THEN \E after \in Evaluated("main", toks), t \in Token :
             /\ ModelCalled("main", toks, after, ip["main"].offset + Len(toks))
             /\ Sampled(<<t>>, Logits("main", toks, after, 1), "done")
      ELSE Crash
  BY DEF SingleStep
<1> HIDE DEF toks
<1>6. RestFor("main", toks, out) BY <1>1, <1>3, <1>4, OneTokenRest
<1>7. CASE CanCall("main", toks)
  <2>1. PICK after \in Evaluated("main", toks), t \in Token :
               OneSampled(toks, after, t, "done")
    BY <1>5, <1>7 DEF OneSampled, Behind
  <2> DEFINE next == "done"
  <2>2. next \in {"decode", "done"} /\ pc = "single" /\ next = "done"
        /\ OneSampled(toks, after, t, next)
    BY <1>1, <2>1
  <2> HIDE DEF next
  <2>3. GenerationInv' /\ D!Emit BY <1>3, <1>4, <1>7, <2>2, OneTokenSampled
  <2> QED BY <2>3, StillRunning DEF D!Next
<1>8. CASE ~CanCall("main", toks)
  <2>1. Refused(call) BY <1>2, <1>6, <1>8, CallServed
  <2> QED BY <1>1, <1>5, <1>8, <2>1, Crashes
<1> QED BY <1>7, <1>8

\* A step within a call that evaluates nothing.
LEMMA NothingEvaluated ==
  ASSUME GenerationInv, pc # "idle",
         pc' \in {"decode", "single", "choose", "draft", "verify", "done"}, spec' \in Nat,
         UNCHANGED <<arch, graphs, table, calls, call, ip, cells, out, last, scores, drafts,
                     draftSeen, failed>>
  PROVE  /\ TypeInv' /\ CallInv' /\ MainInv' /\ \A m \in Model : GraphsInv(m)'
         /\ GraphsUsable' = GraphsUsable
<1>1. pc' # "idle" OBVIOUS
<1>2. Used(call)' = Used(call) BY DEF Used
<1>3. TypeInv'
  <2>1. \A m \in Model : Rows(m)' = Rows(m) BY <1>1, <1>2 DEF Rows
  <2> QED BY <2>1 DEF GenerationInv, TypeInv
<1>4. CallInv'
  <2>1. \A m \in Model : ReadyInv(m)' <=> ReadyInv(m) BY DEF ReadyInv, DecodingSeqlens
  <2>2. Used(call) \subseteq Model BY Running
  <2> QED BY <1>1, <1>2, <2>1, <2>2 DEF GenerationInv, CallInv
<1>5. GraphsUsable' = GraphsUsable BY DEF GraphsUsable, Used, DecodingSeqlens
<1>6. MainInv' BY <1>1, <1>5 DEF GenerationInv, MainInv, First, Behind
<1>7. \A m \in Model : GraphsInv(m)' BY DEF GenerationInv, GraphsInv, PlacedIn
<1> QED BY <1>3, <1>4, <1>5, <1>6, <1>7

LEMMA DecodeEnds ==
  ASSUME GenerationInv, DecodeDone
  PROVE  SessionInv' /\ UNCHANGED D!vars
<1>1. /\ pc = "decode" /\ ShouldStop /\ pc' = "done"
      /\ UNCHANGED <<arch, graphs, table, calls, call, ip, cells, out, last, scores, drafts,
                     draftSeen, spec, failed>>
  BY DEF DecodeDone, session
<1>2. pc # "idle" /\ pc' # "idle" BY <1>1
<1>3. /\ call.max \in Nat /\ call.prompt \in Nat /\ Behind \in Nat /\ Len(out) \in Nat
      /\ First => Behind = 0
      /\ ~First => Behind = Len(out) - 1 /\ call.prompt <= Behind
  BY <1>2, Running
<1>4. ~First BY <1>1 DEF ShouldStop, First
<1>5. /\ Len(out) <= call.max \/ (call.prompt >= call.max /\ Len(out) = call.prompt + 1)
      /\ drafts = <<>> /\ draftSeen = <<>>
  BY <1>1, <1>4 DEF GenerationInv, PlaceInv
<1>6. \/ call.eos /\ out[Len(out)] = EosToken /\ Len(out) <= call.max
      \/ Len(out) = IF call.prompt < call.max THEN call.max ELSE call.prompt + 1
  <2>1. (call.eos /\ out[Len(out)] = EosToken) \/ Behind >= call.max - 1
    BY <1>1 DEF ShouldStop, Behind
  <2> QED BY <1>3, <1>4, <1>5, <2>1
<1>7. spec' \in Nat BY <1>1 DEF GenerationInv, TypeInv
<1>8. /\ TypeInv' /\ CallInv' /\ MainInv' /\ \A m \in Model : GraphsInv(m)'
      /\ GraphsUsable' = GraphsUsable
  BY <1>1, <1>2, <1>7, NothingEvaluated
<1>9. DraftInv' BY <1>1 DEF DraftInv
<1>10. PlaceInv' BY <1>1, <1>5, <1>6 DEF PlaceInv, EndsAtMaxLengthOrOneMore
<1>11. UNCHANGED D!vars BY <1>1, <1>2, <1>8 DEF D!vars
<1>12. GenerationInv' BY <1>8, <1>9, <1>10 DEF GenerationInv
<1> QED BY <1>11, <1>12, StillRunning

-----------------------------------------------------------------------------
(* A round of speculation                                                  *)

\* Where the draft model is.
LEMMA DraftOffsets ==
  ASSUME GenerationInv, pc \in {"choose", "draft", "verify"}
  PROVE  /\ call.kind = "speculative" /\ "draft" \in Used(call) /\ "draft" \in Model
         /\ drafts # <<>> => ip["draft"].offset = Len(out) + Len(drafts) - 1
         /\ drafts = <<>> /\ First => ip["draft"].offset = 0
         /\ drafts = <<>> /\ ~First => \/ last = 1 /\ ip["draft"].offset = Len(out) - 1
                                       \/ last >= 2 /\ ip["draft"].offset = Len(out) - 2
         /\ GraphsUsable => /\ EntriesOf(cells["draft"], out \o drafts, ip["draft"].offset)
                            /\ SampledGiven(out \o drafts, Len(out), draftSeen)
<1>1. pc # "idle" /\ call.kind = "speculative" BY DEF GenerationInv, PlaceInv
<1>2. /\ ip["draft"].offset = IF drafts # <<>> THEN Len(out) + Len(drafts) - 1
                              ELSE IF First THEN 0 ELSE Len(out) - AtMost(2, last)
      /\ GraphsUsable => /\ EntriesOf(cells["draft"], out \o drafts, ip["draft"].offset)
                         /\ SampledGiven(out \o drafts, Len(out), draftSeen)
  BY DEF GenerationInv, DraftInv
<1>3. last \in Nat BY DEF GenerationInv, TypeInv
<1>4. "draft" \in Used(call) /\ "draft" \in Model BY <1>1 DEF Used, Model
<1>5. ASSUME ~First PROVE (last = 1 /\ AtMost(2, last) = 1) \/ (last >= 2 /\ AtMost(2, last) = 2)
  <2>1. last >= 1 BY <1>1, <1>3, <1>5, Running
  <2> QED BY <1>3, <2>1 DEF AtMost
<1> QED BY <1>1, <1>2, <1>4, <1>5

LEMMA ChooseSteps ==
  ASSUME GenerationInv, Choose
  PROVE  SessionInv' /\ UNCHANGED D!vars
<1>1. /\ pc = "choose"
      /\ UNCHANGED <<arch, graphs, table, calls, call, ip, cells, out, last, scores, drafts,
                     draftSeen, failed>>
  BY DEF Choose, session
<1>2. pc # "idle" BY <1>1
<1>3. /\ call.max \in Nat /\ call.prompt \in Nat \ {0} /\ call.lookahead \in Nat \ {0}
      /\ Behind \in Nat /\ Len(out) \in Nat /\ ip["draft"].offset \in Nat
      /\ First => Behind = 0 /\ Len(out) = call.prompt
      /\ ~First => Behind = Len(out) - 1 /\ call.prompt <= Behind
  BY <1>2, Running
<1>4. /\ call.prompt < call.max - 1
      /\ Len(out) <= call.max + 1 /\ drafts = <<>> /\ draftSeen = <<>>
      /\ call.kind = "speculative"
  BY <1>1 DEF GenerationInv, PlaceInv
<1>5. ~First => ip["draft"].offset \in {Len(out) - 1, Len(out) - 2}
  BY <1>1, <1>4, DraftOffsets
<1>6. \/ pc' = "done" /\ spec' = spec /\ ~First /\ Behind >= call.max - 1
      \/ pc' = "single" /\ spec' = spec /\ ~First /\ Behind >= call.max - 2
         /\ ~(Behind >= call.max - 1)
      \/ pc' = "draft" /\ spec' \in 1 .. call.lookahead /\ Len(out) + spec' <= call.max
  <2> DEFINE d == ip["draft"].offset
             l == Len(out)
  <2>1. IF First THEN pc' = "draft" /\ spec' = AtMost(call.lookahead, call.max - call.prompt - 1)
        ELSE IF Behind >= call.max - 1 THEN pc' = "done" /\ UNCHANGED spec
        ELSE IF Behind >= call.max - 2 THEN pc' = "single" /\ UNCHANGED spec
        ELSE pc' = "draft" /\ spec' = AtMost(call.lookahead, call.max - d - 2)
    BY DEF Choose, Behind
  <2> HIDE DEF d, l
  <2>2. CASE First
    <3>1. call.max - call.prompt - 1 >= 1 /\ l = call.prompt BY <1>3, <1>4, <2>2 DEF l
    <3>2. pc' = "draft" /\ spec' = AtMost(call.lookahead, call.max - call.prompt - 1)
      BY <2>1, <2>2
    <3>3. spec' \in 1 .. call.lookahead /\ l + spec' <= call.max
      BY <1>3, <3>1, <3>2 DEF AtMost
    <3> QED BY <3>2, <3>3 DEF l
  <2>3. CASE ~First /\ Behind < call.max - 2
    <3>1. Behind = l - 1 /\ l \in Nat /\ d \in Nat /\ d \in {l - 1, l - 2}
      BY <1>3, <1>5, <2>3 DEF l, d
    <3>2. pc' = "draft" /\ spec' = AtMost(call.lookahead, call.max - d - 2)
      BY <1>3, <2>1, <2>3
    <3> DEFINE room == call.max - d - 2
    <3>3. room \in Nat \ {0} /\ l + room <= call.max BY <1>3, <2>3, <3>1
    <3> HIDE DEF room
    <3>4. spec' = IF call.lookahead <= room THEN call.lookahead ELSE room
      BY <3>2 DEF AtMost, room
    <3>5. spec' \in 1 .. call.lookahead /\ spec' <= room BY <1>3, <3>3, <3>4
    <3>6. l + spec' <= call.max BY <1>3, <3>1, <3>3, <3>5
    <3> QED BY <3>2, <3>5, <3>6 DEF l
  <2>4. CASE ~First /\ ~(Behind < call.max - 2) BY <1>3, <2>1, <2>4
  <2> QED BY <2>2, <2>3, <2>4
<1>7. spec \in Nat BY DEF GenerationInv, TypeInv
<1>8. pc' \in {"done", "single", "draft"} /\ spec' \in Nat BY <1>3, <1>6, <1>7
<1>9. /\ TypeInv' /\ CallInv' /\ MainInv' /\ \A m \in Model : GraphsInv(m)'
      /\ GraphsUsable' = GraphsUsable
  BY <1>1, <1>2, <1>8, NothingEvaluated
<1>10. DraftInv'
  <2>1. SUFFICES ASSUME pc' = "draft" PROVE DraftInv' BY <1>8 DEF DraftInv
  <2>2. /\ ip["draft"].offset = IF drafts # <<>> THEN Len(out) + Len(drafts) - 1
                                ELSE IF First THEN 0 ELSE Len(out) - AtMost(2, last)
        /\ GraphsUsable => /\ EntriesOf(cells["draft"], out \o drafts, ip["draft"].offset)
                           /\ SampledGiven(out \o drafts, Len(out), draftSeen)
    BY <1>1 DEF GenerationInv, DraftInv
  <2>3. First' <=> First BY <1>1 DEF First
  <2> QED BY <1>1, <1>9, <2>2, <2>3 DEF DraftInv
<1>11. PlaceInv'
  <2>1. CASE pc' = "done"
    <3>1. Len(out) = call.max \/ Len(out) = call.max + 1 BY <1>3, <1>4, <1>6, <2>1
    <3>2. call.prompt < call.max BY <1>3, <1>4
    <3> QED BY <1>1, <1>4, <2>1, <3>1, <3>2 DEF PlaceInv, EndsAtMaxLengthOrOneMore
  <2>2. CASE pc' = "single"
    <3>1. Len(out) = call.max - 1 BY <1>3, <1>6, <2>2
    <3> QED BY <1>1, <1>4, <2>2, <3>1 DEF PlaceInv, EndsAtMaxLengthOrOneMore
  <2>3. CASE pc' = "draft"
    <3>1. spec' \in 1 .. call.lookahead /\ Len(out) + spec' <= call.max BY <1>6, <2>3
    <3>2. Len(drafts) = 0 BY <1>4
    <3>3. Len(drafts) < spec' BY <1>3, <3>1, <3>2
    <3> QED BY <1>1, <1>4, <2>3, <3>1, <3>3 DEF PlaceInv, EndsAtMaxLengthOrOneMore
  <2> QED BY <1>8, <2>1, <2>2, <2>3
<1>12. UNCHANGED D!vars BY <1>1, <1>8, <1>9 DEF D!vars
<1>13. GenerationInv' BY <1>9, <1>10, <1>11 DEF GenerationInv
<1> QED BY <1>12, <1>13, StillRunning

\* The tokens sample_tokens_draft evaluates are the rest of the text and the drafts.
DraftToks == IF drafts # <<>> THEN Suffix(drafts, 1)
             ELSE IF First THEN out
             ELSE Suffix(out, AtMost(2, last))

LEMMA DraftTokens ==
  ASSUME GenerationInv, pc = "draft", NEW toks, toks = DraftToks
  PROVE  /\ toks = SubSeq(out \o drafts, ip["draft"].offset + 1, Len(out) + Len(drafts))
         /\ ip["draft"].offset < Len(out) + Len(drafts)
         /\ Replays("draft") => Len(toks) \in {1, 2}
<1>0. toks = IF drafts # <<>> THEN Suffix(drafts, 1)
             ELSE IF First THEN out
             ELSE Suffix(out, AtMost(2, last))
  BY DEF DraftToks
<1>1. pc # "idle" /\ out \in Text /\ Len(out) \in Nat /\ drafts \in Text
      /\ Len(drafts) \in Nat /\ call.prompt \in Nat \ {0} /\ call.prompt <= Len(out)
      /\ ip["draft"].offset \in Nat
  BY Running
<1> DEFINE d == ip["draft"].offset
           l == Len(out)
           e == Len(drafts)
<1>2. l \in Nat \ {0} /\ e \in Nat /\ d \in Nat BY <1>1
<1>3. /\ drafts # <<>> => d = l + e - 1
      /\ drafts = <<>> /\ First => d = 0
      /\ drafts = <<>> /\ ~First => \/ last = 1 /\ d = l - 1
                                    \/ last >= 2 /\ d = l - 2
  BY DraftOffsets
<1> HIDE DEF d, l, e
<1>4. CASE drafts # <<>>
  <2>1. e \in Nat \ {0} BY <1>1, <1>4, EmptySeq DEF Text, e
  <2>2. d + 1 = l + e /\ d < l + e BY <1>2, <1>3, <1>4, <2>1
  <2>3. l + e \in l + 1 .. l + e /\ (l + e) - l = e BY <1>2, <2>1
  <2>4. SubSeq(out \o drafts, l + e, l + e) = SubSeq(drafts, (l + e) - l, (l + e) - l)
    BY <1>1, <2>3, SubSeqOfConcat2 DEF l, e, Text
  <2>5. toks = SubSeq(drafts, e - 1 + 1, e) BY <1>0, <1>4 DEF Suffix, e
  <2>6. e - 1 + 1 = e BY <2>1
  <2> DEFINE k == e - 1
  <2>7. toks = SubSeq(drafts, k + 1, Len(drafts)) /\ k \in 0 .. Len(drafts)
        /\ Len(drafts) - k = 1
    BY <2>1, <2>5 DEF e
  <2> HIDE DEF k
  <2>8. Len(toks) = 1 BY <1>1, <2>7, RestIsText
  <2> QED BY <2>2, <2>3, <2>4, <2>5, <2>6, <2>8 DEF d, l, e
<1>5. CASE drafts = <<>>
  <2>1. out \o drafts = out BY <1>1, <1>5, ConcatEmptySeq DEF Text
  <2>2. e = 0 /\ l + e = l BY <1>2, <1>5 DEF e
  <2>3. CASE First
    <3>1. toks = out /\ d + 1 = 1 /\ SubSeq(out, 1, l) = out /\ d < l + e
      BY <1>0, <1>1, <1>2, <1>3, <1>5, <2>2, <2>3, TextLength DEF l
    <3>2. ~Replays("draft") BY <1>3, <1>5, <2>3 DEF Replays, d
    <3> QED BY <2>1, <2>2, <3>1, <3>2 DEF d, l, e
  <2>4. CASE ~First
    <3>1. PICK n \in {1, 2} : AtMost(2, last) = n /\ d = l - n
      <4>1. last \in Nat BY DEF GenerationInv, TypeInv
      <4>2. CASE last = 1 /\ d = l - 1
        <5>1. AtMost(2, last) = 1 BY <4>2 DEF AtMost
        <5> QED BY <4>2, <5>1
      <4>3. CASE last >= 2 /\ d = l - 2
        <5>1. AtMost(2, last) = 2 BY <4>1, <4>3 DEF AtMost
        <5> QED BY <4>3, <5>1
      <4>4. (last = 1 /\ d = l - 1) \/ (last >= 2 /\ d = l - 2) BY <1>3, <1>5, <2>4
      <4> QED BY <4>2, <4>3, <4>4
    <3>2. toks = SubSeq(out, l - n + 1, l) BY <1>0, <1>5, <2>4, <3>1 DEF Suffix, l
    <3>3. l - n + 1 = d + 1 /\ d < l + e /\ d \in 0 .. l /\ l - d = n BY <1>2, <2>2, <3>1
    <3>4. Len(toks) = n BY <1>1, <3>2, <3>3, RestIsText DEF l
    <3> QED BY <2>1, <2>2, <3>1, <3>2, <3>3, <3>4 DEF d, l, e
  <2> QED BY <2>3, <2>4
<1> QED BY <1>4, <1>5

\* The draft model proposed one token.
DraftProposed(toks, after, t) ==
  /\ ModelCalled("draft", toks, after, ip["draft"].offset + Len(toks))
  /\ drafts' = Append(drafts, t)
  /\ draftSeen' = draftSeen \o Logits("draft", toks, after, 1)
  /\ pc' = IF Len(drafts) + 1 = spec THEN "verify" ELSE "draft"
  /\ UNCHANGED <<out, last, scores, spec>>

LEMMA DraftRest ==
  ASSUME GenerationInv, pc = "draft"
  PROVE  RestFor("draft", DraftToks, out \o drafts)
<1> DEFINE toks == DraftToks
<1>1. pc # "idle" OBVIOUS
<1>2. /\ call.max \in Nat /\ ip["draft"].offset \in Nat
      /\ out \in Text /\ Len(out) \in Nat /\ drafts \in Text /\ Len(drafts) \in Nat
  BY <1>1, Running
<1>3. call.kind = "speculative" BY DraftOffsets
<1>4. Len(out) + spec <= call.max /\ Len(drafts) < spec /\ spec \in Nat
  BY DEF GenerationInv, PlaceInv, TypeInv
<1> DEFINE text == out \o drafts
<1>5. text \in Text /\ Len(text) = Len(out) + Len(drafts) BY <1>2, TextsConcat
<1>7. Len(text) \in Nat /\ Len(text) < call.max BY <1>2, <1>4, <1>5
<1>9. /\ toks = SubSeq(text, ip["draft"].offset + 1, Len(text))
      /\ ip["draft"].offset < Len(text)
      /\ Replays("draft") => Len(toks) \in {1, 2}
  <2>1. /\ toks = SubSeq(out \o drafts, ip["draft"].offset + 1, Len(out) + Len(drafts))
        /\ ip["draft"].offset < Len(out) + Len(drafts)
        /\ Replays("draft") => Len(toks) \in {1, 2}
    BY DraftTokens
  <2> QED BY <1>5, <2>1
<1> HIDE DEF text, toks
<1>10. Replays("draft") => Len(toks) \in DecodingSeqlens(call, "draft") /\ Len(toks) < call.max
  <2> SUFFICES ASSUME Replays("draft")
               PROVE  Len(toks) \in DecodingSeqlens(call, "draft") /\ Len(toks) < call.max
    OBVIOUS
  <2>1. ip["draft"].offset > 0 BY DEF Replays
  <2>2. Len(toks) \in {1, 2} BY <1>9
  <2>3. Len(toks) = Len(text) - ip["draft"].offset
    <3>1. ip["draft"].offset \in 0 .. Len(text) BY <1>2, <1>7, <1>9
    <3> QED BY <1>5, <1>9, <3>1, RestIsText
  <2>4. Len(toks) \in DecodingSeqlens(call, "draft") BY <1>3, <2>2 DEF DecodingSeqlens
  <2> QED BY <1>2, <1>7, <2>1, <2>3, <2>4
<1>11. Len(text) <= call.max BY <1>2, <1>7
<1> QED BY <1>9, <1>10, <1>11 DEF RestFor, text, toks

LEMMA DraftMade ==
  ASSUME GenerationInv, pc = "draft",
         NEW toks, RestFor("draft", toks, out \o drafts), CanCall("draft", toks),
         NEW after \in Evaluated("draft", toks), NEW t \in Token,
         DraftProposed(toks, after, t)
  PROVE  SessionInv' /\ UNCHANGED D!vars
<1>1. pc # "idle" OBVIOUS
<1>2. /\ InCall /\ call \in Call /\ Used(call) \subseteq Model
      /\ call.prompt \in Nat \ {0} /\ call.max \in Nat /\ call.cg \in BOOLEAN
      /\ ip \in [Model -> Params] /\ ip["draft"].offset \in Nat
      /\ out \in Text /\ Len(out) \in Nat /\ call.prompt <= Len(out)
      /\ drafts \in Text /\ Len(drafts) \in Nat
  BY <1>1, Running
<1>3. /\ call.kind = "speculative" /\ "draft" \in Used(call) /\ "draft" \in Model
      /\ GraphsUsable => /\ EntriesOf(cells["draft"], out \o drafts, ip["draft"].offset)
                         /\ SampledGiven(out \o drafts, Len(out), draftSeen)
  BY DraftOffsets
<1>4. /\ Len(out) + spec <= call.max /\ Len(drafts) < spec /\ spec \in 1 .. call.lookahead
      /\ call.prompt < call.max - 1 /\ spec \in Nat
  BY DEF GenerationInv, PlaceInv, TypeInv
<1> DEFINE text == out \o drafts
<1>5. /\ text \in Text /\ Len(text) = Len(out) + Len(drafts) /\ Len(text) \in Nat
      /\ Len(text) > 0
  BY <1>2, TextsConcat
<1> HIDE DEF text
<1> DEFINE seen == SeenParams("draft", Len(toks))
<1>12. /\ DOMAIN after = Cells(Rows("draft"))
       /\ GraphsUsable => /\ EntriesOf(after, text, Len(text))
                          /\ Logits("draft", toks, after, 1) = Prefixes(text, 1)
       /\ ip["draft"].offset + Len(toks) = Len(text) /\ seen.lengths \in Int
       /\ ~call.cg => seen.lengths = NoLengths
  <2>1. CallExtends("draft", toks, text, after) BY <1>2, <1>3, <1>5, CallMade DEF text
  <2>2. 1 \in 0 .. Len(text) BY <1>5
  <2> QED BY <1>3, <2>1, <2>2 DEF CallExtends, text
<1>15. /\ cells' = [cells EXCEPT !["draft"] = after]
       /\ ip' = [ip EXCEPT !["draft"] = [ip["draft"] EXCEPT !.offset = Len(text),
                                                            !.lengths = seen.lengths]]
       /\ UNCHANGED <<arch, graphs, calls, call, failed>> /\ TableCalled("draft")
       /\ drafts' = Append(drafts, t)
       /\ draftSeen' = draftSeen \o Logits("draft", toks, after, 1)
       /\ pc' = IF Len(drafts) + 1 = spec THEN "verify" ELSE "draft"
       /\ UNCHANGED <<out, last, scores, spec>>
  BY <1>12 DEF DraftProposed, ModelCalled, TableCalled
<1> HIDE DEF seen
<1>16. /\ ip' \in [Model -> Params] /\ ip'["draft"].offset = Len(text)
       /\ \A m \in Model : ip'[m].maxLen = ip[m].maxLen /\ ip'[m].rows = ip[m].rows
       /\ ip'["draft"].lengths = seen.lengths /\ ip'["main"] = ip["main"]
       /\ \A m \in Model \ {"draft"} : ip'[m] = ip[m]
  <2>1. [ip["draft"] EXCEPT !.offset = Len(text), !.lengths = seen.lengths] \in Params
    BY <1>2, <1>3, <1>5, <1>12 DEF Params
  <2> QED BY <1>2, <1>3, <1>15, <2>1 DEF Params, Model
<1> DEFINE new == <<t>>
<1>17. new \in Text /\ Len(new) = 1 BY TokenIsText
<1>18. Prefixes(text, 1) = SampledAfter(text, new)
  BY <1>5, OnePrefix
<1>19. drafts' = drafts \o new BY <1>2, <1>15, TokenIsText, AppendIsConcat DEF Text
<1> HIDE DEF new
<1>20. /\ drafts' \in Text /\ Len(drafts') = Len(drafts) + 1 /\ drafts' # <<>>
       /\ out \o drafts' = text \o new
  <2>1. drafts \o new \in Text /\ Len(drafts \o new) = Len(drafts) + 1
    BY <1>2, <1>17, ConcatIsText
  <2>2. (out \o drafts) \o new = out \o (drafts \o new)
    BY <1>2, <1>17, TextsAssociate
  <2>3. Len(drafts') # 0 BY <1>2, <1>19, <2>1
  <2> QED BY <1>19, <2>1, <2>2, <2>3 DEF text
<1>22. /\ TypeInv' /\ CallInv' /\ \A w \in Model : GraphsInv(w)'
       /\ GraphsUsable' = GraphsUsable
       /\ cells'["draft"] = after /\ \A w \in Model \ {"draft"} : cells'[w] = cells[w]
  <2>1. ASSUME ~call.cg, NEW w \in Model PROVE ip'[w].lengths = NoLengths
    BY <1>1, <1>12, <1>16, <2>1 DEF GenerationInv, CallInv
  <2>2. ASSUME NEW w \in Model PROVE ip'[w].offset > 0 \/ ip'[w] = ip[w]
    BY <1>5, <1>16
  <2>3. pc' \in {"decode", "single", "choose", "draft", "verify", "done"} BY <1>15
  <2>4. out' \in Text /\ last' \in Nat /\ spec' \in Nat
    BY <1>15 DEF GenerationInv, TypeInv
  <2> QED BY <1>1, <1>3, <1>12, <1>15, <1>16, <1>20, <2>1, <2>2, <2>3, <2>4, EvaluationKept
<1>21. GraphsUsable => SampledGiven(out \o drafts', Len(out), draftSeen')
  <2> SUFFICES ASSUME GraphsUsable PROVE SampledGiven(out \o drafts', Len(out), draftSeen')
    OBVIOUS
  <2>1. Len(out) \in 0 .. Len(text) BY <1>2, <1>5
  <2>2. SampledGiven(text, Len(out), draftSeen) BY <1>3 DEF text
  <2>3. draftSeen' = draftSeen \o SampledAfter(text, new) BY <1>12, <1>15, <1>18
  <2> QED BY <1>5, <1>17, <1>20, <2>1, <2>2, <2>3, SampledExtends
<1>23. MainInv'
  <2>1. cells'["main"] = cells["main"] BY <1>22 DEF Model
  <2> QED BY <1>1, <1>15, <1>16, <1>22, <2>1 DEF GenerationInv, MainInv, First, Behind
<1>24. DraftInv'
  <2>1. ip'["draft"].offset = Len(out') + Len(drafts') - 1
    BY <1>2, <1>5, <1>15, <1>16, <1>20
  <2>2. Len(text) \in 0 .. Len(text) BY <1>5
  <2>3. GraphsUsable => EntriesOf(after, text \o new, Len(text))
    BY <1>5, <1>12, <1>17, <2>2, EntriesKept
  <2>4. GraphsUsable' => EntriesOf(cells'["draft"], out' \o drafts', ip'["draft"].offset)
    BY <1>15, <1>16, <1>20, <1>22, <2>3
  <2> QED BY <1>15, <1>20, <1>21, <1>22, <2>1, <2>4 DEF DraftInv
<1>25. PlaceInv'
  <2>1. pc' \in {"draft", "verify"} /\ spec' = spec /\ out' = out /\ call' = call
    BY <1>15
  <2>2. pc' = "draft" => Len(drafts') < spec BY <1>2, <1>4, <1>15, <1>20
  <2>3. pc' = "verify" => Len(drafts') = spec BY <1>15, <1>20
  <2> QED BY <1>3, <1>4, <2>1, <2>2, <2>3 DEF PlaceInv, EndsAtMaxLengthOrOneMore
<1>26. UNCHANGED D!vars
  <2>1. (pc' # "idle") = (pc # "idle") BY <1>1, <1>15
  <2> QED BY <1>15, <1>22, <2>1 DEF D!vars
<1>27. GenerationInv' BY <1>22, <1>23, <1>24, <1>25 DEF GenerationInv
<1> QED BY <1>26, <1>27, StillRunning

LEMMA DraftSteps ==
  ASSUME GenerationInv, DraftStep
  PROVE  SessionInv' /\ UNCHANGED D!vars
<1>1. pc = "draft" /\ pc # "idle" BY DEF DraftStep
<1>2. InCall /\ out \o drafts \in Text BY <1>1, Running, TextsConcat
<1>3. "draft" \in Used(call) BY <1>1, DraftOffsets
<1> DEFINE toks == DraftToks
<1>4. IF CanCall("draft", toks)
      THEN \E after \in Evaluated("draft", toks), t \in Token : DraftProposed(toks, after, t)
      ELSE Crash
  BY DEF DraftStep, DraftProposed, DraftToks
<1>5. RestFor("draft", toks, out \o drafts) BY <1>1, DraftRest
<1> HIDE DEF toks
<1>6. CASE CanCall("draft", toks)
  <2>1. PICK after \in Evaluated("draft", toks), t \in Token : DraftProposed(toks, after, t)
    BY <1>4, <1>6
  <2> QED BY <1>1, <1>5, <1>6, <2>1, DraftMade
<1>7. CASE ~CanCall("draft", toks)
  <2>1. Refused(call) BY <1>2, <1>3, <1>5, <1>7, CallServed
  <2> QED BY <1>1, <1>4, <1>7, <2>1, Crashes
<1> QED BY <1>6, <1>7

\* What main's logits say about the drafts that are kept and the token after them.
LEMMA KeptPrefixes ==
  ASSUME NEW s \in Text, NEW t \in Text, NEW k \in 0 .. Len(t), NEW u \in Token
  PROVE  SubSeq(Prefixes(s \o t, Len(t) + 1), 1, k + 1)
           = SampledAfter(s, SubSeq(t, 1, k) \o <<u>>)
<1> DEFINE kept == SubSeq(t, 1, k)
           one == <<u>>
           new == kept \o one
           text == s \o t
           all == Prefixes(text, Len(t) + 1)
<1>1. Len(s) \in Nat /\ Len(t) \in Nat /\ text \in Text /\ Len(text) = Len(s) + Len(t)
  BY TextLength, ConcatIsText
<1>2. kept \in Text /\ Len(kept) = k BY PrefixIsText
<1>3. one \in Text /\ Len(one) = 1 BY TokenIsText
<1> HIDE DEF one, kept
<1>4. new \in Text /\ Len(new) = k + 1 BY <1>2, <1>3, ConcatIsText
<1> HIDE DEF new, text
<1>5. ASSUME NEW i \in 1 .. Len(t) + 1
      PROVE  all[i] = SubSeq(text, 1, Len(s) + (i - 1))
  <2>1. all[i] = SubSeq(text, 1, Len(text) - (Len(t) + 1) + i) BY DEF Prefixes
  <2>2. Len(text) - (Len(t) + 1) + i = Len(s) + (i - 1) BY <1>1
  <2> QED BY <2>1, <2>2
<1>6. ASSUME NEW i \in 1 .. Len(t) + 1 PROVE all[i] \in Entry
  <2>1. Len(s) + (i - 1) \in 0 .. Len(text) BY <1>1
  <2> QED BY <1>1, <1>5, <2>1, PrefixIsText, TextIsEntry
<1>7. DOMAIN all = 1 .. Len(t) + 1 BY DEF Prefixes
<1> HIDE DEF all
<1>8. \A i \in 1 .. k + 1 : all[i] \in Entry BY <1>1, <1>6
<1>9. /\ SubSeq(all, 1, k + 1) \in Seq(Entry)
      /\ Len(SubSeq(all, 1, k + 1)) = IF 1 <= k + 1 THEN k + 1 - 1 + 1 ELSE 0
      /\ \A i \in 1 .. k + 1 - 1 + 1 : SubSeq(all, 1, k + 1)[i] = all[1 + i - 1]
  BY <1>8, SubSeqProperties
<1> DEFINE kps == SubSeq(all, 1, k + 1)
<1>10. k \in Nat /\ k <= Len(t) BY <1>1
<1> HIDE DEF kps
<1>11. kps \in Seq(Entry) /\ Len(kps) = k + 1 /\ \A i \in 1 .. k + 1 : kps[i] = all[i]
  BY <1>9, <1>10 DEF kps
<1>12. ASSUME NEW i \in 1 .. k + 1 PROVE kps[i] = SubSeq(s \o new, 1, Len(s) + i - 1)
  <2>1. i \in 1 .. Len(t) + 1 /\ Len(s) + (i - 1) = Len(s) + i - 1 BY <1>1, <1>10
  <2> DEFINE j == i - 1
  <2>2. j \in 0 .. k /\ j \in 0 .. Len(t) /\ j \in 0 .. Len(new) /\ j \in 0 .. Len(kept)
    BY <1>1, <1>2, <1>4, <1>10
  <2>3. kps[i] = SubSeq(text, 1, Len(s) + j) BY <1>5, <1>11, <2>1
  <2> HIDE DEF j
  <2>4. SubSeq(text, 1, Len(s) + j) = s \o SubSeq(t, 1, j) BY <2>2, PrefixAcross DEF text
  <2>5. SubSeq(s \o new, 1, Len(s) + j) = s \o SubSeq(new, 1, j) BY <1>4, <2>2, PrefixAcross
  <2>6. SubSeq(new, 1, j) = SubSeq(kept, 1, j) BY <1>2, <1>3, <2>2, PrefixOfConcat DEF new
  <2>7. SubSeq(kept, 1, j) = SubSeq(t, 1, j) BY <2>2, PrefixOfPrefix DEF kept
  <2>8. Len(s) + j = Len(s) + i - 1 BY <1>1 DEF j
  <2> QED BY <2>3, <2>4, <2>5, <2>6, <2>7, <2>8
<1>13. kps = SampledAfter(s, new)
  <2>1. kps = [i \in 1 .. k + 1 |-> kps[i]] BY <1>10, <1>11
  <2> QED BY <1>4, <1>12, <2>1 DEF SampledAfter
<1> QED BY <1>13 DEF kps, all, text, new, kept, one

\* What main evaluates to verify the drafts.
LEMMA VerifiedTokens ==
  ASSUME GenerationInv, pc = "verify",
         NEW toks, toks = (IF First THEN out ELSE Suffix(out, 1)) \o drafts
  PROVE  RestFor("main", toks, out \o drafts)
<1>1. pc # "idle" BY DEF GenerationInv
<1>2. /\ call.prompt \in Nat \ {0} /\ call.max \in Nat /\ call.lookahead \in Nat \ {0}
      /\ Behind \in Nat /\ out \in Text /\ Len(out) \in Nat
      /\ drafts \in Text /\ Len(drafts) \in Nat /\ call.prompt <= Len(out)
      /\ First => Behind = 0
      /\ ~First => Behind = Len(out) - 1 /\ call.prompt <= Behind
  BY <1>1, Running
<1>3. /\ spec \in 1 .. call.lookahead /\ Len(out) + spec <= call.max /\ Len(drafts) = spec
      /\ call.kind = "speculative"
  BY DEF GenerationInv, PlaceInv
<1> DEFINE text == out \o drafts
           l == Len(out)
           e == Len(drafts)
<1>4. text \in Text /\ Len(text) = l + e BY <1>2, ConcatIsText
<1>5. l \in Nat \ {0} /\ e \in Nat \ {0} /\ l + e <= call.max /\ e <= call.lookahead
  BY <1>2, <1>3
<1>6. Behind < Len(text) /\ Len(text) <= call.max /\ Behind \in 0 .. Len(text)
  BY <1>2, <1>4, <1>5
<1> HIDE DEF text
<1>9. toks = SubSeq(text, Behind + 1, Len(text))
  <2>1. CASE First
    <3>1. toks = text /\ Behind + 1 = 1 BY <1>2, <2>1 DEF text
    <3> QED BY <1>4, <3>1, TextLength
  <2>2. CASE ~First
    <3>1. out # <<>> /\ drafts # <<>> BY <1>5
    <3>2. Suffix(out, 1) = SubSeq(out, l, l)
      <4>1. l - 1 + 1 = l BY <1>5
      <4> QED BY <4>1 DEF Suffix
    <3>3. SubSeq(out \o drafts, l, l + e) = SubSeq(out, l, l) \o drafts
      BY <1>2, <3>1, LastThenRest
    <3>4. Behind + 1 = l BY <1>2, <1>5, <2>2
    <3> QED BY <1>4, <2>2, <3>2, <3>3, <3>4 DEF text
  <2> QED BY <2>1, <2>2
<1>10. Replays("main") => Len(toks) \in DecodingSeqlens(call, "main") /\ Len(toks) < call.max
  <2> SUFFICES ASSUME Replays("main")
               PROVE  Len(toks) \in DecodingSeqlens(call, "main") /\ Len(toks) < call.max
    OBVIOUS
  <2>1. Behind # 0 BY <1>2 DEF Replays, Behind
  <2>2. Behind = l - 1 BY <1>2, <2>1
  <2>3. Len(toks) = Len(text) - Behind BY <1>4, <1>6, <1>9, RestIsText
  <2>4. Len(toks) = e + 1 BY <1>4, <1>5, <2>2, <2>3
  <2>5. e + 1 \in 1 .. call.lookahead + 1 BY <1>2, <1>5
  <2>6. e + 1 < call.max BY <1>2, <1>5, <2>1, <2>2
  <2> QED BY <1>3, <2>4, <2>5, <2>6 DEF DecodingSeqlens
<1> QED BY <1>6, <1>9, <1>10 DEF RestFor, Behind, text

\* The main model verified the drafts: k of them are kept, then t was sampled.
RoundVerified(toks, after, k, t) ==
  /\ cells' = [cells EXCEPT !["main"] = after]
  /\ ip' = [ip EXCEPT !["main"] =
                        [ip["main"] EXCEPT !.offset = MainOffset(k + 1),
                                           !.lengths = SeenParams("main", Len(toks)).lengths],
                      !["draft"] = [ip["draft"] EXCEPT !.offset = DraftOffset(k + 1)]]
  /\ table' = IF Replays("main") THEN table
              ELSE [table EXCEPT !["main"] = Rotated(table["main"], ip["main"].maxLen)]
  /\ Sampled(Accepted(k, t), SubSeq(Logits("main", toks, after, spec + 1), 1, k + 1), "choose")
  /\ UNCHANGED <<arch, graphs, calls, call, failed>>

LEMMA VerifyMade ==
  ASSUME GenerationInv, pc = "verify",
         NEW toks, RestFor("main", toks, out \o drafts), CanCall("main", toks),
         NEW after \in Evaluated("main", toks), NEW k \in 0 .. spec, NEW t \in Token,
         RoundVerified(toks, after, k, t)
  PROVE  SessionInv' /\ D!Emit
<1>1. pc = "verify" /\ pc # "idle" OBVIOUS
<1>2. /\ InCall /\ "main" \in Used(call) /\ "main" \in Model /\ "draft" \in Model
      /\ call.prompt \in Nat \ {0} /\ call.max \in Nat /\ call.cg \in BOOLEAN
      /\ ip \in [Model -> Params] /\ Behind \in Nat
      /\ out \in Text /\ Len(out) \in Nat /\ drafts \in Text /\ Len(drafts) \in Nat
      /\ call.prompt <= Len(out)
      /\ GraphsUsable => /\ EntriesOf(cells["main"], out, Behind)
                         /\ SampledGiven(out, call.prompt, scores)
      /\ First => Behind = 0 /\ Len(out) = call.prompt
      /\ ~First => Behind = Len(out) - 1 /\ call.prompt <= Behind
  BY <1>1, Running DEF Model
<1>3. /\ spec \in 1 .. call.lookahead /\ Len(out) + spec <= call.max /\ Len(drafts) = spec
      /\ call.kind = "speculative" /\ call.prompt < call.max - 1
  BY <1>1 DEF GenerationInv, PlaceInv
<1>4. spec \in Nat \ {0} /\ drafts # <<>> BY <1>2, <1>3
<1>5. /\ ip["draft"].offset = Len(out) + Len(drafts) - 1
      /\ GraphsUsable => EntriesOf(cells["draft"], out \o drafts, ip["draft"].offset)
  BY <1>1, <1>4, DraftOffsets
<1> DEFINE lens == SeenParams("main", Len(toks)).lengths
           text == out \o drafts
<1>7. text \in Text /\ Len(text) = Len(out) + Len(drafts) /\ Len(text) \in Nat
  BY <1>2, ConcatIsText
<1> HIDE DEF text
<1>10. /\ DOMAIN after = Cells(Rows("main"))
       /\ GraphsUsable => /\ EntriesOf(after, text, Len(text))
                          /\ Logits("main", toks, after, spec + 1) = Prefixes(text, spec + 1)
       /\ lens \in Int /\ (~call.cg => lens = NoLengths)
  <2>1. CallExtends("main", toks, text, after) BY <1>2, <1>7, CallMade DEF text
  <2>2. spec + 1 \in 0 .. Len(text) BY <1>2, <1>3, <1>4, <1>7
  <2>3. GraphsUsable => EntriesOf(cells["main"], text, Behind)
    <3>1. Behind \in 0 .. Len(out) BY <1>2
    <3> QED BY <1>2, <3>1, EntriesKept DEF text
  <2> QED BY <2>1, <2>2, <2>3 DEF CallExtends, Behind
<1>12. /\ cells' = [cells EXCEPT !["main"] = after]
       /\ ip' = [ip EXCEPT !["main"] = [ip["main"] EXCEPT !.offset = MainOffset(k + 1),
                                                          !.lengths = lens],
                           !["draft"] = [ip["draft"] EXCEPT !.offset = DraftOffset(k + 1)]]
       /\ TableCalled("main")
       /\ Sampled(Accepted(k, t), SubSeq(Logits("main", toks, after, spec + 1), 1, k + 1),
                  "choose")
       /\ UNCHANGED <<arch, graphs, calls, call, failed>>
  BY DEF RoundVerified, TableCalled
<1> HIDE DEF lens
<1> DEFINE kept == SubSeq(drafts, 1, k)
           one == <<t>>
           new == kept \o one
           base == out \o kept
<1>13. k \in Nat /\ k <= spec /\ k \in 0 .. Len(drafts) BY <1>3, <1>4
<1>14. /\ kept \in Text /\ Len(kept) = k /\ one \in Text /\ Len(one) = 1
  BY <1>2, <1>13, PrefixIsText, TokenIsText
<1>15. SubSeq(Prefixes(text, spec + 1), 1, k + 1)
         = SampledAfter(out, new)
  <2>1. SubSeq(Prefixes(out \o drafts, Len(drafts) + 1), 1, k + 1)
          = SampledAfter(out, SubSeq(drafts, 1, k) \o <<t>>)
    BY <1>2, <1>13, KeptPrefixes
  <2> QED BY <1>3, <2>1 DEF text
<1>16. Accepted(k, t) = new BY DEF Accepted
<1> HIDE DEF kept, one
<1>17. /\ new \in Text /\ Len(new) = k + 1 /\ base \in Text /\ Len(base) = Len(out) + k
       /\ out \o new = base \o one
  <2>1. new \in Text /\ Len(new) = k + 1 BY <1>14, ConcatIsText
  <2>2. base \in Text /\ Len(base) = Len(out) + k BY <1>2, <1>14, ConcatIsText
  <2>3. (out \o kept) \o one = out \o (kept \o one) BY <1>2, <1>14, TextsAssociate
  <2> QED BY <2>1, <2>2, <2>3
<1>18. base = SubSeq(text, 1, Len(out) + k)
  <2>1. SubSeq(out \o drafts, 1, Len(out) + k) = out \o SubSeq(drafts, 1, k)
    BY <1>2, <1>13, PrefixAcross
  <2> QED BY <2>1 DEF kept, text
<1> HIDE DEF new, base
<1>19. out \o new \in Text /\ Len(out \o new) = Len(out) + k + 1
  <2>1. out \o new \in Text /\ Len(out \o new) = Len(out) + Len(new)
    BY <1>2, <1>17, ConcatIsText
  <2>2. Len(out) + Len(new) = Len(out) + k + 1 BY <1>2, <1>13, <1>17
  <2> QED BY <2>1, <2>2
<1>20. /\ out' = out \o new /\ last' = k + 1 /\ pc' = "choose"
       /\ GraphsUsable => scores' = scores \o SampledAfter(out, new)
       /\ drafts' = <<>> /\ draftSeen' = <<>> /\ spec' = 0
       /\ UNCHANGED <<arch, graphs, calls, call, failed>>
  BY <1>10, <1>12, <1>15, <1>16, <1>17 DEF Sampled
<1>21. /\ out' = base \o one /\ out' \in Text /\ Len(out') = Len(out) + k + 1
  BY <1>17, <1>19, <1>20
<1>22. MainOffset(k + 1) = Len(out) + k
  BY <1>2, <1>13 DEF MainOffset, Behind
<1>23. DraftOffset(k + 1) = IF k = 0 THEN Len(out) + k ELSE Len(out) + k - 1
  BY <1>2, <1>13, <1>22 DEF DraftOffset
<1>24. /\ ip' \in [Model -> Params]
       /\ \A m \in Model : ip'[m].maxLen = ip[m].maxLen /\ ip'[m].rows = ip[m].rows
       /\ ip'["main"].offset = Len(out) + k /\ ip'["main"].lengths = lens
       /\ ip'["draft"].offset = DraftOffset(k + 1)
       /\ ip'["draft"].lengths = ip["draft"].lengths
  <2> DEFINE a == MainOffset(k + 1)
             b == DraftOffset(k + 1)
  <2>1. a = Len(out) + k /\ a \in Nat /\ b \in Nat BY <1>2, <1>13, <1>22, <1>23
  <2> HIDE DEF a, b
  <2>2. /\ [ip["main"] EXCEPT !.offset = a, !.lengths = lens] \in Params
        /\ [ip["draft"] EXCEPT !.offset = b] \in Params
    BY <1>2, <1>10, <2>1 DEF Params
  <2>3. ip' = [ip EXCEPT !["main"] = [ip["main"] EXCEPT !.offset = a, !.lengths = lens],
                         !["draft"] = [ip["draft"] EXCEPT !.offset = b]]
    BY <1>12 DEF a, b
  <2>4. /\ ip'["main"] = [ip["main"] EXCEPT !.offset = a, !.lengths = lens]
        /\ ip'["draft"] = [ip["draft"] EXCEPT !.offset = b]
        /\ ip' \in [Model -> Params]
    BY <1>2, <2>2, <2>3
  <2>5. ip["main"] \in Params /\ ip["draft"] \in Params BY <1>2
  <2> QED BY <2>1, <2>4, <2>5 DEF Params, Model, b
<1>26. /\ TypeInv' /\ CallInv' /\ \A w \in Model : GraphsInv(w)'
       /\ GraphsUsable' = GraphsUsable
       /\ cells'["main"] = after /\ \A w \in Model \ {"main"} : cells'[w] = cells[w]
  <2>1. ASSUME ~call.cg, NEW w \in Model PROVE ip'[w].lengths = NoLengths
    <3>1. ip["draft"].lengths = NoLengths BY <1>1, <1>2, <2>1 DEF GenerationInv, CallInv
    <3>2. ip'["main"].lengths = NoLengths /\ ip'["draft"].lengths = NoLengths
      BY <1>10, <1>24, <2>1, <3>1
    <3> QED BY <3>2 DEF Model
  <2>2. ASSUME NEW w \in Model PROVE ip'[w].offset > 0 \/ ip'[w] = ip[w]
    <3>1. ip'["main"].offset > 0 BY <1>2, <1>13, <1>24
    <3>2. ip'["draft"].offset > 0 BY <1>2, <1>13, <1>23, <1>24
    <3> QED BY <3>1, <3>2 DEF Model
  <2>4. drafts' \in Text /\ last' \in Nat /\ spec' \in Nat
    BY <1>13, <1>20 DEF Text
  <2>5. pc' \in {"decode", "single", "choose", "draft", "verify", "done"} BY <1>20
  <2> QED BY <1>1, <1>2, <1>10, <1>12, <1>21, <1>24, <2>1, <2>2, <2>4, <2>5, EvaluationKept
<1>25. GraphsUsable => SampledGiven(out', call.prompt, scores')
  <2> SUFFICES ASSUME GraphsUsable PROVE SampledGiven(out', call.prompt, scores') OBVIOUS
  <2>1. call.prompt \in 0 .. Len(out) BY <1>2
  <2> QED BY <1>2, <1>17, <1>20, <2>1, SampledExtends
<1>27. MainInv'
  <2>1. Behind' = Len(out) + k BY <1>24 DEF Behind
  <2>2. ~First' BY <1>2, <1>13, <1>24 DEF First
  <2>3. Behind' = Len(out') - 1 /\ call'.prompt <= Behind' /\ last' \in 1 .. Len(out')
    BY <1>2, <1>13, <1>20, <1>21, <2>1
  <2>4. ASSUME GraphsUsable PROVE EntriesOf(after, base, Len(out) + k)
    <3> DEFINE n == Len(out) + k
    <3>1. n \in 0 .. Len(text) /\ n \in 0 .. n /\ n <= Len(text) BY <1>2, <1>3, <1>7, <1>13
    <3> HIDE DEF n
    <3>2. EntriesOf(after, SubSeq(text, 1, n), n) BY <1>7, <1>10, <2>4, <3>1, EntriesOfPrefix
    <3> QED BY <1>18, <3>2 DEF n
  <2>5. Len(out) + k \in 0 .. Len(base) BY <1>2, <1>13, <1>17
  <2>6. GraphsUsable => EntriesOf(after, base \o one, Len(out) + k)
    BY <1>14, <1>17, <2>4, <2>5, EntriesKept
  <2>7. GraphsUsable => EntriesOf(cells'["main"], out', Behind')
    BY <1>21, <1>26, <2>1, <2>6
  <2> QED BY <1>20, <1>25, <1>26, <2>2, <2>3, <2>7 DEF MainInv
<1>28. DraftInv'
  <2> DEFINE d == DraftOffset(k + 1)
             n == Len(out) + k
  <2>1. /\ d \in Nat /\ d <= n /\ d <= ip["draft"].offset /\ ip["draft"].offset \in Nat
        /\ n \in Nat /\ n <= Len(text)
    BY <1>2, <1>3, <1>4, <1>5, <1>7, <1>13, <1>23
  <2>2. d = Len(out') - AtMost(2, last')
    <3>1. CASE k = 0
      <4>1. AtMost(2, last') = 1 BY <1>20, <3>1 DEF AtMost
      <4> QED BY <1>2, <1>21, <1>23, <3>1, <4>1
    <3>2. CASE k # 0
      <4>1. AtMost(2, last') = 2 BY <1>13, <1>20, <3>2 DEF AtMost
      <4> QED BY <1>2, <1>13, <1>21, <1>23, <3>2, <4>1
    <3> QED BY <3>1, <3>2
  <2> HIDE DEF d, n
  <2>3. GraphsUsable => EntriesOf(cells["draft"], text, ip["draft"].offset)
    BY <1>5 DEF text
  <2>4. ASSUME GraphsUsable PROVE EntriesOf(cells["draft"], SubSeq(text, 1, n), d)
    <3>1. n \in 0 .. Len(text) /\ d \in 0 .. n BY <1>7, <2>1
    <3> QED BY <1>7, <2>1, <2>3, <2>4, <3>1, EntriesOfPrefix
  <2>5. GraphsUsable => EntriesOf(cells["draft"], base, d) BY <1>18, <2>4 DEF n
  <2>6. d \in 0 .. Len(base) BY <1>17, <2>1 DEF n
  <2>7. GraphsUsable => EntriesOf(cells["draft"], base \o one, d)
    BY <1>14, <1>17, <2>5, <2>6, EntriesKept
  <2>8. cells'["draft"] = cells["draft"] BY <1>26 DEF Model
  <2>9. out' \o drafts' = out' BY <1>20, <1>21, ConcatEmptySeq DEF Text
  <2>10. GraphsUsable => EntriesOf(cells'["draft"], out' \o drafts', ip'["draft"].offset)
    BY <1>21, <1>24, <2>7, <2>8, <2>9 DEF d
  <2>11. ~First' BY <1>2, <1>13, <1>24 DEF First
  <2>12. SampledGiven(out' \o drafts', Len(out'), draftSeen')
    <3>1. Len(draftSeen') = Len(out') - Len(out') /\ draftSeen' \in Seq(Entry)
      BY <1>2, <1>13, <1>20, <1>21
    <3>2. \A i \in 1 .. Len(draftSeen') : draftSeen'[i] = SubSeq(out', 1, Len(out') + i - 1)
      BY <1>20
    <3> QED BY <2>9, <3>1, <3>2 DEF SampledGiven
  <2> QED BY <1>20, <1>24, <1>26, <2>2, <2>10, <2>11, <2>12 DEF DraftInv, d
<1>29. PlaceInv'
  <2>1. ~First' BY <1>2, <1>13, <1>24 DEF First
  <2>2. Len(out') <= call'.max + 1 BY <1>2, <1>3, <1>4, <1>13, <1>20, <1>21
  <2> QED BY <1>3, <1>20, <2>1, <2>2 DEF PlaceInv, EndsAtMaxLengthOrOneMore
<1>30. D!Emit
  <2>1. SubSeq(out', 1, Len(out)) = out
    <3>1. Len(out) \in 0 .. Len(out) BY <1>2
    <3> QED BY <1>2, <1>17, <1>20, <3>1, PrefixOfConcat, TextLength
  <2>2. Len(out') - Len(out) = Len(new) /\ Len(out') > Len(out)
    BY <1>2, <1>13, <1>17, <1>21
  <2>3. GraphsUsable =>
          scores' = scores \o [i \in 1 .. Len(out') - Len(out) |->
                                 SubSeq(out', 1, Len(out) + i - 1)]
    BY <1>20, <2>2 DEF SampledAfter
  <2> QED BY <1>1, <1>20, <1>26, <2>1, <2>2, <2>3 DEF D!Emit
<1>31. GenerationInv' BY <1>26, <1>27, <1>28, <1>29 DEF GenerationInv
<1> QED BY <1>30, <1>31, StillRunning

LEMMA VerifySteps ==
  ASSUME GenerationInv, VerifyStep
  PROVE  SessionInv' /\ [D!Next]_(D!vars)
<1>1. pc = "verify" /\ pc # "idle" BY DEF VerifyStep
<1>2. InCall /\ "main" \in Used(call) /\ out \o drafts \in Text
  BY <1>1, Running, ConcatIsText
<1> DEFINE toks == (IF First THEN out ELSE Suffix(out, 1)) \o drafts
<1>3. IF CanCall("main", toks)
      THEN \E after \in Evaluated("main", toks), k \in 0 .. spec, t \in Token :
             RoundVerified(toks, after, k, t)
      ELSE Crash
  BY DEF VerifyStep, RoundVerified
<1>4. RestFor("main", toks, out \o drafts) BY <1>1, VerifiedTokens
<1> HIDE DEF toks
<1>5. CASE CanCall("main", toks)
  <2>1. PICK after \in Evaluated("main", toks), k \in 0 .. spec, t \in Token :
               RoundVerified(toks, after, k, t)
    BY <1>3, <1>5
  <2>2. SessionInv' /\ D!Emit BY <1>1, <1>4, <1>5, <2>1, VerifyMade
  <2> QED BY <2>2 DEF D!Next
<1>6. CASE ~CanCall("main", toks)
  <2>1. Refused(call) BY <1>2, <1>4, <1>6, CallServed
  <2> QED BY <1>1, <1>3, <1>6, <2>1, Crashes
<1> QED BY <1>5, <1>6

-----------------------------------------------------------------------------
(* Starting a call                                                         *)

\* The inference_params a graph of n tokens is captured with.
CaptureParams(p, c, n) == [p EXCEPT !.offset = c.max - n, !.lengths = c.max - n]

\* What the assertions say of a capture: it ends at max_length, and with rotary it
\* needs the whole table and all the rows.
LEMMA CaptureAccepted ==
  ASSUME NEW c \in Call, NEW p \in Params, NEW n \in Nat \ {0}, NEW rows \in Nat,
         NEW batch, NEW len \in Nat, arch \in {"rotary", "flash", "plain"}, c.max <= rows
  PROVE  LET taken == Accepts(arch, CaptureParams(p, c, n), FreshCache(rows), batch, n, len)
         IN  /\ taken => n <= c.max /\ (arch = "rotary" /\ c.max - n > 0 => rows <= len)
             /\ ~taken => \/ n > c.max
                          \/ arch # "flash" /\ (p.rows # batch \/ len < rows)
<1> DEFINE q == CaptureParams(p, c, n)
           at == c.max - n
<1>1. c.max \in Nat BY CallTypes
<1>2. at \in Int /\ at + n - 1 = c.max - 1 BY <1>1
<1>3. q.offset = at /\ q.lengths = at /\ q.rows = p.rows BY DEF CaptureParams, Params
<1> HIDE DEF q, at
<1>4. CacheSeqlens(q) = at BY <1>3 DEF CacheSeqlens
<1>5. WriteAt(arch, q) = at BY <1>3, <1>4 DEF WriteAt
<1>6. DOMAIN FreshCache(rows) = 0 .. rows - 1 /\ Cells(len) = 0 .. len - 1
  BY DEF FreshCache, Cells
<1>7. Fits(FreshCache(rows), at, n) <=> at >= 0 /\ c.max - 1 \in 0 .. rows - 1
  BY <1>2, <1>6 DEF Fits
<1>8. Fits(FreshCache(rows), at, n) <=> n <= c.max
  <2>1. at >= 0 <=> n <= c.max BY <1>1 DEF at
  <2>2. n <= c.max => c.max - 1 \in 0 .. rows - 1 BY <1>1
  <2> QED BY <1>7, <2>1, <2>2
<1>9. AttentionPath(arch, q) = "rotary_append" <=> arch = "rotary" /\ at # 0
  BY <1>3 DEF AttentionPath
<1>10. rows <= len <=> 0 .. rows - 1 \subseteq 0 .. len - 1
  <2>1. rows <= len => 0 .. rows - 1 \subseteq 0 .. len - 1 OBVIOUS
  <2>2. ASSUME 0 .. rows - 1 \subseteq 0 .. len - 1 PROVE rows <= len
    <3>1. CASE rows = 0 BY <3>1
    <3>2. CASE rows # 0
      <4>1. rows - 1 \in 0 .. rows - 1 BY <3>2
      <4>2. rows - 1 \in 0 .. len - 1 BY <2>2, <4>1
      <4> QED BY <4>2
    <3> QED BY <3>1, <3>2
  <2> QED BY <2>1, <2>2
<1> DEFINE taken == Accepts(arch, q, FreshCache(rows), batch, n, len)
<1>11. taken <=>
         /\ n <= c.max
         /\ (arch = "rotary" /\ at # 0) => at > 0 /\ rows <= len
         /\ (arch # "flash" /\ ~(arch = "rotary" /\ at # 0)) =>
              /\ n <= len
              /\ IF at # NoLengths THEN p.rows = batch ELSE at + n <= len
  BY <1>3, <1>5, <1>6, <1>8, <1>9, <1>10 DEF Accepts
<1> HIDE DEF taken
<1>12. taken => n <= c.max /\ (arch = "rotary" /\ at > 0 => rows <= len) BY <1>2, <1>11
<1>13. ASSUME n <= c.max, arch = "flash" \/ (p.rows = batch /\ rows <= len)
       PROVE  taken
  <2>1. at >= 0 BY <1>1, <1>13 DEF at
  <2>2. at # 0 => at > 0 BY <1>2, <2>1
  <2>3. CASE arch = "flash" BY <1>11, <1>13, <2>3
  <2>4. CASE p.rows = batch /\ rows <= len
    <3>1. n <= len BY <1>1, <1>13, <2>4
    <3>2. at # NoLengths BY <2>1 DEF NoLengths
    <3> QED BY <1>11, <1>13, <2>2, <2>4, <3>1, <3>2
  <2> QED BY <1>13, <2>3, <2>4
<1>14. ~taken => n > c.max \/ (arch # "flash" /\ (p.rows # batch \/ len < rows))
  BY <1>1, <1>13
<1> QED BY <1>12, <1>14 DEF taken, q, at

\* The K/V memory and the parameters update_graph_cache works with.
FreshFor(g, c, f) ==
  /\ f \in GraphCache /\ f.params \in Params /\ f.maxLen \in Nat /\ f.maxBatch \in Nat
  /\ f.kv \in Nat /\ f.callables \subseteq Graph
  /\ c.max <= f.maxLen /\ c.batch <= f.maxBatch
  /\ f.params.maxLen \in Nat /\ f.params.maxLen <= f.maxLen /\ f.params.rows = f.maxBatch
  /\ f = g \/ (f.kv = g.kv + 1 /\ f.callables = {})

LEMMA FreshGraphs ==
  ASSUME TypeInv, NEW c \in Call, NEW m \in Model, GraphsInv(m)
  PROVE  FreshFor(graphs[m], c, Allocated(graphs[m], c))
<1> DEFINE g == graphs[m]
           ip0 == InferenceParams(c.max, c.batch, c.prompt)
           new == [maxBatch |-> c.batch, maxLen |-> c.max, kv |-> g.kv + 1, params |-> ip0,
                   callables |-> {}]
<1>1. c.batch \in Nat /\ c.max \in Nat /\ c.prompt \in Nat BY CallTypes
<1>2. g \in GraphCache BY DEF TypeInv
<1>3. /\ g.kv \in Nat /\ g.maxLen \in Nat /\ g.maxBatch \in Nat /\ g.params \in Params
      /\ g.callables \subseteq Graph
  BY <1>2 DEF GraphCache
<1>4. g.params.maxLen \in Nat /\ g.params.maxLen <= g.maxLen /\ g.params.rows = g.maxBatch
  BY <1>3 DEF GraphsInv, Params
<1>5. ip0 \in Params /\ ip0.maxLen = c.max /\ ip0.rows = c.batch
  BY <1>1 DEF InferenceParams, Params
<1> HIDE DEF g, ip0
<1>6. /\ new \in GraphCache /\ new.maxBatch = c.batch /\ new.maxLen = c.max
      /\ new.kv = g.kv + 1 /\ new.params = ip0 /\ new.callables = {} /\ new.kv \in Nat
  BY <1>1, <1>3, <1>5 DEF GraphCache
<1>7. Allocated(g, c) = IF Invalid(g, c) THEN new ELSE g BY DEF Allocated, ip0
<1> HIDE DEF new
<1>8. CASE Invalid(g, c)
  <2>1. c.max <= c.max /\ c.batch <= c.batch BY <1>1
  <2>2. new.callables \subseteq Graph BY <1>6
  <2> QED BY <1>1, <1>5, <1>6, <1>7, <1>8, <2>1, <2>2 DEF FreshFor, g
<1>9. CASE ~Invalid(g, c)
  <2>1. c.max <= g.maxLen /\ c.batch <= g.maxBatch BY <1>1, <1>3, <1>9 DEF Invalid
  <2> QED BY <1>2, <1>3, <1>4, <1>7, <1>9, <2>1 DEF FreshFor, g
<1> QED BY <1>8, <1>9

\* A capture that fails is that of a call the code refuses.
LEMMA CaptureRefused ==
  ASSUME TypeInv, NEW c \in Call, c.cg, NEW m \in Used(c), GraphsInv(m),
         ~Capturable(graphs[m], table[m], c, DecodingSeqlens(c, m))
  PROVE  Refused(c)
<1> DEFINE g == graphs[m]
           t == table[m]
           f == Allocated(g, c)
           r == Rotated(t, f.params.maxLen)
           S == DecodingSeqlens(c, m)
<1>1. m \in Model /\ c.max \in Nat /\ c.batch \in Nat /\ S \subseteq Nat \ {0} BY CallTypes
<1>2. t \in Table /\ arch \in {"rotary", "flash", "plain"}
  BY <1>1, GenerationAssumption DEF TypeInv
<1>3. FreshFor(g, c, f) BY <1>1, FreshGraphs
<1>4. PICK n \in Missing(f, c, S) :
             ~Accepts(arch, CaptureParams(f.params, c, n), FreshCache(f.maxLen), c.batch, n,
                      r.len)
  BY DEF Capturable, CaptureParams
<1>5. n \in S BY <1>4 DEF Missing
<1> HIDE DEF g, f, t, S, r
<1>6. /\ f.params \in Params /\ f.maxLen \in Nat /\ f.maxBatch \in Nat /\ f.params.maxLen \in Nat
      /\ c.max <= f.maxLen /\ c.batch <= f.maxBatch /\ f.params.rows = f.maxBatch
  BY <1>3 DEF FreshFor
<1>7. r.len \in Nat
  <2>1. r \in Table BY <1>2, <1>6, RotatedTable DEF r
  <2> QED BY <2>1 DEF Table
<1>8. n > c.max \/ (arch # "flash" /\ (f.params.rows # c.batch \/ r.len < f.maxLen))
  <2>1. n \in Nat \ {0} BY <1>1, <1>5
  <2> DEFINE p == f.params
             rows == f.maxLen
             batch == c.batch
             len == r.len
  <2>2. p \in Params /\ rows \in Nat /\ len \in Nat /\ c.max <= rows
        /\ ~Accepts(arch, CaptureParams(p, c, n), FreshCache(rows), batch, n, len)
    BY <1>4, <1>6, <1>7
  <2> HIDE DEF p, rows, batch, len
  <2>3. n > c.max \/ (arch # "flash" /\ (p.rows # batch \/ len < rows))
    BY <1>2, <2>1, <2>2, CaptureAccepted
  <2> QED BY <2>3 DEF p, rows, batch, len
<1>9. f.params.rows # c.batch => c.batch < f.maxBatch BY <1>1, <1>6
<1>10. \/ \E k \in DecodingSeqlens(c, m) : k > c.max
       \/ arch # "flash" /\ (c.batch < f.maxBatch \/ r.len < f.maxLen)
  BY <1>5, <1>8, <1>9 DEF S
<1> QED BY <1>10 DEF Refused, f, g, r, t

\* update_graph_cache leaves a graph for every number of tokens the call passes, all of
\* them where they should be, and none of those it keeps loses its memory or its table.
UpdateReady(g, t, c, S, u, v) ==
  /\ \A p : [u EXCEPT !.params = p]
             = [maxBatch |-> u.maxBatch, maxLen |-> u.maxLen, kv |-> u.kv, params |-> p,
                callables |-> u.callables]
  /\ u.maxLen \in Nat /\ u.maxBatch \in Nat /\ u.kv \in Nat /\ u.callables \subseteq Graph
  /\ v \in Table /\ c.max <= u.maxLen /\ c.batch <= u.maxBatch
  /\ LET reset == Reset(u.params, c.max, c.batch)
     IN  /\ reset \in Params /\ reset.maxLen = c.max /\ reset.offset = 0
         /\ reset.rows = u.maxBatch /\ reset.lengths \in {0, NoLengths}
  /\ \A n \in S : \E k \in u.callables : k.batch = c.batch /\ k.seqlen = n
  /\ \A k \in u.callables :
       /\ k.kv = u.kv /\ k.offset + k.seqlen <= u.maxLen /\ k.table <= v.id
       /\ (arch = "rotary" /\ k.offset > 0 /\ k.table = v.id) => u.maxLen <= v.len
  /\ \A k \in g.callables \cap u.callables :
       (k.kv = g.kv /\ ((arch = "rotary" /\ k.offset > 0) => k.table = t.id)) =>
         /\ k.kv = u.kv
         /\ (arch = "rotary" /\ k.offset > 0) => k.table = v.id

LEMMA GraphsUpdated ==
  ASSUME TypeInv, NEW c \in Call, NEW m \in Used(c), GraphsInv(m),
         Capturable(graphs[m], table[m], c, DecodingSeqlens(c, m))
  PROVE  UpdateReady(graphs[m], table[m], c, DecodingSeqlens(c, m),
                     UpdatedGraphs(graphs[m], table[m], c, DecodingSeqlens(c, m)),
                     UpdatedTable(graphs[m], table[m], c, DecodingSeqlens(c, m)))
<1> DEFINE g == graphs[m]
           t == table[m]
           S == DecodingSeqlens(c, m)
           fresh == Allocated(g, c)
           missing == Missing(fresh, c, S)
           all == Rotated(t, fresh.params.maxLen)
           rotated == IF missing = {} THEN t ELSE all
           captured == {CapturedGraph(fresh, rotated, c, n) : n \in missing}
           lengths == IF missing = {} THEN fresh.params.lengths ELSE c.max - Largest(missing)
           q == [fresh.params EXCEPT !.lengths = lengths]
           w == fresh.callables \cup captured
           u == UpdatedGraphs(g, t, c, S)
           v == UpdatedTable(g, t, c, S)
<1>1. /\ m \in Model /\ c.batch \in Nat /\ c.max \in Nat /\ S \subseteq Nat \ {0} BY CallTypes
<1>2. g \in GraphCache /\ t \in Table /\ arch \in {"rotary", "flash", "plain"}
  BY <1>1, GenerationAssumption DEF TypeInv
<1>3. FreshFor(g, c, fresh) BY <1>1, FreshGraphs
<1>4. v = rotated BY DEF UpdatedTable
<1>5. u = [fresh EXCEPT !.callables = w, !.params = q] BY DEF UpdatedGraphs
<1>6. /\ missing \subseteq S
      /\ \A n \in S : n \in missing
                      \/ \E k \in fresh.callables : k.batch = c.batch /\ k.seqlen = n
  BY DEF Missing
<1>7. \A n \in missing :
        Accepts(arch, CaptureParams(fresh.params, c, n), FreshCache(fresh.maxLen), c.batch, n,
                all.len)
  BY DEF Capturable, CaptureParams
<1>8. \A k \in g.callables : /\ k.kv = g.kv /\ k.offset + k.seqlen <= g.maxLen
                             /\ k.table <= t.id
                             /\ (arch = "rotary" /\ k.offset > 0 /\ k.table = t.id) =>
                                  g.maxLen <= t.len
  BY DEF GraphsInv, PlacedIn
<1> HIDE DEF g, t, S, fresh, missing, all, u, v, q, w, lengths
<1>9. /\ fresh \in GraphCache /\ fresh.params \in Params /\ fresh.maxLen \in Nat
      /\ fresh.maxBatch \in Nat /\ fresh.kv \in Nat /\ fresh.callables \subseteq Graph
      /\ c.max <= fresh.maxLen /\ c.batch <= fresh.maxBatch
      /\ fresh.params.maxLen \in Nat /\ fresh.params.maxLen <= fresh.maxLen
      /\ fresh.params.rows = fresh.maxBatch
      /\ fresh = g \/ (fresh.kv = g.kv + 1 /\ fresh.callables = {})
  BY <1>3 DEF FreshFor
<1>10. /\ u = [maxBatch |-> fresh.maxBatch, maxLen |-> fresh.maxLen, kv |-> fresh.kv,
               params |-> q, callables |-> w]
       /\ u.maxLen = fresh.maxLen /\ u.maxBatch = fresh.maxBatch /\ u.kv = fresh.kv
       /\ u.params = q /\ u.callables = fresh.callables \cup captured
  BY <1>5, <1>9 DEF GraphCache, w
<1>11. \A p : [u EXCEPT !.params = p]
               = [maxBatch |-> u.maxBatch, maxLen |-> u.maxLen, kv |-> u.kv, params |-> p,
                  callables |-> u.callables]
  BY <1>10
<1>12. LET reset == Reset(u.params, c.max, c.batch)
       IN  /\ reset \in Params /\ reset.maxLen = c.max /\ reset.offset = 0
           /\ reset.rows = u.maxBatch /\ reset.lengths \in {0, NoLengths}
  <2>1. q = [maxLen |-> fresh.params.maxLen, maxBatch |-> fresh.params.maxBatch,
             offset |-> fresh.params.offset, lengths |-> lengths, rows |-> fresh.params.rows]
    BY <1>9 DEF q, Params
  <2> DEFINE new == IF lengths = NoLengths THEN NoLengths ELSE 0
             reset == Reset(q, c.max, c.batch)
  <2>2. new \in {0, NoLengths} /\ new \in Int BY DEF NoLengths
  <2>3. q.lengths = lengths BY <2>1
  <2>4. reset = [q EXCEPT !.maxLen = c.max, !.maxBatch = c.batch, !.offset = 0,
                          !.lengths = new]
    BY <2>3 DEF Reset
  <2> HIDE DEF new, reset
  <2>5. reset = [maxLen |-> c.max, maxBatch |-> c.batch, offset |-> 0, lengths |-> new,
                 rows |-> fresh.params.rows]
    BY <2>1, <2>4
  <2>6. reset \in Params BY <1>1, <1>9, <2>2, <2>5 DEF Params
  <2> QED BY <1>9, <1>10, <2>2, <2>5, <2>6 DEF reset
<1>13. /\ all \in Table /\ (all = t \/ all.id = t.id + 1) /\ all.len \in Nat /\ all.id \in Nat
       /\ fresh.params.maxLen <= t.len => all = t
  <2>1. /\ all \in Table /\ (all = t \/ all.id = t.id + 1)
        /\ fresh.params.maxLen <= t.len => all = t
    BY <1>2, <1>9, RotatedTable DEF all
  <2> QED BY <2>1 DEF Table
<1>14. t.id \in Nat /\ t.len \in Nat BY <1>2 DEF Table
<1>15. /\ v \in Table /\ (v = t \/ v.id = t.id + 1) /\ v.id \in Nat
       /\ missing # {} => v = all
       /\ fresh.params.maxLen <= t.len => v = t
  BY <1>2, <1>4, <1>13, <1>14
<1>16. ASSUME NEW n \in missing
       PROVE  LET k == CapturedGraph(fresh, rotated, c, n)
              IN  /\ k \in Graph /\ k \in captured /\ k.batch = c.batch /\ k.seqlen = n
                  /\ k.kv = fresh.kv /\ k.table = v.id
                  /\ k.offset + k.seqlen <= fresh.maxLen
                  /\ (arch = "rotary" /\ k.offset > 0) => fresh.maxLen <= v.len
  <2>1. n \in Nat \ {0} /\ v = all BY <1>1, <1>6, <1>15
  <2>2. n <= c.max /\ (arch = "rotary" /\ c.max - n > 0 => fresh.maxLen <= v.len)
    <3> DEFINE p == fresh.params
               rows == fresh.maxLen
               batch == c.batch
               len == all.len
    <3>1. p \in Params /\ rows \in Nat /\ len \in Nat /\ c.max <= rows
          /\ Accepts(arch, CaptureParams(p, c, n), FreshCache(rows), batch, n, len)
      BY <1>7, <1>9, <1>13
    <3> HIDE DEF p, rows, batch, len
    <3>2. n <= c.max /\ (arch = "rotary" /\ c.max - n > 0 => rows <= len)
      BY <1>2, <2>1, <3>1, CaptureAccepted
    <3> QED BY <2>1, <3>2 DEF p, rows, batch, len
  <2> DEFINE k == CapturedGraph(fresh, rotated, c, n)
             at == c.max - n
  <2>3. at \in Nat /\ at + n = c.max BY <1>1, <2>1, <2>2
  <2>4. k = [batch |-> c.batch, seqlen |-> n, kv |-> fresh.kv, table |-> v.id, offset |-> at]
    BY <1>4 DEF CapturedGraph
  <2>5. k \in captured OBVIOUS
  <2> HIDE DEF k, captured
  <2>6. k.offset = at /\ k.seqlen = n /\ k.offset + k.seqlen = c.max BY <2>3, <2>4
  <2>7. k \in Graph BY <1>1, <1>9, <1>15, <2>1, <2>3, <2>4 DEF Graph
  <2> QED BY <1>9, <2>2, <2>4, <2>5, <2>6, <2>7 DEF k, at
<1>17. \A k \in captured : /\ k \in Graph /\ k.kv = fresh.kv /\ k.table = v.id
                           /\ k.offset + k.seqlen <= fresh.maxLen
                           /\ (arch = "rotary" /\ k.offset > 0) => fresh.maxLen <= v.len
  BY <1>16
<1>18. \A n \in missing : \E k \in captured : k.batch = c.batch /\ k.seqlen = n BY <1>16
<1> HIDE DEF captured
<1>19. ASSUME NEW k \in fresh.callables
       PROVE  /\ fresh = g /\ k \in g.callables /\ k.kv = g.kv
              /\ k.offset + k.seqlen <= g.maxLen /\ k.table <= v.id
              /\ (arch = "rotary" /\ k.offset > 0 /\ k.table = t.id) => v = t
              /\ (arch = "rotary" /\ k.offset > 0 /\ k.table = v.id) => g.maxLen <= v.len
  <2>1. fresh = g /\ k \in g.callables BY <1>9
  <2>2. /\ k.kv = g.kv /\ k.offset + k.seqlen <= g.maxLen /\ k.table <= t.id
        /\ (arch = "rotary" /\ k.offset > 0 /\ k.table = t.id) => g.maxLen <= t.len
    BY <1>8, <2>1
  <2>3. k.table \in Nat BY <1>9 DEF Graph
  <2>4. k.table <= v.id BY <1>14, <1>15, <2>2, <2>3
  <2>5. ASSUME arch = "rotary", k.offset > 0, k.table = t.id PROVE v = t
    <3>1. g.maxLen <= t.len BY <2>2, <2>5
    <3>2. fresh.params.maxLen <= t.len BY <1>9, <1>14, <2>1, <3>1
    <3> QED BY <1>15, <3>2
  <2>6. ASSUME arch = "rotary", k.offset > 0, k.table = v.id PROVE g.maxLen <= v.len
    <3>1. v = t BY <1>14, <1>15, <2>2, <2>3, <2>6
    <3> QED BY <2>2, <2>6, <3>1
  <2> QED BY <2>1, <2>2, <2>4, <2>5, <2>6
<1>20. \A n \in S : \E k \in u.callables : k.batch = c.batch /\ k.seqlen = n
  BY <1>6, <1>10, <1>18
<1>21. u.callables \subseteq Graph BY <1>9, <1>10, <1>17
<1>22. ASSUME NEW k \in u.callables
       PROVE  /\ k.kv = u.kv /\ k.offset + k.seqlen <= u.maxLen /\ k.table <= v.id
              /\ (arch = "rotary" /\ k.offset > 0 /\ k.table = v.id) => u.maxLen <= v.len
  <2>1. CASE k \in fresh.callables BY <1>10, <1>19, <2>1
  <2>2. CASE k \in captured
    <3>1. k.table = v.id /\ v.id <= v.id BY <1>15, <1>17, <2>2
    <3> QED BY <1>10, <1>17, <2>2, <3>1
  <2> QED BY <1>10, <2>1, <2>2
<1>23. ASSUME NEW k \in g.callables \cap u.callables, k.kv = g.kv,
              (arch = "rotary" /\ k.offset > 0) => k.table = t.id
       PROVE  k.kv = u.kv /\ ((arch = "rotary" /\ k.offset > 0) => k.table = v.id)
  <2>1. k.kv = u.kv BY <1>22
  <2>2. CASE k \in fresh.callables BY <1>19, <1>23, <2>1, <2>2
  <2>3. CASE k \in captured BY <1>17, <2>1, <2>3
  <2> QED BY <1>10, <2>2, <2>3
<1>24. UpdateReady(g, t, c, S, u, v)
  BY <1>9, <1>10, <1>11, <1>12, <1>15, <1>20, <1>21, <1>22, <1>23 DEF UpdateReady
<1> QED BY <1>24 DEF g, t, S, u, v

LEMMA Prompt ==
  ASSUME NEW n \in Nat \ {0}, NEW s, s = [i \in 1 .. n |-> 1]
  PROVE  s \in Text /\ Len(s) = n /\ s # <<>>
<1>1. 1 \in Tokens BY DEF Tokens
<1>2. s \in Seq(Tokens) /\ Len(s) = n BY <1>1
<1> QED BY <1>2 DEF Text

\* A call that finds or captures its graphs.
Graphed(c) == IF c.cg THEN Used(c) ELSE {}
Updated(m, c) == UpdatedGraphs(graphs[m], table[m], c, DecodingSeqlens(c, m))
NewParams(m, c) ==
  IF m \in Graphed(c) THEN Reset(Updated(m, c).params, c.max, c.batch)
  ELSE InferenceParams(c.max, c.batch, NoLengths)

Begun(c) ==
  /\ graphs' = [m \in Model |->
                  IF m \in Graphed(c) THEN [Updated(m, c) EXCEPT !.params = NewParams(m, c)]
                  ELSE graphs[m]]
  /\ table' = [m \in Model |->
                 IF m \in Graphed(c)
                 THEN UpdatedTable(graphs[m], table[m], c, DecodingSeqlens(c, m))
                 ELSE table[m]]
  /\ ip' = [m \in Model |-> NewParams(m, c)]
  /\ cells' = [m \in Model |->
                 FreshCache(IF m \in Graphed(c) THEN Updated(m, c).maxLen ELSE c.max)]
  /\ pc' = IF c.kind = "decode" THEN "decode"
           ELSE IF c.prompt >= c.max - 1 THEN "single" ELSE "choose"
  /\ UNCHANGED failed

AllCapturable(c) ==
  \A m \in Graphed(c) : Capturable(graphs[m], table[m], c, DecodingSeqlens(c, m))

\* What both outcomes share.
Started(c) ==
  /\ pc = "idle" /\ calls' = calls + 1 /\ call' = c /\ arch' = arch
  /\ c.kind = "speculative" => (c.batch = 1 /\ ~c.eos)
  /\ out' = [i \in 1 .. c.prompt |-> 1] /\ last' = c.prompt
  /\ scores' = <<>> /\ drafts' = <<>> /\ draftSeen' = <<>> /\ spec' = 0

LEMMA BeginCases ==
  ASSUME NEW c \in Call, Begin(c)
  PROVE  /\ Started(c)
         /\ IF AllCapturable(c) THEN Begun(c)
            ELSE /\ failed' = TRUE /\ pc' = "done" /\ UNCHANGED <<graphs, table, ip, cells>>
BY DEF Begin, Started, AllCapturable, Begun, NewParams, Updated, Graphed

\* What becomes of the graphs.
LEMMA GraphsBegun ==
  ASSUME GenerationInv, NEW c \in Call, Started(c), AllCapturable(c), Begun(c)
  PROVE  /\ graphs' \in [Model -> GraphCache] /\ table' \in [Model -> Table]
         /\ ip' \in [Model -> Params] /\ \A m \in Model : GraphsInv(m)'
         /\ StaysLive
         /\ \A m \in Model : /\ ip'[m].maxLen = c.max /\ ip'[m].offset = 0
                             /\ ~c.cg => ip'[m].lengths = NoLengths
                             /\ DOMAIN cells'[m] = Cells(Rows(m)')
         /\ c.cg => \A m \in Used(c) : ReadyInv(m)'
<1> DEFINE S(m) == DecodingSeqlens(c, m)
<1>1. /\ arch' = arch /\ call' = c BY DEF Started
<1>2. /\ c.cg \in BOOLEAN /\ c.batch \in Nat /\ c.max \in Nat /\ Used(c) \subseteq Model
  BY CallTypes
<1>3. /\ TypeInv /\ graphs \in [Model -> GraphCache] /\ table \in [Model -> Table]
      /\ \A m \in Model : GraphsInv(m)
  BY DEF GenerationInv, TypeInv
<1>4. Graphed(c) \subseteq Model /\ \A m \in Graphed(c) : c.cg /\ m \in Used(c)
  BY <1>2 DEF Graphed
<1>5. ASSUME NEW m \in Graphed(c)
      PROVE  /\ m \in Model /\ m \in Used(c)
             /\ UpdateReady(graphs[m], table[m], c, S(m), Updated(m, c), table'[m])
             /\ graphs'[m] = [Updated(m, c) EXCEPT !.params = NewParams(m, c)]
             /\ NewParams(m, c) = Reset(Updated(m, c).params, c.max, c.batch)
  <2>1. m \in Model /\ m \in Used(c) BY <1>4
  <2>2. Capturable(graphs[m], table[m], c, S(m)) BY DEF AllCapturable
  <2>3. UpdateReady(graphs[m], table[m], c, S(m), UpdatedGraphs(graphs[m], table[m], c, S(m)),
                    UpdatedTable(graphs[m], table[m], c, S(m)))
    BY <1>3, <2>1, <2>2, GraphsUpdated
  <2>4. table'[m] = UpdatedTable(graphs[m], table[m], c, S(m)) BY <2>1 DEF Begun
  <2>5. graphs'[m] = [Updated(m, c) EXCEPT !.params = NewParams(m, c)] BY <2>1 DEF Begun
  <2> QED BY <2>1, <2>3, <2>4, <2>5 DEF Updated, NewParams
<1> HIDE DEF S
<1>6. ASSUME NEW m \in Graphed(c)
      PROVE  /\ graphs'[m] \in GraphCache /\ table'[m] \in Table
             /\ graphs'[m].maxLen = Updated(m, c).maxLen
             /\ graphs'[m].maxBatch = Updated(m, c).maxBatch
             /\ graphs'[m].kv = Updated(m, c).kv
             /\ graphs'[m].params = NewParams(m, c)
             /\ graphs'[m].callables = Updated(m, c).callables
             /\ NewParams(m, c) \in Params /\ NewParams(m, c).maxLen = c.max
             /\ NewParams(m, c).offset = 0 /\ NewParams(m, c).rows = Updated(m, c).maxBatch
             /\ NewParams(m, c).lengths \in {0, NoLengths}
             /\ c.max <= Updated(m, c).maxLen /\ c.batch <= Updated(m, c).maxBatch
  <2> DEFINE u == Updated(m, c)
             q == NewParams(m, c)
  <2>1. /\ UpdateReady(graphs[m], table[m], c, S(m), u, table'[m])
        /\ graphs'[m] = [u EXCEPT !.params = q]
        /\ q = Reset(u.params, c.max, c.batch)
    BY <1>5
  <2> HIDE DEF u, q
  <2>2. /\ \A p : [u EXCEPT !.params = p]
                   = [maxBatch |-> u.maxBatch, maxLen |-> u.maxLen, kv |-> u.kv, params |-> p,
                      callables |-> u.callables]
        /\ u.maxLen \in Nat /\ u.maxBatch \in Nat /\ u.kv \in Nat /\ u.callables \subseteq Graph
        /\ table'[m] \in Table /\ c.max <= u.maxLen /\ c.batch <= u.maxBatch
        /\ q \in Params /\ q.maxLen = c.max /\ q.offset = 0
        /\ q.rows = u.maxBatch /\ q.lengths \in {0, NoLengths}
    BY <2>1 DEF UpdateReady
  <2>3. graphs'[m] = [maxBatch |-> u.maxBatch, maxLen |-> u.maxLen, kv |-> u.kv, params |-> q,
                      callables |-> u.callables]
    BY <2>1, <2>2
  <2>4. graphs'[m] \in GraphCache BY <2>2, <2>3 DEF GraphCache
  <2> QED BY <2>2, <2>3, <2>4 DEF u, q
<1>7. ASSUME NEW m \in Model, m \notin Graphed(c)
      PROVE  /\ graphs'[m] = graphs[m] /\ table'[m] = table[m]
             /\ ip'[m] = InferenceParams(c.max, c.batch, NoLengths)
  BY <1>7 DEF Begun, NewParams
<1>8. ASSUME NEW m \in Model
      PROVE  /\ graphs'[m] \in GraphCache /\ table'[m] \in Table /\ ip'[m] \in Params
             /\ ip'[m].maxLen = c.max /\ ip'[m].offset = 0
             /\ ~c.cg => ip'[m].lengths = NoLengths
  <2>1. CASE m \in Graphed(c)
    <3>1. ip'[m] = NewParams(m, c) BY DEF Begun
    <3> QED BY <1>4, <1>6, <2>1, <3>1
  <2>2. CASE m \notin Graphed(c)
    <3> DEFINE q == InferenceParams(c.max, c.batch, NoLengths)
    <3>1. q \in Params /\ q.maxLen = c.max /\ q.offset = 0 /\ q.lengths = NoLengths
      BY <1>2 DEF InferenceParams, Params, NoLengths
    <3> HIDE DEF q
    <3>2. ip'[m] = q BY <1>7, <2>2 DEF q
    <3> QED BY <1>3, <1>7, <2>2, <3>1, <3>2
  <2> QED BY <2>1, <2>2
<1>9. /\ graphs' \in [Model -> GraphCache] /\ table' \in [Model -> Table]
      /\ ip' \in [Model -> Params]
  <2>1. /\ graphs' = [m \in Model |-> graphs'[m]] /\ table' = [m \in Model |-> table'[m]]
        /\ ip' = [m \in Model |-> ip'[m]]
    BY DEF Begun
  <2> QED BY <1>8, <2>1
<1>10. ASSUME NEW m \in Model PROVE GraphsInv(m)'
  <2>1. CASE m \in Graphed(c)
    <3> DEFINE u == Updated(m, c)
               v == table'[m]
    <3>1. UpdateReady(graphs[m], table[m], c, S(m), u, v) BY <1>5, <2>1
    <3> HIDE DEF u, v
    <3>2. \A k \in u.callables :
            /\ k.kv = u.kv /\ k.offset + k.seqlen <= u.maxLen /\ k.table <= v.id
            /\ (arch = "rotary" /\ k.offset > 0 /\ k.table = v.id) => u.maxLen <= v.len
      BY <3>1 DEF UpdateReady
    <3>3. /\ graphs'[m].maxLen = u.maxLen /\ graphs'[m].kv = u.kv
          /\ graphs'[m].maxBatch = u.maxBatch
          /\ graphs'[m].callables = u.callables /\ graphs'[m].params.maxLen = c.max
          /\ graphs'[m].params.rows = u.maxBatch /\ c.max <= u.maxLen
      BY <1>6, <2>1 DEF u
    <3> QED BY <1>1, <3>2, <3>3 DEF GraphsInv, PlacedIn, v
  <2>2. CASE m \notin Graphed(c)
    BY <1>1, <1>3, <1>7, <2>2 DEF GraphsInv, PlacedIn
  <2> QED BY <2>1, <2>2
<1>11. StaysLive
  <2>1. ASSUME NEW m \in Model, NEW k \in graphs[m].callables \cap graphs'[m].callables,
               PointsAtLiveMemory(m, k)
        PROVE  PointsAtLiveMemory(m, k)'
    <3>1. CASE m \in Graphed(c)
      <4> DEFINE g == graphs[m]
                 t == table[m]
                 u == Updated(m, c)
                 v == table'[m]
      <4>1. UpdateReady(g, t, c, S(m), u, v) BY <1>5, <3>1
      <4>2. k \in g.callables \cap u.callables BY <1>6, <2>1, <3>1
      <4>3. k.kv = g.kv /\ ((arch = "rotary" /\ k.offset > 0) => k.table = t.id)
        BY <2>1 DEF PointsAtLiveMemory
      <4> HIDE DEF g, t, u, v
      <4>4. k.kv = u.kv /\ ((arch = "rotary" /\ k.offset > 0) => k.table = v.id)
        BY <4>1, <4>2, <4>3 DEF UpdateReady
      <4>5. graphs'[m].kv = u.kv BY <1>6, <3>1 DEF u
      <4> QED BY <1>1, <4>4, <4>5 DEF PointsAtLiveMemory, v
    <3>2. CASE m \notin Graphed(c) BY <1>1, <1>7, <2>1, <3>2 DEF PointsAtLiveMemory
    <3> QED BY <3>1, <3>2
  <2> QED BY <2>1 DEF StaysLive
<1>12. pc' # "idle" BY DEF Begun
<1>13. ASSUME NEW m \in Model PROVE DOMAIN cells'[m] = Cells(Rows(m)')
  <2> DEFINE n == IF m \in Graphed(c) THEN Updated(m, c).maxLen ELSE c.max
  <2>1. cells'[m] = FreshCache(n) BY DEF Begun
  <2>2. Rows(m)' = IF c.cg /\ m \in Used(c) THEN graphs'[m].maxLen ELSE c.max
    <3>1. Used(call)' = Used(c) BY <1>1 DEF Used
    <3> QED BY <1>1, <1>12, <3>1 DEF Rows
  <2>3. Rows(m)' = n BY <1>6, <2>2 DEF Graphed
  <2> HIDE DEF n
  <2> QED BY <2>1, <2>3 DEF FreshCache
<1>14. ASSUME c.cg, NEW m \in Used(c) PROVE ReadyInv(m)'
  <2>1. m \in Graphed(c) BY <1>14 DEF Graphed
  <2>2. m \in Model BY <1>2
  <2>3. \A n \in S(m) : \E k \in Updated(m, c).callables : k.batch = c.batch /\ k.seqlen = n
    <3> DEFINE u == Updated(m, c)
    <3>1. UpdateReady(graphs[m], table[m], c, S(m), u, table'[m]) BY <1>5, <2>1
    <3> HIDE DEF u
    <3>2. \A n \in S(m) : \E k \in u.callables : k.batch = c.batch /\ k.seqlen = n
      BY <3>1 DEF UpdateReady
    <3> QED BY <3>2 DEF u
  <2>4. ip'[m] = NewParams(m, c) BY <2>2 DEF Begun
  <2>5. DecodingSeqlens(call, m)' = S(m) BY <1>1 DEF S, DecodingSeqlens
  <2> QED BY <1>1, <1>6, <2>1, <2>3, <2>4, <2>5 DEF ReadyInv
<1> QED BY <1>8, <1>9, <1>10, <1>11, <1>13, <1>14

LEMMA BeginSteps ==
  ASSUME GenerationInv, NEW c \in Call, Begin(c)
  PROVE  SessionInv' /\ D!Call /\ StaysLive
<1>1. /\ Started(c)
      /\ IF AllCapturable(c) THEN Begun(c)
         ELSE /\ failed' = TRUE /\ pc' = "done" /\ UNCHANGED <<graphs, table, ip, cells>>
  BY BeginCases
<1>2. /\ pc = "idle" /\ calls' = calls + 1 /\ call' = c /\ arch' = arch
      /\ c.kind = "speculative" => c.batch = 1 /\ ~c.eos
      /\ out' = [i \in 1 .. c.prompt |-> 1] /\ last' = c.prompt
      /\ scores' = <<>> /\ drafts' = <<>> /\ draftSeen' = <<>> /\ spec' = 0
  BY <1>1 DEF Started
<1>3. /\ c.kind \in {"decode", "speculative"} /\ c.cg \in BOOLEAN
      /\ c.prompt \in Nat \ {0} /\ c.max \in Nat \ {0} /\ Used(c) \subseteq Model
  BY CallTypes
<1>4. out' \in Text /\ Len(out') = c.prompt /\ out' # <<>> BY <1>2, <1>3, Prompt
<1>5. pc' # "idle" => D!Call
  <2>1. GraphsUsable' \in BOOLEAN BY DEF GraphsUsable
  <2> QED BY <1>2, <1>4, <2>1 DEF D!Call
<1>6. CASE AllCapturable(c)
  <2>1. Begun(c) BY <1>1, <1>6
  <2>2. /\ graphs' \in [Model -> GraphCache] /\ table' \in [Model -> Table]
        /\ ip' \in [Model -> Params] /\ \A m \in Model : GraphsInv(m)'
        /\ StaysLive
        /\ \A m \in Model : /\ ip'[m].maxLen = c.max /\ ip'[m].offset = 0
                            /\ ~c.cg => ip'[m].lengths = NoLengths
                            /\ DOMAIN cells'[m] = Cells(Rows(m)')
        /\ c.cg => \A m \in Used(c) : ReadyInv(m)'
    BY <1>1, <1>6, <2>1, GraphsBegun
  <2>3. /\ pc' = IF c.kind = "decode" THEN "decode"
                 ELSE IF c.prompt >= c.max - 1 THEN "single" ELSE "choose"
        /\ failed' = failed
        /\ cells' = [m \in Model |-> cells'[m]]
    BY <2>1 DEF Begun
  <2>4. pc' \in {"decode", "single", "choose"} /\ pc' # "idle" BY <2>3
  <2>5. TypeInv'
    <3>1. calls' \in Nat BY <1>2 DEF GenerationInv, TypeInv
    <3>2. drafts' \in Text /\ last' \in Nat /\ spec' \in Nat BY <1>2, <1>3 DEF Text
    <3>3. call' \in Call \cup {NoCall} /\ arch' \in Arch /\ failed' = FALSE
      BY <1>2, <2>3 DEF GenerationInv, TypeInv
    <3>4. pc' \in {"idle", "decode", "single", "choose", "draft", "verify", "done"} BY <2>4
    <3>5. \A m \in Model : DOMAIN cells'[m] = Cells(Rows(m)') BY <2>2
    <3> QED BY <1>4, <2>2, <2>3, <3>1, <3>2, <3>3, <3>4, <3>5 DEF TypeInv
  <2>6. CallInv'
    <3>1. Used(call)' = Used(c) BY <1>2 DEF Used
    <3> QED BY <1>2, <1>3, <2>2, <2>4, <3>1 DEF CallInv
  <2>7. ip'["main"].offset = 0 /\ ip'["draft"].offset = 0 BY <2>2 DEF Model
  <2>8. First' /\ Behind' = 0 BY <2>7 DEF First, Behind
  <2>9. MainInv'
    <3>1. EntriesOf(cells'["main"], out', 0) BY DEF EntriesOf
    <3>2. SampledGiven(out', c.prompt, scores')
      <4>1. scores' \in Seq(Entry) /\ Len(scores') = 0 BY <1>2
      <4>2. Len(out') - c.prompt = 0 BY <1>3, <1>4
      <4> QED BY <4>1, <4>2 DEF SampledGiven
    <3> QED BY <1>2, <1>4, <2>8, <3>1, <3>2 DEF MainInv
  <2>10. DraftInv'
    <3>1. EntriesOf(cells'["draft"], out' \o drafts', 0) BY DEF EntriesOf
    <3>2. out' \o drafts' = out' BY <1>2, <1>4, ConcatEmptySeq DEF Text
    <3>3. SampledGiven(out' \o drafts', Len(out'), draftSeen')
      <4>1. draftSeen' \in Seq(Entry) /\ Len(draftSeen') = 0 BY <1>2
      <4>2. Len(out') - Len(out') = 0 BY <1>3, <1>4
      <4> QED BY <3>2, <4>1, <4>2 DEF SampledGiven
    <3> QED BY <1>2, <2>7, <2>8, <3>1, <3>3 DEF DraftInv
  <2>11. PlaceInv'
    <3>1. CASE c.kind = "decode"
      <4>1. pc' = "decode" /\ call'.kind = "decode" BY <1>2, <2>3, <3>1
      <4> QED BY <1>2, <2>8, <4>1 DEF PlaceInv, EndsAtMaxLengthOrOneMore
    <3>2. CASE c.kind # "decode"
      <4>1. call'.kind = "speculative" BY <1>2, <1>3, <3>2
      <4>2. CASE c.prompt >= c.max - 1
        <5>1. pc' = "single" /\ First' /\ call'.prompt >= call'.max - 1
          BY <1>2, <2>3, <2>8, <3>2, <4>2
        <5> QED BY <1>2, <4>1, <5>1 DEF PlaceInv, EndsAtMaxLengthOrOneMore
      <4>3. CASE ~(c.prompt >= c.max - 1)
        <5>1. /\ pc' = "choose" /\ call'.prompt < call'.max - 1
              /\ Len(out') <= call'.max + 1
          BY <1>2, <1>3, <1>4, <2>3, <3>2, <4>3
        <5> QED BY <1>2, <4>1, <5>1 DEF PlaceInv, EndsAtMaxLengthOrOneMore
      <4> QED BY <4>2, <4>3
    <3> QED BY <3>1, <3>2
  <2>12. GenerationInv' BY <2>2, <2>5, <2>6, <2>9, <2>10, <2>11 DEF GenerationInv
  <2> QED BY <1>5, <2>2, <2>4, <2>12, StillRunning
<1>7. CASE ~AllCapturable(c)
  <2>1. failed' = TRUE /\ pc' = "done" /\ UNCHANGED <<graphs, table>> BY <1>1, <1>7
  <2>2. PICK m \in Graphed(c) :
               ~Capturable(graphs[m], table[m], c, DecodingSeqlens(c, m))
    BY <1>7 DEF AllCapturable
  <2>3. c.cg /\ m \in Used(c) /\ m \in Model BY <1>3 DEF Graphed
  <2>4. TypeInv /\ GraphsInv(m) BY <2>3 DEF GenerationInv
  <2>5. Refused(c) BY <2>2, <2>3, <2>4, CaptureRefused
  <2>6. Refused(call)' BY <1>2, <2>1, <2>5, SameCall
  <2>7. UsableGraphsSeeThePrefix' BY <1>2 DEF UsableGraphsSeeThePrefix, LogitsSeeThePrefix
  <2>8. SessionInv' BY <2>1, <2>6, <2>7 DEF SessionInv
  <2>9. StaysLive BY <1>2, <2>1 DEF StaysLive, PointsAtLiveMemory
  <2>10. pc' # "idle" BY <2>1
  <2> QED BY <1>5, <2>8, <2>9, <2>10
<1> QED BY <1>6, <1>7

-----------------------------------------------------------------------------
(* Between two calls                                                       *)

LEMMA ReturnSteps ==
  ASSUME GenerationInv, Return
  PROVE  SessionInv' /\ D!Return
<1>1. /\ pc = "done" /\ pc' = "idle" /\ pc # "idle"
      /\ call' = NoCall /\ out' = <<>> /\ last' = 0 /\ scores' = <<>>
      /\ drafts' = <<>> /\ draftSeen' = <<>> /\ spec' = 0
      /\ ip' = [m \in Model |-> InferenceParams(0, 0, NoLengths)]
      /\ cells' = [m \in Model |-> FreshCache(0)]
      /\ UNCHANGED <<arch, graphs, table, calls, failed>>
  BY DEF Return, session
<1>2. \A m \in Model : GraphsInv(m)' BY <1>1 DEF GenerationInv, GraphsInv, PlacedIn
<1>3. TypeInv'
  <2>1. \A m \in Model : Rows(m)' = 0 BY <1>1 DEF Rows
  <2>2. \A m \in Model : cells'[m] = FreshCache(0) BY <1>1
  <2>3. \A m \in Model : DOMAIN cells'[m] = Cells(Rows(m)') BY <2>1, <2>2 DEF FreshCache
  <2>4. cells' = [m \in Model |-> cells'[m]] BY <1>1
  <2>5. InferenceParams(0, 0, NoLengths) \in Params
    BY DEF InferenceParams, Params, NoLengths
  <2>6. ip' \in [Model -> Params] BY <1>1, <2>5
  <2>7. /\ drafts' \in Text /\ last' \in Nat /\ spec' \in Nat /\ out' \in Text
    BY <1>1 DEF Text
  <2>8. /\ call' \in Call \cup {NoCall} /\ arch' \in Arch /\ failed' = FALSE
        /\ calls' \in Nat /\ graphs' \in [Model -> GraphCache] /\ table' \in [Model -> Table]
    BY <1>1 DEF GenerationInv, TypeInv
  <2>9. pc' \in {"idle", "decode", "single", "choose", "draft", "verify", "done"} BY <1>1
  <2> QED BY <2>3, <2>4, <2>6, <2>7, <2>8, <2>9 DEF TypeInv
<1>4. CallInv' /\ MainInv' /\ DraftInv' BY <1>1 DEF CallInv, MainInv, DraftInv
<1>5. PlaceInv' BY <1>1 DEF PlaceInv, EndsAtMaxLengthOrOneMore
<1>6. D!Return
  <2>1. call'.cg = FALSE BY <1>1 DEF NoCall
  <2>2. GraphsUsable' = TRUE BY <2>1 DEF GraphsUsable
  <2> QED BY <1>1, <2>2 DEF D!Return
<1>7. GenerationInv' BY <1>2, <1>3, <1>4, <1>5 DEF GenerationInv
<1> QED BY <1>6, <1>7, StillRunning

LEMMA TrainSteps ==
  ASSUME GenerationInv, NEW len \in MaxLength, Train(len)
  PROVE  SessionInv' /\ UNCHANGED D!vars
<1>1. /\ pc = "idle"
      /\ table' = [table EXCEPT !["main"] = UpdateCosSinCache(table["main"], len, TRUE)]
      /\ UNCHANGED <<arch, graphs, calls, call, pc, ip, cells, out, last, scores,
                     drafts, draftSeen, spec, failed>>
  BY DEF Train
<1>2. /\ len \in Nat /\ "main" \in Model /\ table \in [Model -> Table]
      /\ graphs \in [Model -> GraphCache] /\ \A m \in Model : GraphsInv(m)
  BY GenerationAssumption DEF GenerationInv, TypeInv, Model
<1> DEFINE t == table["main"]
           u == UpdateCosSinCache(t, len, TRUE)
<1>3. u \in Table /\ (u = t \/ u.id = t.id + 1)
  <2>1. t \in Table BY <1>2
  <2> HIDE DEF t
  <2> QED BY <1>2, <2>1, TrainedTable
<1>4. table' = [table EXCEPT !["main"] = u] BY <1>1
<1> HIDE DEF u
<1>5. table' \in [Model -> Table] BY <1>2, <1>3, <1>4
<1>6. ASSUME NEW m \in Model PROVE GraphsInv(m)'
  <2>1. table'[m] = table[m] \/ table'[m].id = table[m].id + 1 BY <1>2, <1>3, <1>4
  <2>2. /\ GraphsInv(m) /\ graphs[m] \in GraphCache
        /\ table[m] \in Table /\ table'[m] \in Table
    BY <1>2, <1>5
  <2> QED BY <1>1, <2>1, <2>2, GraphsOutliveTable
<1>7. TypeInv'
  <2>1. \A m \in Model : Rows(m)' = Rows(m) BY <1>1 DEF Rows
  <2> QED BY <1>1, <1>5, <2>1 DEF GenerationInv, TypeInv
<1>8. CallInv' /\ MainInv' /\ DraftInv' BY <1>1 DEF GenerationInv, CallInv, MainInv, DraftInv
<1>9. PlaceInv'
  BY <1>1 DEF GenerationInv, PlaceInv, EndsAtMaxLengthOrOneMore, First, Behind
<1>10. UNCHANGED D!vars
  <2>1. call.cg = FALSE /\ call'.cg = FALSE
    BY <1>1 DEF GenerationInv, CallInv, NoCall
  <2>2. GraphsUsable' = GraphsUsable BY <2>1 DEF GraphsUsable
  <2> QED BY <1>1, <2>2 DEF D!vars
<1>11. GenerationInv' BY <1>6, <1>7, <1>8, <1>9 DEF GenerationInv
<1> QED BY <1>10, <1>11, StillRunning

LEMMA Initially ==
  ASSUME Init
  PROVE  SessionInv /\ D!Init
<1>1. TypeInv
  <2>1. \A m \in Model : Rows(m) = 0 /\ cells[m] = FreshCache(0) BY DEF Init, Rows
  <2>2. \A m \in Model : DOMAIN cells[m] = Cells(Rows(m)) BY <2>1 DEF FreshCache
  <2>3. cells = [m \in Model |-> cells[m]] BY DEF Init
  <2>4. InferenceParams(0, 0, 0) \in Params /\ InferenceParams(0, 0, NoLengths) \in Params
    BY DEF InferenceParams, Params, NoLengths
  <2>5. NoGraphs \in GraphCache BY <2>4 DEF NoGraphs, GraphCache
  <2>6. NoTable \in Table BY DEF NoTable, Table
  <2>7. graphs \in [Model -> GraphCache] /\ table \in [Model -> Table] /\ ip \in [Model -> Params]
    BY <2>4, <2>5, <2>6 DEF Init
  <2>8. /\ drafts \in Text /\ last \in Nat /\ spec \in Nat /\ out \in Text /\ calls \in Nat
        /\ arch \in Arch /\ call \in Call \cup {NoCall} /\ failed = FALSE /\ pc = "idle"
    BY DEF Init, Text
  <2> QED BY <2>2, <2>3, <2>7, <2>8 DEF TypeInv
<1>2. CallInv /\ MainInv /\ DraftInv BY DEF Init, CallInv, MainInv, DraftInv
<1>3. PlaceInv BY DEF Init, PlaceInv, EndsAtMaxLengthOrOneMore
<1>4. ASSUME NEW m \in Model PROVE GraphsInv(m)
  <2>1. graphs[m] = NoGraphs BY DEF Init
  <2> QED BY <2>1 DEF GraphsInv, NoGraphs, InferenceParams
<1>5. D!Init
  <2>1. call.cg = FALSE BY DEF Init, NoCall
  <2>2. GraphsUsable = TRUE BY <2>1 DEF GraphsUsable
  <2> QED BY <2>2 DEF Init, D!Init
<1>6. failed = FALSE BY DEF Init
<1> QED BY <1>1, <1>2, <1>3, <1>4, <1>5, <1>6 DEF GenerationInv, SessionInv

-----------------------------------------------------------------------------
(* What the calls guarantee                                                *)

\* After a failed call nothing happens.
LEMMA FailedStays ==
  ASSUME SessionInv, failed, [Next]_vars
  PROVE  UNCHANGED vars
<1>1. pc = "done" BY DEF SessionInv
<1>2. ASSUME NEW c \in Call, Begin(c) PROVE FALSE BY <1>1, <1>2 DEF Begin
<1>3. ASSUME NEW len \in MaxLength, Train(len) PROVE FALSE BY <1>1, <1>3 DEF Train
<1>4. ~Step
  BY <1>1 DEF Step, DecodeStep, DecodeDone, SingleStep, Choose, DraftStep, VerifyStep, Return
<1> QED BY <1>2, <1>3, <1>4 DEF Next

LEMMA Stuttering ==
  ASSUME SessionInv, UNCHANGED vars
  PROVE  SessionInv' /\ UNCHANGED D!vars /\ StaysLive
<1>1. UNCHANGED <<arch, graphs, table, calls, call, pc, ip, cells, out, last, scores, drafts,
                  draftSeen, spec, failed>>
  BY DEF vars
<1>2. Refused(call)' <=> Refused(call)
  <2> DEFINE c == call
  <2>1. UNCHANGED <<arch, graphs, table>> /\ call' = c BY <1>1
  <2> HIDE DEF c
  <2>2. Refused(call)' <=> Refused(c) BY <2>1, SameCall
  <2> QED BY <2>2 DEF c
<1>3. GraphsUsable' = GraphsUsable BY <1>1 DEF GraphsUsable, Used, DecodingSeqlens
<1>4. UNCHANGED D!vars BY <1>1, <1>3 DEF D!vars
<1>5. UsableGraphsSeeThePrefix' <=> UsableGraphsSeeThePrefix
  BY <1>1, <1>3 DEF UsableGraphsSeeThePrefix, LogitsSeeThePrefix
<1>6. GenerationInv' <=> GenerationInv
  <2>1. ASSUME NEW m \in Model
        PROVE  /\ Rows(m)' = Rows(m)
               /\ ReadyInv(m)' <=> ReadyInv(m)
               /\ GraphsInv(m)' <=> GraphsInv(m)
    <3>1. Rows(m)' = Rows(m) BY <1>1 DEF Rows, Used
    <3>2. ReadyInv(m)' <=> ReadyInv(m) BY <1>1 DEF ReadyInv, DecodingSeqlens
    <3>3. GraphsInv(m)' <=> GraphsInv(m) BY <1>1 DEF GraphsInv, PlacedIn
    <3> QED BY <3>1, <3>2, <3>3
  <2>2. Used(call)' = Used(call) /\ Used(call) \subseteq Model BY <1>1 DEF Used, Model
  <2>3. TypeInv' <=> TypeInv BY <1>1, <2>1 DEF TypeInv
  <2>4. CallInv' <=> CallInv BY <1>1, <2>1, <2>2 DEF CallInv
  <2>5. MainInv' <=> MainInv BY <1>1, <1>3 DEF MainInv, First, Behind
  <2>6. DraftInv' <=> DraftInv BY <1>1, <1>3 DEF DraftInv, First
  <2>7. PlaceInv' <=> PlaceInv BY <1>1 DEF PlaceInv, First, EndsAtMaxLengthOrOneMore
  <2> QED BY <2>1, <2>3, <2>4, <2>5, <2>6, <2>7 DEF GenerationInv
<1>7. SessionInv' BY <1>1, <1>2, <1>5, <1>6 DEF SessionInv
<1>8. StaysLive BY <1>1 DEF StaysLive, PointsAtLiveMemory
<1> QED BY <1>4, <1>7, <1>8

\* Every step keeps the invariant and is a step of the abstract decoder.
LEMMA Steps ==
  ASSUME SessionInv, [Next]_vars
  PROVE  SessionInv' /\ [D!Next]_(D!vars)
<1>1. CASE UNCHANGED vars BY <1>1, Stuttering
<1>2. CASE failed BY <1>2, FailedStays, Stuttering
<1>3. CASE ~failed /\ Next
  <2>1. GenerationInv BY <1>3 DEF SessionInv
  <2>2. ASSUME NEW c \in Call, Begin(c) PROVE SessionInv' /\ [D!Next]_(D!vars)
    BY <2>1, <2>2, BeginSteps DEF D!Next
  <2>3. ASSUME NEW len \in MaxLength, Train(len) PROVE SessionInv' /\ [D!Next]_(D!vars)
    BY <2>1, <2>3, TrainSteps
  <2>4. CASE DecodeStep BY <2>1, <2>4, DecodeSteps
  <2>5. CASE DecodeDone BY <2>1, <2>5, DecodeEnds
  <2>6. CASE SingleStep BY <2>1, <2>6, SingleSteps
  <2>7. CASE Choose BY <2>1, <2>7, ChooseSteps
  <2>8. CASE DraftStep BY <2>1, <2>8, DraftSteps
  <2>9. CASE VerifyStep BY <2>1, <2>9, VerifySteps
  <2>10. CASE Return BY <2>1, <2>10, ReturnSteps DEF D!Next
  <2> QED BY <1>3, <2>2, <2>3, <2>4, <2>5, <2>6, <2>7, <2>8, <2>9, <2>10 DEF Next, Step
<1> QED BY <1>1, <1>2, <1>3

\* Only three things a step does touch what graphs point to.
LEMMA NothingMoved ==
  ASSUME UNCHANGED <<arch, graphs, table>> PROVE StaysLive
BY DEF StaysLive, PointsAtLiveMemory

LEMMA LiveSteps ==
  ASSUME SessionInv, [Next]_vars
  PROVE  StaysLive
<1>1. CASE UNCHANGED vars BY <1>1, Stuttering
<1>2. CASE failed BY <1>2, FailedStays, Stuttering
<1>3. CASE ~failed /\ Next
  <2>1. GenerationInv BY <1>3 DEF SessionInv
  <2>2. ASSUME NEW c \in Call, Begin(c) PROVE StaysLive BY <2>1, <2>2, BeginSteps
  <2>3. ASSUME NEW len \in MaxLength, Train(len) PROVE StaysLive
    BY <2>3 DEF Train, StaysLive
  <2>4. ASSUME pc # "idle", NEW m \in Used(call), UNCHANGED <<arch, graphs, call>>,
               TableCalled(m)
        PROVE  StaysLive
    <3>1. InCall BY <2>1, <2>4, Running
    <3> QED BY <2>4, <3>1, TableAfterCall
  <2>5. Crash => StaysLive
    <3>1. Crash => UNCHANGED <<arch, graphs, table>> BY DEF Crash, session
    <3> QED BY <3>1, NothingMoved
  <2>6. ASSUME NEW toks, NEW after, NEW offset, NEW m \in Model, pc # "idle", m \in Used(call),
               ModelCalled(m, toks, after, offset)
        PROVE  StaysLive
    BY <2>4, <2>6 DEF ModelCalled, TableCalled
  <2>7. pc # "idle" => "main" \in Used(call) /\ "main" \in Model
    BY <2>1, Running DEF Model
  <2>8. CASE DecodeStep
    <3>1. \/ Crash
          \/ \E toks, after, offset : ModelCalled("main", toks, after, offset)
      BY <2>8 DEF DecodeStep
    <3>2. pc # "idle" BY <2>8 DEF DecodeStep
    <3> QED BY <2>5, <2>6, <2>7, <3>1, <3>2
  <2>9. CASE SingleStep
    <3>1. \/ Crash
          \/ \E toks, after, offset : ModelCalled("main", toks, after, offset)
      BY <2>9 DEF SingleStep
    <3>2. pc # "idle" BY <2>9 DEF SingleStep
    <3> QED BY <2>5, <2>6, <2>7, <3>1, <3>2
  <2>10. CASE DraftStep
    <3>1. \/ Crash
          \/ \E toks, after, offset : ModelCalled("draft", toks, after, offset)
      BY <2>10 DEF DraftStep
    <3>2. pc = "draft" /\ pc # "idle" BY <2>10 DEF DraftStep
    <3>3. "draft" \in Used(call) /\ "draft" \in Model BY <2>1, <3>2, DraftOffsets
    <3> QED BY <2>5, <2>6, <3>1, <3>2, <3>3
  <2>11. CASE VerifyStep
    <3>1. Crash \/ (UNCHANGED <<arch, graphs, call>> /\ TableCalled("main"))
      BY <2>11 DEF VerifyStep, TableCalled
    <3>2. pc # "idle" BY <2>11 DEF VerifyStep
    <3> QED BY <2>4, <2>5, <2>7, <3>1, <3>2
  <2>12. CASE DecodeDone \/ Choose \/ Return
    <3>1. UNCHANGED <<arch, graphs, table>> BY <2>12 DEF DecodeDone, Choose, Return, session
    <3> QED BY <3>1, NothingMoved
  <2> QED BY <1>3, <2>2, <2>3, <2>8, <2>9, <2>10, <2>11, <2>12 DEF Next, Step
<1> QED BY <1>1, <1>2, <1>3

LEMMA Generates == Spec => []SessionInv
<1>1. Init => SessionInv BY Initially
<1>2. SessionInv /\ [Next]_vars => SessionInv' BY Steps
<1> QED BY <1>1, <1>2, PTL DEF Spec

\* In every call without graphs and every call whose graphs can be replayed, each token
\* is sampled from logits that depend on exactly the text before it: neither the offset
\* arithmetic of decode_speculative nor the caches and tables that earlier calls, failed
\* captures and trainings left behind bring anything else into the context.
THEOREM SampledFromPrefix == Spec => []UsableGraphsSeeThePrefix
<1>1. SessionInv => UsableGraphsSeeThePrefix BY InvariantSeesPrefix DEF SessionInv
<1> QED BY <1>1, Generates, PTL

\* The calls named by Refused are the only ones that fail: in all others the assertions
\* of the cache and of the rotary kernels hold, no append leaves the cache and dispatch()
\* finds a captured graph for every number of tokens.
THEOREM OnlyRefusalsFail == Spec => []OnlyRefusedCallsFail
<1>1. SessionInv => OnlyRefusedCallsFail
  BY DEF SessionInv, GenerationInv, TypeInv, OnlyRefusedCallsFail
<1> QED BY <1>1, Generates, PTL

\* A kept graph that points to the memory of its cache and to the table of its module
\* goes on doing so through all allocations, captures and evaluations, until the model is
\* trained or called without graphs for more positions than its table has.
THEOREM GraphsLive == Spec => GraphsStayLive
<1>1. SessionInv /\ [Next]_vars => [StaysLive]_vars BY LiveSteps
<1> QED BY <1>1, Generates, PTL DEF Spec, GraphsStayLive

\* A finished call returns max_length tokens, one more than the prompt when that is
\* longer, or ends with eos; or it is a speculative call that returns one token more.
THEOREM EndsWhereAsked == Spec => []EndsAtMaxLengthOrOneMore
<1>1. SessionInv => EndsAtMaxLengthOrOneMore
  BY DEF SessionInv, GenerationInv, PlaceInv, EndsAtMaxLengthOrOneMore
<1> QED BY <1>1, Generates, PTL

\* The calls implement the abstract decoder: every step either emits tokens, sampled given
\* exactly the text before them if the graphs of the call can be replayed, or starts or
\* ends a call, or shows nothing; and a call that starts sound stays so.
THEOREM ImplementsAbstractDecoder == Spec => ImplementsDecoder
<1>1. Init => D!Init BY Initially
<1>2. SessionInv /\ [Next]_vars => [D!Next]_(D!vars) BY Steps
<1> QED BY <1>1, <1>2, Generates, PTL DEF Spec, ImplementsDecoder, D!Spec
=============================================================================
