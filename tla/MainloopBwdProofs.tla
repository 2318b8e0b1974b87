------------------------- MODULE MainloopBwdProofs -------------------------
(***************************************************************************)
(* The backward CTA is safe for every kernel of the assumption and every   *)
(* number of Q blocks: what a gemm, a copy or a store reads stays until it *)
(* has ended, and a CTA that has ended has added every term once.          *)
(*                                                                         *)
(* Where a warpgroup is, it says itself: the place in its loop determines  *)
(* which gemms go on, which stages it holds and what it has written.  The  *)
(* pipelines relate warpgroups to the loader, the named barriers relate    *)
(* them to each other, since all have passed the same number of syncs.     *)
(***************************************************************************)
EXTENDS MainloopBwd, SequenceTheorems, TLAPS

RQ == INSTANCE TmaPipelineProofs WITH kStages <- 2, Consumers <- WGs, NoBlock <- Nil
RD == INSTANCE TmaPipelineProofs WITH kStages <- kernel.kStages_dO, Consumers <- WGs, NoBlock <- Nil

-----------------------------------------------------------------------------
(* Places in the loop of kernel k.                                         *)

Groups(k) == 0 .. k.wgs - 1

SyncsBeforeP(k) == ~k.Mma_dKV_is_RS /\ k.kStages_dS = 1
SharesP(k) == ~k.Mma_dKV_is_RS
SyncsBeforeDs(k) == ~(k.Mma_dKV_is_RS /\ k.kStages_dS = 2)

\* The sync after which dS of every warpgroup is in shared memory.  The call
\* before it writes dS; before that, as far as the kernel has them, go a sync,
\* the call that writes P, and a sync.
DsShared(k) ==
  5 + (IF SyncsBeforeDs(k) THEN 1 ELSE 0) + (IF SharesP(k) THEN 1 ELSE 0) + (IF SyncsBeforeP(k) THEN 1 ELSE 0)
ReleaseDo(k) == DsShared(k) + (IF k.Slice_dQKV_Mma THEN 4 ELSE 2)
LoopLen(k) == DsShared(k) + (IF k.Slice_dQKV_Mma THEN 6 ELSE 4)

\* The calls of an iteration, each at its place.
CallAt(k, pc) ==
  LET c == DsShared(k)
  IN  CASE pc = 1 -> Call("q", NoWait, <<"s", 0>>)
        [] pc = 2 -> Call("do", NoWait, <<"dp", 0>>)
        [] pc = 3 -> Call("none", 0, <<>>)
        [] pc = c - 4 /\ SyncsBeforeP(k) -> Call("PdS", NoWait, <<>>)
        [] pc = c - 3 /\ SharesP(k) -> Call("p", NoWait, <<>>)
        [] pc = c - 2 /\ SyncsBeforeDs(k) -> Call("PdS", NoWait, <<>>)
        [] pc = c - 1 -> Call("ds", NoWait, <<"dv", 0>>)
        [] pc = c -> Call("PdS", NoWait, <<>>)
        [] pc = c + 1 -> Call("none", NoWait, <<"dq", 0>>)
        [] pc = c + 2 -> IF k.Slice_dQKV_Mma THEN Call("none", NoWait, <<"dv", 1>>) ELSE Call("release_do", 1, <<"dk", 0>>)
        [] pc = c + 3 -> IF k.Slice_dQKV_Mma THEN Call("dq", 1, <<"dk", 0>>) ELSE Call("dq", 1, <<>>)
        [] pc = c + 4 -> IF k.Slice_dQKV_Mma THEN Call("release_do", 1, <<"dq", 1>>) ELSE Call("release_q", 0, <<>>)
        [] pc = c + 5 -> Call("dq", 0, <<"dk", 1>>)
        [] pc = c + 6 -> Call("release_q", 0, <<>>)

\* The gemms under way before the call at pc, oldest first.
UnderWay(k, pc) ==
  LET c == DsShared(k)
  IN  CASE pc = 2 -> << <<"s", 0>> >>
        [] pc = 3 -> << <<"s", 0>>, <<"dp", 0>> >>
        [] pc \in {c, c + 1} -> << <<"dv", 0>> >>
        [] pc = c + 2 -> << <<"dv", 0>>, <<"dq", 0>> >>
        [] pc = c + 3 -> IF k.Slice_dQKV_Mma THEN << <<"dv", 0>>, <<"dq", 0>>, <<"dv", 1>> >> ELSE << <<"dq", 0>>, <<"dk", 0>> >>
        [] pc = c + 4 -> IF k.Slice_dQKV_Mma THEN << <<"dv", 1>>, <<"dk", 0>> >> ELSE << <<"dk", 0>> >>
        [] pc = c + 5 -> << <<"dk", 0>>, <<"dq", 1>> >>
        [] pc = c + 6 -> << <<"dk", 1>> >>
        [] OTHER -> << >>

-----------------------------------------------------------------------------
(* What a warpgroup's state c says of the shared state.                    *)

Past(c, pc) == c.at = "loop" /\ c.pc > pc
InEpilogue(c) == c.at \in {"epilogue", "exit"}

\* Stages it reads: from the wait to the release.
HoldsQ(c) == Past(c, 1)
HoldsDo(k, c) == Past(c, 2) /\ ~Past(c, ReleaseDo(k))

\* The iterations of which it has written P, dS and dQ.
WrittenP(k, c) == c.m + (IF SharesP(k) /\ Past(c, DsShared(k) - 3) THEN 1 ELSE 0)
WrittenDs(k, c) == c.m + (IF Past(c, DsShared(k) - 1) THEN 1 ELSE 0)
WrittenDq(k, c) == c.m + (IF Past(c, DsShared(k) + 3) THEN 1 ELSE 0)

\* The epilogue of warpgroup w.
Leader(k) == IF k.epilogue = "gqa" THEN 0 ELSE k.wgs - 1
EpilogueDoes(k, w) ==
  CASE k.epilogue = "tma" -> IF w = Leader(k) THEN <<"Epilogue", "dkv", "written", "stored">> ELSE <<"Epilogue", "dkv">>
    [] k.epilogue = "varlen" -> <<"Epilogue", "dkv", "Epilogue", "copy">>
    [] k.epilogue = "gqa" ->
         IF w = Leader(k)
         THEN <<"Epilogue", "dv", "Epilogue", "store", "stored", "Epilogue", "dk", "Epilogue", "store", "stored">>
         ELSE <<"Epilogue", "dv", "Epilogue", "Epilogue", "dk", "Epilogue">>
EpilogueLen(k, w) == Len(EpilogueDoes(k, w))
EpilogueSyncs(k, w, pc) ==
  CASE k.epilogue = "tma" -> IF pc > 1 THEN 1 ELSE 0
    [] k.epilogue = "varlen" -> IF pc > 3 THEN 2 ELSE IF pc > 1 THEN 1 ELSE 0
    [] k.epilogue = "gqa" ->
         LET dk == IF w = Leader(k) THEN 7 ELSE 5
         IN  IF pc > dk + 1 THEN 4 ELSE IF pc > dk - 1 THEN 3 ELSE IF pc > 3 THEN 2 ELSE IF pc > 1 THEN 1 ELSE 0

\* What it has written of dK and dV, and what of it is being stored.
Written(k, w, c) ==
  IF ~InEpilogue(c) \/ c.pc <= 2 THEN {}
  ELSE IF k.epilogue # "gqa" THEN {"dk", "dv"}
  ELSE IF c.pc <= (IF w = Leader(k) THEN 7 ELSE 5) THEN {"dv"} ELSE {"dk"}
Storing(k, c) ==
  IF c.at = "epilogue" /\ k.epilogue = "tma" /\ c.pc = 4 THEN {"dk", "dv"}
  ELSE IF c.at = "epilogue" /\ k.epilogue = "gqa" /\ c.pc = 5 THEN {"dv"}
  ELSE IF c.at = "epilogue" /\ k.epilogue = "gqa" /\ c.pc = 10 THEN {"dk"}
  ELSE {}

\* The syncs it has passed: of how many blocks dS is shared, and those since.
Round(k, w, c) ==
  IF Past(c, DsShared(k)) THEN <<c.m + 1, 0>>
  ELSE <<c.m, IF InEpilogue(c) THEN EpilogueSyncs(k, w, c.pc)
              ELSE (IF SyncsBeforeP(k) /\ Past(c, DsShared(k) - 4) THEN 1 ELSE 0)
                   + (IF SyncsBeforeDs(k) /\ Past(c, DsShared(k) - 2) THEN 1 ELSE 0)>>

\* The record of a warpgroup; its gemms are those of its place, on its block.
GemmRecord == [op : {"s", "dp", "dv", "dq", "dk"}, slice : {0, 1}, m : Nat, q : Nat, do : Nat]
GemmOf(c, gemm) == [op |-> gemm[1], slice |-> gemm[2], m |-> c.m, q |-> c.read.index, do |-> c.read_do.index]
Place(k, w, c) ==
  /\ DOMAIN c = {"at", "pc", "m", "read", "read_do", "gemms", "dk", "dv"}
  /\ c.at \in {"init", "wait_kv", "loop", "epilogue", "exit"}
  /\ c.m \in Nat /\ c.pc \in Nat
  /\ c.read \in [index : {0, 1}, lap : Nat] /\ c.read.lap * 2 + c.read.index = c.m
  /\ c.read_do \in [index : 0 .. k.kStages_dO - 1, lap : Nat] /\ c.read_do.lap * k.kStages_dO + c.read_do.index = c.m
  /\ c.gemms \in Seq(GemmRecord)
  /\ c.at \in {"init", "wait_kv"} => c.m = 0 /\ c.pc = 1 /\ c.gemms = << >>
  /\ c.at \in {"wait_kv", "loop"} => c.m < k.blocks
  /\ c.at = "loop" =>
       /\ c.pc \in 1 .. LoopLen(k)
       /\ Len(c.gemms) = Len(UnderWay(k, c.pc))
       /\ \A i \in 1 .. Len(c.gemms) : c.gemms[i] = GemmOf(c, UnderWay(k, c.pc)[i])
  /\ InEpilogue(c) => c.m = k.blocks /\ c.gemms = << >>
  /\ c.at = "epilogue" => c.m > 0 /\ c.pc \in 1 .. EpilogueLen(k, w)
  /\ c.at = "exit" => c.pc = IF k.blocks = 0 THEN 1 ELSE EpilogueLen(k, w) + 1

-----------------------------------------------------------------------------
(* The inductive invariant.                                                *)

LoaderInv ==
  /\ kernel \in CtaKernels
  /\ DOMAIN loader = {"at", "m", "write", "write_do"}
  /\ loader.at \in {"q", "kv", "do", "tail", "exit"}
  /\ loader.m \in 0 .. kernel.blocks
  /\ loader.write.lap * 2 + loader.write.index = loader.m + (IF loader.at \in {"kv", "do"} THEN 1 ELSE 0)
  /\ loader.write_do.lap * kernel.kStages_dO + loader.write_do.index = loader.m
  /\ loader.at \in {"q", "kv", "do"} => loader.m < kernel.blocks
  /\ loader.at = "kv" => loader.m = 0
  /\ loader.at \in {"tail", "exit"} => loader.m = kernel.blocks

Places == mma = [w \in WGs |-> mma[w]] /\ \A w \in WGs : Place(kernel, w, mma[w])

\* The pipelines; once dO is released the warpgroup is past it.
QueryReads == [w \in WGs |-> mma[w].read]
QueryReaders == {w \in WGs : HoldsQ(mma[w])}
QueryRing == RQ!NumberedRing(q_pipe, loader.write, QueryReads, QueryReaders)

Advanced(n, st) ==
  IF st.index + 1 = n THEN [index |-> 0, lap |-> st.lap + 1] ELSE [index |-> st.index + 1, lap |-> st.lap]
ReadDo(k, c) == IF Past(c, ReleaseDo(k)) THEN Advanced(k.kStages_dO, c.read_do) ELSE c.read_do
DoReads == [w \in WGs |-> ReadDo(kernel, mma[w])]
DoReaders == {w \in WGs : HoldsDo(kernel, mma[w])}
DoRing == RD!NumberedRing(do_pipe, loader.write_do, DoReads, DoReaders)

\* All have passed the same syncs; who has arrived at a barrier waits there.
Doing(k, w, c) ==
  IF c.at = "loop" THEN CallAt(k, c.pc).does ELSE IF c.at = "epilogue" THEN EpilogueDoes(k, w)[c.pc] ELSE "nothing"
SyncInv ==
  /\ \A v, w \in WGs : Round(kernel, v, mma[v]) = Round(kernel, w, mma[w])
  /\ \A b \in {"PdS", "Epilogue"} :
       barriers[b] \subseteq WGs /\ barriers[b] # WGs /\ \A w \in barriers[b] : Doing(kernel, w, mma[w]) = b

\* A buffer of P or dS holds the blocks written last, up to block n - 1.
Holds(k, buffer, w, n) ==
  \A m \in {n - 1, n - 2} :
    m >= 0 /\ (k.kStages_dS = 1 => m = n - 1) => buffer[IF k.kStages_dS = 1 THEN 0 ELSE m % 2][w] = m
PdSInv ==
  /\ \A x \in {"p", "ds"} : smem[x] \in [{0, 1} -> [WGs -> Nat \cup {Nil}]]
  /\ \A w \in WGs :
       /\ SharesP(kernel) => Holds(kernel, smem.p, w, WrittenP(kernel, mma[w]))
       /\ Holds(kernel, smem.ds, w, WrittenDs(kernel, mma[w]))

\* The parts of dQ that the dQ warp has begun to copy, and has copied.
Copied(w) == dq_warp.m + (IF dq_warp.at = "wait" \/ w < dq_warp.wg THEN 1 ELSE 0)
Freed(w) == dq_warp.m + (IF dq_warp.at = "wait" /\ w < dq_warp.wg THEN 1 ELSE 0)
DqInv ==
  /\ dq_warp \in [m : Nat, wg : WGs, at : {"copy", "wait"}]
  /\ smem.dq \in [WGs -> Nat \cup {Nil}]
  /\ barriers.dQEmpty \in [WGs -> {0, 1}] /\ barriers.dQFull \in [WGs -> {0, 1}]
  /\ ~kernel.Slice_dQKV_Mma =>
       \A w \in WGs :
         /\ barriers.dQFull[w] = WrittenDq(kernel, mma[w]) - Copied(w)
         /\ barriers.dQEmpty[w] = (IF mma[w].at = "init" THEN 0 ELSE 1) + Freed(w) - WrittenDq(kernel, mma[w])
         /\ WrittenDq(kernel, mma[w]) > 0 => smem.dq[w] = WrittenDq(kernel, mma[w]) - 1

\* K and V are there from the first gemm to the epilogue of all.
KvInv ==
  /\ smem.kv \in {"empty", "loading", "loaded", "overwritten"}
  /\ loader.at = "kv" \/ (loader.at = "q" /\ loader.m = 0) => smem.kv = "empty"
  /\ \A w \in WGs : mma[w].at = "loop" => smem.kv = "loaded"
  /\ smem.kv = "overwritten" => \A w \in WGs : InEpilogue(mma[w]) /\ Round(kernel, w, mma[w])[2] > 0
  /\ \A w \in WGs : mma[w].at = "epilogue" => smem.kv \in {"loaded", "overwritten"}

EpilogueInv ==
  /\ smem.dkv = [w \in WGs |-> Written(kernel, w, mma[w])]
  /\ smem.storing = Storing(kernel, mma[Leader(kernel)])
  /\ barriers.written \subseteq WGs
  /\ \A w \in barriers.written : kernel.epilogue = "tma" /\ smem.dkv[w] = {"dk", "dv"}
  /\ kernel.epilogue = "tma" /\ smem.storing # {} => barriers.written = WGs

Fields ==
  /\ DOMAIN smem = {"kv", "p", "ds", "dq", "dkv", "storing"}
  /\ DOMAIN barriers = {"PdS", "Epilogue", "written", "dQEmpty", "dQFull"}

IInv ==
  /\ LoaderInv /\ Places /\ Fields
  /\ QueryRing /\ DoRing /\ SyncInv /\ PdSInv /\ DqInv /\ KvInv /\ EpilogueInv

-----------------------------------------------------------------------------
(* The calls of the loop and of the epilogue are those of the tables.      *)

LEMMA KernelTypes ==
  ASSUME NEW k \in CtaKernels
  PROVE  /\ k.wgs \in {2, 3} /\ k.kStages_dO \in {1, 2} /\ k.kStages_dS \in {1, 2} /\ k.blocks \in Nat
         /\ k.Mma_dKV_is_RS \in BOOLEAN /\ k.Slice_dQKV_Mma \in BOOLEAN
         /\ k.epilogue \in {"tma", "varlen", "gqa"}
         /\ DsShared(k) \in 5 .. 8 /\ LoopLen(k) \in 9 .. 14 /\ ReleaseDo(k) \in 7 .. 12
         /\ (SyncsBeforeDs(k) => DsShared(k) >= 6) /\ (SharesP(k) => DsShared(k) >= 7)
         /\ (SyncsBeforeP(k) => DsShared(k) = 8)
         /\ 0 \in Groups(k) /\ Leader(k) \in Groups(k)
<1>1. k \in [wgs : {2, 3}, kStages_dO : {1, 2}, kStages_dS : {1, 2}, Mma_dKV_is_RS : BOOLEAN, Mma_dP_is_RS : BOOLEAN,
             Slice_dQKV_Mma : BOOLEAN, epilogue : {"tma", "varlen", "gqa"}, blocks : Nat]
  BY CtaKernelsAssumption
<1>2. /\ k.wgs \in {2, 3} /\ k.kStages_dO \in {1, 2} /\ k.kStages_dS \in {1, 2} /\ k.blocks \in Nat
      /\ k.Mma_dKV_is_RS \in BOOLEAN /\ k.Slice_dQKV_Mma \in BOOLEAN
      /\ k.epilogue \in {"tma", "varlen", "gqa"}
  BY <1>1
<1>3. /\ DsShared(k) \in 5 .. 8 /\ (SyncsBeforeDs(k) => DsShared(k) >= 6)
      /\ (SharesP(k) => DsShared(k) >= 7) /\ (SyncsBeforeP(k) => DsShared(k) = 8)
  BY <1>2 DEF DsShared, SyncsBeforeDs, SharesP, SyncsBeforeP
<1>4. LoopLen(k) \in 9 .. 14 /\ ReleaseDo(k) \in 7 .. 12
  BY <1>2, <1>3 DEF LoopLen, ReleaseDo
<1>5. 0 \in Groups(k) /\ Leader(k) \in Groups(k)
  BY <1>2 DEF Groups, Leader
<1> QED BY <1>2, <1>3, <1>4, <1>5

LEMMA CallTable ==
  ASSUME NEW k \in CtaKernels, NEW c, c = DsShared(k)
  PROVE  /\ CallAt(k, 1) = Call("q", NoWait, <<"s", 0>>)
         /\ CallAt(k, 2) = Call("do", NoWait, <<"dp", 0>>)
         /\ CallAt(k, 3) = Call("none", 0, <<>>)
         /\ SyncsBeforeP(k) => CallAt(k, c - 4) = Call("PdS", NoWait, <<>>)
         /\ SharesP(k) => CallAt(k, c - 3) = Call("p", NoWait, <<>>)
         /\ SyncsBeforeDs(k) => CallAt(k, c - 2) = Call("PdS", NoWait, <<>>)
         /\ CallAt(k, c - 1) = Call("ds", NoWait, <<"dv", 0>>)
         /\ CallAt(k, c) = Call("PdS", NoWait, <<>>)
         /\ CallAt(k, c + 1) = Call("none", NoWait, <<"dq", 0>>)
         /\ ~k.Slice_dQKV_Mma =>
              /\ CallAt(k, c + 2) = Call("release_do", 1, <<"dk", 0>>)
              /\ CallAt(k, c + 3) = Call("dq", 1, <<>>)
              /\ CallAt(k, c + 4) = Call("release_q", 0, <<>>)
         /\ k.Slice_dQKV_Mma =>
              /\ CallAt(k, c + 2) = Call("none", NoWait, <<"dv", 1>>)
              /\ CallAt(k, c + 3) = Call("dq", 1, <<"dk", 0>>)
              /\ CallAt(k, c + 4) = Call("release_do", 1, <<"dq", 1>>)
              /\ CallAt(k, c + 5) = Call("dq", 0, <<"dk", 1>>)
              /\ CallAt(k, c + 6) = Call("release_q", 0, <<>>)
<1>k. /\ c \in 5 .. 8 /\ (SyncsBeforeDs(k) => c >= 6) /\ (SharesP(k) => c >= 7) /\ (SyncsBeforeP(k) => c = 8)
  BY KernelTypes
<1>1. CallAt(k, 1) = Call("q", NoWait, <<"s", 0>>) BY <1>k DEF CallAt
<1>2. CallAt(k, 2) = Call("do", NoWait, <<"dp", 0>>) BY <1>k DEF CallAt
<1>3. CallAt(k, 3) = Call("none", 0, <<>>) BY <1>k DEF CallAt
<1>4. SyncsBeforeP(k) => CallAt(k, c - 4) = Call("PdS", NoWait, <<>>) BY <1>k DEF CallAt
<1>5. SharesP(k) => CallAt(k, c - 3) = Call("p", NoWait, <<>>) BY <1>k DEF CallAt
<1>6. SyncsBeforeDs(k) => CallAt(k, c - 2) = Call("PdS", NoWait, <<>>) BY <1>k DEF CallAt
<1>7. CallAt(k, c - 1) = Call("ds", NoWait, <<"dv", 0>>) BY <1>k DEF CallAt
<1>8. CallAt(k, c) = Call("PdS", NoWait, <<>>) BY <1>k DEF CallAt
<1>9. CallAt(k, c + 1) = Call("none", NoWait, <<"dq", 0>>) BY <1>k DEF CallAt
<1>10. CallAt(k, c + 2) = IF k.Slice_dQKV_Mma THEN Call("none", NoWait, <<"dv", 1>>) ELSE Call("release_do", 1, <<"dk", 0>>)
  BY <1>k DEF CallAt
<1>11. CallAt(k, c + 3) = IF k.Slice_dQKV_Mma THEN Call("dq", 1, <<"dk", 0>>) ELSE Call("dq", 1, <<>>)
  BY <1>k DEF CallAt
<1>12. CallAt(k, c + 4) = IF k.Slice_dQKV_Mma THEN Call("release_do", 1, <<"dq", 1>>) ELSE Call("release_q", 0, <<>>)
  BY <1>k DEF CallAt
<1>13. CallAt(k, c + 5) = Call("dq", 0, <<"dk", 1>>) BY <1>k DEF CallAt
<1>14. CallAt(k, c + 6) = Call("release_q", 0, <<>>) BY <1>k DEF CallAt
<1> QED BY <1>1, <1>2, <1>3, <1>4, <1>5, <1>6, <1>7, <1>8, <1>9, <1>10, <1>11, <1>12,
           <1>13, <1>14

CallRecord ==
  [does : {"q", "do", "none", "PdS", "p", "ds", "dq", "release_do", "release_q", "Epilogue", "dkv", "dk", "dv", "written",
           "stored", "store", "copy"},
   left : Nat, gemm : {<< >>} \cup ({"s", "dp", "dv", "dq", "dk"} \X {0, 1})]

\* Table F, given up to n by s and from there on by t.
Gives(F, s, n) == s \in Seq(CallRecord) /\ Len(s) = n /\ \A i \in 1 .. n : s[i] = F[i]

LEMMA Joined ==
  ASSUME NEW F, NEW s, NEW n \in Nat, Gives(F, s, n),
         NEW t \in Seq(CallRecord), NEW m \in Nat, Len(t) = m, \A i \in 1 .. m : t[i] = F[n + i]
  PROVE  Gives(F, s \o t, n + m)
<1>1. /\ s \o t \in Seq(CallRecord) /\ Len(s \o t) = Len(s) + Len(t)
      /\ \A i \in 1 .. Len(s) + Len(t) : (s \o t)[i] = IF i <= Len(s) THEN s[i] ELSE t[i - Len(s)]
  BY ConcatProperties DEF Gives
<1>2. Len(s) = n BY DEF Gives
<1>3. ASSUME NEW i \in 1 .. n + m
      PROVE  (s \o t)[i] = F[i]
  <2>1. CASE i <= n BY <1>1, <1>2, <2>1 DEF Gives
  <2>2. CASE i > n
    <3>1. i - n \in 1 .. m /\ n + (i - n) = i BY <2>2
    <3>2. (s \o t)[i] = t[i - n] BY <1>1, <1>2, <2>2
    <3>3. t[i - n] = F[n + (i - n)] BY <3>1
    <3> QED BY <3>1, <3>2, <3>3
  <2>3. i <= n \/ i > n OBVIOUS
  <2> QED BY <2>1, <2>2, <2>3
<1> QED BY <1>1, <1>2, <1>3 DEF Gives

LEMMA Pairs ==
  ASSUME NEW S, NEW s \in Seq(S), NEW t \in Seq(S), Len(s) = 1, Len(t) = 1
  PROVE  /\ Len(s \o t) = 2 /\ s \o t \in Seq(S)
         /\ \A i \in 1 .. 2 : (s \o t)[i] = IF i <= 1 THEN s[i] ELSE t[i - 1]
<1>1. /\ s \o t \in Seq(S) /\ Len(s \o t) = Len(s) + Len(t)
      /\ \A i \in 1 .. Len(s) + Len(t) : (s \o t)[i] = IF i <= Len(s) THEN s[i] ELSE t[i - Len(s)]
  BY ConcatProperties
<1>2. Len(s) + Len(t) = 2 OBVIOUS
<1> QED BY <1>1, <1>2

LEMMA LoopCalls ==
  ASSUME kernel \in CtaKernels
  PROVE  Len(Loop) = LoopLen(kernel) /\ \A pc \in 1 .. LoopLen(kernel) : Loop[pc] = CallAt(kernel, pc)
<1> DEFINE c == DsShared(kernel)
           F == [i \in Nat |-> CallAt(kernel, i)]
           a == << Call("q", NoWait, <<"s", 0>>), Call("do", NoWait, <<"dp", 0>>), Call("none", 0, <<>>) >>
           b == a \o ShareP
           d == b \o SyncBeforeDs
           e == d \o <<Call("ds", NoWait, <<"dv", 0>>)>>
           f == e \o PdSSync
           g == f \o (IF kernel.Slice_dQKV_Mma THEN SlicedGradients ELSE Gradients)
           h == g \o <<Call("release_q", 0, <<>>)>>
<1>k. /\ kernel.kStages_dS \in {1, 2} /\ kernel.Mma_dKV_is_RS \in BOOLEAN /\ kernel.Slice_dQKV_Mma \in BOOLEAN /\ c \in 5 .. 8
      /\ (SyncsBeforeDs(kernel) => c >= 6) /\ (SharesP(kernel) => c >= 7) /\ (SyncsBeforeP(kernel) => c = 8)
  BY KernelTypes
<1>f. \A i \in Nat : F[i] = CallAt(kernel, i) OBVIOUS
<1> HIDE DEF F
<1>1. a \in Seq(CallRecord) /\ Len(a) = 3 /\ \A i \in 1 .. 3 : a[i] = F[i]
  <2>1. a \in Seq(CallRecord) /\ Len(a) = 3 BY DEF Call, CallRecord, NoWait
  <2>2. F[1] = Call("q", NoWait, <<"s", 0>>) BY <1>k, <1>f, CallTable
  <2>3. F[2] = Call("do", NoWait, <<"dp", 0>>) BY <1>k, <1>f, CallTable
  <2>4. F[3] = Call("none", 0, <<>>) BY <1>k, <1>f, CallTable
  <2> QED BY <2>1, <2>2, <2>3, <2>4
<1>2. /\ PdSSync \in Seq(CallRecord) /\ Len(PdSSync) = 1 /\ PdSSync[1] = Call("PdS", NoWait, <<>>)
  BY DEF PdSSync, Call, CallRecord, NoWait
<1>3. /\ ShareP \in Seq(CallRecord)
      /\ Len(ShareP) = (IF SharesP(kernel) THEN 1 ELSE 0) + (IF SyncsBeforeP(kernel) THEN 1 ELSE 0)
      /\ \A i \in 1 .. Len(ShareP) : ShareP[i] = F[3 + i]
  <2> DEFINE p == <<Call("p", NoWait, <<>>)>>
  <2>1. p \in Seq(CallRecord) /\ Len(p) = 1 /\ p[1] = Call("p", NoWait, <<>>)
    BY DEF Call, CallRecord, NoWait
  <2>2. << >> \in Seq(CallRecord) /\ Len(<< >>) = 0 BY EmptySeq
  <2> HIDE DEF p
  <2>3. CASE kernel.Mma_dKV_is_RS BY <2>2, <2>3 DEF ShareP, SharesP, SyncsBeforeP
  <2>4. CASE ~kernel.Mma_dKV_is_RS /\ kernel.kStages_dS = 2
    <3>1. ShareP = << >> \o p BY <2>4 DEF ShareP, SyncBeforeP, p
    <3>2. ShareP \in Seq(CallRecord) /\ Len(ShareP) = 1 /\ ShareP[1] = Call("p", NoWait, <<>>)
      BY <2>1, <2>2, <3>1, ConcatProperties
    <3>3. ~SyncsBeforeP(kernel) /\ SharesP(kernel) /\ SyncsBeforeDs(kernel) /\ c = 7
      BY <2>4 DEF SyncsBeforeP, SharesP, SyncsBeforeDs, DsShared
    <3>4. CallAt(kernel, c - 3) = Call("p", NoWait, <<>>) /\ c - 3 = 4 BY <3>3, CallTable
    <3>5. F[4] = Call("p", NoWait, <<>>) BY <1>f, <3>4
    <3>6. \A i \in 1 .. 1 : i = 1 /\ 3 + i = 4 OBVIOUS
    <3> QED BY <3>2, <3>3, <3>5, <3>6
  <2>5. CASE ~kernel.Mma_dKV_is_RS /\ kernel.kStages_dS = 1
    <3>1. ShareP = PdSSync \o p BY <2>5 DEF ShareP, SyncBeforeP, p
    <3>2. /\ ShareP \in Seq(CallRecord) /\ Len(ShareP) = 2
          /\ ShareP[1] = Call("PdS", NoWait, <<>>) /\ ShareP[2] = Call("p", NoWait, <<>>)
      <4>1. /\ Len(PdSSync \o p) = 2 /\ PdSSync \o p \in Seq(CallRecord)
            /\ \A i \in 1 .. 2 : (PdSSync \o p)[i] = IF i <= 1 THEN PdSSync[i] ELSE p[i - 1]
        BY ONLY <1>2, <2>1, Pairs
      <4>2. (PdSSync \o p)[1] = PdSSync[1] /\ (PdSSync \o p)[2] = p[1]
        BY <4>1
      <4> QED BY <1>2, <2>1, <3>1, <4>1, <4>2
    <3>3. SyncsBeforeP(kernel) /\ SharesP(kernel) /\ SyncsBeforeDs(kernel) /\ c = 8
      BY <2>5 DEF SyncsBeforeP, SharesP, SyncsBeforeDs, DsShared
    <3>4. /\ CallAt(kernel, c - 4) = Call("PdS", NoWait, <<>>) /\ c - 4 = 4
          /\ CallAt(kernel, c - 3) = Call("p", NoWait, <<>>) /\ c - 3 = 5
      BY <3>3, CallTable
    <3>5. F[4] = Call("PdS", NoWait, <<>>) /\ F[5] = Call("p", NoWait, <<>>) BY <1>f, <3>4
    <3>6. \A i \in 1 .. 2 : (i = 1 /\ 3 + i = 4) \/ (i = 2 /\ 3 + i = 5) OBVIOUS
    <3> QED BY <3>2, <3>3, <3>5, <3>6
  <2> QED BY <1>k, <2>3, <2>4, <2>5
<1>4. /\ SyncBeforeDs \in Seq(CallRecord) /\ Len(SyncBeforeDs) = (IF SyncsBeforeDs(kernel) THEN 1 ELSE 0)
      /\ \A i \in 1 .. Len(SyncBeforeDs) : SyncBeforeDs[i] = F[c - 2]
  <2>1. CASE ~SyncsBeforeDs(kernel)
    BY <2>1, EmptySeq DEF SyncsBeforeDs, SyncBeforeDs
  <2>2. CASE SyncsBeforeDs(kernel)
    <3>1. SyncBeforeDs = PdSSync BY <2>2 DEF SyncsBeforeDs, SyncBeforeDs
    <3>2. c >= 6 /\ F[c - 2] = Call("PdS", NoWait, <<>>)
      <4>1. c >= 6 /\ (SyncsBeforeP(kernel) => c = 8) /\ (SharesP(kernel) => c >= 7)
        BY <1>k, <2>2 DEF DsShared, SyncsBeforeP, SharesP, SyncsBeforeDs
      <4>2. /\ c - 2 # 1 /\ c - 2 # 2 /\ c - 2 # 3 /\ c - 2 # c - 4 /\ c - 2 # c - 3
        BY <1>k, <4>1
      <4> QED BY <1>f, CallTable, <1>k, <2>2, <4>1, <4>2
    <3>3. Len(SyncBeforeDs) = 1 /\ SyncBeforeDs[1] = F[c - 2] BY <1>2, <3>1, <3>2
    <3>4. \A i \in 1 .. 1 : i = 1 OBVIOUS
    <3> QED BY <1>2, <2>2, <3>1, <3>3, <3>4
  <2> QED BY <2>1, <2>2
<1>5. F[c - 1] = Call("ds", NoWait, <<"dv", 0>>) /\ F[c] = Call("PdS", NoWait, <<>>)
  BY <1>k, <1>f, CallTable
<1> DEFINE t == IF kernel.Slice_dQKV_Mma THEN SlicedGradients ELSE Gradients
<1>6. /\ t \in Seq(CallRecord) /\ Len(t) = (IF kernel.Slice_dQKV_Mma THEN 5 ELSE 3)
      /\ \A i \in 1 .. Len(t) : t[i] = F[c + i]
  <2>1. CASE kernel.Slice_dQKV_Mma
    <3>1. t \in Seq(CallRecord) /\ Len(t) = 5
      BY <2>1 DEF SlicedGradients, Call, CallRecord, NoWait
    <3>2. t = << Call("none", NoWait, <<"dq", 0>>), Call("none", NoWait, <<"dv", 1>>), Call("dq", 1, <<"dk", 0>>),
                 Call("release_do", 1, <<"dq", 1>>), Call("dq", 0, <<"dk", 1>>) >>
      BY <2>1 DEF SlicedGradients
    <3>3. /\ F[c + 1] = Call("none", NoWait, <<"dq", 0>>) /\ F[c + 2] = Call("none", NoWait, <<"dv", 1>>)
          /\ F[c + 3] = Call("dq", 1, <<"dk", 0>>) /\ F[c + 4] = Call("release_do", 1, <<"dq", 1>>)
          /\ F[c + 5] = Call("dq", 0, <<"dk", 1>>)
      BY <1>f, CallTable, <1>k, <2>1
    <3>4. /\ t[1] = F[c + 1] /\ t[2] = F[c + 2] /\ t[3] = F[c + 3]
          /\ t[4] = F[c + 4] /\ t[5] = F[c + 5]
      BY ONLY <3>2, <3>3
    <3> HIDE DEF t
    <3> QED BY <2>1, <3>1, <3>4
  <2>2. CASE ~kernel.Slice_dQKV_Mma
    <3>1. t \in Seq(CallRecord) /\ Len(t) = 3 BY <2>2 DEF Gradients, Call, CallRecord, NoWait
    <3>2. t = << Call("none", NoWait, <<"dq", 0>>), Call("release_do", 1, <<"dk", 0>>), Call("dq", 1, <<>>) >>
      BY <2>2 DEF Gradients
    <3>3. /\ F[c + 1] = Call("none", NoWait, <<"dq", 0>>) /\ F[c + 2] = Call("release_do", 1, <<"dk", 0>>)
          /\ F[c + 3] = Call("dq", 1, <<>>)
      BY <1>f, CallTable, <1>k, <2>2
    <3>4. /\ t[1] = F[c + 1] /\ t[2] = F[c + 2] /\ t[3] = F[c + 3]
      BY ONLY <3>2, <3>3
    <3> HIDE DEF t
    <3> QED BY <2>2, <3>1, <3>4
  <2> QED BY <1>k, <2>1, <2>2
<1>7. F[LoopLen(kernel)] = Call("release_q", 0, <<>>)
  <2>1. CASE kernel.Slice_dQKV_Mma BY <1>f, CallTable, <1>k, <2>1 DEF LoopLen
  <2>2. CASE ~kernel.Slice_dQKV_Mma BY <1>f, CallTable, <1>k, <2>2 DEF LoopLen
  <2> QED BY <1>k, <2>1, <2>2
<1> DEFINE x == <<Call("ds", NoWait, <<"dv", 0>>)>>
           y == <<Call("release_q", 0, <<>>)>>
<1>8. /\ x \in Seq(CallRecord) /\ Len(x) = 1 /\ x[1] = Call("ds", NoWait, <<"dv", 0>>)
      /\ y \in Seq(CallRecord) /\ Len(y) = 1 /\ y[1] = Call("release_q", 0, <<>>)
  BY DEF Call, CallRecord, NoWait
<1> HIDE DEF a, b, d, e, f, g, h, t, x, y
<1>9. Loop = h /\ b = a \o ShareP /\ d = b \o SyncBeforeDs /\ e = d \o x /\ f = e \o PdSSync /\ g = f \o t /\ h = g \o y
  BY DEF Loop, a, b, d, e, f, g, h, t, x, y
<1>10. Gives(F, b, 3 + Len(ShareP))
  <2>1. Gives(F, a, 3) /\ Len(ShareP) \in Nat BY <1>1, <1>3, LenProperties DEF Gives
  <2> QED BY <1>3, <1>9, <2>1, Joined
<1>11. Gives(F, d, c - 2)
  <2>1. /\ Len(ShareP) \in Nat /\ Len(SyncBeforeDs) \in Nat /\ 3 + Len(ShareP) \in Nat
        /\ 3 + Len(ShareP) + Len(SyncBeforeDs) = c - 2
    BY <1>k, <1>3, <1>4 DEF DsShared
  <2>2. \A i \in 1 .. Len(SyncBeforeDs) : SyncBeforeDs[i] = F[3 + Len(ShareP) + i]
    <3>1. \A i \in 1 .. Len(SyncBeforeDs) : 3 + Len(ShareP) + i = c - 2 BY <1>4, <2>1
    <3> QED BY <1>4, <3>1
  <2>3. Gives(F, d, 3 + Len(ShareP) + Len(SyncBeforeDs))
    BY <1>4, <1>9, <1>10, <2>1, <2>2, Joined
  <2> QED BY <2>1, <2>3
<1>12. Gives(F, e, c - 1)
  <2>1. c - 2 \in Nat /\ c - 2 + 1 = c - 1 BY <1>k
  <2>2. \A i \in 1 .. 1 : x[i] = F[c - 2 + i] BY <1>5, <1>8, <2>1
  <2>3. Gives(F, e, c - 2 + 1) BY <1>8, <1>9, <1>11, <2>1, <2>2, Joined
  <2> QED BY <2>1, <2>3
<1>13. Gives(F, f, c)
  <2>1. c - 1 \in Nat /\ c - 1 + 1 = c BY <1>k
  <2>2. \A i \in 1 .. 1 : PdSSync[i] = F[c - 1 + i] BY <1>2, <1>5, <2>1
  <2>3. Gives(F, f, c - 1 + 1) BY <1>2, <1>9, <1>12, <2>1, <2>2, Joined
  <2> QED BY <2>1, <2>3
<1>14. Gives(F, g, c + Len(t))
  <2>1. c \in Nat /\ Len(t) \in Nat BY <1>k, <1>6
  <2> QED BY <1>6, <1>9, <1>13, <2>1, Joined
<1>15. Gives(F, h, LoopLen(kernel))
  <2>1. c + Len(t) \in Nat /\ LoopLen(kernel) = c + Len(t) + 1 BY <1>k, <1>6 DEF LoopLen
  <2>2. \A i \in 1 .. 1 : y[i] = F[c + Len(t) + i] BY <1>7, <1>8, <2>1
  <2>3. Gives(F, h, c + Len(t) + 1) BY <1>8, <1>9, <1>14, <2>1, <2>2, Joined
  <2> QED BY <2>1, <2>3
<1>16. \A i \in 1 .. LoopLen(kernel) : F[i] = CallAt(kernel, i) /\ i \in Nat
  BY <1>f, KernelTypes
<1> QED BY <1>9, <1>15, <1>16 DEF Gives

One(x) == <<Call(x, NoWait, <<>>)>>
EpilogueCall == {"Epilogue", "dkv", "dk", "dv", "written", "stored", "store", "copy"}

LEMMA OneCall ==
  ASSUME NEW x \in EpilogueCall
  PROVE  One(x) \in Seq(CallRecord) /\ Len(One(x)) = 1 /\ One(x)[1] = Call(x, NoWait, <<>>)
BY DEF One, EpilogueCall, Call, CallRecord, NoWait

LEMMA JoinedOne ==
  ASSUME NEW F, NEW s, NEW n \in Nat, Gives(F, s, n),
         NEW x \in EpilogueCall, F[n + 1] = Call(x, NoWait, <<>>)
  PROVE  Gives(F, s \o One(x), n + 1)
<1>1. \A i \in 1 .. 1 : i = 1 OBVIOUS
<1>2. \A i \in 1 .. 1 : One(x)[i] = F[n + i] BY <1>1, OneCall
<1> QED BY <1>2, OneCall, Joined

LEMMA JoinedTwo ==
  ASSUME NEW F, NEW s, NEW n \in Nat, Gives(F, s, n), NEW x \in EpilogueCall, NEW y \in EpilogueCall,
         F[n + 1] = Call(x, NoWait, <<>>), F[n + 2] = Call(y, NoWait, <<>>)
  PROVE  Gives(F, s \o (One(x) \o One(y)), n + 2)
<1> DEFINE t == One(x) \o One(y)
<1>1. /\ t \in Seq(CallRecord) /\ Len(t) = Len(One(x)) + Len(One(y))
      /\ \A i \in 1 .. Len(One(x)) + Len(One(y)) : t[i] = IF i <= Len(One(x)) THEN One(x)[i] ELSE One(y)[i - Len(One(x))]
  BY OneCall, ConcatProperties
<1>2. Len(One(x)) = 1 /\ Len(One(y)) = 1 BY OneCall
<1>3. Len(t) = 2 /\ t[1] = One(x)[1] /\ t[2] = One(y)[1] BY <1>1, <1>2
<1> HIDE DEF t
<1>4. \A i \in 1 .. 2 : (i = 1 /\ n + i = n + 1) \/ (i = 2 /\ n + i = n + 2) OBVIOUS
<1>5. \A i \in 1 .. 2 : t[i] = F[n + i] BY <1>3, <1>4, OneCall
<1>6. Gives(F, s \o t, n + 2) BY <1>1, <1>3, <1>5, Joined
<1> QED BY <1>6 DEF t

LEMMA JoinedNone ==
  ASSUME NEW F, NEW s, NEW n \in Nat, Gives(F, s, n)
  PROVE  Gives(F, s \o << >>, n)
<1>1. << >> \in Seq(CallRecord) /\ Len(<< >>) = 0 BY EmptySeq
<1>2. \A i \in 1 .. 0 : FALSE OBVIOUS
<1>3. Gives(F, s \o << >>, n + 0) BY <1>1, <1>2, Joined
<1> QED BY <1>3

LEMMA EpilogueCalls ==
  ASSUME kernel \in CtaKernels, NEW w \in WGs
  PROVE  /\ EpilogueLen(kernel, w) \in 2 .. 10
         /\ Len(Epilogue(w)) = EpilogueLen(kernel, w)
         /\ \A pc \in 1 .. EpilogueLen(kernel, w) : Epilogue(w)[pc] = Call(EpilogueDoes(kernel, w)[pc], NoWait, <<>>)
<1> DEFINE does == EpilogueDoes(kernel, w)
           F == [i \in Nat |-> Call(does[i], NoWait, <<>>)]
           n == EpilogueLen(kernel, w)
           leads == w = Leader(kernel)
<1>f. \A i \in Nat : F[i] = Call(does[i], NoWait, <<>>) OBVIOUS
<1>k. kernel.epilogue \in {"tma", "varlen", "gqa"} BY KernelTypes
<1> SUFFICES n \in 2 .. 10 /\ Gives(F, Epilogue(w), n)
  <2>1. \A i \in 1 .. n : i \in Nat /\ F[i] = Call(does[i], NoWait, <<>>) BY <1>f
  <2> QED BY <2>1 DEF Gives
<1> HIDE DEF F
<1>e. \A x : x \in EpilogueCall <=> x \in {"Epilogue", "dkv", "dk", "dv", "written", "stored", "store", "copy"}
  BY DEF EpilogueCall
<1>1. Gives(F, << >>, 0) BY EmptySeq DEF Gives
<1>2. ASSUME does[1] = "Epilogue" PROVE Gives(F, One("Epilogue"), 1)
  <2>1. \A i \in 1 .. 1 : i = 1 OBVIOUS
  <2>2. F[1] = Call("Epilogue", NoWait, <<>>) BY <1>2, <1>f
  <2> QED BY <1>e, <2>1, <2>2, OneCall DEF Gives
<1>3. CASE kernel.epilogue = "tma"
  <2>1. does = IF leads THEN <<"Epilogue", "dkv", "written", "stored">> ELSE <<"Epilogue", "dkv">>
    BY <1>3 DEF EpilogueDoes
  <2>2. Epilogue(w) = (One("Epilogue") \o One("dkv")) \o (IF leads THEN One("written") \o One("stored") ELSE << >>)
    BY <1>3 DEF Epilogue, One, Leader
  <2>3. does[1] = "Epilogue" /\ does[2] = "dkv" BY <2>1
  <2>4. F[2] = Call("dkv", NoWait, <<>>) BY <2>3, <1>f
  <2>5. Gives(F, One("Epilogue") \o One("dkv"), 1 + 1) BY <1>2, <1>e, <2>3, <2>4, JoinedOne
  <2>6. CASE leads
    <3>1. does[3] = "written" /\ does[4] = "stored" /\ n = 4 BY <2>1, <2>6 DEF EpilogueLen
    <3>2. F[2 + 1] = Call("written", NoWait, <<>>) /\ F[2 + 2] = Call("stored", NoWait, <<>>)
      BY <3>1, <1>f
    <3>3. Gives(F, (One("Epilogue") \o One("dkv")) \o (One("written") \o One("stored")), 2 + 2)
      BY <1>e, <2>5, <3>2, JoinedTwo
    <3> QED BY <2>2, <2>6, <3>1, <3>3
  <2>7. CASE ~leads
    <3>1. n = 2 BY <2>1, <2>7 DEF EpilogueLen
    <3> QED BY <2>2, <2>5, <2>7, <3>1, JoinedNone
  <2> QED BY <2>6, <2>7
<1>4. CASE kernel.epilogue = "varlen"
  <2>1. does = <<"Epilogue", "dkv", "Epilogue", "copy">>
    BY <1>4 DEF EpilogueDoes
  <2>2. Epilogue(w) = ((One("Epilogue") \o One("dkv")) \o One("Epilogue")) \o One("copy")
    BY <1>4 DEF Epilogue, One
  <2>3. does[1] = "Epilogue" /\ does[2] = "dkv" /\ does[3] = "Epilogue" /\ does[4] = "copy" /\ n = 4
    BY <2>1 DEF EpilogueLen
  <2>4. F[2] = Call("dkv", NoWait, <<>>) /\ F[3] = Call("Epilogue", NoWait, <<>>) /\ F[4] = Call("copy", NoWait, <<>>)
    BY <2>3, <1>f
  <2>5. Gives(F, One("Epilogue") \o One("dkv"), 1 + 1) BY <1>2, <1>e, <2>3, <2>4, JoinedOne
  <2>6. Gives(F, (One("Epilogue") \o One("dkv")) \o One("Epilogue"), 2 + 1)
    BY <1>e, <2>4, <2>5, JoinedOne
  <2>7. Gives(F, ((One("Epilogue") \o One("dkv")) \o One("Epilogue")) \o One("copy"), 3 + 1)
    BY <1>e, <2>4, <2>6, JoinedOne
  <2> QED BY <2>2, <2>3, <2>7
<1>5. CASE kernel.epilogue = "gqa"
  <2> DEFINE a == (One("Epilogue") \o One("dv")) \o One("Epilogue")
             last == IF leads THEN One("store") \o One("stored") ELSE << >>
             m == IF leads THEN 5 ELSE 3
             b == a \o last
             d == ((b \o One("Epilogue")) \o One("dk")) \o One("Epilogue")
  <2>1. does = IF leads
               THEN <<"Epilogue", "dv", "Epilogue", "store", "stored", "Epilogue", "dk", "Epilogue", "store", "stored">>
               ELSE <<"Epilogue", "dv", "Epilogue", "Epilogue", "dk", "Epilogue">>
    BY <1>5 DEF EpilogueDoes
  <2>2. Epilogue(w) = d \o last
    BY <1>5 DEF Epilogue, One, Leader
  <2>3. /\ does[1] = "Epilogue" /\ does[2] = "dv" /\ does[3] = "Epilogue"
        /\ leads => does[4] = "store" /\ does[5] = "stored" /\ does[9] = "store" /\ does[10] = "stored"
        /\ does[m + 1] = "Epilogue" /\ does[m + 2] = "dk" /\ does[m + 3] = "Epilogue"
        /\ n = IF leads THEN 10 ELSE 6
    BY <2>1 DEF EpilogueLen
  <2> HIDE DEF does, n
  <2>4. /\ F[1 + 1] = Call("dv", NoWait, <<>>) /\ F[2 + 1] = Call("Epilogue", NoWait, <<>>)
        /\ leads => /\ F[3 + 1] = Call("store", NoWait, <<>>) /\ F[3 + 2] = Call("stored", NoWait, <<>>)
                    /\ F[8 + 1] = Call("store", NoWait, <<>>) /\ F[8 + 2] = Call("stored", NoWait, <<>>)
        /\ F[m + 1] = Call("Epilogue", NoWait, <<>>) /\ F[(m + 1) + 1] = Call("dk", NoWait, <<>>)
        /\ F[(m + 2) + 1] = Call("Epilogue", NoWait, <<>>)
    BY <2>3, <1>f
  <2>5. Gives(F, One("Epilogue") \o One("dv"), 1 + 1)
    BY <1>2, <1>e, <2>3, <2>4, JoinedOne DEF does
  <2>6. Gives(F, a, 2 + 1) BY <1>e, <2>4, <2>5, JoinedOne
  <2>7. Gives(F, b, m)
    <3>1. CASE leads
      <4>1. Gives(F, a \o (One("store") \o One("stored")), 3 + 2)
        BY <1>e, <2>4, <2>6, <3>1, JoinedTwo
      <4> QED BY <3>1, <4>1
    <3>2. CASE ~leads BY <2>6, <3>2, JoinedNone
    <3> QED BY <3>1, <3>2
  <2>8. Gives(F, b \o One("Epilogue"), m + 1) BY <1>e, <2>4, <2>7, JoinedOne
  <2>9. Gives(F, (b \o One("Epilogue")) \o One("dk"), (m + 1) + 1)
    BY <1>e, <2>4, <2>8, JoinedOne
  <2>10. Gives(F, d, (m + 2) + 1)
    <3>1. Gives(F, (b \o One("Epilogue")) \o One("dk"), m + 2) BY <2>9
    <3> QED BY <1>e, <2>4, <3>1, JoinedOne
  <2>11. CASE leads
    <3>1. Gives(F, d, 8) BY <2>10, <2>11
    <3>2. Gives(F, d \o (One("store") \o One("stored")), 8 + 2)
      BY <1>e, <2>4, <2>11, <3>1, JoinedTwo
    <3> QED BY <2>2, <2>3, <2>11, <3>2
  <2>12. CASE ~leads
    <3>1. Gives(F, d, 6) BY <2>10, <2>12
    <3> QED BY <2>2, <2>3, <2>12, <3>1, JoinedNone
  <2> QED BY <2>11, <2>12
<1> QED BY <1>k, <1>3, <1>4, <1>5

-----------------------------------------------------------------------------
(* A call: what becomes of a warpgroup's state.                            *)

\* The gemms under way after a call of a warpgroup in state c.
Rest(g, left, issued) == SubSeq(g, Len(SubSeq(g, 1, Len(g) - left)) + 1, Len(g)) \o issued
Issued(call, c) == IF call.gemm = << >> THEN << >> ELSE <<GemmOf(c, call.gemm)>>
AfterGemms(g, call, c) == Rest(g, call.left, Issued(call, c))

LEMMA AfterCallFields ==
  ASSUME kernel \in CtaKernels, NEW w \in WGs, Place(kernel, w, mma[w]), mma[w].at \in {"loop", "epilogue"}
  PROVE  LET c == mma[w]
             d == AfterCall(w)
             call == CallOf(w)
         IN  /\ DOMAIN d = DOMAIN c
             /\ d.gemms = AfterGemms(c.gemms, call, c)
             /\ d.dk = c.dk \o Terms(w, call, "dk") /\ d.dv = c.dv \o Terms(w, call, "dv")
             /\ d.read_do = IF call.does = "release_q" THEN DoPipe!Advance(c.read_do) ELSE c.read_do
             /\ d.read = IF call.does = "release_q" THEN QPipe!Advance(c.read) ELSE c.read
             /\ c.at = "loop" /\ c.pc = LoopLen(kernel) =>
                  d.pc = 1 /\ d.m = c.m + 1 /\ d.at = IF c.m = LastM THEN "epilogue" ELSE "loop"
             /\ c.at = "loop" /\ c.pc # LoopLen(kernel) => d.pc = c.pc + 1 /\ d.m = c.m /\ d.at = "loop"
             /\ c.at = "epilogue" =>
                  d.pc = c.pc + 1 /\ d.m = c.m /\ d.at = IF c.pc = EpilogueLen(kernel, w) THEN "exit" ELSE "epilogue"
<1> DEFINE c == mma[w]
           d == AfterCall(w)
           call == CallOf(w)
           issued == IF call.gemm = << >> THEN << >>
                     ELSE <<[op |-> call.gemm[1], slice |-> call.gemm[2], m |-> c.m, q |-> c.read.index, do |-> c.read_do.index]>>
           next == [c EXCEPT !.pc = @ + 1,
                             !.gemms = SubSeq(@, Len(Ended(w, call)) + 1, Len(@)) \o issued,
                             !.dk = @ \o Terms(w, call, "dk"), !.dv = @ \o Terms(w, call, "dv"),
                             !.read_do = IF call.does = "release_q" THEN DoPipe!Advance(@) ELSE @,
                             !.read = IF call.does = "release_q" THEN QPipe!Advance(@) ELSE @]
<1>1. DOMAIN c = {"at", "pc", "m", "read", "read_do", "gemms", "dk", "dv"} BY DEF Place
<1>2. SubSeq(c.gemms, Len(Ended(w, call)) + 1, Len(c.gemms)) \o issued = AfterGemms(c.gemms, call, c)
  BY DEF GemmOf, AfterGemms, Rest, Issued, Ended
<1>3. Len(Loop) = LoopLen(kernel) /\ Len(Epilogue(w)) = EpilogueLen(kernel, w)
  BY LoopCalls, EpilogueCalls
<1>4. d = CASE c.at = "loop" /\ c.pc = LoopLen(kernel) ->
                 [next EXCEPT !.pc = 1, !.m = @ + 1, !.at = IF c.m = LastM THEN "epilogue" ELSE "loop"]
            [] c.at = "epilogue" /\ c.pc = EpilogueLen(kernel, w) -> [next EXCEPT !.at = "exit"]
            [] OTHER -> next
  BY <1>3 DEF AfterCall
<1>9. c.at \in {"loop", "epilogue"} OBVIOUS
<1> HIDE DEF issued, c, d, call
<1> DEFINE Goal == /\ DOMAIN d = DOMAIN c
                   /\ d.gemms = AfterGemms(c.gemms, call, c)
                   /\ d.dk = c.dk \o Terms(w, call, "dk") /\ d.dv = c.dv \o Terms(w, call, "dv")
                   /\ d.read_do = IF call.does = "release_q" THEN DoPipe!Advance(c.read_do) ELSE c.read_do
                   /\ d.read = IF call.does = "release_q" THEN QPipe!Advance(c.read) ELSE c.read
                   /\ c.at = "loop" /\ c.pc = LoopLen(kernel) =>
                        d.pc = 1 /\ d.m = c.m + 1 /\ d.at = IF c.m = LastM THEN "epilogue" ELSE "loop"
                   /\ c.at = "loop" /\ c.pc # LoopLen(kernel) => d.pc = c.pc + 1 /\ d.m = c.m /\ d.at = "loop"
                   /\ c.at = "epilogue" =>
                        d.pc = c.pc + 1 /\ d.m = c.m /\ d.at = IF c.pc = EpilogueLen(kernel, w) THEN "exit" ELSE "epilogue"
<1>5. /\ DOMAIN next = DOMAIN c /\ next.pc = c.pc + 1 /\ next.m = c.m /\ next.at = c.at
      /\ next.gemms = SubSeq(c.gemms, Len(Ended(w, call)) + 1, Len(c.gemms)) \o issued
      /\ next.dk = c.dk \o Terms(w, call, "dk") /\ next.dv = c.dv \o Terms(w, call, "dv")
      /\ next.read_do = IF call.does = "release_q" THEN DoPipe!Advance(c.read_do) ELSE c.read_do
      /\ next.read = IF call.does = "release_q" THEN QPipe!Advance(c.read) ELSE c.read
  BY <1>1
<1> HIDE DEF next
<1>6. ASSUME c.at = "loop", c.pc = LoopLen(kernel) PROVE Goal
  <2>1. d = [next EXCEPT !.pc = 1, !.m = @ + 1, !.at = IF c.m = LastM THEN "epilogue" ELSE "loop"]
    BY <1>4, <1>6
  <2>2. /\ DOMAIN d = DOMAIN c /\ d.gemms = next.gemms /\ d.dk = next.dk /\ d.dv = next.dv
        /\ d.read_do = next.read_do /\ d.read = next.read /\ d.pc = 1 /\ d.m = c.m + 1
        /\ d.at = IF c.m = LastM THEN "epilogue" ELSE "loop"
    BY <1>1, <1>5, <2>1
  <2> QED BY <1>2, <1>5, <1>6, <2>2
<1>7. ASSUME c.at = "epilogue", c.pc = EpilogueLen(kernel, w) PROVE Goal
  <2>1. d = [next EXCEPT !.at = "exit"] BY <1>4, <1>7
  <2>2. /\ DOMAIN d = DOMAIN c /\ d.gemms = next.gemms /\ d.dk = next.dk /\ d.dv = next.dv
        /\ d.read_do = next.read_do /\ d.read = next.read /\ d.pc = next.pc /\ d.m = c.m /\ d.at = "exit"
    BY <1>1, <1>5, <2>1
  <2> QED BY <1>2, <1>5, <1>7, <2>2
<1>8. ASSUME ~(c.at = "loop" /\ c.pc = LoopLen(kernel)), ~(c.at = "epilogue" /\ c.pc = EpilogueLen(kernel, w)) PROVE Goal
  <2>1. d = next BY <1>4, <1>8
  <2> QED BY <1>2, <1>5, <1>8, <1>9, <2>1
<1>11. Goal BY <1>6, <1>7, <1>8
<1> QED BY <1>11 DEF Goal, c, d, call

EndedLen(g, left) == IF Len(g) > left THEN Len(g) - left ELSE 0

LEMMA GemmsEnded ==
  ASSUME NEW g \in Seq(GemmRecord), NEW left \in Nat
  PROVE  EndedLen(g, left) \in 0 .. Len(g) /\ Len(SubSeq(g, 1, Len(g) - left)) = EndedLen(g, left)
<1>1. Len(g) \in Nat /\ Len(g) - left \in Int BY LenProperties
<1>2. \A i \in 1 .. Len(g) - left : i \in 1 .. Len(g) BY <1>1
<1>3. \A i \in 1 .. Len(g) - left : g[i] \in GemmRecord BY <1>2, ElementOfSeq
<1>4. Len(SubSeq(g, 1, Len(g) - left)) = IF 1 <= Len(g) - left THEN Len(g) - left - 1 + 1 ELSE 0
  BY <1>1, <1>3, SubSeqProperties
<1> QED BY <1>1, <1>4 DEF EndedLen

LEMMA GemmsKept ==
  ASSUME NEW g \in Seq(GemmRecord), NEW e \in 0 .. Len(g)
  PROVE  /\ SubSeq(g, e + 1, Len(g)) \in Seq(GemmRecord) /\ Len(SubSeq(g, e + 1, Len(g))) = Len(g) - e
         /\ \A i \in 1 .. Len(g) - e : SubSeq(g, e + 1, Len(g))[i] = g[i + e]
<1>1. Len(g) \in Nat /\ e \in Nat /\ e <= Len(g) BY LenProperties
<1> DEFINE n == Len(g)
           a == e + 1
           kept == SubSeq(g, a, n)
<1>2. /\ n \in Int /\ a \in Int /\ n - a + 1 = n - e /\ (IF a <= n THEN n - a + 1 ELSE 0) = n - e
      /\ (\A i \in a .. n : i \in 1 .. n) /\ \A i \in 1 .. n - e : a + i - 1 = i + e
  BY <1>1
<1> HIDE DEF a
<1>3. \A i \in a .. n : g[i] \in GemmRecord BY <1>2, ElementOfSeq
<1>4. /\ kept \in Seq(GemmRecord) /\ Len(kept) = IF a <= n THEN n - a + 1 ELSE 0
      /\ \A i \in 1 .. n - a + 1 : kept[i] = g[a + i - 1]
  BY <1>2, <1>3, SubSeqProperties
<1> HIDE DEF kept
<1>5. kept \in Seq(GemmRecord) /\ Len(kept) = n - e /\ \A i \in 1 .. n - e : kept[i] = g[i + e]
  BY <1>2, <1>4
<1> QED BY <1>5 DEF kept, a

LEMMA GemmsAfter ==
  ASSUME NEW g \in Seq(GemmRecord), NEW left \in Nat, NEW issued \in Seq(GemmRecord)
  PROVE  LET h == Rest(g, left, issued)
             e == EndedLen(g, left)
         IN
         /\ h \in Seq(GemmRecord)
         /\ Len(h) = Len(g) - e + Len(issued)
         /\ \A i \in 1 .. Len(g) - e : h[i] = g[i + e]
         /\ \A i \in 1 .. Len(issued) : h[Len(g) - e + i] = issued[i]
<1> DEFINE n == Len(g)
           h == Rest(g, left, issued)
           e == EndedLen(g, left)
           kept == SubSeq(g, e + 1, n)
<1>1. n \in Nat /\ e \in 0 .. n /\ Len(issued) \in Nat BY LenProperties, GemmsEnded
<1>2. h = kept \o issued BY GemmsEnded DEF Rest
<1> HIDE DEF h, e
<1>3. kept \in Seq(GemmRecord) /\ Len(kept) = n - e /\ \A i \in 1 .. n - e : kept[i] = g[i + e]
  BY <1>1, GemmsKept
<1> HIDE DEF kept
<1>4. /\ kept \o issued \in Seq(GemmRecord) /\ Len(kept \o issued) = Len(kept) + Len(issued)
      /\ \A i \in 1 .. Len(kept) + Len(issued) : (kept \o issued)[i] = IF i <= Len(kept) THEN kept[i] ELSE issued[i - Len(kept)]
  BY <1>3, ConcatProperties
<1>5. /\ h \in Seq(GemmRecord) /\ Len(h) = n - e + Len(issued)
      /\ \A i \in 1 .. n - e + Len(issued) : h[i] = IF i <= n - e THEN kept[i] ELSE issued[i - (n - e)]
  BY ONLY <1>2, <1>3, <1>4
<1>6. ASSUME NEW i \in 1 .. n - e PROVE h[i] = g[i + e]
  <2>1. i \in 1 .. n - e + Len(issued) /\ i <= n - e BY <1>1
  <2> QED BY ONLY <1>3, <1>5, <2>1, i \in 1 .. n - e
<1>7. ASSUME NEW i \in 1 .. Len(issued) PROVE h[n - e + i] = issued[i]
  <2>1. n - e + i \in 1 .. n - e + Len(issued) /\ ~(n - e + i <= n - e) /\ (n - e + i) - (n - e) = i
    BY <1>1
  <2> QED BY ONLY <1>5, <2>1
<1> QED BY <1>5, <1>6, <1>7 DEF h, e

LEMMA UnderWayTable ==
  ASSUME NEW k \in CtaKernels, NEW c, c = DsShared(k)
  PROVE  /\ UnderWay(k, 2) = << <<"s", 0>> >>
         /\ UnderWay(k, 3) = << <<"s", 0>>, <<"dp", 0>> >>
         /\ UnderWay(k, 1) = << >> /\ \A pc \in 4 .. c - 1 : UnderWay(k, pc) = << >>
         /\ UnderWay(k, c) = << <<"dv", 0>> >> /\ UnderWay(k, c + 1) = << <<"dv", 0>> >>
         /\ UnderWay(k, c + 2) = << <<"dv", 0>>, <<"dq", 0>> >>
         /\ ~k.Slice_dQKV_Mma =>
              /\ UnderWay(k, c + 3) = << <<"dq", 0>>, <<"dk", 0>> >>
              /\ UnderWay(k, c + 4) = << <<"dk", 0>> >>
         /\ k.Slice_dQKV_Mma =>
              /\ UnderWay(k, c + 3) = << <<"dv", 0>>, <<"dq", 0>>, <<"dv", 1>> >>
              /\ UnderWay(k, c + 4) = << <<"dv", 1>>, <<"dk", 0>> >>
              /\ UnderWay(k, c + 5) = << <<"dk", 0>>, <<"dq", 1>> >>
              /\ UnderWay(k, c + 6) = << <<"dk", 1>> >>
<1>k. c \in 5 .. 8 BY KernelTypes
<1>1. UnderWay(k, 2) = << <<"s", 0>> >> BY <1>k DEF UnderWay
<1>2. UnderWay(k, 3) = << <<"s", 0>>, <<"dp", 0>> >> BY <1>k DEF UnderWay
<1>3. UnderWay(k, 1) = << >> BY <1>k DEF UnderWay
<1>4. ASSUME NEW pc \in 4 .. c - 1 PROVE UnderWay(k, pc) = << >>
  <2>1. pc \notin {2, 3, c, c + 1, c + 2, c + 3, c + 4, c + 5, c + 6} BY <1>k
  <2> QED BY <2>1 DEF UnderWay
<1>5. UnderWay(k, c) = << <<"dv", 0>> >> /\ UnderWay(k, c + 1) = << <<"dv", 0>> >>
  BY <1>k DEF UnderWay
<1>6. UnderWay(k, c + 2) = << <<"dv", 0>>, <<"dq", 0>> >> BY <1>k DEF UnderWay
<1>7. UnderWay(k, c + 3) =
        IF k.Slice_dQKV_Mma THEN << <<"dv", 0>>, <<"dq", 0>>, <<"dv", 1>> >> ELSE << <<"dq", 0>>, <<"dk", 0>> >>
  BY <1>k DEF UnderWay
<1>8. UnderWay(k, c + 4) = IF k.Slice_dQKV_Mma THEN << <<"dv", 1>>, <<"dk", 0>> >> ELSE << <<"dk", 0>> >>
  BY <1>k DEF UnderWay
<1>9. UnderWay(k, c + 5) = << <<"dk", 0>>, <<"dq", 1>> >> BY <1>k DEF UnderWay
<1>10. UnderWay(k, c + 6) = << <<"dk", 1>> >> BY <1>k DEF UnderWay
<1> QED BY <1>1, <1>2, <1>3, <1>4, <1>5, <1>6, <1>7, <1>8, <1>9, <1>10

\* The gemms under way before and after a call: the last ones stay.
GemmKinds == {"s", "dp", "dv", "dq", "dk"} \X {0, 1}
Kept(u, left) == IF Len(u) > left THEN left ELSE Len(u)
Follows(u, call, v) ==
  /\ call.left \in {0, 1, NoWait} /\ call.gemm \in {<< >>} \cup GemmKinds /\ Len(u) \in 0 .. 3
  /\ Kept(u, call.left) \in 0 .. 2
  /\ call.gemm = << >> => Len(v) = Kept(u, call.left)
  /\ call.gemm # << >> => Len(v) = Kept(u, call.left) + 1 /\ v[Kept(u, call.left) + 1] = call.gemm
  /\ \A i \in {1, 2} : i <= Kept(u, call.left) => v[i] = u[Len(u) - Kept(u, call.left) + i]

LEMMA UnderWayFollows ==
  ASSUME NEW k \in CtaKernels, NEW pc \in 1 .. LoopLen(k)
  PROVE  Follows(UnderWay(k, pc), CallAt(k, pc), IF pc = LoopLen(k) THEN << >> ELSE UnderWay(k, pc + 1))
<1> DEFINE c == DsShared(k)
           Goal(i) == Follows(UnderWay(k, i), CallAt(k, i), IF i = LoopLen(k) THEN << >> ELSE UnderWay(k, i + 1))
<1>k. /\ c \in 5 .. 8 /\ k.Slice_dQKV_Mma \in BOOLEAN /\ (SyncsBeforeDs(k) => c >= 6) /\ (SharesP(k) => c >= 7)
      /\ (SyncsBeforeP(k) => c = 8)
  BY KernelTypes
<1>n. LoopLen(k) = c + (IF k.Slice_dQKV_Mma THEN 6 ELSE 4) BY DEF LoopLen
<1>g. \A op \in {"s", "dp", "dv", "dq", "dk"}, slice \in {0, 1} : <<op, slice>> \in GemmKinds /\ <<op, slice>> # << >>
  BY DEF GemmKinds
<1>c. \A does, left, gemm : Call(does, left, gemm).left = left /\ Call(does, left, gemm).gemm = gemm
  BY DEF Call
<1>w. NoWait = 9 BY DEF NoWait
<1> HIDE DEF GemmKinds, NoWait
<1>1. Goal(1)
  <2>1. CallAt(k, 1) = Call("q", NoWait, <<"s", 0>>)
    BY <1>k, CallTable
  <2>2. UnderWay(k, 1) = << >>
    BY <1>k, UnderWayTable
  <2>3. UnderWay(k, 2) = << <<"s", 0>> >> /\ 1 # LoopLen(k) /\ 1 + 1 = 2
    BY <1>k, <1>n, UnderWayTable
  <2> DEFINE u == UnderWay(k, 1)
             v == IF 1 = LoopLen(k) THEN << >> ELSE UnderWay(k, 1 + 1)
             call == CallAt(k, 1)
  <2>4. u = << >> /\ v = << <<"s", 0>> >> BY <2>2, <2>3
  <2>5. call.left = NoWait /\ call.gemm = <<"s", 0>> BY <2>1, <1>c
  <2> HIDE DEF u, v, call
  <2>6. Len(u) = 0 /\ Len(v) = 1 /\ v[1] = <<"s", 0>> BY <2>4
  <2>7. Follows(u, call, v)
    BY <1>g, <1>w, <2>5, <2>6 DEF Follows, Kept
  <2> QED BY <2>7 DEF u, v, call
<1>2. Goal(2)
  <2>1. CallAt(k, 2) = Call("do", NoWait, <<"dp", 0>>)
    BY <1>k, CallTable
  <2>2. UnderWay(k, 2) = << <<"s", 0>> >>
    BY <1>k, UnderWayTable
  <2>3. UnderWay(k, 3) = << <<"s", 0>>, <<"dp", 0>> >> /\ 2 # LoopLen(k) /\ 2 + 1 = 3
    BY <1>k, <1>n, UnderWayTable
  <2> DEFINE u == UnderWay(k, 2)
             v == IF 2 = LoopLen(k) THEN << >> ELSE UnderWay(k, 2 + 1)
             call == CallAt(k, 2)
  <2>4. u = << <<"s", 0>> >> /\ v = << <<"s", 0>>, <<"dp", 0>> >> BY <2>2, <2>3
  <2>5. call.left = NoWait /\ call.gemm = <<"dp", 0>> BY <2>1, <1>c
  <2> HIDE DEF u, v, call
  <2>6. Len(u) = 1 /\ Len(v) = 2 /\ v[1] = u[1] /\ v[2] = <<"dp", 0>> BY <2>4
  <2>7. Follows(u, call, v)
    BY <1>g, <1>w, <2>5, <2>6 DEF Follows, Kept
  <2> QED BY <2>7 DEF u, v, call
<1>3. Goal(3)
  <2>1. CallAt(k, 3) = Call("none", 0, << >>)
    BY <1>k, CallTable
  <2>2. UnderWay(k, 3) = << <<"s", 0>>, <<"dp", 0>> >>
    BY <1>k, UnderWayTable
  <2>3. UnderWay(k, 4) = << >> /\ 3 # LoopLen(k) /\ 3 + 1 = 4
    BY <1>k, <1>n, UnderWayTable
  <2> DEFINE u == UnderWay(k, 3)
             v == IF 3 = LoopLen(k) THEN << >> ELSE UnderWay(k, 3 + 1)
             call == CallAt(k, 3)
  <2>4. u = << <<"s", 0>>, <<"dp", 0>> >> /\ v = << >> BY <2>2, <2>3
  <2>5. call.left = 0 /\ call.gemm = << >> BY <2>1, <1>c
  <2> HIDE DEF u, v, call
  <2>6. Len(u) = 2 /\ Len(v) = 0 BY <2>4
  <2>7. Follows(u, call, v)
    BY <1>g, <1>w, <2>5, <2>6 DEF Follows, Kept
  <2> QED BY <2>7 DEF u, v, call
<1>4. ASSUME NEW i \in 4 .. c - 2 PROVE Goal(i)
  <2>1. UnderWay(k, i) = << >> /\ UnderWay(k, i + 1) = << >> BY <1>k, UnderWayTable
  <2>2. CallAt(k, i) \in {Call("PdS", NoWait, <<>>), Call("p", NoWait, <<>>)}
    <3>1. CASE c = 6
      <4>1. i = c - 2 /\ SyncsBeforeDs(k)
        BY <1>k, <3>1 DEF DsShared, SyncsBeforeP, SharesP, SyncsBeforeDs
      <4> QED BY <4>1, CallTable
    <3>2. CASE c = 7
      <4>1. (i = c - 2 \/ i = c - 3) /\ SyncsBeforeDs(k) /\ SharesP(k)
        BY <1>k, <3>2 DEF DsShared, SyncsBeforeP, SharesP, SyncsBeforeDs
      <4> QED BY <4>1, CallTable
    <3>3. CASE c = 8
      <4>1. (i = c - 2 \/ i = c - 3 \/ i = c - 4) /\ SyncsBeforeDs(k) /\ SharesP(k) /\ SyncsBeforeP(k)
        BY <1>k, <3>3 DEF DsShared, SyncsBeforeP, SharesP, SyncsBeforeDs
      <4> QED BY <4>1, CallTable
    <3>4. c # 5 BY i \in 4 .. c - 2
    <3> QED BY <1>k, <3>1, <3>2, <3>3, <3>4
  <2>3. i # LoopLen(k) BY <1>k, <1>n
  <2> DEFINE call == CallAt(k, i)
  <2>4. call.left = NoWait /\ call.gemm = << >> BY <2>2, <1>c
  <2> HIDE DEF call
  <2>5. Follows(<< >>, call, << >>) BY <1>w, <2>4, EmptySeq DEF Follows, Kept
  <2> QED BY <2>1, <2>3, <2>5 DEF call
<1>5. Goal(c - 1)
  <2>1. CallAt(k, c - 1) = Call("ds", NoWait, <<"dv", 0>>)
    BY <1>k, CallTable
  <2>2. UnderWay(k, c - 1) = << >>
    BY <1>k, UnderWayTable
  <2>3. UnderWay(k, c) = << <<"dv", 0>> >> /\ c - 1 # LoopLen(k) /\ c - 1 + 1 = c
    BY <1>k, <1>n, UnderWayTable
  <2> DEFINE u == UnderWay(k, c - 1)
             v == IF c - 1 = LoopLen(k) THEN << >> ELSE UnderWay(k, c - 1 + 1)
             call == CallAt(k, c - 1)
  <2>4. u = << >> /\ v = << <<"dv", 0>> >> BY <2>2, <2>3
  <2>5. call.left = NoWait /\ call.gemm = <<"dv", 0>> BY <2>1, <1>c
  <2> HIDE DEF u, v, call
  <2>6. Len(u) = 0 /\ Len(v) = 1 /\ v[1] = <<"dv", 0>> BY <2>4
  <2>7. Follows(u, call, v)
    BY <1>g, <1>w, <2>5, <2>6 DEF Follows, Kept
  <2> QED BY <2>7 DEF u, v, call
<1>6. Goal(c)
  <2>1. CallAt(k, c) = Call("PdS", NoWait, << >>)
    BY <1>k, CallTable
  <2>2. UnderWay(k, c) = << <<"dv", 0>> >>
    BY <1>k, UnderWayTable
  <2>3. UnderWay(k, c + 1) = << <<"dv", 0>> >> /\ c # LoopLen(k) /\ c + 1 = c + 1
    BY <1>k, <1>n, UnderWayTable
  <2> DEFINE u == UnderWay(k, c)
             v == IF c = LoopLen(k) THEN << >> ELSE UnderWay(k, c + 1)
             call == CallAt(k, c)
  <2>4. u = << <<"dv", 0>> >> /\ v = << <<"dv", 0>> >> BY <2>2, <2>3
  <2>5. call.left = NoWait /\ call.gemm = << >> BY <2>1, <1>c
  <2> HIDE DEF u, v, call
  <2>6. Len(u) = 1 /\ Len(v) = 1 /\ v[1] = u[1] BY <2>4
  <2>7. Follows(u, call, v)
    BY <1>g, <1>w, <2>5, <2>6 DEF Follows, Kept
  <2> QED BY <2>7 DEF u, v, call
<1>7. Goal(c + 1)
  <2>1. CallAt(k, c + 1) = Call("none", NoWait, <<"dq", 0>>)
    BY <1>k, CallTable
  <2>2. UnderWay(k, c + 1) = << <<"dv", 0>> >>
    BY <1>k, UnderWayTable
  <2>3. UnderWay(k, c + 2) = << <<"dv", 0>>, <<"dq", 0>> >> /\ c + 1 # LoopLen(k) /\ c + 1 + 1 = c + 2
    BY <1>k, <1>n, UnderWayTable
  <2> DEFINE u == UnderWay(k, c + 1)
             v == IF c + 1 = LoopLen(k) THEN << >> ELSE UnderWay(k, c + 1 + 1)
             call == CallAt(k, c + 1)
  <2>4. u = << <<"dv", 0>> >> /\ v = << <<"dv", 0>>, <<"dq", 0>> >> BY <2>2, <2>3
  <2>5. call.left = NoWait /\ call.gemm = <<"dq", 0>> BY <2>1, <1>c
  <2> HIDE DEF u, v, call
  <2>6. Len(u) = 1 /\ Len(v) = 2 /\ v[1] = u[1] /\ v[2] = <<"dq", 0>> BY <2>4
  <2>7. Follows(u, call, v)
    BY <1>g, <1>w, <2>5, <2>6 DEF Follows, Kept
  <2> QED BY <2>7 DEF u, v, call
<1>8. CASE ~k.Slice_dQKV_Mma
  <2>1. Goal(c + 2)
    <3>1. CallAt(k, c + 2) = Call("release_do", 1, <<"dk", 0>>)
      BY <1>k, <1>8, CallTable
    <3>2. UnderWay(k, c + 2) = << <<"dv", 0>>, <<"dq", 0>> >>
      BY <1>k, <1>8, UnderWayTable
    <3>3. UnderWay(k, c + 3) = << <<"dq", 0>>, <<"dk", 0>> >> /\ c + 2 # LoopLen(k) /\ c + 2 + 1 = c + 3
      BY <1>k, <1>n, <1>8, UnderWayTable
    <3> DEFINE u == UnderWay(k, c + 2)
               v == IF c + 2 = LoopLen(k) THEN << >> ELSE UnderWay(k, c + 2 + 1)
               call == CallAt(k, c + 2)
    <3>4. u = << <<"dv", 0>>, <<"dq", 0>> >> /\ v = << <<"dq", 0>>, <<"dk", 0>> >> BY <3>2, <3>3
    <3>5. call.left = 1 /\ call.gemm = <<"dk", 0>> BY <3>1, <1>c
    <3> HIDE DEF u, v, call
    <3>6. Len(u) = 2 /\ Len(v) = 2 /\ v[1] = u[2] /\ v[2] = <<"dk", 0>> BY <3>4
    <3>7. Follows(u, call, v)
      BY <1>g, <1>w, <3>5, <3>6 DEF Follows, Kept
    <3> QED BY <3>7 DEF u, v, call
  <2>2. Goal(c + 3)
    <3>1. CallAt(k, c + 3) = Call("dq", 1, << >>)
      BY <1>k, <1>8, CallTable
    <3>2. UnderWay(k, c + 3) = << <<"dq", 0>>, <<"dk", 0>> >>
      BY <1>k, <1>8, UnderWayTable
    <3>3. UnderWay(k, c + 4) = << <<"dk", 0>> >> /\ c + 3 # LoopLen(k) /\ c + 3 + 1 = c + 4
      BY <1>k, <1>n, <1>8, UnderWayTable
    <3> DEFINE u == UnderWay(k, c + 3)
               v == IF c + 3 = LoopLen(k) THEN << >> ELSE UnderWay(k, c + 3 + 1)
               call == CallAt(k, c + 3)
    <3>4. u = << <<"dq", 0>>, <<"dk", 0>> >> /\ v = << <<"dk", 0>> >> BY <3>2, <3>3
    <3>5. call.left = 1 /\ call.gemm = << >> BY <3>1, <1>c
    <3> HIDE DEF u, v, call
    <3>6. Len(u) = 2 /\ Len(v) = 1 /\ v[1] = u[2] BY <3>4
    <3>7. Follows(u, call, v)
      BY <1>g, <1>w, <3>5, <3>6 DEF Follows, Kept
    <3> QED BY <3>7 DEF u, v, call
  <2>3. Goal(c + 4)
    <3>1. CallAt(k, c + 4) = Call("release_q", 0, << >>)
      BY <1>k, <1>8, CallTable
    <3>2. UnderWay(k, c + 4) = << <<"dk", 0>> >>
      BY <1>k, <1>8, UnderWayTable
    <3>3. c + 4 = LoopLen(k) BY <1>k, <1>n, <1>8
    <3> DEFINE u == UnderWay(k, c + 4)
               v == IF c + 4 = LoopLen(k) THEN << >> ELSE UnderWay(k, c + 4 + 1)
               call == CallAt(k, c + 4)
    <3>4. u = << <<"dk", 0>> >> /\ v = << >> BY <3>2, <3>3
    <3>5. call.left = 0 /\ call.gemm = << >> BY <3>1, <1>c
    <3> HIDE DEF u, v, call
    <3>6. Len(u) = 1 /\ Len(v) = 0 BY <3>4
    <3>7. Follows(u, call, v)
      BY <1>g, <1>w, <3>5, <3>6 DEF Follows, Kept
    <3> QED BY <3>7 DEF u, v, call
  <2>4. pc \in {1, 2, 3, c - 1, c, c + 1, c + 2, c + 3, c + 4} \/ pc \in 4 .. c - 2
    BY <1>k, <1>n, <1>8
  <2> QED BY <1>1, <1>2, <1>3, <1>4, <1>5, <1>6, <1>7, <2>1, <2>2, <2>3, <2>4
<1>9. CASE k.Slice_dQKV_Mma
  <2>1. Goal(c + 2)
    <3>1. CallAt(k, c + 2) = Call("none", NoWait, <<"dv", 1>>)
      BY <1>k, <1>9, CallTable
    <3>2. UnderWay(k, c + 2) = << <<"dv", 0>>, <<"dq", 0>> >>
      BY <1>k, <1>9, UnderWayTable
    <3>3. UnderWay(k, c + 3) = << <<"dv", 0>>, <<"dq", 0>>, <<"dv", 1>> >> /\ c + 2 # LoopLen(k) /\ c + 2 + 1 = c + 3
      BY <1>k, <1>n, <1>9, UnderWayTable
    <3> DEFINE u == UnderWay(k, c + 2)
               v == IF c + 2 = LoopLen(k) THEN << >> ELSE UnderWay(k, c + 2 + 1)
               call == CallAt(k, c + 2)
    <3>4. u = << <<"dv", 0>>, <<"dq", 0>> >> /\ v = << <<"dv", 0>>, <<"dq", 0>>, <<"dv", 1>> >>
      BY <3>2, <3>3
    <3>5. call.left = NoWait /\ call.gemm = <<"dv", 1>> BY <3>1, <1>c
    <3> HIDE DEF u, v, call
    <3>6. Len(u) = 2 /\ Len(v) = 3 /\ v[1] = u[1] /\ v[2] = u[2] /\ v[3] = <<"dv", 1>> BY <3>4
    <3>7. Follows(u, call, v)
      BY <1>g, <1>w, <3>5, <3>6 DEF Follows, Kept
    <3> QED BY <3>7 DEF u, v, call
  <2>2. Goal(c + 3)
    <3>1. CallAt(k, c + 3) = Call("dq", 1, <<"dk", 0>>)
      BY <1>k, <1>9, CallTable
    <3>2. UnderWay(k, c + 3) = << <<"dv", 0>>, <<"dq", 0>>, <<"dv", 1>> >>
      BY <1>k, <1>9, UnderWayTable
    <3>3. UnderWay(k, c + 4) = << <<"dv", 1>>, <<"dk", 0>> >> /\ c + 3 # LoopLen(k) /\ c + 3 + 1 = c + 4
      BY <1>k, <1>n, <1>9, UnderWayTable
    <3> DEFINE u == UnderWay(k, c + 3)
               v == IF c + 3 = LoopLen(k) THEN << >> ELSE UnderWay(k, c + 3 + 1)
               call == CallAt(k, c + 3)
    <3>4. u = << <<"dv", 0>>, <<"dq", 0>>, <<"dv", 1>> >> /\ v = << <<"dv", 1>>, <<"dk", 0>> >>
      BY <3>2, <3>3
    <3>5. call.left = 1 /\ call.gemm = <<"dk", 0>> BY <3>1, <1>c
    <3> HIDE DEF u, v, call
    <3>6. Len(u) = 3 /\ Len(v) = 2 /\ v[1] = u[3] /\ v[2] = <<"dk", 0>> BY <3>4
    <3>7. Follows(u, call, v)
      BY <1>g, <1>w, <3>5, <3>6 DEF Follows, Kept
    <3> QED BY <3>7 DEF u, v, call
  <2>3. Goal(c + 4)
    <3>1. CallAt(k, c + 4) = Call("release_do", 1, <<"dq", 1>>)
      BY <1>k, <1>9, CallTable
    <3>2. UnderWay(k, c + 4) = << <<"dv", 1>>, <<"dk", 0>> >>
      BY <1>k, <1>9, UnderWayTable
    <3>3. UnderWay(k, c + 5) = << <<"dk", 0>>, <<"dq", 1>> >> /\ c + 4 # LoopLen(k) /\ c + 4 + 1 = c + 5
      BY <1>k, <1>n, <1>9, UnderWayTable
    <3> DEFINE u == UnderWay(k, c + 4)
               v == IF c + 4 = LoopLen(k) THEN << >> ELSE UnderWay(k, c + 4 + 1)
               call == CallAt(k, c + 4)
    <3>4. u = << <<"dv", 1>>, <<"dk", 0>> >> /\ v = << <<"dk", 0>>, <<"dq", 1>> >> BY <3>2, <3>3
    <3>5. call.left = 1 /\ call.gemm = <<"dq", 1>> BY <3>1, <1>c
    <3> HIDE DEF u, v, call
    <3>6. Len(u) = 2 /\ Len(v) = 2 /\ v[1] = u[2] /\ v[2] = <<"dq", 1>> BY <3>4
    <3>7. Follows(u, call, v)
      BY <1>g, <1>w, <3>5, <3>6 DEF Follows, Kept
    <3> QED BY <3>7 DEF u, v, call
  <2>4. Goal(c + 5)
    <3>1. CallAt(k, c + 5) = Call("dq", 0, <<"dk", 1>>)
      BY <1>k, <1>9, CallTable
    <3>2. UnderWay(k, c + 5) = << <<"dk", 0>>, <<"dq", 1>> >>
      BY <1>k, <1>9, UnderWayTable
    <3>3. UnderWay(k, c + 6) = << <<"dk", 1>> >> /\ c + 5 # LoopLen(k) /\ c + 5 + 1 = c + 6
      BY <1>k, <1>n, <1>9, UnderWayTable
    <3> DEFINE u == UnderWay(k, c + 5)
               v == IF c + 5 = LoopLen(k) THEN << >> ELSE UnderWay(k, c + 5 + 1)
               call == CallAt(k, c + 5)
    <3>4. u = << <<"dk", 0>>, <<"dq", 1>> >> /\ v = << <<"dk", 1>> >> BY <3>2, <3>3
    <3>5. call.left = 0 /\ call.gemm = <<"dk", 1>> BY <3>1, <1>c
    <3> HIDE DEF u, v, call
    <3>6. Len(u) = 2 /\ Len(v) = 1 /\ v[1] = <<"dk", 1>> BY <3>4
    <3>7. Follows(u, call, v)
      BY <1>g, <1>w, <3>5, <3>6 DEF Follows, Kept
    <3> QED BY <3>7 DEF u, v, call
  <2>5. Goal(c + 6)
    <3>1. CallAt(k, c + 6) = Call("release_q", 0, << >>)
      BY <1>k, <1>9, CallTable
    <3>2. UnderWay(k, c + 6) = << <<"dk", 1>> >>
      BY <1>k, <1>9, UnderWayTable
    <3>3. c + 6 = LoopLen(k) BY <1>k, <1>n, <1>9
    <3> DEFINE u == UnderWay(k, c + 6)
               v == IF c + 6 = LoopLen(k) THEN << >> ELSE UnderWay(k, c + 6 + 1)
               call == CallAt(k, c + 6)
    <3>4. u = << <<"dk", 1>> >> /\ v = << >> BY <3>2, <3>3
    <3>5. call.left = 0 /\ call.gemm = << >> BY <3>1, <1>c
    <3> HIDE DEF u, v, call
    <3>6. Len(u) = 1 /\ Len(v) = 0 BY <3>4
    <3>7. Follows(u, call, v)
      BY <1>g, <1>w, <3>5, <3>6 DEF Follows, Kept
    <3> QED BY <3>7 DEF u, v, call
  <2>6. pc \in {1, 2, 3, c - 1, c, c + 1, c + 2, c + 3, c + 4, c + 5, c + 6} \/ pc \in 4 .. c - 2
    BY <1>k, <1>n, <1>9
  <2> QED BY <1>1, <1>2, <1>3, <1>4, <1>5, <1>6, <1>7, <2>1, <2>2, <2>3, <2>4, <2>5, <2>6
<1> QED BY <1>8, <1>9

\* What the call at a place does.
LEMMA CallKinds ==
  ASSUME NEW k \in CtaKernels, NEW pc \in 1 .. LoopLen(k), NEW c, c = DsShared(k), NEW does, does = CallAt(k, pc).does
  PROVE  /\ does \in {"q", "do", "none", "PdS", "p", "ds", "dq", "release_do", "release_q"}
         /\ does = "q" <=> pc = 1
         /\ does = "do" <=> pc = 2
         /\ does = "p" <=> SharesP(k) /\ pc = c - 3
         /\ does = "ds" <=> pc = c - 1
         /\ does = "PdS" <=> pc = c \/ (SyncsBeforeP(k) /\ pc = c - 4) \/ (SyncsBeforeDs(k) /\ pc = c - 2)
         /\ does = "dq" <=> pc = c + 3 \/ (k.Slice_dQKV_Mma /\ pc = c + 5)
         /\ does = "release_do" <=> pc = ReleaseDo(k)
         /\ does = "release_q" <=> pc = LoopLen(k)
<1>k. /\ c \in 5 .. 8 /\ k.Slice_dQKV_Mma \in BOOLEAN /\ (SyncsBeforeDs(k) => c >= 6) /\ (SharesP(k) => c >= 7)
      /\ (SyncsBeforeP(k) => c = 8)
  BY KernelTypes
<1>n. LoopLen(k) = c + (IF k.Slice_dQKV_Mma THEN 6 ELSE 4) /\ ReleaseDo(k) = c + (IF k.Slice_dQKV_Mma THEN 4 ELSE 2)
  BY DEF LoopLen, ReleaseDo
<1>d. \A x, left, gemm : Call(x, left, gemm).does = x BY DEF Call
<1>s. /\ c = 5 => ~SyncsBeforeDs(k) /\ ~SharesP(k) /\ ~SyncsBeforeP(k)
      /\ c = 6 => SyncsBeforeDs(k) /\ ~SharesP(k) /\ ~SyncsBeforeP(k)
      /\ c = 7 => SyncsBeforeDs(k) /\ SharesP(k) /\ ~SyncsBeforeP(k)
      /\ c = 8 => SyncsBeforeDs(k) /\ SharesP(k) /\ SyncsBeforeP(k)
  BY <1>k DEF DsShared, SyncsBeforeP, SharesP, SyncsBeforeDs
<1>1. CASE pc = 1
  <2>1. does = "q" BY <1>1, <1>d, CallTable
  <2> QED BY <2>1, <1>1, <1>k, <1>n
<1>2. CASE pc = 2
  <2>1. does = "do" BY <1>2, <1>d, CallTable
  <2> QED BY <2>1, <1>2, <1>k, <1>n
<1>3. CASE pc = 3
  <2>1. does = "none" BY <1>3, <1>d, CallTable
  <2> QED BY <2>1, <1>3, <1>k, <1>n
<1>4. CASE pc \in 4 .. c - 2
  <2>1. CASE SyncsBeforeP(k) /\ pc = c - 4
    <3>1. does = "PdS" BY <2>1, <1>d, CallTable
    <3> QED BY <3>1, <2>1, <1>k, <1>n
  <2>2. CASE SharesP(k) /\ pc = c - 3
    <3>1. does = "p" BY <2>2, <1>d, CallTable
    <3> QED BY <3>1, <2>2, <1>k, <1>n
  <2>3. CASE SyncsBeforeDs(k) /\ pc = c - 2
    <3>1. does = "PdS" BY <2>3, <1>d, CallTable
    <3> QED BY <3>1, <2>3, <1>k, <1>n
  <2> QED BY <1>k, <1>s, <1>4, <2>1, <2>2, <2>3
<1>5. CASE pc = c - 1
  <2>1. does = "ds" BY <1>5, <1>d, CallTable
  <2> QED BY <2>1, <1>5, <1>k, <1>n
<1>6. CASE pc = c
  <2>1. does = "PdS" BY <1>6, <1>d, CallTable
  <2> QED BY <2>1, <1>6, <1>k, <1>n
<1>7. CASE pc = c + 1
  <2>1. does = "none" BY <1>7, <1>d, CallTable
  <2> QED BY <2>1, <1>7, <1>k, <1>n
<1>8. CASE pc \in c + 2 .. LoopLen(k) /\ ~k.Slice_dQKV_Mma
  <2>1. pc \in {c + 2, c + 3, c + 4} BY <1>k, <1>n, <1>8
  <2>2. /\ pc = c + 2 => does = "release_do"
        /\ pc = c + 3 => does = "dq"
        /\ pc = c + 4 => does = "release_q"
    BY <1>8, <1>d, CallTable
  <2> QED BY <2>1, <2>2, <1>8, <1>k, <1>n
<1>9. CASE pc \in c + 2 .. LoopLen(k) /\ k.Slice_dQKV_Mma
  <2>1. pc \in {c + 2, c + 3, c + 4, c + 5, c + 6} BY <1>k, <1>n, <1>9
  <2>2. /\ pc = c + 2 => does = "none"
        /\ pc = c + 3 => does = "dq"
        /\ pc = c + 4 => does = "release_do"
        /\ pc = c + 5 => does = "dq"
        /\ pc = c + 6 => does = "release_q"
    BY <1>9, <1>d, CallTable
  <2> QED BY <2>1, <2>2, <1>9, <1>k, <1>n
<1> QED BY <1>k, <1>n, <1>1, <1>2, <1>3, <1>4, <1>5, <1>6, <1>7, <1>8, <1>9

LEMMA Advances ==
  ASSUME kernel \in CtaKernels
  PROVE  /\ \A st \in [index : {0, 1}, lap : Nat] :
              /\ QPipe!Advance(st) \in [index : {0, 1}, lap : Nat]
              /\ QPipe!Advance(st).lap * 2 + QPipe!Advance(st).index = st.lap * 2 + st.index + 1
         /\ \A st \in [index : 0 .. kernel.kStages_dO - 1, lap : Nat] :
              /\ DoPipe!Advance(st) \in [index : 0 .. kernel.kStages_dO - 1, lap : Nat]
              /\ DoPipe!Advance(st).lap * kernel.kStages_dO + DoPipe!Advance(st).index
                   = st.lap * kernel.kStages_dO + st.index + 1
<1>1. kernel.kStages_dO \in {1, 2} BY KernelTypes
<1>2. ASSUME NEW st \in [index : {0, 1}, lap : Nat]
      PROVE  /\ QPipe!Advance(st) \in [index : {0, 1}, lap : Nat]
             /\ QPipe!Advance(st).lap * 2 + QPipe!Advance(st).index = st.lap * 2 + st.index + 1
  <2>1. CASE st.index = 0 BY <2>1 DEF QPipe!Advance
  <2>2. CASE st.index = 1 BY <2>2 DEF QPipe!Advance
  <2> QED BY <2>1, <2>2
<1>3. CASE kernel.kStages_dO = 2
  <2>1. ASSUME NEW st \in [index : {0, 1}, lap : Nat]
        PROVE  /\ DoPipe!Advance(st) \in [index : {0, 1}, lap : Nat]
               /\ DoPipe!Advance(st).lap * 2 + DoPipe!Advance(st).index = st.lap * 2 + st.index + 1
    <3>1. CASE st.index = 0 BY <1>3, <3>1 DEF DoPipe!Advance
    <3>2. CASE st.index = 1 BY <1>3, <3>2 DEF DoPipe!Advance
    <3> QED BY <3>1, <3>2
  <2>2. 0 .. kernel.kStages_dO - 1 = {0, 1} BY <1>3
  <2> QED BY <1>2, <1>3, <2>1, <2>2
<1>4. CASE kernel.kStages_dO = 1
  <2>1. ASSUME NEW st \in [index : {0}, lap : Nat]
        PROVE  /\ DoPipe!Advance(st) \in [index : {0}, lap : Nat]
               /\ DoPipe!Advance(st).lap * 1 + DoPipe!Advance(st).index = st.lap * 1 + st.index + 1
    BY <1>4 DEF DoPipe!Advance
  <2>2. 0 .. kernel.kStages_dO - 1 = {0} BY <1>4
  <2> QED BY <1>2, <1>4, <2>1, <2>2
<1> QED BY <1>1, <1>3, <1>4

LEMMA GemmsFollow ==
  ASSUME NEW g \in Seq(GemmRecord), NEW u, NEW v, NEW call, Follows(u, call, v), Len(g) = Len(u),
         NEW c, c.m \in Nat, c.read.index \in Nat, c.read_do.index \in Nat,
         \A i \in 1 .. Len(g) : g[i] = GemmOf(c, u[i])
  PROVE  /\ AfterGemms(g, call, c) \in Seq(GemmRecord) /\ Len(AfterGemms(g, call, c)) = Len(v)
         /\ \A i \in 1 .. Len(v) : AfterGemms(g, call, c)[i] = GemmOf(c, v[i])
<1> DEFINE h == AfterGemms(g, call, c)
           issued == Issued(call, c)
           e == EndedLen(g, call.left)
           kept == Kept(u, call.left)
<1>1. /\ call.left \in {0, 1, NoWait} /\ call.gemm \in {<< >>} \cup GemmKinds /\ Len(u) \in 0 .. 3 /\ kept \in 0 .. 2
      /\ call.gemm = << >> => Len(v) = kept
      /\ call.gemm # << >> => Len(v) = kept + 1 /\ v[kept + 1] = call.gemm
      /\ \A i \in {1, 2} : i <= kept => v[i] = u[Len(u) - kept + i]
  BY DEF Follows
<1>2. call.left \in Nat /\ e = Len(u) - kept /\ Len(u) - e = kept
  BY <1>1 DEF NoWait, EndedLen, Kept
<1>3. /\ issued \in Seq(GemmRecord) /\ Len(issued) = (IF call.gemm = << >> THEN 0 ELSE 1)
      /\ call.gemm # << >> => issued[1] = GemmOf(c, call.gemm)
  <2>1. CASE call.gemm = << >> BY <2>1, EmptySeq DEF Issued
  <2>2. CASE call.gemm # << >>
    <3>1. call.gemm[1] \in {"s", "dp", "dv", "dq", "dk"} /\ call.gemm[2] \in {0, 1}
      BY <1>1, <2>2 DEF GemmKinds
    <3>2. GemmOf(c, call.gemm) \in GemmRecord BY <3>1 DEF GemmOf, GemmRecord
    <3>3. issued = <<GemmOf(c, call.gemm)>> BY <2>2 DEF Issued
    <3> HIDE DEF issued
    <3> QED BY <2>2, <3>2, <3>3
  <2> QED BY <2>1, <2>2
<1>4. h = Rest(g, call.left, issued) BY DEF AfterGemms
<1> HIDE DEF issued, h
<1>5. /\ h \in Seq(GemmRecord)
      /\ Len(h) = Len(g) - e + Len(issued)
      /\ \A i \in 1 .. Len(g) - e : h[i] = g[i + e]
      /\ \A i \in 1 .. Len(issued) : h[Len(g) - e + i] = issued[i]
  BY ONLY <1>2, <1>3, <1>4, GemmsAfter, g \in Seq(GemmRecord)
<1> HIDE DEF e, kept
<1>a. kept \in 0 .. 2 /\ Len(u) \in 0 .. 3 /\ e = Len(u) - kept /\ Len(g) = Len(u) /\ kept <= Len(u)
  <2>1. call.left \in {0, 1, 9} BY <1>1 DEF NoWait
  <2>2. kept = IF Len(u) > call.left THEN call.left ELSE Len(u) BY DEF kept, Kept
  <2>3. kept \in 0 .. 2 /\ Len(u) \in 0 .. 3 /\ e = Len(u) - kept BY <1>1, <1>2
  <2>4. kept <= Len(u) BY ONLY <2>1, <2>2, <2>3
  <2> QED BY <2>3, <2>4
<1>v. /\ call.gemm = << >> => Len(v) = kept
      /\ call.gemm # << >> => Len(v) = kept + 1 /\ v[kept + 1] = call.gemm
  BY <1>1
<1>j. Len(issued) = (IF call.gemm = << >> THEN 0 ELSE 1) BY <1>3
<1>i. Len(issued) \in {0, 1} /\ Len(v) = kept + Len(issued) /\ (call.gemm # << >> <=> Len(issued) = 1)
  <2>1. CASE call.gemm = << >> BY ONLY <1>a, <1>v, <1>j, <2>1
  <2>2. CASE call.gemm # << >> BY ONLY <1>a, <1>v, <1>j, <2>2
  <2> QED BY <2>1, <2>2
<1>6. Len(h) = Len(v)
  <2>1. Len(h) = Len(g) - e + Len(issued) BY <1>5
  <2> QED BY ONLY <1>a, <1>i, <2>1
<1>7. ASSUME NEW i \in 1 .. kept PROVE h[i] = GemmOf(c, v[i])
  <2>1. i \in 1 .. Len(g) - e /\ i \in {1, 2} /\ i <= kept /\ i + e \in 1 .. Len(g) /\ Len(u) - kept + i = i + e
    BY ONLY <1>a, i \in 1 .. kept
  <2>2. h[i] = g[i + e] /\ g[i + e] = GemmOf(c, u[i + e]) BY <1>5, <2>1
  <2>3. v[i] = u[i + e] BY <1>1, <2>1
  <2> QED BY <2>2, <2>3
<1>8. ASSUME call.gemm # << >> PROVE h[kept + 1] = GemmOf(c, v[kept + 1])
  <2>1. 1 \in 1 .. Len(issued) /\ Len(g) - e + 1 = kept + 1 BY ONLY <1>a, <1>i, <1>8
  <2>2. h[kept + 1] = issued[1] BY <1>5, <2>1
  <2>3. v[kept + 1] = call.gemm /\ issued[1] = GemmOf(c, call.gemm) BY <1>v, <1>3, <1>8
  <2> QED BY ONLY <2>2, <2>3
<1>9. ASSUME NEW i \in 1 .. Len(v) PROVE h[i] = GemmOf(c, v[i])
  <2>1. i \in 1 .. kept \/ (Len(issued) = 1 /\ i = kept + 1)
    <3>1. i \in 1 .. kept + Len(issued) BY <1>i
    <3>2. Len(issued) = 0 \/ Len(issued) = 1 BY <1>i
    <3>3. kept \in Nat BY <1>a
    <3>4. CASE Len(issued) = 0 BY ONLY <3>1, <3>3, <3>4
    <3>5. CASE Len(issued) = 1 BY ONLY <3>1, <3>3, <3>5
    <3> QED BY <3>2, <3>4, <3>5
  <2> QED BY <1>7, <1>8, <1>i, <2>1
<1>10. h \in Seq(GemmRecord) /\ Len(h) = Len(v) /\ \A i \in 1 .. Len(v) : h[i] = GemmOf(c, v[i])
  BY <1>5, <1>6, <1>9
<1> QED BY <1>10 DEF h

LEMMA LoopStep ==
  ASSUME kernel \in CtaKernels, NEW w \in WGs, Place(kernel, w, mma[w]), mma[w].at = "loop"
  PROVE  LET c == mma[w]
             d == AfterCall(w)
         IN  /\ CallOf(w) = CallAt(kernel, c.pc)
             /\ Place(kernel, w, d)
             /\ c.pc # LoopLen(kernel) =>
                  d.pc = c.pc + 1 /\ d.m = c.m /\ d.at = "loop" /\ d.read = c.read /\ d.read_do = c.read_do
             /\ c.pc = LoopLen(kernel) =>
                  /\ d.pc = 1 /\ d.m = c.m + 1 /\ d.at = IF d.m = kernel.blocks THEN "epilogue" ELSE "loop"
                  /\ d.read = QPipe!Advance(c.read) /\ d.read_do = DoPipe!Advance(c.read_do)
<1> DEFINE c == mma[w]
           d == AfterCall(w)
           call == CallOf(w)
           u == UnderWay(kernel, c.pc)
           v == IF c.pc = LoopLen(kernel) THEN << >> ELSE UnderWay(kernel, c.pc + 1)
<1>k. LoopLen(kernel) \in 9 .. 14 /\ kernel.blocks \in Nat /\ kernel.kStages_dO \in {1, 2}
  BY KernelTypes
<1>p. /\ DOMAIN c = {"at", "pc", "m", "read", "read_do", "gemms", "dk", "dv"}
      /\ c.m \in Nat /\ c.m < kernel.blocks /\ c.pc \in 1 .. LoopLen(kernel)
  BY DEF Place
<1>r. /\ c.read \in [index : {0, 1}, lap : Nat] /\ c.read.lap * 2 + c.read.index = c.m
      /\ c.read_do \in [index : 0 .. kernel.kStages_dO - 1, lap : Nat]
      /\ c.read_do.lap * kernel.kStages_dO + c.read_do.index = c.m
  BY DEF Place
<1>g. /\ c.gemms \in Seq(GemmRecord) /\ Len(c.gemms) = Len(u) /\ \A i \in 1 .. Len(c.gemms) : c.gemms[i] = GemmOf(c, u[i])
  BY DEF Place
<1>1. call = CallAt(kernel, c.pc)
  <2>1. Loop[c.pc] = CallAt(kernel, c.pc) BY <1>p, LoopCalls
  <2> QED BY <2>1 DEF CallOf
<1>2. call.does = "release_q" <=> c.pc = LoopLen(kernel) BY <1>1, <1>p, CallKinds
<1>3. /\ DOMAIN d = DOMAIN c
      /\ d.gemms = AfterGemms(c.gemms, call, c)
      /\ d.read_do = (IF call.does = "release_q" THEN DoPipe!Advance(c.read_do) ELSE c.read_do)
      /\ d.read = (IF call.does = "release_q" THEN QPipe!Advance(c.read) ELSE c.read)
      /\ c.pc = LoopLen(kernel) => d.pc = 1 /\ d.m = c.m + 1 /\ d.at = IF c.m = LastM THEN "epilogue" ELSE "loop"
      /\ c.pc # LoopLen(kernel) => d.pc = c.pc + 1 /\ d.m = c.m /\ d.at = "loop"
  BY AfterCallFields
<1>4. Follows(u, call, v) BY <1>p, <1>1, UnderWayFollows
<1>l. c.at = "loop" OBVIOUS
<1> HIDE DEF u, v, call, d, c
<1>5. d.gemms \in Seq(GemmRecord) /\ Len(d.gemms) = Len(v) /\ \A i \in 1 .. Len(d.gemms) : d.gemms[i] = GemmOf(c, v[i])
  <2>2. c.read.index \in Nat /\ c.read_do.index \in Nat BY <1>k, <1>r
  <2>3. /\ AfterGemms(c.gemms, call, c) \in Seq(GemmRecord) /\ Len(AfterGemms(c.gemms, call, c)) = Len(v)
        /\ \A i \in 1 .. Len(v) : AfterGemms(c.gemms, call, c)[i] = GemmOf(c, v[i])
    BY <1>p, <1>g, <1>4, <2>2, GemmsFollow
  <2> QED BY <1>3, <2>3
<1>6. CASE c.pc # LoopLen(kernel)
  <2>1. d.pc = c.pc + 1 /\ d.m = c.m /\ d.at = "loop" /\ d.read = c.read /\ d.read_do = c.read_do
    BY <1>2, <1>3, <1>6
  <2>2. v = UnderWay(kernel, d.pc) BY <1>6, <2>1 DEF v
  <2>3. \A x : GemmOf(d, x) = GemmOf(c, x) BY <2>1 DEF GemmOf
  <2>4. d.pc \in 1 .. LoopLen(kernel) /\ d.pc \in Nat BY <1>k, <1>p, <1>6, <2>1
  <2>5. /\ Len(d.gemms) = Len(UnderWay(kernel, d.pc))
        /\ \A i \in 1 .. Len(d.gemms) : d.gemms[i] = GemmOf(d, UnderWay(kernel, d.pc)[i])
    BY <1>5, <2>2, <2>3
  <2>6. Place(kernel, w, d)
    BY <1>p, <1>r, <1>3, <1>5, <2>1, <2>4, <2>5 DEF Place, InEpilogue
  <2> QED BY <1>1, <1>6, <2>1, <2>6 DEF call, d, c
<1>7. CASE c.pc = LoopLen(kernel)
  <2>1. d.pc = 1 /\ d.m = c.m + 1 /\ d.read = QPipe!Advance(c.read) /\ d.read_do = DoPipe!Advance(c.read_do)
    BY <1>2, <1>3, <1>7
  <2>2. d.at = IF d.m = kernel.blocks THEN "epilogue" ELSE "loop"
    BY <1>k, <1>p, <1>3, <1>7, <2>1 DEF LastM
  <2>3. Len(d.gemms) = 0 /\ d.gemms = << >> BY <1>5, <1>7, EmptySeq DEF v
  <2>4. UnderWay(kernel, 1) = << >> BY UnderWayTable
  <2>5. /\ Len(d.gemms) = Len(UnderWay(kernel, d.pc))
        /\ \A i \in 1 .. Len(d.gemms) : d.gemms[i] = GemmOf(d, UnderWay(kernel, d.pc)[i])
    BY <2>1, <2>3, <2>4
  <2>6. /\ d.read \in [index : {0, 1}, lap : Nat] /\ d.read.lap * 2 + d.read.index = d.m
        /\ d.read_do \in [index : 0 .. kernel.kStages_dO - 1, lap : Nat]
        /\ d.read_do.lap * kernel.kStages_dO + d.read_do.index = d.m
    <3>1. /\ QPipe!Advance(c.read) \in [index : {0, 1}, lap : Nat]
          /\ QPipe!Advance(c.read).lap * 2 + QPipe!Advance(c.read).index = c.m + 1
      BY <1>r, Advances
    <3>2. /\ DoPipe!Advance(c.read_do) \in [index : 0 .. kernel.kStages_dO - 1, lap : Nat]
          /\ DoPipe!Advance(c.read_do).lap * kernel.kStages_dO + DoPipe!Advance(c.read_do).index = c.m + 1
      BY <1>r, Advances
    <3> QED BY <2>1, <3>1, <3>2
  <2>7. d.m \in Nat /\ (d.at = "loop" => d.m < kernel.blocks) /\ EpilogueLen(kernel, w) \in 2 .. 10
        /\ d.pc \in 1 .. LoopLen(kernel) /\ d.pc \in 1 .. EpilogueLen(kernel, w) /\ d.pc \in Nat /\ d.m > 0
        /\ d.at \in {"loop", "epilogue"} /\ (d.at = "epilogue" => d.m = kernel.blocks)
    BY <1>k, <1>p, <2>1, <2>2, EpilogueCalls
  <2>8. Place(kernel, w, d)
    BY <1>p, <1>3, <1>5, <2>3, <2>5, <2>6, <2>7 DEF Place, InEpilogue
  <2> QED BY <1>1, <1>7, <2>1, <2>2, <2>8 DEF call, d, c
<1> QED BY <1>6, <1>7

LEMMA EpilogueStep ==
  ASSUME kernel \in CtaKernels, NEW w \in WGs, Place(kernel, w, mma[w]), mma[w].at = "epilogue"
  PROVE  LET c == mma[w]
             d == AfterCall(w)
         IN  /\ CallOf(w) = Call(EpilogueDoes(kernel, w)[c.pc], NoWait, << >>)
             /\ Place(kernel, w, d)
             /\ d.pc = c.pc + 1 /\ d.m = c.m /\ d.read = c.read /\ d.read_do = c.read_do
             /\ d.at = IF c.pc = EpilogueLen(kernel, w) THEN "exit" ELSE "epilogue"
<1> DEFINE c == mma[w]
           d == AfterCall(w)
           call == CallOf(w)
           n == EpilogueLen(kernel, w)
<1>k. n \in 2 .. 10 /\ kernel.blocks \in Nat BY KernelTypes, EpilogueCalls
<1>p. /\ DOMAIN c = {"at", "pc", "m", "read", "read_do", "gemms", "dk", "dv"}
      /\ c.m \in Nat /\ c.m = kernel.blocks /\ c.m > 0 /\ c.pc \in 1 .. n /\ c.gemms = << >>
  BY DEF Place, InEpilogue
<1>r. /\ c.read \in [index : {0, 1}, lap : Nat] /\ c.read.lap * 2 + c.read.index = c.m
      /\ c.read_do \in [index : 0 .. kernel.kStages_dO - 1, lap : Nat]
      /\ c.read_do.lap * kernel.kStages_dO + c.read_do.index = c.m
  BY DEF Place, InEpilogue
<1>1. call = Call(EpilogueDoes(kernel, w)[c.pc], NoWait, << >>)
  <2>1. Epilogue(w)[c.pc] = Call(EpilogueDoes(kernel, w)[c.pc], NoWait, << >>)
    BY <1>p, EpilogueCalls
  <2> QED BY <2>1 DEF CallOf
<1>2. call.does # "release_q" /\ call.gemm = << >> /\ call.left = 9
  <2>1. EpilogueDoes(kernel, w)[c.pc] # "release_q"
    <3>1. kernel.epilogue \in {"tma", "varlen", "gqa"} BY KernelTypes
    <3>2. CASE kernel.epilogue = "tma" /\ w = Leader(kernel)
      BY <1>p, <3>2 DEF EpilogueDoes, EpilogueLen
    <3>3. CASE kernel.epilogue = "tma" /\ w # Leader(kernel)
      BY <1>p, <3>3 DEF EpilogueDoes, EpilogueLen
    <3>4. CASE kernel.epilogue = "varlen" BY <1>p, <3>4 DEF EpilogueDoes, EpilogueLen
    <3>5. CASE kernel.epilogue = "gqa" /\ w = Leader(kernel)
      <4>1. EpilogueDoes(kernel, w)
              = <<"Epilogue", "dv", "Epilogue", "store", "stored", "Epilogue", "dk", "Epilogue", "store", "stored">>
        BY <3>5 DEF EpilogueDoes
      <4>2. c.pc \in {1, 2, 3, 4, 5, 6, 7, 8, 9, 10} BY <1>p, <4>1 DEF EpilogueLen
      <4> QED BY <4>1, <4>2
    <3>6. CASE kernel.epilogue = "gqa" /\ w # Leader(kernel)
      BY <1>p, <3>6 DEF EpilogueDoes, EpilogueLen
    <3> QED BY <3>1, <3>2, <3>3, <3>4, <3>5, <3>6
  <2> QED BY <1>1, <2>1 DEF Call, NoWait
<1>3. /\ DOMAIN d = DOMAIN c
      /\ d.gemms = AfterGemms(c.gemms, call, c)
      /\ d.read_do = (IF call.does = "release_q" THEN DoPipe!Advance(c.read_do) ELSE c.read_do)
      /\ d.read = (IF call.does = "release_q" THEN QPipe!Advance(c.read) ELSE c.read)
      /\ d.pc = c.pc + 1 /\ d.m = c.m /\ d.at = IF c.pc = n THEN "exit" ELSE "epilogue"
  BY AfterCallFields
<1> HIDE DEF c, d, n
<1>4. d.gemms = << >>
  <2>1. /\ << >> \in Seq(GemmRecord) /\ << >> \in Seq(GemmRecord) /\ Len(<< >>) = 0 BY EmptySeq
  <2>2. SubSeq(<< >>, 1, 0 - 9) = << >> BY SubSeqEmpty
  <2>3. SubSeq(<< >>, 0 + 1, 0) = << >> BY SubSeqEmpty
  <2>4. << >> \o << >> = << >> BY <2>1, ConcatEmptySeq
  <2> QED BY <1>p, <1>2, <1>3, <2>1, <2>2, <2>3, <2>4 DEF AfterGemms, Rest, Issued
<1>5. Place(kernel, w, d)
  <2>1. d.pc \in Nat /\ d.m \in Nat /\ d.at \in {"epilogue", "exit"}
        /\ (d.at = "epilogue" => d.pc \in 1 .. n) /\ (d.at = "exit" => d.pc = n + 1 /\ kernel.blocks # 0)
    BY <1>k, <1>p, <1>3
  <2>2. d.read = c.read /\ d.read_do = c.read_do BY <1>2, <1>3
  <2>3. d.gemms \in Seq(GemmRecord) BY <1>4, EmptySeq
  <2> QED BY <1>k, <1>p, <1>r, <1>3, <1>4, <2>1, <2>2, <2>3 DEF Place, InEpilogue, n
<1> QED BY <1>1, <1>2, <1>3, <1>5 DEF c, d, n

\* Warpgroup w goes from state c to state d by one call.
Moved(k, w, c, d) ==
  /\ Place(k, w, c) /\ Place(k, w, d)
  /\ c.at = "loop" /\ c.pc # LoopLen(k) => d.at = "loop" /\ d.pc = c.pc + 1 /\ d.m = c.m
  /\ c.at = "loop" /\ c.pc = LoopLen(k) => d.pc = 1 /\ d.m = c.m + 1 /\ d.at = IF d.m = k.blocks THEN "epilogue" ELSE "loop"
  /\ c.at = "epilogue" => d.pc = c.pc + 1 /\ d.m = c.m /\ d.at = IF c.pc = EpilogueLen(k, w) THEN "exit" ELSE "epilogue"

\* The round after a sync.
NextRound(k, r) ==
  IF r[1] < k.blocks /\ r[2] = (IF SyncsBeforeP(k) THEN 1 ELSE 0) + (IF SyncsBeforeDs(k) THEN 1 ELSE 0)
  THEN <<r[1] + 1, 0>> ELSE <<r[1], r[2] + 1>>

\* What a call that does `does` changes.
Effects(k, w, c, d, does) ==
  /\ HoldsQ(d) <=> does = "q" \/ (HoldsQ(c) /\ does # "release_q")
  /\ (does = "q" => ~HoldsQ(c)) /\ (does = "release_q" => HoldsQ(c))
  /\ HoldsDo(k, d) <=> does = "do" \/ (HoldsDo(k, c) /\ does # "release_do")
  /\ (does = "do" => ~HoldsDo(k, c)) /\ (does = "release_do" => HoldsDo(k, c))
  /\ Past(d, ReleaseDo(k)) <=> does = "release_do" \/ (Past(c, ReleaseDo(k)) /\ does # "release_q")
  /\ (does = "release_do" => ~Past(c, ReleaseDo(k))) /\ (does = "release_q" => Past(c, ReleaseDo(k)))
  /\ SharesP(k) => WrittenP(k, d) = WrittenP(k, c) + (IF does = "p" THEN 1 ELSE 0)
  /\ WrittenDs(k, d) = WrittenDs(k, c) + (IF does = "ds" THEN 1 ELSE 0)
  /\ ~k.Slice_dQKV_Mma => WrittenDq(k, d) = WrittenDq(k, c) + (IF does = "dq" THEN 1 ELSE 0)
  /\ (does = "p" => SharesP(k) /\ WrittenP(k, c) = c.m) /\ (does = "ds" => WrittenDs(k, c) = c.m)
  /\ ~k.Slice_dQKV_Mma /\ does = "dq" => WrittenDq(k, c) = c.m
  /\ Round(k, w, d) = IF does \in {"PdS", "Epilogue"} THEN NextRound(k, Round(k, w, c)) ELSE Round(k, w, c)
  /\ Written(k, w, d) = IF does = "dkv" THEN {"dk", "dv"} ELSE IF does = "dk" THEN {"dk"} ELSE IF does = "dv" THEN {"dv"}
                        ELSE Written(k, w, c)
  /\ w = Leader(k) => Storing(k, d) = IF does = "written" THEN {"dk", "dv"} ELSE IF does = "store" THEN Written(k, w, c)
                                      ELSE IF does = "stored" THEN {} ELSE Storing(k, c)

LEMMA LoopEffects ==
  ASSUME NEW k \in CtaKernels, NEW w \in Groups(k), NEW c, NEW d, Moved(k, w, c, d), c.at = "loop"
  PROVE  Effects(k, w, c, d, CallAt(k, c.pc).does)
<1> DEFINE x == DsShared(k)
           r == ReleaseDo(k)
           does == CallAt(k, c.pc).does
<1>k. /\ x \in 5 .. 8 /\ r \in x + 2 .. x + 4 /\ LoopLen(k) \in x + 4 .. x + 6 /\ LoopLen(k) > r /\ k.blocks \in Nat
      /\ (SyncsBeforeDs(k) => x >= 6) /\ (SharesP(k) => x >= 7) /\ (SyncsBeforeP(k) => x = 8 /\ SyncsBeforeDs(k))
      /\ (~k.Slice_dQKV_Mma => LoopLen(k) = x + 4)
  <2>1. /\ x \in 5 .. 8 /\ (SyncsBeforeDs(k) => x >= 6) /\ (SharesP(k) => x >= 7) /\ (SyncsBeforeP(k) => x = 8)
        /\ k.Slice_dQKV_Mma \in BOOLEAN /\ k.blocks \in Nat
    BY KernelTypes
  <2>2. r \in x + 2 .. x + 4 /\ LoopLen(k) \in x + 4 .. x + 6 /\ LoopLen(k) > r /\ (~k.Slice_dQKV_Mma => LoopLen(k) = x + 4)
    BY <2>1 DEF ReleaseDo, LoopLen
  <2>3. SyncsBeforeP(k) => SyncsBeforeDs(k) BY DEF SyncsBeforeP, SyncsBeforeDs
  <2> QED BY <2>1, <2>2, <2>3
<1>p. c.pc \in 1 .. LoopLen(k) /\ c.m \in Nat /\ c.m < k.blocks BY DEF Moved, Place
<1>m. /\ c.pc # LoopLen(k) => d.at = "loop" /\ d.pc = c.pc + 1 /\ d.m = c.m
      /\ c.pc = LoopLen(k) => d.pc = 1 /\ d.m = c.m + 1 /\ d.at = IF d.m = k.blocks THEN "epilogue" ELSE "loop"
  BY DEF Moved
<1>c. /\ does \in {"q", "do", "none", "PdS", "p", "ds", "dq", "release_do", "release_q"}
      /\ does = "q" <=> c.pc = 1
      /\ does = "do" <=> c.pc = 2
      /\ does = "p" <=> SharesP(k) /\ c.pc = x - 3
      /\ does = "ds" <=> c.pc = x - 1
      /\ does = "PdS" <=> c.pc = x \/ (SyncsBeforeP(k) /\ c.pc = x - 4) \/ (SyncsBeforeDs(k) /\ c.pc = x - 2)
      /\ ~k.Slice_dQKV_Mma => (does = "dq" <=> c.pc = x + 3)
      /\ does = "release_do" <=> c.pc = r
      /\ does = "release_q" <=> c.pc = LoopLen(k)
  BY <1>p, CallKinds
<1>e. c.at = "loop" OBVIOUS
<1>a. \A n \in Int : Past(c, n) <=> c.pc > n BY <1>e DEF Past
<1>b. \A n \in 1 .. LoopLen(k) : Past(d, n) <=> c.pc # LoopLen(k) /\ c.pc >= n
  BY <1>k, <1>p, <1>m DEF Past
<1> HIDE DEF x, r, does
<1>1. /\ HoldsQ(d) <=> does = "q" \/ (HoldsQ(c) /\ does # "release_q")
      /\ (does = "q" => ~HoldsQ(c)) /\ (does = "release_q" => HoldsQ(c))
  BY <1>k, <1>p, <1>c, <1>a, <1>b DEF HoldsQ
<1>2. /\ Past(d, r) <=> does = "release_do" \/ (Past(c, r) /\ does # "release_q")
      /\ (does = "release_do" => ~Past(c, r)) /\ (does = "release_q" => Past(c, r))
  BY <1>k, <1>p, <1>c, <1>a, <1>b
<1>3. /\ HoldsDo(k, d) <=> does = "do" \/ (HoldsDo(k, c) /\ does # "release_do")
      /\ (does = "do" => ~HoldsDo(k, c)) /\ (does = "release_do" => HoldsDo(k, c))
  BY <1>k, <1>p, <1>c, <1>a, <1>b DEF HoldsDo, r
<1>4. /\ SharesP(k) => WrittenP(k, d) = WrittenP(k, c) + (IF does = "p" THEN 1 ELSE 0)
      /\ (does = "p" => SharesP(k) /\ WrittenP(k, c) = c.m)
  BY <1>k, <1>p, <1>m, <1>c, <1>a, <1>b DEF WrittenP, x
<1>5. /\ WrittenDs(k, d) = WrittenDs(k, c) + (IF does = "ds" THEN 1 ELSE 0)
      /\ (does = "ds" => WrittenDs(k, c) = c.m)
  BY <1>k, <1>p, <1>m, <1>c, <1>a, <1>b DEF WrittenDs, x
<1>6. ~k.Slice_dQKV_Mma =>
        /\ WrittenDq(k, d) = WrittenDq(k, c) + (IF does = "dq" THEN 1 ELSE 0)
        /\ does = "dq" => WrittenDq(k, c) = c.m
  BY <1>k, <1>p, <1>m, <1>c, <1>a, <1>b DEF WrittenDq, x
<1>7. Round(k, w, d) = IF does \in {"PdS", "Epilogue"} THEN NextRound(k, Round(k, w, c)) ELSE Round(k, w, c)
  <2> DEFINE p == IF SyncsBeforeP(k) THEN 1 ELSE 0
             q == IF SyncsBeforeDs(k) THEN 1 ELSE 0
             at == (IF SyncsBeforeP(k) /\ c.pc > x - 4 THEN 1 ELSE 0) + (IF SyncsBeforeDs(k) /\ c.pc > x - 2 THEN 1 ELSE 0)
  <2>1. Round(k, w, c) = IF c.pc > x THEN <<c.m + 1, 0>> ELSE <<c.m, at>>
    BY <1>k, <1>a, <1>e DEF Round, InEpilogue, x
  <2>2. CASE c.pc = LoopLen(k)
    <3>1. EpilogueSyncs(k, w, 1) = 0
      <4>1. k.epilogue \in {"tma", "varlen", "gqa"} BY KernelTypes
      <4> QED BY <4>1 DEF EpilogueSyncs
    <3>2. Round(k, w, d) = <<d.m, 0>>
      BY <1>k, <1>m, <2>2, <3>1 DEF Round, Past, InEpilogue, x
    <3> QED BY <1>k, <1>p, <1>m, <1>c, <2>1, <2>2, <3>2
  <2>3. CASE c.pc # LoopLen(k) /\ c.pc >= x
    <3>1. Round(k, w, d) = <<c.m + 1, 0>>
      BY <1>k, <1>b, <1>m, <1>p, <2>3 DEF Round, x
    <3>2. at = p + q /\ c.pc \in Nat BY <1>k, <1>p, <2>3
    <3>3. CASE c.pc = x
      <4>1. does = "PdS" BY <1>c, <3>3
      <4>2. Round(k, w, c) = <<c.m, p + q>> BY <2>1, <3>2, <3>3, <1>k
      <4> QED BY <1>p, <3>1, <4>1, <4>2 DEF NextRound
    <3>4. CASE c.pc > x
      <4>1. does \notin {"PdS", "Epilogue"} BY <1>k, <1>p, <1>c, <3>4
      <4> QED BY <2>1, <3>1, <3>4, <4>1
    <3> QED BY <1>k, <1>p, <2>3, <3>3, <3>4
  <2>4. CASE c.pc < x
    <3>1. Round(k, w, d) = <<c.m, (IF SyncsBeforeP(k) /\ c.pc >= x - 4 THEN 1 ELSE 0)
                                  + (IF SyncsBeforeDs(k) /\ c.pc >= x - 2 THEN 1 ELSE 0)>>
      <4>1. d.at = "loop" /\ d.m = c.m /\ ~Past(d, x) BY <1>k, <1>b, <1>m, <1>p, <2>4
      <4>2. /\ SyncsBeforeP(k) => (Past(d, x - 4) <=> c.pc >= x - 4)
            /\ SyncsBeforeDs(k) => (Past(d, x - 2) <=> c.pc >= x - 2)
        BY <1>k, <1>b, <1>p, <2>4
      <4> QED BY <4>1, <4>2 DEF Round, InEpilogue, x
    <3>2. Round(k, w, c) = <<c.m, at>> BY <1>k, <1>p, <2>1, <2>4
    <3>3. CASE does = "PdS"
      <4>1. (SyncsBeforeP(k) /\ c.pc = x - 4) \/ (SyncsBeforeDs(k) /\ c.pc = x - 2)
        BY <1>c, <1>k, <1>p, <2>4, <3>3
      <4>2. at # p + q /\ Round(k, w, d) = <<c.m, at + 1>>
        BY <1>k, <1>p, <3>1, <4>1
      <4> QED BY <3>2, <3>3, <4>2 DEF NextRound
    <3>4. CASE does # "PdS"
      <4>1. ~(SyncsBeforeP(k) /\ c.pc = x - 4) /\ ~(SyncsBeforeDs(k) /\ c.pc = x - 2) /\ does # "Epilogue"
        BY <1>c, <3>4
      <4>2. Round(k, w, d) = <<c.m, at>> BY <1>k, <1>p, <3>1, <4>1
      <4> QED BY <3>2, <3>4, <4>1, <4>2
    <3> QED BY <3>3, <3>4
  <2> QED BY <1>k, <1>p, <2>2, <2>3, <2>4
<1>8. Written(k, w, d) = {} /\ Written(k, w, c) = {} /\ Storing(k, c) = {} /\ Storing(k, d) = {}
  <2>1. c.at = "loop" /\ (d.at = "loop" \/ d.pc = 1) BY <1>m
  <2> QED BY <2>1 DEF Written, Storing, InEpilogue
<1> QED BY <1>1, <1>2, <1>3, <1>4, <1>5, <1>6, <1>7, <1>8, <1>c DEF Effects, r, does

\* The calls of the epilogue, each at its place.
LEMMA EpilogueTable ==
  ASSUME NEW k \in CtaKernels, NEW w \in Groups(k), NEW pc \in 1 .. EpilogueLen(k, w), NEW does, does = EpilogueDoes(k, w)[pc]
  PROVE  /\ k.epilogue = "tma" =>
              /\ EpilogueLen(k, w) = IF w = Leader(k) THEN 4 ELSE 2
              /\ \/ pc = 1 /\ does = "Epilogue"
                 \/ pc = 2 /\ does = "dkv"
                 \/ w = Leader(k) /\ pc = 3 /\ does = "written"
                 \/ w = Leader(k) /\ pc = 4 /\ does = "stored"
         /\ k.epilogue = "varlen" =>
              /\ EpilogueLen(k, w) = 4
              /\ \/ pc \in {1, 3} /\ does = "Epilogue"
                 \/ pc = 2 /\ does = "dkv"
                 \/ pc = 4 /\ does = "copy"
         /\ k.epilogue = "gqa" /\ w = Leader(k) =>
              /\ EpilogueLen(k, w) = 10
              /\ \/ pc \in {1, 3, 6, 8} /\ does = "Epilogue"
                 \/ pc = 2 /\ does = "dv"
                 \/ pc = 7 /\ does = "dk"
                 \/ pc \in {4, 9} /\ does = "store"
                 \/ pc \in {5, 10} /\ does = "stored"
         /\ k.epilogue = "gqa" /\ w # Leader(k) =>
              /\ EpilogueLen(k, w) = 6
              /\ \/ pc \in {1, 3, 4, 6} /\ does = "Epilogue"
                 \/ pc = 2 /\ does = "dv"
                 \/ pc = 5 /\ does = "dk"
<1> DEFINE t == EpilogueDoes(k, w)
           n == EpilogueLen(k, w)
<1>d. does = t[pc] /\ pc \in 1 .. n OBVIOUS
<1>0. n = Len(t) BY DEF EpilogueLen
<1>1. CASE k.epilogue = "tma" /\ w = Leader(k)
  <2>1. t = <<"Epilogue", "dkv", "written", "stored">> BY <1>1 DEF EpilogueDoes
  <2>2. Len(t) = 4 /\ t[1] = "Epilogue" /\ t[2] = "dkv" /\ t[3] = "written" /\ t[4] = "stored"
    BY ONLY <2>1
  <2>3. n = 4 BY <1>0, <2>2
  <2> HIDE DEF t, n
  <2>4. pc = 1 \/ pc = 2 \/ pc = 3 \/ pc = 4 BY <1>d, <2>3
  <2> QED BY <1>1, <1>d, <2>2, <2>3, <2>4 DEF n
<1>2. CASE k.epilogue = "tma" /\ w # Leader(k)
  <2>1. t = <<"Epilogue", "dkv">> BY <1>2 DEF EpilogueDoes
  <2>2. Len(t) = 2 /\ t[1] = "Epilogue" /\ t[2] = "dkv" BY ONLY <2>1
  <2>3. n = 2 BY <1>0, <2>2
  <2> HIDE DEF t, n
  <2>4. pc = 1 \/ pc = 2 BY <1>d, <2>3
  <2> QED BY <1>2, <1>d, <2>2, <2>3, <2>4 DEF n
<1>3. CASE k.epilogue = "varlen"
  <2>1. t = <<"Epilogue", "dkv", "Epilogue", "copy">> BY <1>3 DEF EpilogueDoes
  <2>2. Len(t) = 4 /\ t[1] = "Epilogue" /\ t[2] = "dkv" /\ t[3] = "Epilogue" /\ t[4] = "copy"
    BY ONLY <2>1
  <2>3. n = 4 BY <1>0, <2>2
  <2> HIDE DEF t, n
  <2>4. pc = 1 \/ pc = 2 \/ pc = 3 \/ pc = 4 BY <1>d, <2>3
  <2> QED BY <1>3, <1>d, <2>2, <2>3, <2>4 DEF n
<1>4. CASE k.epilogue = "gqa" /\ w = Leader(k)
  <2>1. t = <<"Epilogue", "dv", "Epilogue", "store", "stored", "Epilogue", "dk", "Epilogue", "store", "stored">>
    BY <1>4 DEF EpilogueDoes
  <2>2. /\ Len(t) = 10 /\ t[1] = "Epilogue" /\ t[2] = "dv" /\ t[3] = "Epilogue" /\ t[4] = "store" /\ t[5] = "stored"
        /\ t[6] = "Epilogue" /\ t[7] = "dk" /\ t[8] = "Epilogue" /\ t[9] = "store" /\ t[10] = "stored"
    BY ONLY <2>1
  <2>3. n = 10 BY <1>0, <2>2
  <2> HIDE DEF t, n
  <2>4. pc = 1 \/ pc = 2 \/ pc = 3 \/ pc = 4 \/ pc = 5 \/ pc = 6 \/ pc = 7 \/ pc = 8 \/ pc = 9 \/ pc = 10
    BY <1>d, <2>3
  <2> QED BY <1>4, <1>d, <2>2, <2>3, <2>4 DEF n
<1>5. CASE k.epilogue = "gqa" /\ w # Leader(k)
  <2>1. t = <<"Epilogue", "dv", "Epilogue", "Epilogue", "dk", "Epilogue">>
    BY <1>5 DEF EpilogueDoes
  <2>2. /\ Len(t) = 6 /\ t[1] = "Epilogue" /\ t[2] = "dv" /\ t[3] = "Epilogue" /\ t[4] = "Epilogue"
        /\ t[5] = "dk" /\ t[6] = "Epilogue"
    BY ONLY <2>1
  <2>3. n = 6 BY <1>0, <2>2
  <2> HIDE DEF t, n
  <2>4. pc = 1 \/ pc = 2 \/ pc = 3 \/ pc = 4 \/ pc = 5 \/ pc = 6 BY <1>d, <2>3
  <2> QED BY <1>5, <1>d, <2>2, <2>3, <2>4 DEF n
<1> QED BY <1>1, <1>2, <1>3, <1>4, <1>5, KernelTypes

LEMMA EpilogueEffects ==
  ASSUME NEW k \in CtaKernels, NEW w \in Groups(k), NEW c, NEW d, Moved(k, w, c, d), c.at = "epilogue"
  PROVE  LET does == EpilogueDoes(k, w)[c.pc]
         IN  /\ Effects(k, w, c, d, does)
             /\ does \in {"Epilogue", "dkv", "dk", "dv", "written", "stored", "store", "copy"}
             /\ does \in {"written", "stored", "store"} => w = Leader(k)
             /\ does \in {"dkv", "dk", "dv"} => Round(k, w, c)[2] > 0
             /\ does = "written" => k.epilogue = "tma"
             /\ does = "dkv" => k.epilogue # "gqa"
             /\ does \in {"dk", "dv"} => k.epilogue = "gqa"
             /\ does = "store" => /\ k.epilogue = "gqa"
                                  /\ \/ Round(k, w, c) = <<k.blocks, 2>> /\ Written(k, w, c) = {"dv"}
                                     \/ Round(k, w, c) = <<k.blocks, 4>> /\ Written(k, w, c) = {"dk"}
<1> DEFINE does == EpilogueDoes(k, w)[c.pc]
           n == EpilogueLen(k, w)
<1>k. k.blocks \in Nat /\ k.epilogue \in {"tma", "varlen", "gqa"} BY KernelTypes
<1>p. c.pc \in 1 .. n /\ c.m \in Nat /\ c.m = k.blocks BY DEF Moved, Place, InEpilogue
<1>m. d.pc = c.pc + 1 /\ d.m = c.m /\ d.at = IF c.pc = n THEN "exit" ELSE "epilogue"
  BY DEF Moved
<1>e. c.at = "epilogue" /\ InEpilogue(c) /\ InEpilogue(d) BY <1>m DEF InEpilogue
<1>h. \A pc : ~Past(c, pc) /\ ~Past(d, pc)
  BY <1>e, <1>m DEF Past
<1>t. /\ k.epilogue = "tma" =>
           /\ n = IF w = Leader(k) THEN 4 ELSE 2
           /\ \/ c.pc = 1 /\ does = "Epilogue"
              \/ c.pc = 2 /\ does = "dkv"
              \/ w = Leader(k) /\ c.pc = 3 /\ does = "written"
              \/ w = Leader(k) /\ c.pc = 4 /\ does = "stored"
      /\ k.epilogue = "varlen" =>
           /\ n = 4
           /\ \/ c.pc \in {1, 3} /\ does = "Epilogue"
              \/ c.pc = 2 /\ does = "dkv"
              \/ c.pc = 4 /\ does = "copy"
      /\ k.epilogue = "gqa" /\ w = Leader(k) =>
           /\ n = 10
           /\ \/ c.pc \in {1, 3, 6, 8} /\ does = "Epilogue"
              \/ c.pc = 2 /\ does = "dv"
              \/ c.pc = 7 /\ does = "dk"
              \/ c.pc \in {4, 9} /\ does = "store"
              \/ c.pc \in {5, 10} /\ does = "stored"
      /\ k.epilogue = "gqa" /\ w # Leader(k) =>
           /\ n = 6
           /\ \/ c.pc \in {1, 3, 4, 6} /\ does = "Epilogue"
              \/ c.pc = 2 /\ does = "dv"
              \/ c.pc = 5 /\ does = "dk"
  BY <1>p, EpilogueTable
<1> HIDE DEF does, n
<1>1. /\ ~HoldsQ(c) /\ ~HoldsQ(d) /\ ~HoldsDo(k, c) /\ ~HoldsDo(k, d) /\ ~Past(c, ReleaseDo(k)) /\ ~Past(d, ReleaseDo(k))
      /\ WrittenP(k, c) = c.m /\ WrittenP(k, d) = c.m /\ WrittenDs(k, c) = c.m /\ WrittenDs(k, d) = c.m
      /\ WrittenDq(k, c) = c.m /\ WrittenDq(k, d) = c.m
  BY <1>h, <1>m, <1>p DEF HoldsQ, HoldsDo, WrittenP, WrittenDs, WrittenDq
<1>2. does \in {"Epilogue", "dkv", "dk", "dv", "written", "stored", "store", "copy"}
  BY <1>t, <1>k
<1>3. /\ Round(k, w, c) = <<k.blocks, EpilogueSyncs(k, w, c.pc)>>
      /\ Round(k, w, d) = <<k.blocks, EpilogueSyncs(k, w, c.pc + 1)>>
  BY <1>h, <1>e, <1>m, <1>p DEF Round
<1>4. \A i \in Nat : NextRound(k, <<k.blocks, i>>) = <<k.blocks, i + 1>>
  BY <1>k DEF NextRound
<1>5. /\ EpilogueSyncs(k, w, c.pc) \in Nat
      /\ EpilogueSyncs(k, w, c.pc + 1) = EpilogueSyncs(k, w, c.pc) + (IF does = "Epilogue" THEN 1 ELSE 0)
      /\ does \in {"dkv", "dk", "dv"} => EpilogueSyncs(k, w, c.pc) > 0
      /\ does = "store" /\ c.pc = 4 => EpilogueSyncs(k, w, c.pc) = 2
      /\ does = "store" /\ c.pc = 9 => EpilogueSyncs(k, w, c.pc) = 4
  <2>1. CASE k.epilogue = "tma" BY <1>t, <1>p, <2>1 DEF EpilogueSyncs
  <2>2. CASE k.epilogue = "varlen" BY <1>t, <1>p, <2>2 DEF EpilogueSyncs
  <2>3. CASE k.epilogue = "gqa" /\ w = Leader(k) BY <1>t, <1>p, <2>3 DEF EpilogueSyncs
  <2>4. CASE k.epilogue = "gqa" /\ w # Leader(k) BY <1>t, <1>p, <2>4 DEF EpilogueSyncs
  <2> QED BY <1>k, <2>1, <2>2, <2>3, <2>4
<1>6. Round(k, w, d) = IF does \in {"PdS", "Epilogue"} THEN NextRound(k, Round(k, w, c)) ELSE Round(k, w, c)
  BY <1>2, <1>3, <1>4, <1>5
<1>7. /\ Written(k, w, c) = IF c.pc <= 2 THEN {} ELSE IF k.epilogue # "gqa" THEN {"dk", "dv"}
                            ELSE IF c.pc <= (IF w = Leader(k) THEN 7 ELSE 5) THEN {"dv"} ELSE {"dk"}
      /\ Written(k, w, d) = IF c.pc + 1 <= 2 THEN {} ELSE IF k.epilogue # "gqa" THEN {"dk", "dv"}
                            ELSE IF c.pc + 1 <= (IF w = Leader(k) THEN 7 ELSE 5) THEN {"dv"} ELSE {"dk"}
  BY <1>e, <1>m DEF Written
<1>8. Written(k, w, d) = IF does = "dkv" THEN {"dk", "dv"} ELSE IF does = "dk" THEN {"dk"} ELSE IF does = "dv" THEN {"dv"}
                         ELSE Written(k, w, c)
  <2>1. CASE k.epilogue = "tma" BY <1>t, <1>p, <1>7, <2>1
  <2>2. CASE k.epilogue = "varlen" BY <1>t, <1>p, <1>7, <2>2
  <2>3. CASE k.epilogue = "gqa" /\ w = Leader(k) BY <1>t, <1>p, <1>7, <2>3
  <2>4. CASE k.epilogue = "gqa" /\ w # Leader(k) BY <1>t, <1>p, <1>7, <2>4
  <2> QED BY <1>k, <2>1, <2>2, <2>3, <2>4
<1>9. /\ Storing(k, c) = IF k.epilogue = "tma" /\ c.pc = 4 THEN {"dk", "dv"}
                         ELSE IF k.epilogue = "gqa" /\ c.pc = 5 THEN {"dv"}
                         ELSE IF k.epilogue = "gqa" /\ c.pc = 10 THEN {"dk"} ELSE {}
      /\ Storing(k, d) = IF c.pc = n THEN {}
                         ELSE IF k.epilogue = "tma" /\ c.pc = 3 THEN {"dk", "dv"}
                         ELSE IF k.epilogue = "gqa" /\ c.pc = 4 THEN {"dv"}
                         ELSE IF k.epilogue = "gqa" /\ c.pc = 9 THEN {"dk"} ELSE {}
  <2>1. (c.pc + 1 = 4 <=> c.pc = 3) /\ (c.pc + 1 = 5 <=> c.pc = 4) /\ (c.pc + 1 = 10 <=> c.pc = 9)
    BY <1>p
  <2>2. d.at = "epilogue" <=> c.pc # n BY <1>m
  <2>3. Storing(k, c) = IF k.epilogue = "tma" /\ c.pc = 4 THEN {"dk", "dv"}
                         ELSE IF k.epilogue = "gqa" /\ c.pc = 5 THEN {"dv"}
                         ELSE IF k.epilogue = "gqa" /\ c.pc = 10 THEN {"dk"} ELSE {}
    BY <1>e DEF Storing
  <2>4. CASE c.pc = n BY <2>2, <2>3, <2>4 DEF Storing
  <2>5. CASE c.pc # n BY <2>1, <2>2, <2>3, <2>5, <1>m DEF Storing
  <2> QED BY <2>4, <2>5
<1>10. w = Leader(k) => Storing(k, d) = IF does = "written" THEN {"dk", "dv"} ELSE IF does = "store" THEN Written(k, w, c)
                                      ELSE IF does = "stored" THEN {} ELSE Storing(k, c)
  <2>1. CASE k.epilogue = "tma" BY <1>t, <1>p, <1>9, <2>1
  <2>2. CASE k.epilogue = "varlen" BY <1>t, <1>p, <1>9, <2>2
  <2>3. CASE k.epilogue = "gqa" /\ w = Leader(k) BY <1>t, <1>p, <1>7, <1>9, <2>3
  <2>4. CASE k.epilogue = "gqa" /\ w # Leader(k) BY <1>t, <1>p, <1>9, <2>4
  <2> QED BY <1>k, <2>1, <2>2, <2>3, <2>4
<1>11. /\ does \in {"written", "stored", "store"} => w = Leader(k)
       /\ does = "written" => k.epilogue = "tma"
       /\ does = "dkv" => k.epilogue # "gqa"
       /\ does \in {"dk", "dv"} => k.epilogue = "gqa"
       /\ does = "store" => k.epilogue = "gqa" /\ (c.pc = 4 \/ c.pc = 9)
  BY <1>t, <1>k
<1>12. does = "store" => \/ Round(k, w, c) = <<k.blocks, 2>> /\ Written(k, w, c) = {"dv"}
                         \/ Round(k, w, c) = <<k.blocks, 4>> /\ Written(k, w, c) = {"dk"}
  BY <1>3, <1>5, <1>7, <1>11
<1>13. does \in {"dkv", "dk", "dv"} => Round(k, w, c)[2] > 0 BY <1>3, <1>5
<1>14. Effects(k, w, c, d, does)
  <2>1. does \notin {"q", "do", "PdS", "p", "ds", "dq", "release_q", "release_do"} BY <1>2
  <2>2. c.m + 0 = c.m BY <1>p
  <2> QED BY <1>1, <1>6, <1>8, <1>10, <2>1, <2>2, Zenon DEF Effects
<1> QED BY <1>2, <1>10, <1>11, <1>12, <1>13, <1>14 DEF does

\* The syncs of the epilogue tell what has been written.
LEMMA RoundWritten ==
  ASSUME NEW k \in CtaKernels, NEW w \in Groups(k), NEW c, Place(k, w, c)
  PROVE  /\ Round(k, w, c)[1] = k.blocks /\ Round(k, w, c)[2] > 0 => InEpilogue(c)
         /\ k.epilogue = "gqa" /\ Round(k, w, c) = <<k.blocks, 2>> => Written(k, w, c) = {"dv"}
         /\ k.epilogue = "gqa" /\ Round(k, w, c) = <<k.blocks, 4>> => Written(k, w, c) = {"dk"}
<1> DEFINE r == Round(k, w, c)
<1>k. k.blocks \in Nat /\ DsShared(k) \in 5 .. 8 BY KernelTypes
<1>p. /\ c.at \in {"init", "wait_kv", "loop", "epilogue", "exit"} /\ c.m \in Nat /\ c.pc \in Nat
      /\ c.at = "init" => c.m = 0 /\ c.pc = 1
      /\ c.at \in {"wait_kv", "loop"} => c.m < k.blocks
  BY DEF Place
<1>1. r[1] = k.blocks /\ r[2] > 0 => InEpilogue(c)
  <2>1. SUFFICES ASSUME ~InEpilogue(c), r[1] = k.blocks, r[2] > 0 PROVE FALSE OBVIOUS
  <2>2. ~Past(c, DsShared(k)) BY <2>1 DEF Round
  <2>3. r[1] = c.m BY <2>2 DEF Round
  <2>4. c.at = "init" BY <1>k, <1>p, <2>1, <2>3 DEF InEpilogue
  <2>5. \A pc : ~Past(c, pc) BY <2>4 DEF Past
  <2>6. r = <<c.m, 0>> BY <2>1, <2>5 DEF Round
  <2> QED BY <2>1, <2>6
<1>2. ASSUME k.epilogue = "gqa", NEW i \in {2, 4}, r = <<k.blocks, i>>
      PROVE  Written(k, w, c) = IF i = 2 THEN {"dv"} ELSE {"dk"}
  <2>1. InEpilogue(c) BY <1>1, <1>2
  <2>2. \A pc : ~Past(c, pc) BY <2>1 DEF InEpilogue, Past
  <2>3. EpilogueSyncs(k, w, c.pc) = i BY <1>2, <2>1, <2>2 DEF Round
  <2>4. CASE w = Leader(k) BY <1>2, <1>p, <2>1, <2>3, <2>4 DEF EpilogueSyncs, Written
  <2>5. CASE w # Leader(k) BY <1>2, <1>p, <2>1, <2>3, <2>5 DEF EpilogueSyncs, Written
  <2> QED BY <2>4, <2>5
<1> QED BY <1>1, <1>2

-----------------------------------------------------------------------------
(* Steps of the warpgroups.                                                *)

LEMMA GroupsOf == WGs = Groups(kernel) BY DEF WGs, Groups

LEMMA Doings ==
  ASSUME kernel \in CtaKernels, NEW w \in WGs, Place(kernel, w, mma[w]), mma[w].at \in {"loop", "epilogue"}
  PROVE  CallOf(w).does = Doing(kernel, w, mma[w])
<1>1. CASE mma[w].at = "loop" BY <1>1, LoopStep DEF Doing
<1>2. CASE mma[w].at = "epilogue" BY <1>2, EpilogueStep DEF Doing, Call
<1> QED BY <1>1, <1>2

\* By a call that does x, warpgroup w goes from state c to state d.
OneGoes(k, w, c, d, x) ==
  /\ x # "nothing" => c.at \in {"loop", "epilogue"}
  /\ x = Doing(k, w, c)
  /\ Moved(k, w, c, d) /\ Effects(k, w, c, d, x)
  /\ d.read = IF x = "release_q" THEN Advanced(2, c.read) ELSE c.read
  /\ ReadDo(k, d) = IF x = "release_do" THEN Advanced(k.kStages_dO, ReadDo(k, c)) ELSE ReadDo(k, c)
Goes(G, x) ==
  /\ kernel' = kernel /\ mma' = [w \in WGs |-> mma'[w]]
  /\ \A w \in WGs : IF w \in G THEN OneGoes(kernel, w, mma[w], mma'[w], x) ELSE mma'[w] = mma[w]

LEMMA AdvancedIs ==
  /\ \A st : QPipe!Advance(st) = Advanced(2, st) /\ RQ!Advance(st) = Advanced(2, st)
  /\ \A st : DoPipe!Advance(st) = Advanced(kernel.kStages_dO, st) /\ RD!Advance(st) = Advanced(kernel.kStages_dO, st)
BY DEF QPipe!Advance, RQ!Advance, DoPipe!Advance, RD!Advance, Advanced

LEMMA CallGoes ==
  ASSUME kernel \in CtaKernels, NEW w \in WGs, Place(kernel, w, mma[w]), NEW x, Does(w, x)
  PROVE  OneGoes(kernel, w, mma[w], AfterCall(w), x)
<1> DEFINE c == mma[w]
           d == AfterCall(w)
<1>1. c.at \in {"loop", "epilogue"} /\ x = Doing(kernel, w, c) BY Doings DEF Does
<1>k. w \in Groups(kernel) /\ LoopLen(kernel) \in 9 .. 14 /\ ReleaseDo(kernel) \in 7 .. 12 /\ ReleaseDo(kernel) < LoopLen(kernel)
  BY GroupsOf, KernelTypes DEF LoopLen, ReleaseDo
<1>2. CASE c.at = "loop"
  <2>1. /\ Place(kernel, w, d)
        /\ c.pc # LoopLen(kernel) =>
             d.pc = c.pc + 1 /\ d.m = c.m /\ d.at = "loop" /\ d.read = c.read /\ d.read_do = c.read_do
        /\ c.pc = LoopLen(kernel) =>
             /\ d.pc = 1 /\ d.m = c.m + 1 /\ d.at = IF d.m = kernel.blocks THEN "epilogue" ELSE "loop"
             /\ d.read = QPipe!Advance(c.read) /\ d.read_do = DoPipe!Advance(c.read_do)
    BY <1>2, LoopStep
  <2>2. x = CallAt(kernel, c.pc).does BY <1>1, <1>2 DEF Doing
  <2>p. c.pc \in 1 .. LoopLen(kernel) BY <1>2 DEF Place
  <2>3. (x = "release_q" <=> c.pc = LoopLen(kernel)) /\ (x = "release_do" <=> c.pc = ReleaseDo(kernel))
    BY <2>2, <2>p, CallKinds
  <2> HIDE DEF c, d
  <2>4. Moved(kernel, w, c, d) BY <1>2, <2>1 DEF Moved, c
  <2>5. Effects(kernel, w, c, d, x) BY <1>k, <1>2, <2>2, <2>4, LoopEffects
  <2>6. d.read = IF x = "release_q" THEN Advanced(2, c.read) ELSE c.read
    BY <2>1, <2>3, AdvancedIs
  <2>7. ReadDo(kernel, d) = IF x = "release_do" THEN Advanced(kernel.kStages_dO, ReadDo(kernel, c)) ELSE ReadDo(kernel, c)
    <3>1. CASE c.pc = LoopLen(kernel)
      <4>1. Past(c, ReleaseDo(kernel)) BY <1>2, <1>k, <3>1 DEF Past
      <4>2. ~Past(d, ReleaseDo(kernel)) BY <1>k, <2>1, <3>1 DEF Past
      <4> QED BY <1>k, <2>1, <2>3, <3>1, <4>1, <4>2, AdvancedIs DEF ReadDo
    <3>2. CASE c.pc = ReleaseDo(kernel)
      <4>1. ~Past(c, ReleaseDo(kernel)) BY <1>k, <3>2 DEF Past
      <4>2. Past(d, ReleaseDo(kernel)) BY <1>k, <2>1, <3>2 DEF Past
      <4> QED BY <1>k, <2>1, <2>3, <3>2, <4>1, <4>2 DEF ReadDo
    <3>3. CASE c.pc # LoopLen(kernel) /\ c.pc # ReleaseDo(kernel)
      <4>1. Past(d, ReleaseDo(kernel)) <=> Past(c, ReleaseDo(kernel))
        BY <1>k, <1>2, <2>1, <2>p, <3>3 DEF Past
      <4> QED BY <2>1, <2>3, <3>3, <4>1 DEF ReadDo
    <3> QED BY <3>1, <3>2, <3>3
  <2> QED BY <1>1, <2>4, <2>5, <2>6, <2>7 DEF OneGoes, c, d
<1>3. CASE c.at = "epilogue"
  <2>1. /\ Place(kernel, w, d)
        /\ d.pc = c.pc + 1 /\ d.m = c.m /\ d.read = c.read /\ d.read_do = c.read_do
        /\ d.at = IF c.pc = EpilogueLen(kernel, w) THEN "exit" ELSE "epilogue"
    BY <1>3, EpilogueStep
  <2>2. x = EpilogueDoes(kernel, w)[c.pc] BY <1>1, <1>3 DEF Doing
  <2> HIDE DEF c, d
  <2>3. Moved(kernel, w, c, d) BY <1>3, <2>1 DEF Moved, c
  <2>4. Effects(kernel, w, c, d, x) /\ x \in {"Epilogue", "dkv", "dk", "dv", "written", "stored", "store", "copy"}
    BY <1>k, <1>3, <2>2, <2>3, EpilogueEffects
  <2>5. ~Past(c, ReleaseDo(kernel)) /\ ~Past(d, ReleaseDo(kernel)) BY <1>3, <2>1 DEF Past
  <2>6. ReadDo(kernel, d) = ReadDo(kernel, c) BY <2>1, <2>5 DEF ReadDo
  <2> QED BY <1>1, <2>1, <2>3, <2>4, <2>6 DEF OneGoes, c, d
<1> QED BY <1>1, <1>2, <1>3

LEMMA ProceedGoes ==
  ASSUME IInv, NEW G \in SUBSET WGs, NEW x, \A w \in G : Does(w, x), Proceed(G), kernel' = kernel
  PROVE  Goes(G, x)
<1>1. kernel \in CtaKernels /\ \A w \in WGs : Place(kernel, w, mma[w])
  BY DEF IInv, LoaderInv, Places
<1>2. \A w \in G : OneGoes(kernel, w, mma[w], AfterCall(w), x) BY <1>1, CallGoes
<1>3. \A w \in WGs : mma'[w] = IF w \in G THEN AfterCall(w) ELSE mma[w] BY DEF Proceed
<1>4. mma' = [w \in WGs |-> mma'[w]] BY DEF Proceed
<1> QED BY <1>2, <1>3, <1>4 DEF Goes

LEMMA PlacesKept ==
  ASSUME Places, NEW G, NEW x, Goes(G, x)
  PROVE  Places'
<1>1. WGs' = WGs /\ kernel' = kernel BY DEF Goes, WGs
<1>2. mma' = [w \in WGs |-> mma'[w]] BY DEF Goes
<1>3. \A w \in WGs : Place(kernel, w, mma'[w]) BY DEF Goes, Places, OneGoes, Moved
<1> QED BY <1>1, <1>2, <1>3 DEF Places

-----------------------------------------------------------------------------
(* The pipelines.                                                          *)

QueryMove ==
  RQ!NumberedMove(q_pipe, loader.write, QueryReads, QueryReaders, q_pipe', loader.write', QueryReads', QueryReaders')
DoMove ==
  RD!NumberedMove(do_pipe, loader.write_do, DoReads, DoReaders, do_pipe', loader.write_do', DoReads', DoReaders')

LEMMA Instances ==
  ASSUME kernel \in CtaKernels
  PROVE  2 \in Nat \ {0} /\ kernel.kStages_dO \in Nat \ {0} /\ WGs # {} /\ Nil \notin Nat
<1>1. kernel.kStages_dO \in {1, 2} /\ 0 \in WGs BY KernelTypes, GroupsOf
<1> QED BY <1>1 DEF Nil

LEMMA QueryKept ==
  ASSUME kernel \in CtaKernels, QueryRing, QueryMove, kernel' = kernel
  PROVE  QueryRing'
<1>1. RQ!NumberedRing(q_pipe', loader.write', QueryReads', QueryReaders')
  BY Instances, RQ!NumberedKept DEF QueryRing, QueryMove
<1>2. WGs' = WGs BY DEF WGs
<1> QED BY <1>1, <1>2
    DEF QueryRing, RQ!NumberedRing, RQ!Numbered, RQ!Ring, RQ!Counted, RQ!CopiesCounted, RQ!ProducerWithinOneLap,
        RQ!ReleasesCounted, RQ!ReadersSawFull, RQ!PipelineStorage, RQ!PipelineState, RQ!Stages, RQ!Passed, Nil

LEMMA DoKept ==
  ASSUME kernel \in CtaKernels, DoRing, DoMove, kernel' = kernel
  PROVE  DoRing'
<1>1. RD!NumberedRing(do_pipe', loader.write_do', DoReads', DoReaders')
  BY Instances, RD!NumberedKept DEF DoRing, DoMove
<1>2. WGs' = WGs BY DEF WGs
<1> QED BY <1>1, <1>2
    DEF DoRing, RD!NumberedRing, RD!Numbered, RD!Ring, RD!Counted, RD!CopiesCounted, RD!ProducerWithinOneLap,
        RD!ReleasesCounted, RD!ReadersSawFull, RD!PipelineStorage, RD!PipelineState, RD!Stages, RD!Passed, Nil

LEMMA SamePipes ==
  /\ \A p, st : /\ QPipe!AcquireReady(p, st) <=> RQ!AcquireReady(p, st)
                /\ QPipe!FullReady(p, st) <=> RQ!FullReady(p, st)
                /\ DoPipe!AcquireReady(p, st) <=> RD!AcquireReady(p, st)
                /\ DoPipe!FullReady(p, st) <=> RD!FullReady(p, st)
  /\ \A p, s : QPipe!Land(p, s) = RQ!Land(p, s) /\ DoPipe!Land(p, s) = RD!Land(p, s)
  /\ \A p, st, x : /\ QPipe!Issue(p, st, x) = RQ!Issue(p, st, x) /\ QPipe!Release(p, st, x) = RQ!Release(p, st, x)
                   /\ DoPipe!Issue(p, st, x) = RD!Issue(p, st, x) /\ DoPipe!Release(p, st, x) = RD!Release(p, st, x)
  /\ QPipe!Stages = RQ!Stages /\ DoPipe!Stages = RD!Stages
  /\ QPipe!EmptyPipeline = RQ!EmptyPipeline /\ DoPipe!EmptyPipeline = RD!EmptyPipeline
  /\ QPipe!StartState = RQ!StartState /\ QPipe!StartState = RD!StartState
<1>1. \A p, st : /\ QPipe!AcquireReady(p, st) <=> RQ!AcquireReady(p, st)
                 /\ QPipe!FullReady(p, st) <=> RQ!FullReady(p, st)
                 /\ DoPipe!AcquireReady(p, st) <=> RD!AcquireReady(p, st)
                 /\ DoPipe!FullReady(p, st) <=> RD!FullReady(p, st)
  BY DEF QPipe!AcquireReady, RQ!AcquireReady, QPipe!FullReady, RQ!FullReady,
     DoPipe!AcquireReady, RD!AcquireReady,
         DoPipe!FullReady, RD!FullReady, QPipe!PhaseOver, RQ!PhaseOver, DoPipe!PhaseOver, RD!PhaseOver,
         QPipe!ConsumerPhase, RQ!ConsumerPhase, DoPipe!ConsumerPhase, RD!ConsumerPhase,
         QPipe!ProducerPhase, RQ!ProducerPhase, DoPipe!ProducerPhase, RD!ProducerPhase
<1>2. \A p, s : QPipe!Land(p, s) = RQ!Land(p, s) /\ DoPipe!Land(p, s) = RD!Land(p, s)
  BY DEF QPipe!Land, RQ!Land, DoPipe!Land, RD!Land
<1>3. \A p, st, x : /\ QPipe!Issue(p, st, x) = RQ!Issue(p, st, x) /\ DoPipe!Issue(p, st, x) = RD!Issue(p, st, x)
  BY DEF QPipe!Issue, RQ!Issue, DoPipe!Issue, RD!Issue
<1>4. \A p, st, x : /\ QPipe!Release(p, st, x) = RQ!Release(p, st, x) /\ DoPipe!Release(p, st, x) = RD!Release(p, st, x)
  BY DEF QPipe!Release, RQ!Release, DoPipe!Release, RD!Release
<1>5. /\ QPipe!Stages = RQ!Stages /\ DoPipe!Stages = RD!Stages
      /\ QPipe!StartState = RQ!StartState /\ QPipe!StartState = RD!StartState
  BY DEF QPipe!Stages, RQ!Stages, DoPipe!Stages, RD!Stages, QPipe!StartState,
     RQ!StartState, RD!StartState
<1>6. QPipe!EmptyPipeline = RQ!EmptyPipeline /\ DoPipe!EmptyPipeline = RD!EmptyPipeline
  BY <1>5 DEF QPipe!EmptyPipeline, RQ!EmptyPipeline, DoPipe!EmptyPipeline, RD!EmptyPipeline
<1> QED BY <1>1, <1>2, <1>3, <1>4, <1>5, <1>6

\* The warpgroups at a pipeline, when some go on by a call that does x.
LEMMA QueryGoes ==
  ASSUME NEW G \in SUBSET WGs, NEW x, Goes(G, x)
  PROVE  /\ x \notin {"q", "release_q"} => QueryReads' = QueryReads /\ QueryReaders' = QueryReaders
         /\ x = "q" => QueryReads' = QueryReads /\ QueryReaders' = QueryReaders \cup G
         /\ x = "release_q" => /\ QueryReads' = [w \in WGs |-> IF w \in G THEN Advanced(2, mma[w].read) ELSE mma[w].read]
                               /\ QueryReaders' = QueryReaders \ G /\ G \subseteq QueryReaders
<1>1. WGs' = WGs BY DEF Goes, WGs
<1>2. \A w \in WGs : IF w \in G THEN OneGoes(kernel, w, mma[w], mma'[w], x) ELSE mma'[w] = mma[w]
  BY DEF Goes
<1>3. \A w \in G : /\ mma'[w].read = IF x = "release_q" THEN Advanced(2, mma[w].read) ELSE mma[w].read
                   /\ HoldsQ(mma'[w]) <=> x = "q" \/ (HoldsQ(mma[w]) /\ x # "release_q")
                   /\ x = "release_q" => HoldsQ(mma[w])
  BY <1>2 DEF OneGoes, Effects
<1>4. \A w \in WGs \ G : mma'[w] = mma[w] BY <1>2
<1>5. QueryReads' = [w \in WGs |-> mma'[w].read] /\ QueryReaders' = {w \in WGs : HoldsQ(mma'[w])}
  BY <1>1 DEF QueryReads, QueryReaders
<1>6. CASE x \notin {"q", "release_q"} BY <1>3, <1>4, <1>5, <1>6 DEF QueryReads, QueryReaders
<1>7. CASE x = "q" BY <1>3, <1>4, <1>5, <1>7 DEF QueryReads, QueryReaders
<1>8. CASE x = "release_q" BY <1>3, <1>4, <1>5, <1>8 DEF QueryReads, QueryReaders
<1> QED BY <1>6, <1>7, <1>8

LEMMA DoGoes ==
  ASSUME NEW G \in SUBSET WGs, NEW x, Goes(G, x)
  PROVE  /\ x \notin {"do", "release_do"} => DoReads' = DoReads /\ DoReaders' = DoReaders
         /\ x = "do" => DoReads' = DoReads /\ DoReaders' = DoReaders \cup G
         /\ x = "release_do" =>
              /\ DoReads' = [w \in WGs |-> IF w \in G THEN Advanced(kernel.kStages_dO, ReadDo(kernel, mma[w]))
                                           ELSE ReadDo(kernel, mma[w])]
              /\ DoReaders' = DoReaders \ G /\ G \subseteq DoReaders
<1>1. WGs' = WGs /\ kernel' = kernel BY DEF Goes, WGs
<1>2. \A w \in WGs : IF w \in G THEN OneGoes(kernel, w, mma[w], mma'[w], x) ELSE mma'[w] = mma[w]
  BY DEF Goes
<1>3. \A w \in G : /\ ReadDo(kernel, mma'[w]) = IF x = "release_do" THEN Advanced(kernel.kStages_dO, ReadDo(kernel, mma[w]))
                                                ELSE ReadDo(kernel, mma[w])
                   /\ HoldsDo(kernel, mma'[w]) <=> x = "do" \/ (HoldsDo(kernel, mma[w]) /\ x # "release_do")
                   /\ x = "release_do" => HoldsDo(kernel, mma[w])
  BY <1>2 DEF OneGoes, Effects
<1>4. \A w \in WGs \ G : mma'[w] = mma[w] BY <1>2
<1>5. DoReads' = [w \in WGs |-> ReadDo(kernel, mma'[w])] /\ DoReaders' = {w \in WGs : HoldsDo(kernel, mma'[w])}
  BY <1>1 DEF DoReads, DoReaders
<1>6. CASE x \notin {"do", "release_do"} BY <1>3, <1>4, <1>5, <1>6 DEF DoReads, DoReaders
<1>7. CASE x = "do" BY <1>3, <1>4, <1>5, <1>7 DEF DoReads, DoReaders
<1>8. CASE x = "release_do" BY <1>3, <1>4, <1>5, <1>8 DEF DoReads, DoReaders
<1> QED BY <1>6, <1>7, <1>8

-----------------------------------------------------------------------------
(* The parts of the invariant that a call does not touch.                  *)

LEMMA EachGoes ==
  ASSUME NEW G \in SUBSET WGs, NEW x, Goes(G, x)
  PROVE  /\ WGs' = WGs /\ kernel' = kernel
         /\ \A w \in WGs \ G : mma'[w] = mma[w]
         /\ \A w \in G : OneGoes(kernel, w, mma[w], mma'[w], x)
BY DEF Goes, WGs

LEMMA WrittenNat ==
  ASSUME NEW k, NEW w, NEW c, Place(k, w, c)
  PROVE  /\ c.m \in Nat /\ c.pc \in Nat
         /\ WrittenP(k, c) \in {c.m, c.m + 1} /\ WrittenDs(k, c) \in {c.m, c.m + 1} /\ WrittenDq(k, c) \in {c.m, c.m + 1}
         /\ WrittenP(k, c) \in Nat /\ WrittenDs(k, c) \in Nat /\ WrittenDq(k, c) \in Nat
<1>1. c.m \in Nat /\ c.pc \in Nat BY DEF Place
<1> QED BY <1>1 DEF WrittenP, WrittenDs, WrittenDq

LEMMA SyncKept ==
  ASSUME SyncInv, NEW G \in SUBSET WGs, NEW x, Goes(G, x), x \notin {"PdS", "Epilogue"},
         barriers'.PdS = barriers.PdS, barriers'.Epilogue = barriers.Epilogue
  PROVE  SyncInv'
<1>1. /\ WGs' = WGs /\ kernel' = kernel
      /\ \A w \in WGs \ G : mma'[w] = mma[w]
      /\ \A w \in G : OneGoes(kernel, w, mma[w], mma'[w], x)
  BY EachGoes
<1>2. \A w \in G : Round(kernel, w, mma'[w]) = Round(kernel, w, mma[w]) /\ x = Doing(kernel, w, mma[w])
  BY <1>1 DEF OneGoes, Effects
<1>3. \A w \in WGs : Round(kernel, w, mma'[w]) = Round(kernel, w, mma[w]) BY <1>1, <1>2
<1>4. \A u, w \in WGs : Round(kernel, u, mma'[u]) = Round(kernel, w, mma'[w])
  BY <1>3 DEF SyncInv
<1>5. ASSUME NEW b \in {"PdS", "Epilogue"}
      PROVE  barriers'[b] \subseteq WGs /\ barriers'[b] # WGs /\ \A w \in barriers'[b] : Doing(kernel, w, mma'[w]) = b
  <2>1. barriers'[b] = barriers[b] OBVIOUS
  <2>2. barriers[b] \subseteq WGs /\ barriers[b] # WGs /\ \A w \in barriers[b] : Doing(kernel, w, mma[w]) = b
    BY DEF SyncInv
  <2>3. \A w \in barriers[b] : w \notin G BY <1>2, <2>2
  <2> QED BY <1>1, <2>1, <2>2, <2>3
<1> QED BY <1>1, <1>4, <1>5 DEF SyncInv

LEMMA PdSKept ==
  ASSUME PdSInv, NEW G \in SUBSET WGs, NEW x, Goes(G, x), x \notin {"p", "ds"}, smem'.p = smem.p, smem'.ds = smem.ds
  PROVE  PdSInv'
<1>1. /\ WGs' = WGs /\ kernel' = kernel
      /\ \A w \in WGs \ G : mma'[w] = mma[w]
      /\ \A w \in G : OneGoes(kernel, w, mma[w], mma'[w], x)
  BY EachGoes
<1>2. ASSUME NEW w \in WGs
      PROVE  /\ SharesP(kernel) => WrittenP(kernel, mma'[w]) = WrittenP(kernel, mma[w])
             /\ WrittenDs(kernel, mma'[w]) = WrittenDs(kernel, mma[w])
  <2>1. CASE w \notin G BY <1>1, <2>1
  <2>2. CASE w \in G
    <3>1. /\ SharesP(kernel) => WrittenP(kernel, mma'[w]) = WrittenP(kernel, mma[w]) + 0
          /\ WrittenDs(kernel, mma'[w]) = WrittenDs(kernel, mma[w]) + 0
      BY <1>1, <2>2 DEF OneGoes, Effects
    <3>2. Place(kernel, w, mma[w]) BY <1>1, <2>2 DEF OneGoes, Moved
    <3>3. WrittenP(kernel, mma[w]) \in Nat /\ WrittenDs(kernel, mma[w]) \in Nat
      BY <3>2, WrittenNat
    <3> QED BY <3>1, <3>3
  <2> QED BY <2>1, <2>2
<1>3. \A x2 \in {"p", "ds"} : smem'[x2] \in [{0, 1} -> [WGs -> Nat \cup {Nil}]] BY DEF PdSInv
<1>4. \A w \in WGs :
        /\ SharesP(kernel) => Holds(kernel, smem'.p, w, WrittenP(kernel, mma'[w]))
        /\ Holds(kernel, smem'.ds, w, WrittenDs(kernel, mma'[w]))
  BY <1>2 DEF PdSInv
<1> QED BY <1>1, <1>3, <1>4 DEF PdSInv, Nil

LEMMA DqKept ==
  ASSUME kernel \in CtaKernels, DqInv, NEW G \in SUBSET WGs, NEW x, Goes(G, x), x # "nothing", kernel.Slice_dQKV_Mma \/ x # "dq",
         smem'.dq = smem.dq, dq_warp' = dq_warp, barriers'.dQEmpty = barriers.dQEmpty, barriers'.dQFull = barriers.dQFull
  PROVE  DqInv'
<1>1. /\ WGs' = WGs /\ kernel' = kernel
      /\ \A w \in WGs \ G : mma'[w] = mma[w]
      /\ \A w \in G : OneGoes(kernel, w, mma[w], mma'[w], x)
  BY EachGoes
<1>2. ASSUME NEW w \in WGs, ~kernel.Slice_dQKV_Mma
      PROVE  WrittenDq(kernel, mma'[w]) = WrittenDq(kernel, mma[w]) /\ (mma'[w].at = "init" <=> mma[w].at = "init")
  <2>1. CASE w \notin G BY <1>1, <2>1
  <2>2. CASE w \in G
    <3>1. /\ WrittenDq(kernel, mma'[w]) = WrittenDq(kernel, mma[w]) + 0
          /\ mma[w].at \in {"loop", "epilogue"} /\ Moved(kernel, w, mma[w], mma'[w])
      BY <1>1, <1>2, <2>2 DEF OneGoes, Effects
    <3>2. WrittenDq(kernel, mma[w]) \in Nat BY <3>1, WrittenNat DEF Moved
    <3>3. mma'[w].at # "init" BY <3>1 DEF Moved
    <3> QED BY <3>1, <3>2, <3>3
  <2> QED BY <2>1, <2>2
<1>3. \A w \in WGs : Copied(w)' = Copied(w) /\ Freed(w)' = Freed(w) BY DEF Copied, Freed
<1>4. ~kernel.Slice_dQKV_Mma =>
       \A w \in WGs :
         /\ barriers'.dQFull[w] = WrittenDq(kernel, mma'[w]) - Copied(w)
         /\ barriers'.dQEmpty[w] = (IF mma'[w].at = "init" THEN 0 ELSE 1) + Freed(w) - WrittenDq(kernel, mma'[w])
         /\ WrittenDq(kernel, mma'[w]) > 0 => smem'.dq[w] = WrittenDq(kernel, mma'[w]) - 1
  BY <1>2 DEF DqInv
<1> QED BY <1>1, <1>3, <1>4 DEF DqInv, Nil

LEMMA KvKept ==
  ASSUME kernel \in CtaKernels, Places, SyncInv, KvInv, NEW G \in SUBSET WGs, NEW x, Goes(G, x), x # "nothing",
         loader' = loader, smem'.kv = smem.kv
  PROVE  KvInv'
<1>1. /\ WGs' = WGs /\ kernel' = kernel
      /\ \A w \in WGs \ G : mma'[w] = mma[w]
      /\ \A w \in G : OneGoes(kernel, w, mma[w], mma'[w], x)
  BY EachGoes
<1>2. ASSUME NEW w \in WGs
      PROVE  /\ mma'[w].at = "loop" => mma[w].at = "loop"
             /\ mma'[w].at = "epilogue" => mma[w].at \in {"loop", "epilogue"}
             /\ InEpilogue(mma[w]) => InEpilogue(mma'[w])
  <2>1. CASE w \notin G BY <1>1, <2>1
  <2>2. CASE w \in G
    <3>1. mma[w].at \in {"loop", "epilogue"} /\ Moved(kernel, w, mma[w], mma'[w])
      BY <1>1, <2>2 DEF OneGoes
    <3> QED BY <3>1 DEF Moved, InEpilogue
  <2> QED BY <2>1, <2>2
<1>3. ASSUME NEW w \in WGs, InEpilogue(mma[w]), Round(kernel, w, mma[w])[2] > 0
      PROVE  Round(kernel, w, mma'[w])[2] > 0
  <2>1. CASE w \notin G BY <1>1, <1>3, <2>1
  <2>2. CASE w \in G /\ x \notin {"PdS", "Epilogue"}
    <3>1. Round(kernel, w, mma'[w]) = Round(kernel, w, mma[w])
      BY <1>1, <2>2 DEF OneGoes, Effects
    <3> QED BY <1>3, <3>1
  <2>3. CASE w \in G /\ x \in {"PdS", "Epilogue"}
    <3>1. Round(kernel, w, mma'[w]) = NextRound(kernel, Round(kernel, w, mma[w]))
      BY <1>1, <2>3 DEF OneGoes, Effects
    <3>2. mma[w].m = kernel.blocks /\ kernel.blocks \in Nat
      BY <1>3, KernelTypes DEF Places, Place
    <3>3. ~Past(mma[w], DsShared(kernel)) BY <1>3 DEF InEpilogue, Past
    <3>4. Round(kernel, w, mma[w]) = <<kernel.blocks, EpilogueSyncs(kernel, w, mma[w].pc)>>
      BY <1>3, <3>2, <3>3 DEF Round
    <3>5. EpilogueSyncs(kernel, w, mma[w].pc) \in Nat BY KernelTypes DEF EpilogueSyncs
    <3>6. NextRound(kernel, Round(kernel, w, mma[w])) = <<kernel.blocks, EpilogueSyncs(kernel, w, mma[w].pc) + 1>>
      BY <3>2, <3>4 DEF NextRound
    <3> QED BY <3>1, <3>5, <3>6
  <2> QED BY <2>1, <2>2, <2>3
<1>4. /\ \A w \in WGs : mma'[w].at = "loop" => smem'.kv = "loaded"
      /\ smem'.kv = "overwritten" => \A w \in WGs : InEpilogue(mma'[w]) /\ Round(kernel, w, mma'[w])[2] > 0
      /\ \A w \in WGs : mma'[w].at = "epilogue" => smem'.kv \in {"loaded", "overwritten"}
  BY <1>2, <1>3 DEF KvInv
<1> QED BY <1>1, <1>4 DEF KvInv

LEMMA EpilogueKept ==
  ASSUME kernel \in CtaKernels, EpilogueInv, NEW G \in SUBSET WGs, NEW x, Goes(G, x),
         x \notin {"dkv", "dk", "dv", "written", "store", "stored"},
         smem'.dkv = smem.dkv, smem'.storing = smem.storing, barriers'.written = barriers.written
  PROVE  EpilogueInv'
<1>1. /\ WGs' = WGs /\ kernel' = kernel
      /\ \A w \in WGs \ G : mma'[w] = mma[w]
      /\ \A w \in G : OneGoes(kernel, w, mma[w], mma'[w], x)
  BY EachGoes
<1>2. \A w \in WGs : Written(kernel, w, mma'[w]) = Written(kernel, w, mma[w])
  BY <1>1 DEF OneGoes, Effects
<1>3. Storing(kernel, mma'[Leader(kernel)]) = Storing(kernel, mma[Leader(kernel)])
  <2>1. Leader(kernel) \in WGs BY KernelTypes, GroupsOf
  <2> QED BY <1>1, <2>1 DEF OneGoes, Effects
<1>4. smem'.dkv = [w \in WGs |-> Written(kernel, w, mma'[w])] BY <1>2 DEF EpilogueInv
<1> QED BY <1>1, <1>3, <1>4 DEF EpilogueInv

LEMMA MemoryKept ==
  ASSUME IInv, NEW G \in SUBSET WGs, NEW x, Goes(G, x), kernel.Slice_dQKV_Mma \/ x # "dq",
         x \notin {"nothing", "p", "ds", "dkv", "dk", "dv", "written", "store", "stored"},
         smem' = smem, dq_warp' = dq_warp, barriers'.dQEmpty = barriers.dQEmpty, barriers'.dQFull = barriers.dQFull,
         barriers'.written = barriers.written
  PROVE  PdSInv' /\ DqInv' /\ EpilogueInv'
<1>1. kernel \in CtaKernels /\ PdSInv /\ DqInv /\ EpilogueInv BY DEF IInv, LoaderInv
<1>2. PdSInv' BY <1>1, PdSKept
<1>3. DqInv' BY <1>1, DqKept
<1>4. EpilogueInv' BY <1>1, EpilogueKept
<1> QED BY <1>2, <1>3, <1>4

LEMMA QuerySame ==
  ASSUME kernel \in CtaKernels, QueryRing, NEW G \in SUBSET WGs, NEW x, Goes(G, x), x \notin {"q", "release_q"},
         q_pipe' = q_pipe, loader'.write = loader.write
  PROVE  QueryRing'
<1>1. QueryReads' = QueryReads /\ QueryReaders' = QueryReaders BY QueryGoes
<1>2. QueryMove BY <1>1 DEF QueryMove, RQ!NumberedMove
<1> QED BY <1>2, QueryKept, EachGoes

LEMMA DoSame ==
  ASSUME kernel \in CtaKernels, DoRing, NEW G \in SUBSET WGs, NEW x, Goes(G, x), x \notin {"do", "release_do"},
         do_pipe' = do_pipe, loader'.write_do = loader.write_do
  PROVE  DoRing'
<1>1. DoReads' = DoReads /\ DoReaders' = DoReaders BY DoGoes
<1>2. DoMove BY <1>1 DEF DoMove, RD!NumberedMove
<1> QED BY <1>2, DoKept, EachGoes

LEMMA Idle ==
  ASSUME IInv, kernel' = kernel, mma' = mma
  PROVE  /\ Goes({}, "none") /\ Places'
         /\ barriers' = barriers => SyncInv'
         /\ smem' = smem /\ loader' = loader => KvInv'
         /\ barriers' = barriers /\ smem' = smem /\ dq_warp' = dq_warp => PdSInv' /\ DqInv' /\ EpilogueInv'
         /\ q_pipe' = q_pipe /\ loader'.write = loader.write => QueryRing'
         /\ do_pipe' = do_pipe /\ loader'.write_do = loader.write_do => DoRing'
         /\ loader' = loader => LoaderInv'
<1>1. /\ kernel \in CtaKernels /\ Places /\ SyncInv /\ KvInv /\ QueryRing /\ DoRing /\ LoaderInv
  BY DEF IInv, LoaderInv
<1>2. Goes({}, "none") BY <1>1 DEF Goes, Places
<1>3. Places' BY <1>1, <1>2, PlacesKept
<1>4. barriers' = barriers => SyncInv' BY <1>1, <1>2, SyncKept
<1>5. smem' = smem /\ loader' = loader => KvInv' BY <1>1, <1>2, KvKept
<1>6. barriers' = barriers /\ smem' = smem /\ dq_warp' = dq_warp => PdSInv' /\ DqInv' /\ EpilogueInv'
  BY <1>2, MemoryKept
<1>7. q_pipe' = q_pipe /\ loader'.write = loader.write => QueryRing' BY <1>1, <1>2, QuerySame
<1>8. do_pipe' = do_pipe /\ loader'.write_do = loader.write_do => DoRing' BY <1>1, <1>2, DoSame
<1>9. loader' = loader => LoaderInv' BY <1>1 DEF LoaderInv
<1> QED BY <1>2, <1>3, <1>4, <1>5, <1>6, <1>7, <1>8, <1>9

-----------------------------------------------------------------------------
(* The loader, and what it has issued.                                     *)

LEMMA LoaderFacts ==
  ASSUME IInv
  PROVE  /\ kernel \in CtaKernels /\ kernel.blocks \in Nat
         /\ DOMAIN loader = {"at", "m", "write", "write_do"} /\ loader.m \in 0 .. kernel.blocks
         /\ loader.write \in [index : {0, 1}, lap : Nat]
         /\ loader.write_do \in [index : 0 .. kernel.kStages_dO - 1, lap : Nat]
         /\ RQ!Pos(loader.write) = loader.m + (IF loader.at \in {"kv", "do"} THEN 1 ELSE 0)
         /\ RD!Pos(loader.write_do) = loader.m
<1>1. LoaderInv /\ QueryRing /\ DoRing BY DEF IInv
<1>2. kernel \in CtaKernels /\ kernel.blocks \in Nat BY <1>1, KernelTypes DEF LoaderInv
<1>3. loader.write \in RQ!PipelineState BY <1>1 DEF QueryRing, RQ!NumberedRing, RQ!Ring
<1>4. loader.write \in [index : {0, 1}, lap : Nat]
  <2>1. 0 .. 2 - 1 = {0, 1} OBVIOUS
  <2> QED BY <1>3, <2>1 DEF RQ!PipelineState, RQ!Stages
<1>5. loader.write_do \in [index : 0 .. kernel.kStages_dO - 1, lap : Nat]
  BY <1>1 DEF DoRing, RD!NumberedRing, RD!Ring, RD!PipelineState, RD!Stages
<1>6. /\ RQ!Pos(loader.write) = loader.m + (IF loader.at \in {"kv", "do"} THEN 1 ELSE 0)
      /\ RD!Pos(loader.write_do) = loader.m
  BY <1>1 DEF LoaderInv, RQ!Pos, RD!Pos
<1> QED BY <1>1, <1>2, <1>4, <1>5, <1>6 DEF LoaderInv

LEMMA LoadQueryKeeps ==
  ASSUME IInv, LoadQuery
  PROVE  IInv'
<1>1. /\ loader.at = "q" /\ QPipe!AcquireReady(q_pipe, loader.write)
      /\ q_pipe' = QPipe!Issue(q_pipe, loader.write, loader.m)
      /\ loader' = [loader EXCEPT !.at = IF loader.m = 0 THEN "kv" ELSE "do", !.write = Advanced(2, loader.write)]
      /\ kernel' = kernel /\ mma' = mma /\ dq_warp' = dq_warp /\ do_pipe' = do_pipe /\ smem' = smem /\ barriers' = barriers
  BY AdvancedIs DEF LoadQuery
<1>2. /\ LoaderInv /\ KvInv /\ QueryRing /\ Fields BY DEF IInv
<1>3. /\ DOMAIN loader' = {"at", "m", "write", "write_do"} /\ loader'.at = (IF loader.m = 0 THEN "kv" ELSE "do")
      /\ loader'.write = Advanced(2, loader.write) /\ loader'.m = loader.m /\ loader'.write_do = loader.write_do
  BY <1>1, LoaderFacts
<1>4. Goes({}, "none") /\ Places' /\ SyncInv' /\ PdSInv' /\ DqInv' /\ EpilogueInv' /\ DoRing'
  BY <1>1, <1>3, Idle
<1>5. QueryRing'
  <2>1. QueryReads' = QueryReads /\ QueryReaders' = QueryReaders BY <1>4, QueryGoes
  <2>2. RQ!Pos(loader.write) = loader.m BY <1>1, LoaderFacts
  <2>3. RQ!AcquireReady(q_pipe, loader.write) /\ q_pipe' = RQ!Issue(q_pipe, loader.write, RQ!Pos(loader.write))
    BY <1>1, <2>2, SamePipes
  <2>4. loader'.write = RQ!Advance(loader.write) BY <1>3, AdvancedIs
  <2>5. QueryMove BY <2>1, <2>3, <2>4 DEF QueryMove, RQ!NumberedMove
  <2> QED BY <1>1, <1>2, <2>5, QueryKept, LoaderFacts
<1>6. LoaderInv'
  <2>1. loader'.write.lap * 2 + loader'.write.index = loader.m + 1
    <3>1. QPipe!Advance(loader.write).lap * 2 + QPipe!Advance(loader.write).index = loader.write.lap * 2 + loader.write.index + 1
      BY Advances, LoaderFacts
    <3>2. loader.write.lap * 2 + loader.write.index = loader.m
      BY <1>1, LoaderFacts DEF RQ!Pos
    <3> QED BY <1>3, <3>1, <3>2, AdvancedIs
  <2>2. loader.m < kernel.blocks /\ loader.m \in 0 .. kernel.blocks BY <1>1, <1>2 DEF LoaderInv
  <2>3. /\ kernel' \in CtaKernels
        /\ loader'.write_do.lap * kernel'.kStages_dO + loader'.write_do.index = loader'.m
    BY <1>1, <1>2, <1>3 DEF LoaderInv
  <2> QED BY <1>1, <1>3, <2>1, <2>2, <2>3 DEF LoaderInv
<1>7. KvInv'
  <2>1. WGs' = WGs BY <1>1 DEF WGs
  <2>2. loader.m = 0 => smem.kv = "empty" BY <1>1, <1>2 DEF KvInv
  <2>3. loader'.at = "kv" \/ (loader'.at = "q" /\ loader'.m = 0) => smem'.kv = "empty"
    BY <1>1, <1>3, <2>2
  <2> QED BY <1>1, <1>2, <2>1, <2>3 DEF KvInv
<1>8. Fields' BY <1>1, <1>2 DEF Fields
<1> QED BY <1>4, <1>5, <1>6, <1>7, <1>8 DEF IInv

LEMMA LoadKVKeeps ==
  ASSUME IInv, LoadKV
  PROVE  IInv'
<1>1. /\ loader.at = "kv" /\ smem' = [smem EXCEPT !.kv = "loading"] /\ loader' = [loader EXCEPT !.at = "do"]
      /\ kernel' = kernel /\ mma' = mma /\ dq_warp' = dq_warp /\ q_pipe' = q_pipe /\ do_pipe' = do_pipe /\ barriers' = barriers
  BY DEF LoadKV
<1>2. /\ LoaderInv /\ KvInv /\ Fields /\ kernel \in CtaKernels /\ PdSInv /\ DqInv /\ EpilogueInv
  BY DEF IInv, LoaderInv
<1>3. /\ DOMAIN loader' = {"at", "m", "write", "write_do"} /\ loader'.at = "do"
      /\ loader'.write = loader.write /\ loader'.m = loader.m /\ loader'.write_do = loader.write_do
  BY <1>1, LoaderFacts
<1>4. Goes({}, "none") /\ Places' /\ SyncInv' /\ QueryRing' /\ DoRing' BY <1>1, <1>3, Idle
<1>5. /\ smem'.kv = "loading" /\ smem'.p = smem.p /\ smem'.ds = smem.ds /\ smem'.dq = smem.dq
      /\ smem'.dkv = smem.dkv /\ smem'.storing = smem.storing /\ DOMAIN smem' = DOMAIN smem
  BY <1>1, <1>2 DEF Fields
<1>6. PdSInv' BY <1>2, <1>4, <1>5, PdSKept
<1>7. DqInv' BY <1>1, <1>2, <1>4, <1>5, DqKept
<1>8. EpilogueInv' BY <1>1, <1>2, <1>4, <1>5, EpilogueKept
<1>9. LoaderInv' BY <1>1, <1>2, <1>3 DEF LoaderInv
<1>10. KvInv'
  <2>1. WGs' = WGs BY <1>1 DEF WGs
  <2>2. smem.kv = "empty" BY <1>1, <1>2 DEF KvInv
  <2>3. \A w \in WGs : mma'[w].at # "loop" /\ mma'[w].at # "epilogue"
    BY <1>1, <1>2, <2>2 DEF KvInv
  <2> QED BY <1>3, <1>5, <2>1, <2>3 DEF KvInv
<1>11. Fields' BY <1>1, <1>2, <1>5 DEF Fields
<1> QED BY <1>4, <1>6, <1>7, <1>8, <1>9, <1>10, <1>11 DEF IInv

LEMMA LoadDoKeeps ==
  ASSUME IInv, LoadDo
  PROVE  IInv'
<1>1. /\ loader.at = "do" /\ DoPipe!AcquireReady(do_pipe, loader.write_do)
      /\ do_pipe' = DoPipe!Issue(do_pipe, loader.write_do, loader.m)
      /\ loader' = [loader EXCEPT !.at = IF loader.m = LastM THEN "tail" ELSE "q", !.m = loader.m + 1,
                                  !.write_do = Advanced(kernel.kStages_dO, loader.write_do)]
      /\ kernel' = kernel /\ mma' = mma /\ dq_warp' = dq_warp /\ q_pipe' = q_pipe /\ smem' = smem /\ barriers' = barriers
  BY AdvancedIs DEF LoadDo
<1>2. /\ LoaderInv /\ KvInv /\ DoRing /\ Fields BY DEF IInv
<1>3. /\ DOMAIN loader' = {"at", "m", "write", "write_do"} /\ loader'.at = (IF loader.m = LastM THEN "tail" ELSE "q")
      /\ loader'.write = loader.write /\ loader'.m = loader.m + 1
      /\ loader'.write_do = Advanced(kernel.kStages_dO, loader.write_do)
  BY <1>1, LoaderFacts
<1>4. Goes({}, "none") /\ Places' /\ SyncInv' /\ PdSInv' /\ DqInv' /\ EpilogueInv' /\ QueryRing'
  BY <1>1, <1>3, Idle
<1>5. DoRing'
  <2>1. DoReads' = DoReads /\ DoReaders' = DoReaders BY <1>4, DoGoes
  <2>2. RD!AcquireReady(do_pipe, loader.write_do) /\ do_pipe' = RD!Issue(do_pipe, loader.write_do, RD!Pos(loader.write_do))
    BY <1>1, SamePipes, LoaderFacts
  <2>3. loader'.write_do = RD!Advance(loader.write_do) BY <1>3, AdvancedIs
  <2>4. DoMove BY <2>1, <2>2, <2>3 DEF DoMove, RD!NumberedMove
  <2> QED BY <1>1, <1>2, <2>4, DoKept, LoaderFacts
<1>6. LoaderInv'
  <2>1. loader'.write_do.lap * kernel.kStages_dO + loader'.write_do.index = loader.m + 1
    <3>1. DoPipe!Advance(loader.write_do).lap * kernel.kStages_dO + DoPipe!Advance(loader.write_do).index
            = loader.write_do.lap * kernel.kStages_dO + loader.write_do.index + 1
      BY Advances, LoaderFacts
    <3>2. loader.write_do.lap * kernel.kStages_dO + loader.write_do.index = loader.m
      BY <1>1, LoaderFacts DEF RD!Pos
    <3> QED BY <1>3, <3>1, <3>2, AdvancedIs
  <2>2. /\ loader.m < kernel.blocks /\ loader.m \in 0 .. kernel.blocks /\ kernel.blocks \in Nat
        /\ loader.write.lap * 2 + loader.write.index = loader.m + 1
    BY <1>1, <1>2, LoaderFacts DEF LoaderInv
  <2>3. /\ loader'.m \in 0 .. kernel.blocks /\ (loader'.at = "q" => loader'.m < kernel.blocks)
        /\ (loader'.at = "tail" => loader'.m = kernel.blocks)
    BY <1>3, <2>2 DEF LastM
  <2>4. kernel' \in CtaKernels /\ kernel' = kernel BY <1>1, LoaderFacts
  <2>5. loader'.write.lap * 2 + loader'.write.index = loader'.m + 0 BY <1>3, <2>2
  <2>6. loader'.at \in {"q", "tail"} BY <1>3
  <2> QED BY <1>3, <2>1, <2>3, <2>4, <2>5, <2>6 DEF LoaderInv
<1>7. KvInv'
  <2>1. WGs' = WGs BY <1>1 DEF WGs
  <2>2. loader'.m # 0 /\ loader'.at # "kv" BY <1>3, LoaderFacts
  <2> QED BY <1>1, <1>2, <2>1, <2>2 DEF KvInv
<1>8. Fields' BY <1>1, <1>2 DEF Fields
<1> QED BY <1>4, <1>5, <1>6, <1>7, <1>8 DEF IInv

LEMMA LoaderTailKeeps ==
  ASSUME IInv, LoaderTail
  PROVE  IInv'
<1>1. /\ loader.at = "tail" /\ loader' = [loader EXCEPT !.at = "exit"]
      /\ kernel' = kernel /\ mma' = mma /\ dq_warp' = dq_warp /\ q_pipe' = q_pipe /\ do_pipe' = do_pipe
      /\ smem' = smem /\ barriers' = barriers
  BY DEF LoaderTail
<1>2. /\ LoaderInv /\ KvInv /\ Fields BY DEF IInv
<1>3. /\ DOMAIN loader' = {"at", "m", "write", "write_do"} /\ loader'.at = "exit"
      /\ loader'.write = loader.write /\ loader'.m = loader.m /\ loader'.write_do = loader.write_do
  BY <1>1, LoaderFacts
<1>4. Places' /\ SyncInv' /\ PdSInv' /\ DqInv' /\ EpilogueInv' /\ QueryRing' /\ DoRing'
  BY <1>1, <1>3, Idle
<1>5. LoaderInv' BY <1>1, <1>2, <1>3 DEF LoaderInv
<1>6. KvInv'
  <2>1. WGs' = WGs BY <1>1 DEF WGs
  <2> QED BY <1>1, <1>2, <1>3, <2>1 DEF KvInv
<1>7. Fields' BY <1>1, <1>2 DEF Fields
<1> QED BY <1>4, <1>5, <1>6, <1>7 DEF IInv

LEMMA LandQueryKeeps ==
  ASSUME IInv, NEW s \in QPipe!Stages, LandQuery(s)
  PROVE  IInv'
<1>1. /\ q_pipe.load[s] # Nil /\ q_pipe' = RQ!Land(q_pipe, s)
      /\ kernel' = kernel /\ mma' = mma /\ dq_warp' = dq_warp /\ loader' = loader /\ do_pipe' = do_pipe
      /\ smem' = smem /\ barriers' = barriers
  BY SamePipes DEF LandQuery
<1>2. /\ QueryRing /\ Fields BY DEF IInv
<1>3. Goes({}, "none") /\ Places' /\ SyncInv' /\ PdSInv' /\ DqInv' /\ EpilogueInv' /\ DoRing' /\ LoaderInv' /\ KvInv'
  BY <1>1, Idle
<1>4. QueryReads' = QueryReads /\ QueryReaders' = QueryReaders BY <1>3, QueryGoes
<1>5. QueryMove BY <1>1, <1>4, SamePipes DEF QueryMove, RQ!NumberedMove
<1>6. QueryRing' BY <1>1, <1>2, <1>5, QueryKept, LoaderFacts
<1>7. Fields' BY <1>1, <1>2 DEF Fields
<1> QED BY <1>3, <1>6, <1>7 DEF IInv

LEMMA LandDoKeeps ==
  ASSUME IInv, NEW s \in DoPipe!Stages, LandDo(s)
  PROVE  IInv'
<1>1. /\ do_pipe.load[s] # Nil /\ do_pipe' = RD!Land(do_pipe, s)
      /\ kernel' = kernel /\ mma' = mma /\ dq_warp' = dq_warp /\ loader' = loader /\ q_pipe' = q_pipe
      /\ smem' = smem /\ barriers' = barriers
  BY SamePipes DEF LandDo
<1>2. /\ DoRing /\ Fields BY DEF IInv
<1>3. Goes({}, "none") /\ Places' /\ SyncInv' /\ PdSInv' /\ DqInv' /\ EpilogueInv' /\ QueryRing' /\ LoaderInv' /\ KvInv'
  BY <1>1, Idle
<1>4. DoReads' = DoReads /\ DoReaders' = DoReaders BY <1>3, DoGoes
<1>5. DoMove BY <1>1, <1>4, SamePipes DEF DoMove, RD!NumberedMove
<1>6. DoRing' BY <1>1, <1>2, <1>5, DoKept, LoaderFacts
<1>7. Fields' BY <1>1, <1>2 DEF Fields
<1> QED BY <1>3, <1>6, <1>7 DEF IInv

LEMMA LandKVKeeps ==
  ASSUME IInv, LandKV
  PROVE  IInv'
<1>1. /\ smem.kv = "loading" /\ smem' = [smem EXCEPT !.kv = "loaded"]
      /\ kernel' = kernel /\ mma' = mma /\ dq_warp' = dq_warp /\ q_pipe' = q_pipe /\ do_pipe' = do_pipe
      /\ loader' = loader /\ barriers' = barriers
  BY DEF LandKV
<1>2. /\ KvInv /\ Fields /\ kernel \in CtaKernels /\ PdSInv /\ DqInv /\ EpilogueInv
  BY DEF IInv, LoaderInv
<1>3. Goes({}, "none") /\ Places' /\ SyncInv' /\ QueryRing' /\ DoRing' /\ LoaderInv'
  BY <1>1, Idle
<1>4. /\ smem'.kv = "loaded" /\ smem'.p = smem.p /\ smem'.ds = smem.ds /\ smem'.dq = smem.dq
      /\ smem'.dkv = smem.dkv /\ smem'.storing = smem.storing /\ DOMAIN smem' = DOMAIN smem
  BY <1>1, <1>2 DEF Fields
<1>5. PdSInv' BY <1>2, <1>3, <1>4, PdSKept
<1>6. DqInv' BY <1>1, <1>2, <1>3, <1>4, DqKept
<1>7. EpilogueInv' BY <1>1, <1>2, <1>3, <1>4, EpilogueKept
<1>8. KvInv'
  <2>1. WGs' = WGs BY <1>1 DEF WGs
  <2> QED BY <1>1, <1>2, <1>4, <2>1 DEF KvInv
<1>9. Fields' BY <1>1, <1>2, <1>4 DEF Fields
<1> QED BY <1>3, <1>5, <1>6, <1>7, <1>8, <1>9 DEF IInv

-----------------------------------------------------------------------------
(* A warpgroup starts, reads, releases and syncs.                          *)

LEMMA FirstCall ==
  ASSUME NEW k \in CtaKernels, NEW w \in Groups(k), NEW c, c.m = 0, c.pc = 1
  PROVE  /\ ~HoldsQ(c) /\ ~HoldsDo(k, c) /\ ~Past(c, ReleaseDo(k))
         /\ SharesP(k) => WrittenP(k, c) = 0
         /\ WrittenDs(k, c) = 0 /\ WrittenDq(k, c) = 0
         /\ Round(k, w, c) = <<0, 0>> /\ Written(k, w, c) = {} /\ Storing(k, c) = {}
<1>k. /\ ReleaseDo(k) \in 7 .. 12 /\ DsShared(k) \in 5 .. 8 /\ (SyncsBeforeDs(k) => DsShared(k) >= 6)
      /\ (SharesP(k) => DsShared(k) >= 7) /\ (SyncsBeforeP(k) => DsShared(k) = 8)
      /\ k.epilogue \in {"tma", "varlen", "gqa"}
  BY KernelTypes
<1>1. \A pc \in Nat \ {0} : ~Past(c, pc) BY DEF Past
<1>2. /\ ~Past(c, 1) /\ ~Past(c, 2) /\ ~Past(c, ReleaseDo(k)) /\ ~Past(c, DsShared(k)) /\ ~Past(c, DsShared(k) - 1)
      /\ ~Past(c, DsShared(k) + 3)
      /\ (SharesP(k) => ~Past(c, DsShared(k) - 3)) /\ (SyncsBeforeP(k) => ~Past(c, DsShared(k) - 4))
      /\ (SyncsBeforeDs(k) => ~Past(c, DsShared(k) - 2))
  BY <1>k, <1>1
<1>3. /\ SharesP(k) => WrittenP(k, c) = 0
      /\ WrittenDs(k, c) = 0 /\ WrittenDq(k, c) = 0
  BY <1>2 DEF WrittenP, WrittenDs, WrittenDq
<1>4. EpilogueSyncs(k, w, 1) = 0 BY <1>k DEF EpilogueSyncs
<1>5. Round(k, w, c) = <<0, 0>>
  <2>1. (IF SyncsBeforeP(k) /\ Past(c, DsShared(k) - 4) THEN 1 ELSE 0)
        + (IF SyncsBeforeDs(k) /\ Past(c, DsShared(k) - 2) THEN 1 ELSE 0) = 0
    BY <1>2
  <2> QED BY <1>2, <1>4, <2>1, Zenon DEF Round
<1>6. Written(k, w, c) = {} /\ Storing(k, c) = {} BY DEF Written, Storing
<1> QED BY <1>2, <1>3, <1>5, <1>6 DEF HoldsQ, HoldsDo

LEMMA Enters ==
  ASSUME kernel \in CtaKernels, NEW w \in WGs, Place(kernel, w, mma[w]), mma[w].at \in {"init", "wait_kv"},
         NEW at, (at \in {"wait_kv", "loop"} /\ kernel.blocks > 0) \/ (at = "exit" /\ kernel.blocks = 0),
         mma' = [mma EXCEPT ![w].at = at], kernel' = kernel, Places
  PROVE  Goes({w}, "nothing") /\ mma'[w].at = at
<1> DEFINE c == mma[w]
           d == mma'[w]
<1>k. w \in Groups(kernel) /\ LoopLen(kernel) \in 9 .. 14 /\ ReleaseDo(kernel) \in 7 .. 12 /\ kernel.blocks \in Nat
      /\ DsShared(kernel) \in 5 .. 8
  BY GroupsOf, KernelTypes
<1>1. /\ mma' = [v \in WGs |-> mma'[v]] /\ \A v \in WGs : v # w => mma'[v] = mma[v]
      /\ d = [c EXCEPT !.at = at]
  BY DEF Places
<1>2. /\ DOMAIN c = {"at", "pc", "m", "read", "read_do", "gemms", "dk", "dv"}
      /\ c.pc = 1 /\ c.m = 0 /\ c.gemms = << >>
      /\ c.read \in [index : {0, 1}, lap : Nat] /\ c.read.lap * 2 + c.read.index = c.m
      /\ c.read_do \in [index : 0 .. kernel.kStages_dO - 1, lap : Nat]
      /\ c.read_do.lap * kernel.kStages_dO + c.read_do.index = c.m
  BY DEF Place
<1>a. c.at \in {"init", "wait_kv"} OBVIOUS
<1> HIDE DEF c, d
<1>3. /\ DOMAIN d = DOMAIN c /\ d.at = at /\ d.pc = 1 /\ d.m = 0 /\ d.gemms = << >> /\ d.read = c.read /\ d.read_do = c.read_do
  BY <1>1, <1>2
<1>4. Place(kernel, w, d)
  <2>1. << >> \in Seq(GemmRecord) /\ Len(<< >>) = 0 /\ UnderWay(kernel, 1) = << >>
    BY EmptySeq, UnderWayTable
  <2>2. d.at = "loop" => /\ d.pc \in 1 .. LoopLen(kernel) /\ Len(d.gemms) = Len(UnderWay(kernel, d.pc))
                         /\ \A i \in 1 .. Len(d.gemms) : d.gemms[i] = GemmOf(d, UnderWay(kernel, d.pc)[i])
    BY <1>k, <1>3, <2>1
  <2> QED BY <1>k, <1>2, <1>3, <2>1, <2>2 DEF Place, InEpilogue
<1>5. Moved(kernel, w, c, d) BY <1>4, <1>a DEF Moved, c
<1>6. ~Past(c, ReleaseDo(kernel)) /\ ~Past(d, ReleaseDo(kernel)) BY <1>2, <1>3, <1>k DEF Past
<1>7. Effects(kernel, w, c, d, "nothing")
  <2>1. /\ ~HoldsQ(c) /\ ~HoldsDo(kernel, c) /\ ~Past(c, ReleaseDo(kernel))
        /\ SharesP(kernel) => WrittenP(kernel, c) = 0
        /\ WrittenDs(kernel, c) = 0 /\ WrittenDq(kernel, c) = 0
        /\ Round(kernel, w, c) = <<0, 0>> /\ Written(kernel, w, c) = {} /\ Storing(kernel, c) = {}
    BY <1>k, <1>2, FirstCall
  <2>2. /\ ~HoldsQ(d) /\ ~HoldsDo(kernel, d) /\ ~Past(d, ReleaseDo(kernel))
        /\ SharesP(kernel) => WrittenP(kernel, d) = 0
        /\ WrittenDs(kernel, d) = 0 /\ WrittenDq(kernel, d) = 0
        /\ Round(kernel, w, d) = <<0, 0>> /\ Written(kernel, w, d) = {} /\ Storing(kernel, d) = {}
    BY <1>k, <1>3, FirstCall
  <2> QED BY <2>1, <2>2 DEF Effects
<1>8. OneGoes(kernel, w, c, d, "nothing")
  <2>1. "nothing" = Doing(kernel, w, c) BY <1>a DEF Doing
  <2>2. ReadDo(kernel, d) = ReadDo(kernel, c) BY <1>3, <1>6, <1>k DEF ReadDo
  <2> QED BY <1>3, <1>5, <1>7, <2>1, <2>2 DEF OneGoes
<1> QED BY <1>1, <1>3, <1>8 DEF Goes, c, d

LEMMA InvFacts ==
  ASSUME IInv
  PROVE  /\ kernel \in CtaKernels /\ kernel.blocks \in Nat /\ kernel.wgs \in {2, 3} /\ WGs = Groups(kernel)
         /\ LoaderInv /\ Places /\ QueryRing /\ DoRing /\ SyncInv /\ PdSInv /\ DqInv /\ KvInv /\ EpilogueInv /\ Fields
         /\ \A w \in WGs : Place(kernel, w, mma[w])
BY KernelTypes, GroupsOf DEF IInv, LoaderInv, Places

LEMMA MmaInitKeeps ==
  ASSUME IInv, NEW w \in WGs, MmaInit(w)
  PROVE  IInv'
<1> DEFINE at == IF kernel.blocks = 0 THEN "exit" ELSE "wait_kv"
<1>1. /\ mma[w].at = "init" /\ barriers' = FreeAtInit(w) /\ mma' = [mma EXCEPT ![w].at = at]
      /\ kernel' = kernel /\ loader' = loader /\ dq_warp' = dq_warp /\ q_pipe' = q_pipe /\ do_pipe' = do_pipe /\ smem' = smem
  BY DEF MmaInit
<1>0. (at \in {"wait_kv", "loop"} /\ kernel.blocks > 0) \/ (at = "exit" /\ kernel.blocks = 0)
  BY InvFacts
<1>a. at # "init" /\ at # "loop" /\ at # "epilogue" OBVIOUS
<1> HIDE DEF at
<1>2. Goes({w}, "nothing") /\ mma'[w].at = at BY <1>0, <1>1, InvFacts, Enters
<1>3. /\ barriers'.PdS = barriers.PdS /\ barriers'.Epilogue = barriers.Epilogue /\ barriers'.written = barriers.written
      /\ DOMAIN barriers' = DOMAIN barriers /\ barriers'.dQFull = barriers.dQFull
      /\ kernel.Slice_dQKV_Mma => barriers' = barriers
      /\ ~kernel.Slice_dQKV_Mma => barriers'.dQEmpty = [barriers.dQEmpty EXCEPT ![w] = barriers.dQEmpty[w] + 1]
  <2>1. DOMAIN barriers = {"PdS", "Epilogue", "written", "dQEmpty", "dQFull"}
    BY InvFacts DEF Fields
  <2>2. CASE kernel.Slice_dQKV_Mma BY <1>1, <2>2 DEF FreeAtInit
  <2>3. CASE ~kernel.Slice_dQKV_Mma
    <3>1. barriers' = [barriers EXCEPT !.dQEmpty = [barriers.dQEmpty EXCEPT ![w] = barriers.dQEmpty[w] + 1]]
      BY <1>1, <2>3 DEF FreeAtInit
    <3> QED BY <2>1, <2>3, <3>1
  <2> QED BY <2>2, <2>3
<1>4. /\ Places' /\ SyncInv' /\ QueryRing' /\ DoRing' /\ PdSInv'
  <2>1. Places' BY <1>2, InvFacts, PlacesKept
  <2>2. SyncInv' BY <1>2, <1>3, InvFacts, SyncKept
  <2>3. QueryRing' BY <1>1, <1>2, InvFacts, QuerySame
  <2>4. DoRing' BY <1>1, <1>2, InvFacts, DoSame
  <2>5. PdSInv' BY <1>1, <1>2, InvFacts, PdSKept
  <2> QED BY <2>1, <2>2, <2>3, <2>4, <2>5
<1>5. EpilogueInv' BY <1>1, <1>2, <1>3, InvFacts, EpilogueKept
<1>6. LoaderInv' BY <1>1, InvFacts DEF LoaderInv
<1>7. Fields' BY <1>1, <1>3, InvFacts DEF Fields
<1>g. /\ WGs' = WGs /\ \A v \in WGs \ {w} : mma'[v] = mma[v]
      /\ OneGoes(kernel, w, mma[w], mma'[w], "nothing")
  BY <1>2, EachGoes
<1>8. DqInv'
  <2>1. CASE kernel.Slice_dQKV_Mma
    BY <1>1, <1>3, <1>g, <2>1, InvFacts DEF DqInv, Nil
  <2>2. CASE ~kernel.Slice_dQKV_Mma
    <3>1. /\ WrittenDq(kernel, mma'[w]) = WrittenDq(kernel, mma[w]) + 0 /\ WrittenDq(kernel, mma[w]) = 0
      <4>1. Place(kernel, w, mma[w]) BY InvFacts
      <4>2. mma[w].m = 0 BY <1>1, <4>1 DEF Place
      <4>3. ~Past(mma[w], DsShared(kernel) + 3) BY <1>1 DEF Past
      <4> QED BY <1>g, <2>2, <4>2, <4>3 DEF OneGoes, Effects, WrittenDq
    <3>2. /\ dq_warp.m \in Nat /\ barriers.dQFull \in [WGs -> {0, 1}] /\ barriers.dQEmpty \in [WGs -> {0, 1}]
          /\ barriers.dQFull[w] = 0 - Copied(w) /\ barriers.dQEmpty[w] = 0 + Freed(w) - 0
      BY <1>1, <2>2, <3>1, InvFacts DEF DqInv
    <3>3. Copied(w) = 0 /\ Freed(w) = 0 /\ barriers.dQEmpty[w] = 0
      BY <3>2 DEF Copied, Freed
    <3>4. /\ barriers'.dQEmpty = [barriers.dQEmpty EXCEPT ![w] = 1] BY <1>3, <2>2, <3>3
    <3>5. /\ barriers'.dQEmpty \in [WGs -> {0, 1}] /\ barriers'.dQEmpty[w] = 1
          /\ \A v \in WGs \ {w} : barriers'.dQEmpty[v] = barriers.dQEmpty[v]
      BY <3>2, <3>4
    <3>6. \A v \in WGs : Copied(v)' = Copied(v) /\ Freed(v)' = Freed(v)
      BY <1>1 DEF Copied, Freed
    <3>7. ASSUME NEW v \in WGs
          PROVE  /\ barriers'.dQFull[v] = WrittenDq(kernel, mma'[v]) - Copied(v)
                 /\ barriers'.dQEmpty[v] = (IF mma'[v].at = "init" THEN 0 ELSE 1) + Freed(v) - WrittenDq(kernel, mma'[v])
                 /\ WrittenDq(kernel, mma'[v]) > 0 => smem'.dq[v] = WrittenDq(kernel, mma'[v]) - 1
      <4>1. CASE v = w
        <5>1. mma'[w].at # "init" BY <1>a, <1>2
        <5>2. WrittenDq(kernel, mma'[w]) = 0 BY <3>1
        <5>3. barriers'.dQFull[w] = 0 - Copied(w) /\ barriers'.dQEmpty[w] = 1 + Freed(w) - 0
          BY <1>3, <3>2, <3>3, <3>5
        <5> QED BY <4>1, <5>1, <5>2, <5>3
      <4>2. CASE v # w BY <1>1, <1>3, <1>g, <2>2, <3>5, <4>2, InvFacts DEF DqInv
      <4> QED BY <4>1, <4>2
    <3> QED BY <1>1, <1>3, <1>g, <3>5, <3>6, <3>7, InvFacts DEF DqInv, Nil
  <2> QED BY <2>1, <2>2
<1>9. KvInv'
  <2>1. smem.kv # "overwritten" BY <1>1, InvFacts DEF KvInv, InEpilogue
  <2>2. mma'[w].at # "loop" /\ mma'[w].at # "epilogue" BY <1>a, <1>2
  <2>3. \A v \in WGs : /\ mma'[v].at = "loop" => mma[v].at = "loop"
                       /\ mma'[v].at = "epilogue" => mma[v].at = "epilogue"
    BY <1>g, <2>2
  <2> QED BY <1>1, <1>g, <2>1, <2>3, InvFacts DEF KvInv
<1> QED BY <1>4, <1>5, <1>6, <1>7, <1>8, <1>9 DEF IInv

LEMMA WaitKVKeeps ==
  ASSUME IInv, NEW w \in WGs, WaitKV(w)
  PROVE  IInv'
<1>1. /\ mma[w].at = "wait_kv" /\ smem.kv = "loaded" /\ mma' = [mma EXCEPT ![w].at = "loop"]
      /\ kernel' = kernel /\ loader' = loader /\ dq_warp' = dq_warp /\ q_pipe' = q_pipe /\ do_pipe' = do_pipe /\ smem' = smem
      /\ barriers' = barriers
  BY DEF WaitKV
<1>b. kernel.blocks > 0
  <2>1. Place(kernel, w, mma[w]) /\ kernel.blocks \in Nat BY InvFacts
  <2> QED BY <1>1, <2>1 DEF Place
<1>2. Goes({w}, "nothing") /\ mma'[w].at = "loop" BY <1>1, <1>b, InvFacts, Enters
<1>3. /\ Places' /\ SyncInv' /\ QueryRing' /\ DoRing' /\ PdSInv'
  <2>1. Places' BY <1>2, InvFacts, PlacesKept
  <2>2. SyncInv' BY <1>1, <1>2, InvFacts, SyncKept
  <2>3. QueryRing' BY <1>1, <1>2, InvFacts, QuerySame
  <2>4. DoRing' BY <1>1, <1>2, InvFacts, DoSame
  <2>5. PdSInv' BY <1>1, <1>2, InvFacts, PdSKept
  <2> QED BY <2>1, <2>2, <2>3, <2>4, <2>5
<1>4. EpilogueInv' BY <1>1, <1>2, InvFacts, EpilogueKept
<1>5. LoaderInv' /\ Fields' BY <1>1, InvFacts DEF LoaderInv, Fields
<1>g. /\ WGs' = WGs /\ \A v \in WGs \ {w} : mma'[v] = mma[v]
      /\ OneGoes(kernel, w, mma[w], mma'[w], "nothing")
  BY <1>2, EachGoes
<1>6. DqInv'
  <2>1. ASSUME NEW v \in WGs, ~kernel.Slice_dQKV_Mma
        PROVE  WrittenDq(kernel, mma'[v]) = WrittenDq(kernel, mma[v]) /\ (mma'[v].at = "init" <=> mma[v].at = "init")
    <3>1. CASE v = w
      <4>1. WrittenDq(kernel, mma'[w]) = WrittenDq(kernel, mma[w]) + 0
        BY <1>g, <2>1 DEF OneGoes, Effects
      <4>2. WrittenDq(kernel, mma[w]) \in Nat BY InvFacts, WrittenNat
      <4> QED BY <1>1, <1>2, <3>1, <4>1, <4>2
    <3>2. CASE v # w BY <1>g, <3>2
    <3> QED BY <3>1, <3>2
  <2>2. \A v \in WGs : Copied(v)' = Copied(v) /\ Freed(v)' = Freed(v) BY <1>1 DEF Copied, Freed
  <2>3. ~kernel.Slice_dQKV_Mma =>
         \A v \in WGs :
           /\ barriers'.dQFull[v] = WrittenDq(kernel, mma'[v]) - Copied(v)
           /\ barriers'.dQEmpty[v] = (IF mma'[v].at = "init" THEN 0 ELSE 1) + Freed(v) - WrittenDq(kernel, mma'[v])
           /\ WrittenDq(kernel, mma'[v]) > 0 => smem'.dq[v] = WrittenDq(kernel, mma'[v]) - 1
    BY <1>1, <2>1, InvFacts DEF DqInv
  <2> QED BY <1>1, <1>g, <2>2, <2>3, InvFacts DEF DqInv, Nil
<1>7. KvInv'
  <2>1. smem'.kv = "loaded" /\ loader' = loader BY <1>1
  <2> QED BY <1>g, <2>1, <1>1, InvFacts DEF KvInv
<1> QED BY <1>3, <1>4, <1>5, <1>6, <1>7 DEF IInv

\* The calls that only the loop makes.
LEMMA LoopDoes ==
  ASSUME NEW k \in CtaKernels, NEW w \in Groups(k), NEW c, Place(k, w, c),
         Doing(k, w, c) \in {"q", "do", "none", "p", "ds", "dq", "release_do", "release_q", "PdS"}
  PROVE  /\ c.at = "loop" /\ c.pc \in 1 .. LoopLen(k)
         /\ Doing(k, w, c) = CallAt(k, c.pc).does
         /\ Doing(k, w, c) \in {"do", "release_do"} => ReadDo(k, c) = c.read_do
<1>1. c.at \in {"loop", "epilogue"} BY DEF Doing
<1>2. c.at # "epilogue"
  <2>1. SUFFICES ASSUME c.at = "epilogue" PROVE FALSE OBVIOUS
  <2>2. c.pc \in 1 .. EpilogueLen(k, w) /\ Doing(k, w, c) = EpilogueDoes(k, w)[c.pc]
    BY <2>1 DEF Place, Doing
  <2>3. Doing(k, w, c) \in {"Epilogue", "dkv", "dk", "dv", "written", "stored", "store", "copy"}
    BY <2>2, EpilogueTable, KernelTypes
  <2> QED BY <2>3
<1>3. c.at = "loop" /\ c.pc \in 1 .. LoopLen(k) /\ Doing(k, w, c) = CallAt(k, c.pc).does
  BY <1>1, <1>2 DEF Place, Doing
<1>4. ASSUME Doing(k, w, c) \in {"do", "release_do"} PROVE ReadDo(k, c) = c.read_do
  <2>1. c.pc = 2 \/ c.pc = ReleaseDo(k) BY <1>3, <1>4, CallKinds
  <2>2. ReleaseDo(k) \in 7 .. 12 BY KernelTypes
  <2>3. ~Past(c, ReleaseDo(k)) BY <2>1, <2>2 DEF Past
  <2> QED BY <2>3 DEF ReadDo
<1> QED BY <1>3, <1>4

\* What a call leaves alone, but for the pipelines and the memory.
LEMMA GoesKeeps ==
  ASSUME IInv, NEW G \in SUBSET WGs, NEW x, Goes(G, x), x # "nothing", loader' = loader, smem'.kv = smem.kv
  PROVE  Places' /\ LoaderInv' /\ KvInv'
<1>1. Places' BY InvFacts, PlacesKept
<1>2. LoaderInv' BY InvFacts, EachGoes DEF LoaderInv
<1>3. KvInv' BY InvFacts, KvKept
<1> QED BY <1>1, <1>2, <1>3

LEMMA ReadStageKeeps ==
  ASSUME IInv, NEW w \in WGs, ReadStage(w)
  PROVE  IInv'
<1>0. {w} \in SUBSET WGs OBVIOUS
<1>1. /\ Proceed({w}) /\ kernel' = kernel /\ loader' = loader /\ dq_warp' = dq_warp /\ q_pipe' = q_pipe /\ do_pipe' = do_pipe
      /\ smem' = smem /\ barriers' = barriers
  BY DEF ReadStage
<1>2. PICK x \in {"q", "do", "none"} :
        /\ Does(w, x)
        /\ x = "q" => QPipe!FullReady(q_pipe, mma[w].read)
        /\ x = "do" => DoPipe!FullReady(do_pipe, mma[w].read_do)
  BY DEF ReadStage
<1>3. Goes({w}, x) BY <1>1, <1>2, ProceedGoes
<1>4. Places' /\ LoaderInv' /\ KvInv' BY <1>1, <1>3, GoesKeeps
<1>5. PdSInv' /\ DqInv' /\ EpilogueInv' BY <1>1, <1>3, MemoryKept
<1>6. SyncInv' BY <1>1, <1>3, InvFacts, SyncKept
<1>7. QueryRing'
  <2>1. CASE x # "q" BY <1>1, <1>3, <2>1, InvFacts, QuerySame
  <2>2. CASE x = "q"
    <3>1. QueryReads' = QueryReads /\ QueryReaders' = QueryReaders \cup {w}
      BY <1>3, <2>2, QueryGoes
    <3>2. RQ!FullReady(q_pipe, QueryReads[w]) BY <1>2, <2>2, SamePipes DEF QueryReads
    <3>3. QueryMove BY <1>1, <3>1, <3>2 DEF QueryMove, RQ!NumberedMove
    <3> QED BY <1>1, <3>3, InvFacts, QueryKept
  <2> QED BY <2>1, <2>2
<1>8. DoRing'
  <2>1. CASE x # "do" BY <1>1, <1>3, <2>1, InvFacts, DoSame
  <2>2. CASE x = "do"
    <3>1. DoReads' = DoReads /\ DoReaders' = DoReaders \cup {w}
      BY <1>0, <1>3, <2>2, DoGoes, Zenon
    <3>2. OneGoes(kernel, w, mma[w], mma'[w], x) BY <1>3, EachGoes
    <3>3. ReadDo(kernel, mma[w]) = mma[w].read_do BY <2>2, <3>2, InvFacts, LoopDoes DEF OneGoes
    <3>4. RD!FullReady(do_pipe, DoReads[w]) BY <1>2, <2>2, <3>3, SamePipes DEF DoReads
    <3>5. DoMove BY <1>1, <3>1, <3>4 DEF DoMove, RD!NumberedMove
    <3> QED BY <1>1, <3>5, InvFacts, DoKept
  <2> QED BY <2>1, <2>2
<1>9. Fields' BY <1>1, InvFacts DEF Fields
<1> QED BY <1>4, <1>5, <1>6, <1>7, <1>8, <1>9 DEF IInv

LEMMA ReleaseStageKeeps ==
  ASSUME IInv, NEW w \in WGs, ReleaseStage(w)
  PROVE  IInv'
<1>0. {w} \in SUBSET WGs OBVIOUS
<1>1. /\ Proceed({w}) /\ kernel' = kernel /\ loader' = loader /\ dq_warp' = dq_warp /\ smem' = smem /\ barriers' = barriers
  BY DEF ReleaseStage
<1>2. PICK x \in {"release_q", "release_do"} :
        /\ Does(w, x)
        /\ x = "release_q" => q_pipe' = QPipe!Release(q_pipe, mma[w].read, w) /\ do_pipe' = do_pipe
        /\ x = "release_do" => do_pipe' = DoPipe!Release(do_pipe, mma[w].read_do, w) /\ q_pipe' = q_pipe
  BY DEF ReleaseStage
<1>3. Goes({w}, x) BY <1>1, <1>2, ProceedGoes
<1>4. Places' /\ LoaderInv' /\ KvInv' BY <1>1, <1>3, GoesKeeps
<1>5. PdSInv' /\ DqInv' /\ EpilogueInv' BY <1>1, <1>3, MemoryKept
<1>6. SyncInv' BY <1>1, <1>3, InvFacts, SyncKept
<1>7. QueryRing'
  <2>1. CASE x # "release_q" BY <1>1, <1>2, <1>3, <2>1, InvFacts, QuerySame
  <2>2. CASE x = "release_q"
    <3>1. /\ QueryReads' = [v \in WGs |-> IF v \in {w} THEN Advanced(2, mma[v].read) ELSE mma[v].read]
          /\ QueryReaders' = QueryReaders \ {w} /\ {w} \subseteq QueryReaders
      BY <1>0, <1>3, <2>2, QueryGoes, Zenon
    <3>2. QueryReads' = [QueryReads EXCEPT ![w] = RQ!Advance(QueryReads[w])]
      BY <3>1, AdvancedIs DEF QueryReads
    <3>3. q_pipe' = RQ!Release(q_pipe, QueryReads[w], w) BY <1>2, <2>2, SamePipes DEF QueryReads
    <3>4. w \in QueryReaders /\ loader'.write = loader.write BY <1>1, <3>1
    <3>5. QueryMove BY <3>1, <3>2, <3>3, <3>4 DEF QueryMove, RQ!NumberedMove
    <3> QED BY <1>1, <3>5, InvFacts, QueryKept
  <2> QED BY <2>1, <2>2
<1>8. DoRing'
  <2>1. CASE x # "release_do" BY <1>1, <1>2, <1>3, <2>1, InvFacts, DoSame
  <2>2. CASE x = "release_do"
    <3>1. /\ DoReads' = [v \in WGs |-> IF v \in {w} THEN Advanced(kernel.kStages_dO, ReadDo(kernel, mma[v]))
                                       ELSE ReadDo(kernel, mma[v])]
          /\ DoReaders' = DoReaders \ {w} /\ {w} \subseteq DoReaders
      BY <1>0, <1>3, <2>2, DoGoes, Zenon
    <3>2. DoReads' = [DoReads EXCEPT ![w] = RD!Advance(DoReads[w])]
      BY <3>1, AdvancedIs DEF DoReads
    <3>3. OneGoes(kernel, w, mma[w], mma'[w], x) BY <1>3, EachGoes
    <3>4. ReadDo(kernel, mma[w]) = mma[w].read_do BY <2>2, <3>3, InvFacts, LoopDoes DEF OneGoes
    <3>5. do_pipe' = RD!Release(do_pipe, DoReads[w], w)
      BY <1>2, <2>2, <3>4, SamePipes DEF DoReads
    <3>6. w \in DoReaders /\ loader'.write_do = loader.write_do BY <1>1, <3>1
    <3>7. DoMove BY <3>1, <3>2, <3>5, <3>6 DEF DoMove, RD!NumberedMove
    <3> QED BY <1>1, <3>7, InvFacts, DoKept
  <2> QED BY <2>1, <2>2
<1>9. Fields' BY <1>1, InvFacts DEF Fields
<1> QED BY <1>4, <1>5, <1>6, <1>7, <1>8, <1>9 DEF IInv

LEMMA SyncAllKeeps ==
  ASSUME IInv, NEW w \in WGs, SyncAll(w)
  PROVE  IInv'
<1>1. PICK b \in {"PdS", "Epilogue"} :
        LET arrived == barriers[b] \cup {w}
        IN  /\ Does(w, b) /\ w \notin barriers[b]
            /\ barriers' = [barriers EXCEPT ![b] = IF arrived = WGs THEN {} ELSE arrived]
            /\ Proceed(IF arrived = WGs THEN WGs ELSE {})
            /\ UNCHANGED <<kernel, loader, dq_warp, q_pipe, do_pipe, smem, added>>
  BY DEF SyncAll
<1> DEFINE arrived == barriers[b] \cup {w}
           G == IF arrived = WGs THEN WGs ELSE {}
<1>2. /\ kernel' = kernel /\ loader' = loader /\ dq_warp' = dq_warp /\ q_pipe' = q_pipe /\ do_pipe' = do_pipe /\ smem' = smem
      /\ Does(w, b) /\ Proceed(G)
  BY <1>1
<1>3. /\ DOMAIN barriers' = DOMAIN barriers /\ \A a \in DOMAIN barriers : a # b => barriers'[a] = barriers[a]
      /\ barriers'[b] = IF arrived = WGs THEN {} ELSE arrived
  BY <1>1, InvFacts DEF Fields
<1>4. /\ barriers'.dQEmpty = barriers.dQEmpty /\ barriers'.dQFull = barriers.dQFull /\ barriers'.written = barriers.written
  BY <1>3, InvFacts DEF Fields
<1>5. \A v \in barriers[b] \cup {w} : v \in WGs /\ Does(v, b)
  <2>1. ASSUME NEW v \in barriers[b] PROVE v \in WGs /\ Does(v, b)
    <3>1. v \in WGs /\ Doing(kernel, v, mma[v]) = b BY InvFacts DEF SyncInv
    <3>2. mma[v].at \in {"loop", "epilogue"} BY <3>1 DEF Doing
    <3> QED BY <3>1, <3>2, InvFacts, Doings DEF Does
  <2> QED BY <1>2, <2>1
<1>6. G \in SUBSET WGs /\ \A v \in G : Does(v, b) BY <1>5
<1>7. WGs' = WGs BY <1>2 DEF WGs
<1> HIDE DEF G
<1>8. Goes(G, b) BY <1>2, <1>6, ProceedGoes
<1>9. Places' /\ LoaderInv' /\ KvInv' BY <1>2, <1>6, <1>8, GoesKeeps
<1>10. PdSInv' /\ DqInv' /\ EpilogueInv' BY <1>2, <1>4, <1>6, <1>8, MemoryKept
<1>11. QueryRing' /\ DoRing' BY <1>2, <1>6, <1>8, InvFacts, QuerySame, DoSame
<1>12. SyncInv'
  <2>1. CASE arrived = WGs
    <3>1. \A v \in WGs : OneGoes(kernel, v, mma[v], mma'[v], b)
      BY <1>6, <1>8, <2>1, EachGoes DEF G
    <3>2. \A v \in WGs : Round(kernel, v, mma'[v]) = NextRound(kernel, Round(kernel, v, mma[v])) /\ Doing(kernel, v, mma[v]) = b
      BY <3>1 DEF OneGoes, Effects
    <3>3. \A u, v \in WGs : Round(kernel, u, mma'[u]) = Round(kernel, v, mma'[v])
      BY <3>2, InvFacts DEF SyncInv
    <3>4. \A a \in {"PdS", "Epilogue"} : barriers'[a] = {}
      <4>1. ASSUME NEW a \in {"PdS", "Epilogue"}, a # b PROVE barriers'[a] = {}
        <5>1. barriers'[a] = barriers[a] BY <1>3, <4>1, InvFacts DEF Fields
        <5>2. barriers[a] \subseteq WGs /\ \A v \in barriers[a] : Doing(kernel, v, mma[v]) = a
          BY InvFacts DEF SyncInv
        <5> QED BY <3>2, <4>1, <5>1, <5>2
      <4> QED BY <1>3, <2>1, <4>1
    <3>5. WGs # {} OBVIOUS
    <3> QED BY <1>2, <1>7, <3>3, <3>4, <3>5 DEF SyncInv
  <2>2. CASE arrived # WGs
    <3>1. \A v \in WGs : mma'[v] = mma[v] BY <1>6, <1>8, <2>2, EachGoes DEF G
    <3>2. Doing(kernel, w, mma[w]) = b BY <1>2, InvFacts, Doings DEF Does
    <3>3. ASSUME NEW a \in {"PdS", "Epilogue"}
          PROVE  barriers'[a] \subseteq WGs /\ barriers'[a] # WGs /\ \A v \in barriers'[a] : Doing(kernel, v, mma'[v]) = a
      <4>1. barriers[a] \subseteq WGs /\ barriers[a] # WGs /\ \A v \in barriers[a] : Doing(kernel, v, mma[v]) = a
        BY InvFacts DEF SyncInv
      <4>2. CASE a = b
        <5>1. barriers'[a] = barriers[a] \cup {w} BY <1>3, <2>2, <4>2
        <5> QED BY <2>2, <3>1, <3>2, <4>1, <4>2, <5>1
      <4>3. CASE a # b
        <5>1. barriers'[a] = barriers[a] BY <1>3, <4>3, InvFacts DEF Fields
        <5> QED BY <3>1, <4>1, <5>1
      <4> QED BY <4>2, <4>3
    <3> QED BY <1>2, <1>7, <3>1, <3>3, InvFacts DEF SyncInv
  <2> QED BY <2>1, <2>2
<1>13. Fields' BY <1>2, <1>3, InvFacts DEF Fields
<1> QED BY <1>9, <1>10, <1>11, <1>12, <1>13 DEF IInv

\* A part written over the part before the last.
LEMMA HoldsNext ==
  ASSUME NEW k \in CtaKernels, NEW W, NEW buffer \in [{0, 1} -> [W -> Nat \cup {Nil}]], NEW w \in W, NEW m \in Nat,
         NEW stage, stage = (IF k.kStages_dS = 1 THEN 0 ELSE m % 2)
  PROVE  LET written == [buffer EXCEPT ![stage][w] = m]
         IN  /\ written \in [{0, 1} -> [W -> Nat \cup {Nil}]]
             /\ Holds(k, buffer, w, m) => Holds(k, written, w, m + 1)
             /\ \A v \in W, n \in Nat : v # w /\ Holds(k, buffer, v, n) => Holds(k, written, v, n)
<1> DEFINE written == [buffer EXCEPT ![stage][w] = m]
           At(n) == IF k.kStages_dS = 1 THEN 0 ELSE n % 2
<1>k. k.kStages_dS \in {1, 2} BY KernelTypes
<1>1. \A n \in Nat : At(n) \in {0, 1} /\ (n > 0 /\ k.kStages_dS # 1 => At(n - 1) # At(n)) OBVIOUS
<1>2. stage = At(m) /\ stage \in {0, 1} BY <1>1
<1> HIDE DEF At
<1>3. /\ written \in [{0, 1} -> [W -> Nat \cup {Nil}]] /\ written[stage][w] = m
      /\ \A s \in {0, 1}, v \in W : s # stage \/ v # w => written[s][v] = buffer[s][v]
  BY <1>2
<1> HIDE DEF written
<1>4. \A b, v, n : Holds(k, b, v, n) <=> \A j \in {n - 1, n - 2} : j >= 0 /\ (k.kStages_dS = 1 => j = n - 1) => b[At(j)][v] = j
  BY DEF Holds, At
<1>5. ASSUME Holds(k, buffer, w, m) PROVE Holds(k, written, w, m + 1)
  <2>1. SUFFICES ASSUME NEW j \in {m, m - 1}, j >= 0, k.kStages_dS = 1 => j = m PROVE written[At(j)][w] = j
    <3>1. m + 1 - 1 = m /\ m + 1 - 2 = m - 1 OBVIOUS
    <3> QED BY <1>4, <2>1, <3>1
  <2>2. CASE j = m BY <1>2, <1>3, <2>2
  <2>3. CASE j = m - 1
    <3>1. m > 0 /\ k.kStages_dS # 1 /\ m - 1 \in Nat BY <2>1, <2>3
    <3>2. buffer[At(m - 1)][w] = m - 1 BY <1>4, <1>5, <3>1
    <3>3. At(m - 1) \in {0, 1} /\ At(m - 1) # stage BY <1>1, <1>2, <3>1
    <3> QED BY <1>3, <2>3, <3>2, <3>3
  <2> QED BY <2>2, <2>3
<1>6. ASSUME NEW v \in W, NEW n \in Nat, v # w, Holds(k, buffer, v, n) PROVE Holds(k, written, v, n)
  <2>1. SUFFICES ASSUME NEW j \in {n - 1, n - 2}, j >= 0, k.kStages_dS = 1 => j = n - 1 PROVE written[At(j)][v] = j
    BY <1>4
  <2>2. buffer[At(j)][v] = j BY <1>4, <1>6, <2>1
  <2>3. j \in Nat BY <2>1
  <2>4. At(j) \in {0, 1} BY <1>1, <2>3
  <2> QED BY <1>3, <1>6, <2>2, <2>4
<1> QED BY <1>3, <1>5, <1>6 DEF written

LEMMA WritePdSKeeps ==
  ASSUME IInv, NEW w \in WGs, WritePdS(w)
  PROVE  IInv'
<1>1. /\ Proceed({w}) /\ kernel' = kernel /\ loader' = loader /\ dq_warp' = dq_warp /\ q_pipe' = q_pipe /\ do_pipe' = do_pipe
      /\ barriers' = barriers
  BY DEF WritePdS
<1>2. PICK x \in {"p", "ds"} :
        Does(w, x) /\ smem' = [smem EXCEPT ![x][DsStage(mma[w].read.index)][w] = mma[w].m]
  BY DEF WritePdS
<1> DEFINE stage == DsStage(mma[w].read.index)
           m == mma[w].m
           buffer == smem[x]
           written == [buffer EXCEPT ![stage][w] = m]
<1>3. smem' = [smem EXCEPT ![x] = written] BY <1>2
<1>4. DOMAIN smem' = DOMAIN smem /\ smem'[x] = written /\ \A a \in DOMAIN smem : a # x => smem'[a] = smem[a]
  BY <1>3, InvFacts DEF Fields
<1> HIDE DEF written
<1>5. smem'.kv = smem.kv /\ smem'.dq = smem.dq /\ smem'.dkv = smem.dkv /\ smem'.storing = smem.storing
  BY <1>4, InvFacts DEF Fields
<1>6. Goes({w}, x) BY <1>1, <1>2, ProceedGoes
<1>7. WGs' = WGs /\ OneGoes(kernel, w, mma[w], mma'[w], x) /\ \A v \in WGs : v # w => mma'[v] = mma[v]
  BY <1>6, EachGoes
<1>8. Places' /\ LoaderInv' /\ KvInv' BY <1>1, <1>5, <1>6, GoesKeeps
<1>9. DqInv' /\ EpilogueInv'
  <2>1. DqInv' BY <1>1, <1>5, <1>6, InvFacts, DqKept
  <2>2. EpilogueInv' BY <1>1, <1>5, <1>6, InvFacts, EpilogueKept
  <2> QED BY <2>1, <2>2
<1>10. SyncInv' BY <1>1, <1>6, InvFacts, SyncKept
<1>11. QueryRing' /\ DoRing' BY <1>1, <1>6, InvFacts, QuerySame, DoSame
<1>12. Fields' BY <1>1, <1>4, InvFacts DEF Fields
<1>13. PdSInv'
  <2>1. m \in Nat /\ stage = (IF kernel.kStages_dS = 1 THEN 0 ELSE m % 2)
    <3>1. m \in Nat /\ mma[w].read.index \in {0, 1} /\ mma[w].read.lap \in Nat /\ mma[w].read.lap * 2 + mma[w].read.index = m
      BY InvFacts DEF Place
    <3>2. mma[w].read.index = m % 2 BY <3>1
    <3> QED BY <3>1, <3>2 DEF DsStage
  <2>2. buffer \in [{0, 1} -> [WGs -> Nat \cup {Nil}]] BY InvFacts DEF PdSInv
  <2> HIDE DEF buffer, stage, m
  <2>3. /\ written \in [{0, 1} -> [WGs -> Nat \cup {Nil}]]
        /\ Holds(kernel, buffer, w, m) => Holds(kernel, written, w, m + 1)
        /\ \A v \in WGs, n \in Nat : v # w /\ Holds(kernel, buffer, v, n) => Holds(kernel, written, v, n)
    BY <2>1, <2>2, InvFacts, HoldsNext DEF written
  <2>4. \A a \in {"p", "ds"} : smem'[a] \in [{0, 1} -> [WGs -> Nat \cup {Nil}]]
    BY <1>4, <2>3, InvFacts DEF Fields, PdSInv
  <2>5. /\ x = "p" => SharesP(kernel) /\ WrittenP(kernel, mma[w]) = m
        /\ x = "ds" => WrittenDs(kernel, mma[w]) = m
        /\ SharesP(kernel) => WrittenP(kernel, mma'[w]) = WrittenP(kernel, mma[w]) + (IF x = "p" THEN 1 ELSE 0)
        /\ WrittenDs(kernel, mma'[w]) = WrittenDs(kernel, mma[w]) + (IF x = "ds" THEN 1 ELSE 0)
    BY <1>7 DEF OneGoes, Effects, m
  <2>6. ASSUME NEW v \in WGs
        PROVE  /\ SharesP(kernel) => Holds(kernel, smem'.p, v, WrittenP(kernel, mma'[v]))
               /\ Holds(kernel, smem'.ds, v, WrittenDs(kernel, mma'[v]))
    <3>1. /\ SharesP(kernel) => Holds(kernel, smem.p, v, WrittenP(kernel, mma[v]))
          /\ Holds(kernel, smem.ds, v, WrittenDs(kernel, mma[v]))
      BY InvFacts DEF PdSInv
    <3>2. WrittenP(kernel, mma[v]) \in Nat /\ WrittenDs(kernel, mma[v]) \in Nat
      BY InvFacts, WrittenNat
    <3>3. smem'.p = (IF x = "p" THEN written ELSE smem.p) /\ smem'.ds = (IF x = "ds" THEN written ELSE smem.ds)
      BY <1>4, InvFacts DEF Fields
    <3>4. (x = "p" => buffer = smem.p) /\ (x = "ds" => buffer = smem.ds) BY DEF buffer
    <3>5. CASE v # w BY <1>7, <2>3, <3>1, <3>2, <3>3, <3>4, <3>5
    <3>6. CASE v = w
      <4>1. WrittenP(kernel, mma[w]) + 0 = WrittenP(kernel, mma[w]) /\ WrittenDs(kernel, mma[w]) + 0 = WrittenDs(kernel, mma[w])
        BY <3>2, <3>6
      <4>2. CASE x = "p"
        <5>1. WrittenP(kernel, mma'[w]) = m + 1 /\ WrittenDs(kernel, mma'[w]) = WrittenDs(kernel, mma[w])
          BY <2>5, <4>1, <4>2
        <5>2. Holds(kernel, buffer, w, m) BY <2>5, <3>1, <3>4, <3>6, <4>2
        <5> QED BY <2>3, <3>1, <3>3, <3>6, <4>2, <5>1, <5>2
      <4>3. CASE x = "ds"
        <5>1. /\ WrittenDs(kernel, mma'[w]) = m + 1
              /\ SharesP(kernel) => WrittenP(kernel, mma'[w]) = WrittenP(kernel, mma[w])
          BY <2>5, <4>1, <4>3
        <5>2. Holds(kernel, buffer, w, m) BY <2>5, <3>1, <3>4, <3>6, <4>3
        <5> QED BY <2>3, <3>1, <3>3, <3>6, <4>3, <5>1, <5>2
      <4> QED BY <4>2, <4>3
    <3> QED BY <3>5, <3>6
  <2> QED BY <1>1, <1>7, <2>4, <2>6 DEF PdSInv, Nil
<1> QED BY <1>8, <1>9, <1>10, <1>11, <1>12, <1>13 DEF IInv

-----------------------------------------------------------------------------
(* What the gemms that end have computed.                                  *)

AndTerm(s, g, op) == IF g.op = op THEN Append(s, <<g.m, g.slice>>) ELSE s

LEMMA TermsOf ==
  ASSUME NEW w, NEW call, NEW op, NEW n \in 0 .. 2, Len(Ended(w, call)) = n
  PROVE  LET e == Ended(w, call)
         IN  /\ n = 0 => Terms(w, call, op) = << >>
             /\ n = 1 => Terms(w, call, op) = AndTerm(<< >>, e[1], op)
             /\ n = 2 => Terms(w, call, op) = AndTerm(AndTerm(<< >>, e[1], op), e[2], op)
<1> DEFINE e == Ended(w, call)
           F(f) == [i \in 0 .. n |-> IF i = 0 THEN << >> ELSE AndTerm(f[i - 1], e[i], op)]
           terms == CHOOSE f : f = F(f)
           g == [i \in 0 .. n |-> IF i = 0 THEN << >> ELSE IF i = 1 THEN AndTerm(<< >>, e[1], op)
                                  ELSE AndTerm(AndTerm(<< >>, e[1], op), e[2], op)]
<1>1. Terms(w, call, op) = terms[n] BY DEF Terms, AndTerm
<1>2. g = F(g)
  <2>1. ASSUME NEW i \in 0 .. n PROVE g[i] = F(g)[i]
    <3>1. CASE i = 0 BY <3>1
    <3>2. CASE i = 1 BY <3>2
    <3>3. CASE i = 2 BY <3>3
    <3> QED BY <3>1, <3>2, <3>3
  <2> QED BY <2>1
<1>3. terms = F(terms) BY <1>2
<1> HIDE DEF terms, g, e
<1>4. terms[0] = << >> BY <1>3
<1>5. n >= 1 => terms[1] = AndTerm(<< >>, e[1], op)
  <2>1. SUFFICES ASSUME n >= 1 PROVE terms[1] = AndTerm(<< >>, e[1], op) OBVIOUS
  <2>2. 1 \in 0 .. n BY <2>1
  <2>3. terms[1] = AndTerm(terms[0], e[1], op) BY <1>3, <2>2
  <2> QED BY <1>4, <2>3
<1>6. n = 2 => terms[2] = AndTerm(AndTerm(<< >>, e[1], op), e[2], op)
  <2>1. SUFFICES ASSUME n = 2 PROVE terms[2] = AndTerm(AndTerm(<< >>, e[1], op), e[2], op) OBVIOUS
  <2>2. 2 \in 0 .. n BY <2>1
  <2>3. terms[2] = AndTerm(terms[1], e[2], op) BY <1>3, <2>2
  <2> QED BY <1>5, <2>1, <2>3
<1> QED BY <1>1, <1>4, <1>5, <1>6 DEF e

\* The gemms that the call at pc waits for, by where it is from the sync of dS.
EndedOf(k, pc) ==
  LET left == CallAt(k, pc).left
  IN  IF Len(UnderWay(k, pc)) > left THEN Len(UnderWay(k, pc)) - left ELSE 0

LEMMA EndsTable ==
  ASSUME NEW k \in CtaKernels, NEW pc \in 1 .. LoopLen(k), NEW x, x = DsShared(k), NEW u, u = UnderWay(k, pc),
         NEW n, n = EndedOf(k, pc)
  PROVE  /\ pc = 3 => n = 2 /\ u[1] = <<"s", 0>> /\ u[2] = <<"dp", 0>>
         /\ pc # 3 /\ pc < x + 2 => n = 0
         /\ pc = x + 2 => IF k.Slice_dQKV_Mma THEN n = 0 ELSE n = 1 /\ u[1] = <<"dv", 0>>
         /\ pc = x + 3 => IF k.Slice_dQKV_Mma THEN n = 2 /\ u[1] = <<"dv", 0>> /\ u[2] = <<"dq", 0>>
                          ELSE n = 1 /\ u[1] = <<"dq", 0>>
         /\ pc = x + 4 => n = 1 /\ u[1] = IF k.Slice_dQKV_Mma THEN <<"dv", 1>> ELSE <<"dk", 0>>
         /\ pc = x + 5 => n = 2 /\ u[1] = <<"dk", 0>> /\ u[2] = <<"dq", 1>>
         /\ pc = x + 6 => n = 1 /\ u[1] = <<"dk", 1>>
<1>k. /\ x \in 5 .. 8 /\ k.Slice_dQKV_Mma \in BOOLEAN /\ (SyncsBeforeDs(k) => x >= 6) /\ (SharesP(k) => x >= 7)
      /\ (SyncsBeforeP(k) => x = 8)
  BY KernelTypes
<1>n. LoopLen(k) = x + (IF k.Slice_dQKV_Mma THEN 6 ELSE 4) BY DEF LoopLen
<1>l. \A does, left, gemm : Call(does, left, gemm).left = left BY DEF Call
<1>w. NoWait = 9 BY DEF NoWait
<1>z. n = IF Len(u) > CallAt(k, pc).left THEN Len(u) - CallAt(k, pc).left ELSE 0 BY DEF EndedOf
<1>1. CASE pc = 1
  <2>1. CallAt(k, pc).left = NoWait /\ u = << >> BY <1>1, <1>l, CallTable, UnderWayTable
  <2>2. Len(u) = 0 BY ONLY <2>1
  <2>3. n = 0 BY ONLY <1>w, <1>z, <2>1, <2>2
  <2> QED BY <1>k, <1>1, <2>3
<1>2. CASE pc = 2
  <2>1. CallAt(k, pc).left = NoWait /\ u = << <<"s", 0>> >>
    BY <1>2, <1>l, CallTable, UnderWayTable
  <2>2. Len(u) = 1 BY ONLY <2>1
  <2>3. n = 0 BY ONLY <1>w, <1>z, <2>1, <2>2
  <2> QED BY <1>k, <1>2, <2>3
<1>3. CASE pc = 3
  <2>1. CallAt(k, pc).left = 0 /\ u = << <<"s", 0>>, <<"dp", 0>> >>
    BY <1>3, <1>l, CallTable, UnderWayTable
  <2>2. Len(u) = 2 /\ u[1] = <<"s", 0>> /\ u[2] = <<"dp", 0>> BY ONLY <2>1
  <2>3. n = 2 BY ONLY <1>z, <2>1, <2>2
  <2> QED BY <1>k, <1>3, <2>2, <2>3
<1>4. CASE pc \in 4 .. x - 1
  <2>1. u = << >> BY <1>4, UnderWayTable
  <2>2. CallAt(k, pc).left \in Nat
    <3>1. Follows(u, CallAt(k, pc), IF pc = LoopLen(k) THEN << >> ELSE UnderWay(k, pc + 1))
      BY UnderWayFollows
    <3> QED BY <1>w, <3>1 DEF Follows
  <2>3. Len(u) = 0 BY ONLY <2>1
  <2>4. n = 0 BY ONLY <1>z, <2>2, <2>3
  <2> QED BY <1>k, <1>4, <2>4
<1>5. CASE pc = x \/ pc = x + 1
  <2>1. CallAt(k, pc).left = NoWait BY <1>5, <1>l, CallTable
  <2>2. u = << <<"dv", 0>> >> BY <1>5, UnderWayTable
  <2>3. Len(u) = 1 BY ONLY <2>2
  <2>4. n = 0 BY ONLY <1>w, <1>z, <2>1, <2>3
  <2> QED BY <1>k, <1>5, <2>4
<1>6. CASE pc = x + 2
  <2>1. u = << <<"dv", 0>>, <<"dq", 0>> >> BY <1>6, UnderWayTable
  <2>2. CallAt(k, pc).left = IF k.Slice_dQKV_Mma THEN NoWait ELSE 1
    BY <1>k, <1>6, <1>l, CallTable
  <2>3. Len(u) = 2 /\ u[1] = <<"dv", 0>> BY ONLY <2>1
  <2>4. n = IF k.Slice_dQKV_Mma THEN 0 ELSE 1 BY ONLY <1>w, <1>z, <2>2, <2>3
  <2> QED BY <1>k, <1>6, <2>3, <2>4
<1>7. CASE pc = x + 3
  <2>1. u = IF k.Slice_dQKV_Mma THEN << <<"dv", 0>>, <<"dq", 0>>, <<"dv", 1>> >> ELSE << <<"dq", 0>>, <<"dk", 0>> >>
    BY <1>k, <1>7, UnderWayTable
  <2>2. CallAt(k, pc).left = 1 BY <1>k, <1>7, <1>l, CallTable
  <2>3. IF k.Slice_dQKV_Mma THEN Len(u) = 3 /\ u[1] = <<"dv", 0>> /\ u[2] = <<"dq", 0>>
        ELSE Len(u) = 2 /\ u[1] = <<"dq", 0>>
    BY ONLY <2>1
  <2>4. ASSUME k.Slice_dQKV_Mma PROVE n = 2
    <3>1. Len(u) = 3 BY <2>3, <2>4
    <3> QED BY ONLY <1>z, <2>2, <3>1
  <2>5. ASSUME ~k.Slice_dQKV_Mma PROVE n = 1
    <3>1. Len(u) = 2 BY <2>3, <2>5
    <3> QED BY ONLY <1>z, <2>2, <3>1
  <2> QED BY <1>k, <1>7, <2>3, <2>4, <2>5
<1>8. CASE pc = x + 4
  <2>1. u = IF k.Slice_dQKV_Mma THEN << <<"dv", 1>>, <<"dk", 0>> >> ELSE << <<"dk", 0>> >>
    BY <1>k, <1>8, UnderWayTable
  <2>2. CallAt(k, pc).left = IF k.Slice_dQKV_Mma THEN 1 ELSE 0 BY <1>k, <1>8, <1>l, CallTable
  <2>3. IF k.Slice_dQKV_Mma THEN Len(u) = 2 /\ u[1] = <<"dv", 1>> ELSE Len(u) = 1 /\ u[1] = <<"dk", 0>>
    BY ONLY <2>1
  <2>4. ASSUME k.Slice_dQKV_Mma PROVE n = 1
    <3>1. CallAt(k, pc).left = 1 /\ Len(u) = 2 BY <2>2, <2>3, <2>4
    <3> QED BY ONLY <1>z, <3>1
  <2>5. ASSUME ~k.Slice_dQKV_Mma PROVE n = 1
    <3>1. CallAt(k, pc).left = 0 /\ Len(u) = 1 BY <2>2, <2>3, <2>5
    <3> QED BY ONLY <1>z, <3>1
  <2> QED BY <1>k, <1>8, <2>3, <2>4, <2>5
<1>9. CASE pc = x + 5
  <2>0. k.Slice_dQKV_Mma BY <1>k, <1>n, <1>9
  <2>1. u = << <<"dk", 0>>, <<"dq", 1>> >> BY <2>0, <1>9, UnderWayTable
  <2>2. CallAt(k, pc).left = 0 BY <2>0, <1>9, <1>l, CallTable
  <2>3. Len(u) = 2 /\ u[1] = <<"dk", 0>> /\ u[2] = <<"dq", 1>> BY ONLY <2>1
  <2>4. n = 2 BY ONLY <1>z, <2>2, <2>3
  <2> QED BY <1>k, <1>9, <2>3, <2>4
<1>10. CASE pc = x + 6
  <2>0. k.Slice_dQKV_Mma BY <1>k, <1>n, <1>10
  <2>1. u = << <<"dk", 1>> >> BY <2>0, <1>10, UnderWayTable
  <2>2. CallAt(k, pc).left = 0 BY <2>0, <1>10, <1>l, CallTable
  <2>3. Len(u) = 1 /\ u[1] = <<"dk", 1>> BY ONLY <2>1
  <2>4. n = 1 BY ONLY <1>z, <2>2, <2>3
  <2> QED BY <1>k, <1>10, <2>3, <2>4
<1> QED BY <1>k, <1>n, <1>1, <1>2, <1>3, <1>4, <1>5, <1>6, <1>7, <1>8, <1>9, <1>10

LEMMA EndedGemms ==
  ASSUME kernel \in CtaKernels, NEW w \in WGs, Place(kernel, w, mma[w]), mma[w].at = "loop"
  PROVE  LET c == mma[w]
             e == Ended(w, CallAt(kernel, c.pc))
             u == UnderWay(kernel, c.pc)
         IN  /\ Len(e) = EndedOf(kernel, c.pc)
             /\ \A i \in 1 .. EndedOf(kernel, c.pc) : e[i].op = u[i][1] /\ e[i].slice = u[i][2] /\ e[i].m = c.m
<1> DEFINE c == mma[w]
           g == c.gemms
           u == UnderWay(kernel, c.pc)
           left == CallAt(kernel, c.pc).left
           e == SubSeq(g, 1, Len(g) - left)
           n == EndedOf(kernel, c.pc)
<1>1. g \in Seq(GemmRecord) /\ Len(g) = Len(u) /\ (\A i \in 1 .. Len(g) : g[i] = GemmOf(c, u[i])) /\ c.pc \in 1 .. LoopLen(kernel)
  BY DEF Place
<1>2. left \in Nat
  <2>1. Follows(u, CallAt(kernel, c.pc), IF c.pc = LoopLen(kernel) THEN << >> ELSE UnderWay(kernel, c.pc + 1))
    BY <1>1, UnderWayFollows
  <2> QED BY <2>1 DEF Follows, NoWait
<1>3. e = Ended(w, CallAt(kernel, c.pc)) BY DEF Ended
<1>4. n = IF Len(g) > left THEN Len(g) - left ELSE 0 BY <1>1 DEF EndedOf
<1>x. \A i : GemmOf(c, u[i]).op = u[i][1] /\ GemmOf(c, u[i]).slice = u[i][2] /\ GemmOf(c, u[i]).m = c.m
  BY DEF GemmOf
<1> HIDE DEF c, g, u, left, n
<1>5. Len(g) \in Nat BY <1>1, LenProperties
<1>6. \A i \in 1 .. Len(g) - left : g[i] \in GemmRecord
  <2>1. \A i \in 1 .. Len(g) - left : i \in 1 .. Len(g) BY <1>2, <1>5
  <2> QED BY <1>1, <2>1, ElementOfSeq
<1>7. /\ Len(e) = IF 1 <= Len(g) - left THEN Len(g) - left - 1 + 1 ELSE 0
      /\ \A i \in 1 .. Len(g) - left - 1 + 1 : e[i] = g[1 + i - 1]
  BY <1>2, <1>5, <1>6, SubSeqProperties
<1> HIDE DEF e
<1>8. Len(e) = n /\ \A i \in 1 .. n : i \in 1 .. Len(g) /\ e[i] = g[i]
  <2>1. CASE Len(g) > left
    <3>1. n = Len(g) - left /\ Len(g) - left - 1 + 1 = n /\ \A i \in 1 .. n : 1 + i - 1 = i /\ i \in 1 .. Len(g)
      BY <1>2, <1>4, <1>5, <2>1
    <3> QED BY <1>2, <1>5, <1>7, <2>1, <3>1
  <2>2. CASE ~(Len(g) > left) BY <1>2, <1>4, <1>5, <1>7, <2>2
  <2> QED BY <2>1, <2>2
<1>9. \A i \in 1 .. n : e[i].op = u[i][1] /\ e[i].slice = u[i][2] /\ e[i].m = c.m
  BY <1>1, <1>x, <1>8
<1> QED BY <1>3, <1>8, <1>9 DEF c, u, n

\* The calls at which slice 0 and slice 1 of a gemm have ended.
EndOf(k, op, slice) ==
  DsShared(k)
  + (IF k.Slice_dQKV_Mma
     THEN IF op = "dv" THEN 3 + slice ELSE IF op = "dq" THEN 3 + 2 * slice ELSE 5 + slice
     ELSE IF op = "dv" THEN 2 ELSE IF op = "dq" THEN 3 ELSE 4)
EndedAt(k, pc, op) ==
  IF pc = EndOf(k, op, 0) THEN {0} ELSE IF k.Slice_dQKV_Mma /\ pc = EndOf(k, op, 1) THEN {1} ELSE {}

IsTerms(terms, ends, m) ==
  (ends = {} => terms = << >>) /\ \A slice \in ends : terms = << <<m, slice>> >>

LEMMA LoopTerms ==
  ASSUME kernel \in CtaKernels, NEW w \in WGs, Place(kernel, w, mma[w]), mma[w].at = "loop", NEW op \in {"dq", "dk", "dv"}
  PROVE  LET c == mma[w]
         IN  IsTerms(Terms(w, CallOf(w), op), EndedAt(kernel, c.pc, op), c.m)
<1> DEFINE c == mma[w]
           pc == c.pc
           u == UnderWay(kernel, pc)
           n == EndedOf(kernel, pc)
           e == Ended(w, CallOf(w))
           terms == Terms(w, CallOf(w), op)
           x == DsShared(kernel)
           ends == EndedAt(kernel, pc, op)
           Goal == IsTerms(terms, ends, c.m)
<1>0. SUFFICES Goal OBVIOUS
<1>1. CallOf(w) = CallAt(kernel, pc) BY LoopStep
<1>2. Len(e) = n /\ \A i \in 1 .. n : e[i].op = u[i][1] /\ e[i].slice = u[i][2] /\ e[i].m = c.m
  BY <1>1, EndedGemms
<1>3. pc \in 1 .. LoopLen(kernel) BY DEF Place
<1>k. x \in 5 .. 8 /\ kernel.Slice_dQKV_Mma \in BOOLEAN /\ LoopLen(kernel) = x + (IF kernel.Slice_dQKV_Mma THEN 6 ELSE 4)
  BY KernelTypes DEF LoopLen
<1>4. /\ pc = 3 => n = 2 /\ u[1] = <<"s", 0>> /\ u[2] = <<"dp", 0>>
      /\ pc # 3 /\ pc < x + 2 => n = 0
      /\ pc = x + 2 => IF kernel.Slice_dQKV_Mma THEN n = 0 ELSE n = 1 /\ u[1] = <<"dv", 0>>
      /\ pc = x + 3 => IF kernel.Slice_dQKV_Mma THEN n = 2 /\ u[1] = <<"dv", 0>> /\ u[2] = <<"dq", 0>>
                       ELSE n = 1 /\ u[1] = <<"dq", 0>>
      /\ pc = x + 4 => n = 1 /\ u[1] = IF kernel.Slice_dQKV_Mma THEN <<"dv", 1>> ELSE <<"dk", 0>>
      /\ pc = x + 5 => n = 2 /\ u[1] = <<"dk", 0>> /\ u[2] = <<"dq", 1>>
      /\ pc = x + 6 => n = 1 /\ u[1] = <<"dk", 1>>
  BY <1>3, EndsTable
<1>5. n \in 0 .. 2 BY <1>3, <1>4, <1>k
<1> DEFINE m == c.m
<1>6. ends = IF pc = EndOf(kernel, op, 0) THEN {0} ELSE IF kernel.Slice_dQKV_Mma /\ pc = EndOf(kernel, op, 1) THEN {1} ELSE {}
  BY DEF EndedAt
<1>7. \A slice \in {0, 1} : EndOf(kernel, op, slice) =
        x + (IF kernel.Slice_dQKV_Mma
             THEN IF op = "dv" THEN 3 + slice ELSE IF op = "dq" THEN 3 + 2 * slice ELSE 5 + slice
             ELSE IF op = "dv" THEN 2 ELSE IF op = "dq" THEN 3 ELSE 4)
  BY DEF EndOf
<1>n. op \in {"dq", "dk", "dv"} OBVIOUS
<1>2a. Len(Ended(w, CallOf(w))) = n BY <1>2
<1> HIDE DEF c, pc, u, n, x, ends, m
<1>8. /\ n = 0 => terms = << >>
      /\ n = 1 => terms = AndTerm(<< >>, e[1], op)
      /\ n = 2 => terms = AndTerm(AndTerm(<< >>, e[1], op), e[2], op)
  BY ONLY <1>2a, <1>5, TermsOf
<1> HIDE DEF e, terms
<1>g. IsTerms(terms, ends, m) => Goal BY DEF m
<1> HIDE DEF Goal
<1>9. /\ n >= 1 => AndTerm(<< >>, e[1], op) = IF u[1][1] = op THEN << <<m, u[1][2]>> >> ELSE << >>
      /\ n = 2 => \A s : AndTerm(s, e[2], op) = IF u[2][1] = op THEN Append(s, <<m, u[2][2]>>) ELSE s
  <2>1. n >= 1 => e[1].op = u[1][1] /\ e[1].slice = u[1][2] /\ e[1].m = m BY <1>2, <1>5 DEF m
  <2>2. n = 2 => e[2].op = u[2][1] /\ e[2].slice = u[2][2] /\ e[2].m = m BY <1>2, <1>5 DEF m
  <2> QED BY <2>1, <2>2 DEF AndTerm
<1>10. \A t : Append(<< >>, t) = <<t>> OBVIOUS
<1>11. CASE pc < x + 2
  <2>1. terms = << >>
    <3>1. CASE pc = 3
      <4>1. n = 2 /\ u[1][1] # op /\ u[2][1] # op BY <1>4, <3>1, <1>n
      <4> QED BY <1>8, <1>9, <4>1
    <3>2. CASE pc # 3 BY <1>4, <1>8, <1>11, <3>2
    <3> QED BY <3>1, <3>2
  <2>2. ends = {} BY <1>3, <1>6, <1>7, <1>k, <1>11, <1>n
  <2> QED BY <1>g, <2>1, <2>2 DEF IsTerms
<1>12. CASE pc = x + 2
  <2>1. CASE kernel.Slice_dQKV_Mma
    <3>1. ends = {} BY <1>6, <1>7, <1>k, <1>12, <1>n, <2>1
    <3>2. terms = << >> BY <1>4, <1>8, <1>12, <2>1
    <3> QED BY <1>g, <3>1, <3>2 DEF IsTerms
  <2>2. CASE ~kernel.Slice_dQKV_Mma
    <3>1. ends = IF op = "dv" THEN {0} ELSE {} BY <1>6, <1>7, <1>k, <1>12, <1>n, <2>2
    <3>2. n = 1 /\ u[1][1] = "dv" /\ u[1][2] = 0 BY <1>4, <1>12, <2>2
    <3>3. terms = IF op = "dv" THEN << <<m, 0>> >> ELSE << >> BY <1>8, <1>9, <3>2
    <3> QED BY <1>g, <3>1, <3>3 DEF IsTerms
  <2> QED BY <2>1, <2>2
<1>13. CASE pc = x + 3
  <2>1. CASE kernel.Slice_dQKV_Mma
    <3>1. ends = IF op \in {"dv", "dq"} THEN {0} ELSE {} BY <1>6, <1>7, <1>k, <1>13, <1>n, <2>1
    <3>2. n = 2 /\ u[1][1] = "dv" /\ u[1][2] = 0 /\ u[2][1] = "dq" /\ u[2][2] = 0
      BY <1>4, <1>13, <2>1
    <3>x. "dv" # "dq" /\ terms = AndTerm(AndTerm(<< >>, e[1], op), e[2], op) BY <1>8, <3>2
    <3>a. ASSUME op = "dv" \/ op = "dk" PROVE terms = IF op = "dv" THEN << <<m, 0>> >> ELSE << >>
      <4>1. terms = AndTerm(<< >>, e[1], op) BY <1>9, <3>2, <3>x, <3>a
      <4> QED BY <1>9, <3>2, <3>a, <4>1
    <3>b. ASSUME op = "dq" PROVE terms = << <<m, 0>> >>
      <4>1. AndTerm(<< >>, e[1], op) = << >> BY <1>9, <3>2, <3>b
      <4>2. terms = Append(<< >>, <<m, 0>>) BY <1>9, <3>2, <3>x, <3>b, <4>1
      <4> QED BY <1>10, <3>b, <4>2
    <3>3. terms = IF op \in {"dv", "dq"} THEN << <<m, 0>> >> ELSE << >> BY <1>n, <3>a, <3>b
    <3> QED BY <1>g, <3>1, <3>3 DEF IsTerms
  <2>2. CASE ~kernel.Slice_dQKV_Mma
    <3>1. ends = IF op = "dq" THEN {0} ELSE {} BY <1>6, <1>7, <1>k, <1>13, <1>n, <2>2
    <3>2. n = 1 /\ u[1][1] = "dq" /\ u[1][2] = 0 BY <1>4, <1>13, <2>2
    <3>3. terms = IF op = "dq" THEN << <<m, 0>> >> ELSE << >> BY <1>8, <1>9, <3>2
    <3> QED BY <1>g, <3>1, <3>3 DEF IsTerms
  <2> QED BY <2>1, <2>2
<1>14. CASE pc = x + 4
  <2>1. CASE kernel.Slice_dQKV_Mma
    <3>1. ends = IF op = "dv" THEN {1} ELSE {} BY <1>6, <1>7, <1>k, <1>14, <1>n, <2>1
    <3>2. n = 1 /\ u[1][1] = "dv" /\ u[1][2] = 1 BY <1>4, <1>14, <2>1
    <3>3. terms = IF op = "dv" THEN << <<m, 1>> >> ELSE << >> BY <1>8, <1>9, <3>2
    <3> QED BY <1>g, <3>1, <3>3 DEF IsTerms
  <2>2. CASE ~kernel.Slice_dQKV_Mma
    <3>1. ends = IF op = "dk" THEN {0} ELSE {} BY <1>6, <1>7, <1>k, <1>14, <1>n, <2>2
    <3>2. n = 1 /\ u[1][1] = "dk" /\ u[1][2] = 0 BY <1>4, <1>14, <2>2
    <3>3. terms = IF op = "dk" THEN << <<m, 0>> >> ELSE << >> BY <1>8, <1>9, <3>2
    <3> QED BY <1>g, <3>1, <3>3 DEF IsTerms
  <2> QED BY <2>1, <2>2
<1>15. CASE pc = x + 5
  <2>1. kernel.Slice_dQKV_Mma BY <1>3, <1>k, <1>15
  <2>2. ends = IF op = "dk" THEN {0} ELSE IF op = "dq" THEN {1} ELSE {}
    BY <1>6, <1>7, <1>k, <1>15, <1>n, <2>1
  <2>3. n = 2 /\ u[1][1] = "dk" /\ u[1][2] = 0 /\ u[2][1] = "dq" /\ u[2][2] = 1 BY <1>4, <1>15
  <2>x. "dk" # "dq" /\ terms = AndTerm(AndTerm(<< >>, e[1], op), e[2], op) BY <1>8, <2>3
  <2>a. ASSUME op = "dv" \/ op = "dk" PROVE terms = IF op = "dk" THEN << <<m, 0>> >> ELSE << >>
    <3>1. terms = AndTerm(<< >>, e[1], op) BY <1>9, <2>3, <2>x, <2>a
    <3> QED BY <1>9, <2>3, <2>a, <3>1
  <2>b. ASSUME op = "dq" PROVE terms = << <<m, 1>> >>
    <3>1. AndTerm(<< >>, e[1], op) = << >> BY <1>9, <2>3, <2>b
    <3>2. terms = Append(<< >>, <<m, 1>>) BY <1>9, <2>3, <2>x, <2>b, <3>1
    <3> QED BY <1>10, <2>b, <3>2
  <2>4. terms = IF op = "dk" THEN << <<m, 0>> >> ELSE IF op = "dq" THEN << <<m, 1>> >> ELSE << >>
    BY <1>n, <2>a, <2>b
  <2> QED BY <1>g, <2>2, <2>4 DEF IsTerms
<1>16. CASE pc = x + 6
  <2>1. kernel.Slice_dQKV_Mma BY <1>3, <1>k, <1>16
  <2>2. ends = IF op = "dk" THEN {1} ELSE {} BY <1>6, <1>7, <1>k, <1>16, <1>n, <2>1
  <2>3. n = 1 /\ u[1][1] = "dk" /\ u[1][2] = 1 BY <1>4, <1>16
  <2>4. terms = IF op = "dk" THEN << <<m, 1>> >> ELSE << >> BY <1>8, <1>9, <2>3
  <2> QED BY <1>g, <2>2, <2>4 DEF IsTerms
<1> QED BY <1>3, <1>k, <1>11, <1>12, <1>13, <1>14, <1>15, <1>16

-----------------------------------------------------------------------------
(* dQ, by way of the dQ warp or by atomicAdd.                              *)

\* Without slices, the gemm that ends is that of this block.
LEMMA DqDoneIs ==
  ASSUME IInv, NEW w \in WGs, Does(w, "dq"), ~kernel.Slice_dQKV_Mma
  PROVE  DqDone(w) = <<mma[w].m, 0>>
<1> DEFINE c == mma[w]
<1>1. kernel \in CtaKernels /\ Place(kernel, w, c) /\ c.at \in {"loop", "epilogue"} /\ CallOf(w).does = "dq"
  BY InvFacts DEF Does
<1>2. Doing(kernel, w, c) = "dq" BY <1>1, Doings
<1>3. c.at = "loop" /\ c.pc \in 1 .. LoopLen(kernel) /\ CallAt(kernel, c.pc).does = "dq"
  BY <1>1, <1>2, InvFacts, LoopDoes
<1>4. c.pc = DsShared(kernel) + 3 BY <1>1, <1>3, CallKinds
<1>5. EndedAt(kernel, c.pc, "dq") = {0} BY <1>4 DEF EndedAt, EndOf
<1>6. IsTerms(Terms(w, CallOf(w), "dq"), {0}, c.m) BY <1>1, <1>3, <1>5, LoopTerms
<1>7. Terms(w, CallOf(w), "dq") = << <<c.m, 0>> >> BY <1>6 DEF IsTerms
<1> QED BY <1>7 DEF DqDone

LEMMA WriteDqKeeps ==
  ASSUME IInv, NEW w \in WGs, WriteDq(w)
  PROVE  IInv'
<1>1. /\ Does(w, "dq") /\ ~kernel.Slice_dQKV_Mma /\ barriers.dQEmpty[w] > 0
      /\ Proceed({w}) /\ kernel' = kernel /\ loader' = loader /\ dq_warp' = dq_warp /\ q_pipe' = q_pipe /\ do_pipe' = do_pipe
      /\ smem' = [smem EXCEPT !.dq[w] = DqDone(w)[1]]
      /\ barriers' = [barriers EXCEPT !.dQEmpty[w] = 0, !.dQFull[w] = @ + 1]
  BY DEF WriteDq
<1> DEFINE m == mma[w].m
           dq == [smem.dq EXCEPT ![w] = m]
           empty == [barriers.dQEmpty EXCEPT ![w] = 0]
           full == [barriers.dQFull EXCEPT ![w] = barriers.dQFull[w] + 1]
<1>2. DqDone(w)[1] = m BY <1>1, DqDoneIs
<1>3. /\ DOMAIN smem' = DOMAIN smem /\ smem'.kv = smem.kv /\ smem'.p = smem.p /\ smem'.ds = smem.ds
      /\ smem'.dkv = smem.dkv /\ smem'.storing = smem.storing /\ smem'.dq = dq
  <2>1. smem' = [smem EXCEPT !.dq = dq] BY <1>1, <1>2
  <2> HIDE DEF dq
  <2> QED BY <2>1, InvFacts DEF Fields
<1>4. /\ DOMAIN barriers' = DOMAIN barriers /\ barriers'.PdS = barriers.PdS /\ barriers'.Epilogue = barriers.Epilogue
      /\ barriers'.written = barriers.written /\ barriers'.dQEmpty = empty /\ barriers'.dQFull = full
  <2>1. barriers' = [barriers EXCEPT !.dQEmpty = empty, !.dQFull = full] BY <1>1
  <2> HIDE DEF empty, full
  <2> QED BY <2>1, InvFacts DEF Fields
<1> HIDE DEF dq, empty, full
<1>6. Goes({w}, "dq") BY <1>1, ProceedGoes
<1>7. WGs' = WGs /\ OneGoes(kernel, w, mma[w], mma'[w], "dq") /\ \A v \in WGs : v # w => mma'[v] = mma[v]
  BY <1>6, EachGoes
<1>8. Places' /\ LoaderInv' /\ KvInv' BY <1>1, <1>3, <1>6, GoesKeeps
<1>9. PdSInv' /\ EpilogueInv'
  <2>1. PdSInv' BY <1>3, <1>6, InvFacts, PdSKept
  <2>2. EpilogueInv' BY <1>3, <1>4, <1>6, InvFacts, EpilogueKept
  <2> QED BY <2>1, <2>2
<1>10. SyncInv' BY <1>4, <1>6, InvFacts, SyncKept
<1>11. QueryRing' /\ DoRing' BY <1>1, <1>6, InvFacts, QuerySame, DoSame
<1>12. Fields' BY <1>3, <1>4, InvFacts DEF Fields
<1>13. DqInv'
  <2>1. /\ dq_warp \in [m : Nat, wg : WGs, at : {"copy", "wait"}]
        /\ smem.dq \in [WGs -> Nat \cup {Nil}]
        /\ barriers.dQEmpty \in [WGs -> {0, 1}] /\ barriers.dQFull \in [WGs -> {0, 1}]
        /\ \A v \in WGs :
             /\ barriers.dQFull[v] = WrittenDq(kernel, mma[v]) - Copied(v)
             /\ barriers.dQEmpty[v] = (IF mma[v].at = "init" THEN 0 ELSE 1) + Freed(v) - WrittenDq(kernel, mma[v])
             /\ WrittenDq(kernel, mma[v]) > 0 => smem.dq[v] = WrittenDq(kernel, mma[v]) - 1
    BY <1>1, InvFacts DEF DqInv
  <2>2. \A v \in WGs : Copied(v)' = Copied(v) /\ Freed(v)' = Freed(v) BY <1>1 DEF Copied, Freed
  <2>3. /\ WrittenDq(kernel, mma[w]) = m /\ WrittenDq(kernel, mma'[w]) = m + 1
        /\ mma[w].at # "init" /\ mma'[w].at # "init" /\ m \in Nat
    <3>1. WrittenDq(kernel, mma[w]) = m /\ WrittenDq(kernel, mma'[w]) = WrittenDq(kernel, mma[w]) + 1
      BY <1>1, <1>7 DEF OneGoes, Effects
    <3>2. mma[w].at \in {"loop", "epilogue"} /\ Moved(kernel, w, mma[w], mma'[w])
      BY <1>7 DEF OneGoes
    <3>3. mma'[w].at # "init" BY <3>2 DEF Moved
    <3>4. m \in Nat BY InvFacts, WrittenNat
    <3> QED BY <3>1, <3>2, <3>3, <3>4
  <2>4. barriers.dQEmpty[w] = 1 /\ barriers.dQFull[w] = 0
    <3>1. barriers.dQEmpty[w] = 1 /\ barriers.dQFull[w] \in {0, 1} BY <1>1, <2>1
    <3>2. 1 = 1 + Freed(w) - m /\ barriers.dQFull[w] = m - Copied(w) BY <2>1, <2>3, <3>1
    <3>3. Freed(w) \in Nat /\ Copied(w) \in Nat /\ Copied(w) >= Freed(w)
      <4>1. dq_warp.m \in Nat BY <2>1
      <4> QED BY <4>1 DEF Copied, Freed
    <3> QED BY <2>3, <3>1, <3>2, <3>3
  <2>5. /\ dq \in [WGs -> Nat \cup {Nil}] /\ empty \in [WGs -> {0, 1}] /\ full \in [WGs -> {0, 1}]
        /\ dq[w] = m /\ empty[w] = 0 /\ full[w] = 1
        /\ \A v \in WGs : v # w => dq[v] = smem.dq[v] /\ empty[v] = barriers.dQEmpty[v] /\ full[v] = barriers.dQFull[v]
    BY <2>1, <2>3, <2>4 DEF dq, empty, full
  <2>6. ASSUME NEW v \in WGs
        PROVE  /\ full[v] = WrittenDq(kernel, mma'[v]) - Copied(v)
               /\ empty[v] = (IF mma'[v].at = "init" THEN 0 ELSE 1) + Freed(v) - WrittenDq(kernel, mma'[v])
               /\ WrittenDq(kernel, mma'[v]) > 0 => dq[v] = WrittenDq(kernel, mma'[v]) - 1
    <3>1. CASE v # w BY <1>7, <2>1, <2>5, <3>1
    <3>2. CASE v = w
      <4>1. 0 = m - Copied(w) /\ 1 = 1 + Freed(w) - m BY <2>1, <2>3, <2>4
      <4>2. Freed(w) \in Nat /\ Copied(w) \in Nat
        <5>1. dq_warp.m \in Nat BY <2>1
        <5> QED BY <5>1 DEF Copied, Freed
      <4> QED BY <2>3, <2>5, <3>2, <4>1, <4>2
    <3> QED BY <3>1, <3>2
  <2> QED BY <1>1, <1>3, <1>4, <1>7, <2>1, <2>2, <2>5, <2>6 DEF DqInv, Nil
<1> QED BY <1>8, <1>9, <1>10, <1>11, <1>12, <1>13 DEF IInv

LEMMA AtomicAddDqKeeps ==
  ASSUME IInv, NEW w \in WGs, AtomicAddDq(w)
  PROVE  IInv'
<1>1. /\ Does(w, "dq") /\ kernel.Slice_dQKV_Mma
      /\ Proceed({w}) /\ kernel' = kernel /\ loader' = loader /\ dq_warp' = dq_warp /\ q_pipe' = q_pipe /\ do_pipe' = do_pipe
      /\ smem' = smem /\ barriers' = barriers
  BY DEF AtomicAddDq
<1>2. Goes({w}, "dq") BY <1>1, ProceedGoes
<1>3. Places' /\ LoaderInv' /\ KvInv' BY <1>1, <1>2, GoesKeeps
<1>4. PdSInv' /\ DqInv' /\ EpilogueInv' BY <1>1, <1>2, MemoryKept
<1>5. SyncInv' BY <1>1, <1>2, InvFacts, SyncKept
<1>6. QueryRing' /\ DoRing' BY <1>1, <1>2, InvFacts, QuerySame, DoSame
<1>7. Fields' BY <1>1, InvFacts DEF Fields
<1> QED BY <1>3, <1>4, <1>5, <1>6, <1>7 DEF IInv

\* What a step of the dQ warp leaves alone.
LEMMA DqWarpLeaves ==
  ASSUME IInv, kernel' = kernel, mma' = mma, loader' = loader, q_pipe' = q_pipe, do_pipe' = do_pipe, smem' = smem,
         DOMAIN barriers' = DOMAIN barriers, barriers'.PdS = barriers.PdS, barriers'.Epilogue = barriers.Epilogue,
         barriers'.written = barriers.written, DqInv'
  PROVE  IInv'
<1>1. /\ Goes({}, "none") /\ Places' /\ KvInv' /\ QueryRing' /\ DoRing' /\ LoaderInv' BY Idle
<1>2. SyncInv' BY <1>1, InvFacts, SyncKept
<1>3. PdSInv' BY <1>1, InvFacts, PdSKept
<1>4. EpilogueInv' BY <1>1, InvFacts, EpilogueKept
<1>5. Fields' BY InvFacts DEF Fields
<1> QED BY <1>1, <1>2, <1>3, <1>4, <1>5 DEF IInv

DqCounts(v) ==
  /\ barriers.dQFull[v] = WrittenDq(kernel, mma[v]) - Copied(v)
  /\ barriers.dQEmpty[v] = (IF mma[v].at = "init" THEN 0 ELSE 1) + Freed(v) - WrittenDq(kernel, mma[v])
  /\ WrittenDq(kernel, mma[v]) > 0 => smem.dq[v] = WrittenDq(kernel, mma[v]) - 1

LEMMA DqFacts ==
  ASSUME IInv, ~kernel.Slice_dQKV_Mma
  PROVE  /\ dq_warp \in [m : Nat, wg : WGs, at : {"copy", "wait"}]
         /\ smem.dq \in [WGs -> Nat \cup {Nil}]
         /\ barriers.dQEmpty \in [WGs -> {0, 1}] /\ barriers.dQFull \in [WGs -> {0, 1}]
         /\ \A v \in WGs : DqCounts(v) /\ WrittenDq(kernel, mma[v]) \in Nat /\ Copied(v) \in Nat /\ Freed(v) \in Nat
         /\ WGs \subseteq Nat /\ kernel.wgs \in {2, 3} /\ \A v \in WGs : v <= kernel.wgs - 1
<1>1. /\ dq_warp \in [m : Nat, wg : WGs, at : {"copy", "wait"}]
      /\ smem.dq \in [WGs -> Nat \cup {Nil}]
      /\ barriers.dQEmpty \in [WGs -> {0, 1}] /\ barriers.dQFull \in [WGs -> {0, 1}]
      /\ \A v \in WGs : DqCounts(v)
  BY InvFacts DEF DqInv, DqCounts
<1>2. dq_warp.m \in Nat BY <1>1
<1>3. \A v \in WGs : Copied(v) \in Nat /\ Freed(v) \in Nat BY <1>2 DEF Copied, Freed
<1>4. \A v \in WGs : WrittenDq(kernel, mma[v]) \in Nat BY InvFacts, WrittenNat
<1>5. WGs \subseteq Nat /\ \A v \in WGs : v <= kernel.wgs - 1 BY InvFacts DEF WGs
<1> QED BY <1>1, <1>3, <1>4, <1>5, InvFacts

\* A step of the dQ warp, and what it has copied by then.
LEMMA CopyDqMoves ==
  ASSUME IInv, CopyDq
  PROVE  /\ dq_warp' \in [m : Nat, wg : WGs, at : {"copy", "wait"}]
         /\ \A v \in WGs : Freed(v)' = Freed(v) /\ Copied(v)' = Copied(v) + (IF v = dq_warp.wg THEN 1 ELSE 0)
<1> DEFINE w == dq_warp.wg
           m == dq_warp.m
<1>1. /\ dq_warp.at = "copy" /\ ~kernel.Slice_dQKV_Mma
      /\ dq_warp' = IF w = kernel.wgs - 1 THEN [dq_warp EXCEPT !.wg = 0, !.at = "wait"] ELSE [dq_warp EXCEPT !.wg = @ + 1]
      /\ kernel' = kernel
  BY DEF CopyDq, DqWarpAt
<1>3. /\ m \in Nat /\ w \in WGs /\ w \in Nat /\ kernel.wgs \in {2, 3} /\ w <= kernel.wgs - 1
  BY <1>1, DqFacts
<1>5. /\ dq_warp' \in [m : Nat, wg : WGs, at : {"copy", "wait"}] /\ dq_warp'.m = m
      /\ w = kernel.wgs - 1 => dq_warp'.wg = 0 /\ dq_warp'.at = "wait"
      /\ w # kernel.wgs - 1 => dq_warp'.wg = w + 1 /\ dq_warp'.at = "copy"
  <2>0. dq_warp \in [m : Nat, wg : WGs, at : {"copy", "wait"}] BY <1>1, DqFacts
  <2>1. CASE w = kernel.wgs - 1
    <3>1. 0 \in WGs BY <1>3 DEF WGs
    <3> QED BY <1>1, <2>0, <2>1, <3>1
  <2>2. CASE w # kernel.wgs - 1
    <3>1. w + 1 \in WGs BY <1>3, <2>2 DEF WGs
    <3> QED BY <1>1, <2>0, <2>2, <3>1
  <2> QED BY <2>1, <2>2
<1> HIDE DEF w, m
<1>6. dq_warp.wg = w /\ dq_warp.m = m BY DEF w, m
<1>8. ASSUME NEW v \in WGs
      PROVE  Freed(v)' = Freed(v) /\ Copied(v)' = Copied(v) + (IF v = w THEN 1 ELSE 0)
  <2>1. v \in Nat /\ v <= kernel.wgs - 1 BY <1>1, DqFacts
  <2>2. /\ Copied(v)' = dq_warp'.m + (IF dq_warp'.at = "wait" \/ v < dq_warp'.wg THEN 1 ELSE 0)
        /\ Freed(v)' = dq_warp'.m + (IF dq_warp'.at = "wait" /\ v < dq_warp'.wg THEN 1 ELSE 0)
        /\ Copied(v) = m + (IF v < w THEN 1 ELSE 0) /\ Freed(v) = m
    BY <1>1, <1>3, <1>6 DEF Copied, Freed
  <2>3. CASE w = kernel.wgs - 1 BY <1>3, <1>5, <2>1, <2>2, <2>3
  <2>4. CASE w # kernel.wgs - 1 BY <1>3, <1>5, <2>1, <2>2, <2>4
  <2> QED BY <2>3, <2>4
<1> QED BY <1>5, <1>6, <1>8

LEMMA CopyDqKeeps ==
  ASSUME IInv, CopyDq
  PROVE  IInv'
<1> DEFINE w == dq_warp.wg
           m == dq_warp.m
           full == [barriers.dQFull EXCEPT ![w] = 0]
<1>1. /\ dq_warp.at = "copy" /\ ~kernel.Slice_dQKV_Mma /\ barriers.dQFull[w] > 0
      /\ barriers' = [barriers EXCEPT !.dQFull = full]
      /\ dq_warp' = IF w = kernel.wgs - 1 THEN [dq_warp EXCEPT !.wg = 0, !.at = "wait"] ELSE [dq_warp EXCEPT !.wg = @ + 1]
      /\ kernel' = kernel /\ mma' = mma /\ loader' = loader /\ q_pipe' = q_pipe /\ do_pipe' = do_pipe /\ smem' = smem
  BY DEF CopyDq, DqWarpAt
<1> HIDE DEF full
<1>2. /\ DOMAIN barriers' = DOMAIN barriers /\ barriers'.PdS = barriers.PdS /\ barriers'.Epilogue = barriers.Epilogue
      /\ barriers'.written = barriers.written /\ barriers'.dQEmpty = barriers.dQEmpty /\ barriers'.dQFull = full
  BY <1>1, InvFacts DEF Fields
<1>3. /\ m \in Nat /\ w \in WGs /\ w \in Nat /\ kernel.wgs \in {2, 3} /\ w <= kernel.wgs - 1
  BY <1>1, DqFacts
<1>4. /\ full \in [WGs -> {0, 1}] /\ full[w] = 0 /\ \A v \in WGs : v # w => full[v] = barriers.dQFull[v]
  BY <1>1, <1>3, DqFacts DEF full
<1>5. dq_warp' \in [m : Nat, wg : WGs, at : {"copy", "wait"}] BY CopyDqMoves
<1> HIDE DEF w, m
<1>7. WGs' = WGs BY <1>1 DEF WGs
<1>8. \A v \in WGs : Freed(v)' = Freed(v) /\ Copied(v)' = Copied(v) + (IF v = w THEN 1 ELSE 0)
  BY CopyDqMoves DEF w
<1>9. ASSUME NEW v \in WGs PROVE DqCounts(v)'
  <2>1. /\ barriers.dQFull[v] = WrittenDq(kernel, mma[v]) - Copied(v)
        /\ barriers.dQEmpty[v] = (IF mma[v].at = "init" THEN 0 ELSE 1) + Freed(v) - WrittenDq(kernel, mma[v])
        /\ WrittenDq(kernel, mma[v]) > 0 => smem.dq[v] = WrittenDq(kernel, mma[v]) - 1
        /\ WrittenDq(kernel, mma[v]) \in Nat /\ Copied(v) \in Nat /\ barriers.dQFull[v] \in {0, 1}
    BY <1>1, DqFacts DEF DqCounts
  <2>2. full[v] = WrittenDq(kernel, mma[v]) - Copied(v)'
    <3>1. CASE v # w BY <1>4, <1>8, <2>1, <3>1
    <3>2. CASE v = w
      <4>1. barriers.dQFull[v] = 1 BY <1>1, <2>1, <3>2 DEF w
      <4> QED BY <1>4, <1>8, <2>1, <3>2, <4>1
    <3> QED BY <3>1, <3>2
  <2> QED BY <1>1, <1>2, <1>8, <2>1, <2>2 DEF DqCounts
<1>10. DqInv'
  <2>1. smem.dq \in [WGs -> Nat \cup {Nil}] /\ barriers.dQEmpty \in [WGs -> {0, 1}]
    BY <1>1, DqFacts
  <2> QED BY <1>1, <1>2, <1>4, <1>5, <1>7, <1>9, <2>1 DEF DqInv, DqCounts, Nil
<1> QED BY <1>1, <1>2, <1>10, DqWarpLeaves

LEMMA CopiedDqMoves ==
  ASSUME IInv, CopiedDq
  PROVE  /\ dq_warp' \in [m : Nat, wg : WGs, at : {"copy", "wait"}]
         /\ \A v \in WGs : Copied(v)' = Copied(v) /\ Freed(v)' = Freed(v) + (IF v = dq_warp.wg THEN 1 ELSE 0)
         /\ Freed(dq_warp.wg) = dq_warp.m
<1> DEFINE w == dq_warp.wg
           m == dq_warp.m
<1>1. /\ dq_warp.at = "wait" /\ ~kernel.Slice_dQKV_Mma
      /\ dq_warp' = IF w = kernel.wgs - 1 THEN [m |-> m + 1, wg |-> 0, at |-> "copy"] ELSE [dq_warp EXCEPT !.wg = @ + 1]
      /\ kernel' = kernel
  BY DEF CopiedDq, DqWarpAt
<1>3. /\ m \in Nat /\ w \in WGs /\ w \in Nat /\ kernel.wgs \in {2, 3} /\ w <= kernel.wgs - 1
  BY <1>1, DqFacts
<1>6. /\ dq_warp' \in [m : Nat, wg : WGs, at : {"copy", "wait"}]
      /\ w = kernel.wgs - 1 => dq_warp'.m = m + 1 /\ dq_warp'.wg = 0 /\ dq_warp'.at = "copy"
      /\ w # kernel.wgs - 1 => dq_warp'.m = m /\ dq_warp'.wg = w + 1 /\ dq_warp'.at = "wait"
  <2>0. dq_warp \in [m : Nat, wg : WGs, at : {"copy", "wait"}] BY <1>1, DqFacts
  <2>1. CASE w = kernel.wgs - 1
    <3>1. 0 \in WGs BY <1>3 DEF WGs
    <3> QED BY <1>1, <1>3, <2>0, <2>1, <3>1
  <2>2. CASE w # kernel.wgs - 1
    <3>1. w + 1 \in WGs BY <1>3, <2>2 DEF WGs
    <3> QED BY <1>1, <2>0, <2>2, <3>1
  <2> QED BY <2>1, <2>2
<1> HIDE DEF w, m
<1>7. dq_warp.wg = w /\ dq_warp.m = m BY DEF w, m
<1>8. ASSUME NEW v \in WGs
      PROVE  Copied(v)' = Copied(v) /\ Freed(v)' = Freed(v) + (IF v = w THEN 1 ELSE 0)
  <2>1. v \in Nat /\ v <= kernel.wgs - 1 BY <1>1, DqFacts
  <2>2. /\ Copied(v)' = dq_warp'.m + (IF dq_warp'.at = "wait" \/ v < dq_warp'.wg THEN 1 ELSE 0)
        /\ Freed(v)' = dq_warp'.m + (IF dq_warp'.at = "wait" /\ v < dq_warp'.wg THEN 1 ELSE 0)
        /\ Copied(v) = m + 1 /\ Freed(v) = m + (IF v < w THEN 1 ELSE 0)
    BY <1>1, <1>3, <1>7 DEF Copied, Freed
  <2>3. CASE w = kernel.wgs - 1 BY <1>3, <1>6, <2>1, <2>2, <2>3
  <2>4. CASE w # kernel.wgs - 1 BY <1>3, <1>6, <2>1, <2>2, <2>4
  <2> QED BY <2>3, <2>4
<1>9. Freed(w) = m BY <1>1, <1>3, <1>7 DEF Freed
<1> QED BY <1>6, <1>7, <1>8, <1>9

LEMMA CopiedDqKeeps ==
  ASSUME IInv, CopiedDq
  PROVE  IInv'
<1> DEFINE w == dq_warp.wg
           m == dq_warp.m
           empty == [barriers.dQEmpty EXCEPT ![w] = barriers.dQEmpty[w] + 1]
<1>1. /\ dq_warp.at = "wait" /\ ~kernel.Slice_dQKV_Mma
      /\ barriers' = [barriers EXCEPT !.dQEmpty = empty]
      /\ dq_warp' = IF w = kernel.wgs - 1 THEN [m |-> m + 1, wg |-> 0, at |-> "copy"] ELSE [dq_warp EXCEPT !.wg = @ + 1]
      /\ kernel' = kernel /\ mma' = mma /\ loader' = loader /\ q_pipe' = q_pipe /\ do_pipe' = do_pipe /\ smem' = smem
  BY DEF CopiedDq, DqWarpAt
<1> HIDE DEF empty
<1>2. /\ DOMAIN barriers' = DOMAIN barriers /\ barriers'.PdS = barriers.PdS /\ barriers'.Epilogue = barriers.Epilogue
      /\ barriers'.written = barriers.written /\ barriers'.dQEmpty = empty /\ barriers'.dQFull = barriers.dQFull
  BY <1>1, InvFacts DEF Fields
<1>3. /\ m \in Nat /\ w \in WGs /\ w \in Nat /\ kernel.wgs \in {2, 3} /\ w <= kernel.wgs - 1
  BY <1>1, DqFacts
<1>4. barriers.dQEmpty[w] = 0
  <2>1. /\ barriers.dQFull[w] = WrittenDq(kernel, mma[w]) - Copied(w) /\ barriers.dQFull[w] \in {0, 1}
        /\ barriers.dQEmpty[w] = (IF mma[w].at = "init" THEN 0 ELSE 1) + Freed(w) - WrittenDq(kernel, mma[w])
        /\ barriers.dQEmpty[w] \in {0, 1} /\ WrittenDq(kernel, mma[w]) \in Nat
    BY <1>1, <1>3, DqFacts DEF DqCounts
  <2>2. Copied(w) = m + 1 /\ Freed(w) = m BY <1>1, <1>3 DEF Copied, Freed
  <2> HIDE DEF w, m
  <2> QED BY <1>3, <2>1, <2>2
<1>5. /\ empty \in [WGs -> {0, 1}] /\ empty[w] = 1 /\ \A v \in WGs : v # w => empty[v] = barriers.dQEmpty[v]
  BY <1>1, <1>3, <1>4, DqFacts DEF empty
<1>6. dq_warp' \in [m : Nat, wg : WGs, at : {"copy", "wait"}] BY CopiedDqMoves
<1> HIDE DEF w, m
<1>7. WGs' = WGs BY <1>1 DEF WGs
<1>8. \A v \in WGs : Copied(v)' = Copied(v) /\ Freed(v)' = Freed(v) + (IF v = w THEN 1 ELSE 0)
  BY CopiedDqMoves DEF w
<1>9. ASSUME NEW v \in WGs PROVE DqCounts(v)'
  <2>1. /\ barriers.dQFull[v] = WrittenDq(kernel, mma[v]) - Copied(v)
        /\ barriers.dQEmpty[v] = (IF mma[v].at = "init" THEN 0 ELSE 1) + Freed(v) - WrittenDq(kernel, mma[v])
        /\ WrittenDq(kernel, mma[v]) > 0 => smem.dq[v] = WrittenDq(kernel, mma[v]) - 1
        /\ WrittenDq(kernel, mma[v]) \in Nat /\ Freed(v) \in Nat /\ barriers.dQEmpty[v] \in {0, 1}
    BY <1>1, DqFacts DEF DqCounts
  <2>2. empty[v] = (IF mma[v].at = "init" THEN 0 ELSE 1) + Freed(v)' - WrittenDq(kernel, mma[v])
    <3>1. CASE v # w BY <1>5, <1>8, <2>1, <3>1
    <3>2. CASE v = w BY <1>4, <1>5, <1>8, <2>1, <3>2
    <3> QED BY <3>1, <3>2
  <2> QED BY <1>1, <1>2, <1>8, <2>1, <2>2 DEF DqCounts
<1>10. DqInv'
  <2>1. smem.dq \in [WGs -> Nat \cup {Nil}] /\ barriers.dQFull \in [WGs -> {0, 1}]
    BY <1>1, DqFacts
  <2> QED BY <1>1, <1>2, <1>5, <1>6, <1>7, <1>9, <2>1 DEF DqInv, DqCounts, Nil
<1> QED BY <1>1, <1>2, <1>10, DqWarpLeaves

-----------------------------------------------------------------------------
(* The epilogue.                                                           *)

LEMMA EpilogueDoing ==
  ASSUME NEW k \in CtaKernels, NEW w \in Groups(k), NEW c, NEW d, NEW x, OneGoes(k, w, c, d, x),
         x \in {"dkv", "dk", "dv", "written", "stored", "store", "copy"}
  PROVE  /\ c.at = "epilogue" /\ x = EpilogueDoes(k, w)[c.pc] /\ c.m = k.blocks /\ c.pc \in 1 .. EpilogueLen(k, w)
         /\ x \in {"written", "stored", "store"} => w = Leader(k)
         /\ x \in {"dkv", "dk", "dv"} => Round(k, w, c)[2] > 0
         /\ x = "written" => k.epilogue = "tma"
         /\ x = "dkv" => k.epilogue # "gqa"
         /\ x \in {"dk", "dv"} => k.epilogue = "gqa"
         /\ x = "store" => /\ k.epilogue = "gqa"
                           /\ \/ Round(k, w, c) = <<k.blocks, 2>> /\ Written(k, w, c) = {"dv"}
                              \/ Round(k, w, c) = <<k.blocks, 4>> /\ Written(k, w, c) = {"dk"}
<1>1. x = Doing(k, w, c) /\ Place(k, w, c) /\ Moved(k, w, c, d) BY DEF OneGoes, Moved
<1>2. c.at = "epilogue"
  <2>1. ASSUME c.at = "loop" PROVE FALSE
    <3>1. c.pc \in 1 .. LoopLen(k) /\ x = CallAt(k, c.pc).does BY <1>1, <2>1 DEF Place, Doing
    <3>2. x \in {"q", "do", "none", "PdS", "p", "ds", "dq", "release_do", "release_q"}
      BY <3>1, CallKinds
    <3> QED BY <3>2
  <2> QED BY <1>1, <2>1 DEF Doing
<1>3. x = EpilogueDoes(k, w)[c.pc] BY <1>1, <1>2 DEF Doing
<1>4. c.m = k.blocks /\ c.pc \in 1 .. EpilogueLen(k, w) BY <1>1, <1>2 DEF Place, InEpilogue
<1> QED BY <1>1, <1>2, <1>3, <1>4, EpilogueEffects

\* All are in the epilogue when one of them has passed a sync there.
LEMMA AllInEpilogue ==
  ASSUME IInv, NEW w \in WGs, mma[w].at = "epilogue", Round(kernel, w, mma[w])[2] > 0
  PROVE  \A v \in WGs : InEpilogue(mma[v]) /\ Round(kernel, v, mma[v]) = Round(kernel, w, mma[w])
<1>1. mma[w].m = kernel.blocks BY InvFacts DEF Place, InEpilogue
<1>2. Round(kernel, w, mma[w])[1] = kernel.blocks
  <2>1. ~Past(mma[w], DsShared(kernel)) BY DEF Past
  <2> QED BY <1>1, <2>1 DEF Round
<1>3. ASSUME NEW v \in WGs PROVE InEpilogue(mma[v]) /\ Round(kernel, v, mma[v]) = Round(kernel, w, mma[w])
  <2>1. Round(kernel, v, mma[v]) = Round(kernel, w, mma[w]) BY InvFacts DEF SyncInv
  <2>2. Place(kernel, v, mma[v]) /\ v \in Groups(kernel) /\ kernel \in CtaKernels BY InvFacts
  <2> QED BY <1>2, <2>1, <2>2, RoundWritten
<1> QED BY <1>3

LEMMA WriteDkvKeeps ==
  ASSUME IInv, NEW w \in WGs, WriteDkv(w)
  PROVE  IInv'
<1>1. /\ Proceed({w}) /\ kernel' = kernel /\ loader' = loader /\ dq_warp' = dq_warp /\ q_pipe' = q_pipe /\ do_pipe' = do_pipe
      /\ barriers' = IF kernel.epilogue = "tma" THEN [barriers EXCEPT !.written = @ \cup {w}] ELSE barriers
  BY DEF WriteDkv
<1>2. PICK which \in {{"dk"}, {"dv"}, {"dk", "dv"}} :
        /\ Does(w, IF which = {"dk", "dv"} THEN "dkv" ELSE CHOOSE x \in which : TRUE)
        /\ smem' = [smem EXCEPT !.kv = "overwritten", !.dkv[w] = which]
  BY DEF WriteDkv
<1> DEFINE x == IF which = {"dk", "dv"} THEN "dkv" ELSE CHOOSE y \in which : TRUE
           dkv == [smem.dkv EXCEPT ![w] = which]
<1>3. /\ which = {"dk", "dv"} => x = "dkv"
      /\ which = {"dk"} => x = "dk"
      /\ which = {"dv"} => x = "dv"
  <2>1. {"dk"} # {"dk", "dv"} /\ {"dv"} # {"dk", "dv"}
    <3>1. "dv" \notin {"dk"} /\ "dk" \notin {"dv"} /\ "dk" \in {"dk", "dv"} /\ "dv" \in {"dk", "dv"} OBVIOUS
    <3> QED BY ONLY <3>1, Zenon
  <2>2. (CHOOSE y \in {"dk"} : TRUE) = "dk" /\ (CHOOSE y \in {"dv"} : TRUE) = "dv" OBVIOUS
  <2>3. CASE which = {"dk", "dv"} BY <2>1, <2>3
  <2>4. CASE which = {"dk"} BY <2>1, <2>2, <2>4
  <2>5. CASE which = {"dv"} BY <2>1, <2>2, <2>5
  <2> QED BY <2>1, <2>3, <2>4, <2>5
<1>4. /\ DOMAIN smem' = DOMAIN smem /\ smem'.kv = "overwritten" /\ smem'.dkv = dkv /\ smem'.storing = smem.storing
      /\ smem'.p = smem.p /\ smem'.ds = smem.ds /\ smem'.dq = smem.dq
  <2>1. smem' = [smem EXCEPT !.kv = "overwritten", !.dkv = dkv] BY <1>2
  <2> HIDE DEF dkv
  <2> QED BY <2>1, InvFacts DEF Fields
<1>5. /\ DOMAIN barriers' = DOMAIN barriers /\ barriers'.PdS = barriers.PdS /\ barriers'.Epilogue = barriers.Epilogue
      /\ barriers'.dQEmpty = barriers.dQEmpty /\ barriers'.dQFull = barriers.dQFull
      /\ barriers'.written = IF kernel.epilogue = "tma" THEN barriers.written \cup {w} ELSE barriers.written
  BY <1>1, InvFacts DEF Fields
<1>6. Does(w, x) BY <1>2
<1>w. which \in {{"dk"}, {"dv"}, {"dk", "dv"}} /\ dkv = [smem.dkv EXCEPT ![w] = which] OBVIOUS
<1> HIDE DEF x, dkv
<1>x. x \in {"dkv", "dk", "dv"} BY <1>3, <1>w
<1>7. Goes({w}, x) BY <1>1, <1>6, ProceedGoes
<1>8. WGs' = WGs /\ OneGoes(kernel, w, mma[w], mma'[w], x) /\ \A v \in WGs : v # w => mma'[v] = mma[v]
  BY <1>7, EachGoes
<1>9. /\ mma[w].at = "epilogue" /\ Round(kernel, w, mma[w])[2] > 0
      /\ x = "dkv" => kernel.epilogue # "gqa"
      /\ x \in {"dk", "dv"} => kernel.epilogue = "gqa"
  BY <1>8, <1>x, InvFacts, EpilogueDoing
<1>10. PdSInv' /\ DqInv'
  <2>1. PdSInv' BY <1>4, <1>7, <1>x, InvFacts, PdSKept
  <2>2. DqInv' BY <1>1, <1>4, <1>5, <1>7, <1>x, InvFacts, DqKept
  <2> QED BY <2>1, <2>2
<1>11. SyncInv' BY <1>5, <1>7, <1>x, InvFacts, SyncKept
<1>12. QueryRing' /\ DoRing' BY <1>1, <1>7, <1>x, InvFacts, QuerySame, DoSame
<1>13. Places' /\ LoaderInv'
  <2>1. Places' BY <1>7, InvFacts, PlacesKept
  <2>2. LoaderInv' BY <1>1, InvFacts DEF LoaderInv
  <2> QED BY <2>1, <2>2
<1>14. Fields' BY <1>4, <1>5, InvFacts DEF Fields
<1>15. KvInv'
  <2>1. \A v \in WGs : InEpilogue(mma[v]) /\ Round(kernel, v, mma[v]) = Round(kernel, w, mma[w])
    BY <1>9, AllInEpilogue
  <2>2. Round(kernel, w, mma'[w]) = Round(kernel, w, mma[w]) BY <1>8, <1>x DEF OneGoes, Effects
  <2>3. \A v \in WGs : Round(kernel, v, mma'[v])[2] > 0 BY <1>8, <1>9, <2>1, <2>2
  <2>4. InEpilogue(mma'[w])
    <3>1. Moved(kernel, w, mma[w], mma'[w]) BY <1>8 DEF OneGoes
    <3> QED BY <1>9, <3>1 DEF Moved, InEpilogue
  <2>5. \A v \in WGs : InEpilogue(mma'[v]) BY <1>8, <2>1, <2>4
  <2>6. \A v \in WGs : mma'[v].at # "loop" BY <2>5 DEF InEpilogue
  <2>7. ~(loader.at = "kv" \/ (loader.at = "q" /\ loader.m = 0)) BY <1>9, InvFacts DEF KvInv
  <2> QED BY <1>1, <1>4, <1>8, <2>3, <2>5, <2>6, <2>7 DEF KvInv
<1>16. EpilogueInv'
  <2>1. /\ smem.dkv = [v \in WGs |-> Written(kernel, v, mma[v])]
        /\ smem.storing = Storing(kernel, mma[Leader(kernel)])
        /\ barriers.written \subseteq WGs
        /\ \A v \in barriers.written : kernel.epilogue = "tma" /\ smem.dkv[v] = {"dk", "dv"}
        /\ kernel.epilogue = "tma" /\ smem.storing # {} => barriers.written = WGs
    BY InvFacts DEF EpilogueInv
  <2>2. Written(kernel, w, mma'[w]) = which
    <3>1. Written(kernel, w, mma'[w]) = IF x = "dkv" THEN {"dk", "dv"} ELSE IF x = "dk" THEN {"dk"} ELSE {"dv"}
      BY <1>8, <1>x DEF OneGoes, Effects
    <3> QED BY <1>3, <1>w, <3>1
  <2>3. dkv = [v \in WGs |-> Written(kernel, v, mma'[v])] BY <1>8, <1>w, <2>1, <2>2
  <2>4. Storing(kernel, mma'[Leader(kernel)]) = Storing(kernel, mma[Leader(kernel)])
    <3>1. Leader(kernel) \in WGs BY KernelTypes, InvFacts
    <3> QED BY <1>8, <1>x, <3>1 DEF OneGoes, Effects
  <2>5. kernel.epilogue = "tma" => which = {"dk", "dv"} BY <1>3, <1>9, <1>w
  <2>6. /\ barriers'.written \subseteq WGs
        /\ \A v \in barriers'.written : kernel.epilogue = "tma" /\ dkv[v] = {"dk", "dv"}
        /\ kernel.epilogue = "tma" /\ smem.storing # {} => barriers'.written = WGs
    <3>1. CASE kernel.epilogue = "tma"
      <4>1. dkv[w] = {"dk", "dv"} /\ \A v \in WGs : v # w => dkv[v] = smem.dkv[v]
        BY <1>w, <2>1, <2>5, <3>1
      <4> QED BY <1>5, <2>1, <3>1, <4>1
    <3>2. CASE kernel.epilogue # "tma" BY <1>5, <2>1, <3>2
    <3> QED BY <3>1, <3>2
  <2> QED BY <1>1, <1>4, <1>8, <2>1, <2>3, <2>4, <2>6 DEF EpilogueInv
<1> QED BY <1>10, <1>11, <1>12, <1>13, <1>14, <1>15, <1>16 DEF IInv

LEMMA StoreDkvTileKeeps ==
  ASSUME IInv, NEW w \in WGs, StoreDkvTile(w)
  PROVE  IInv'
<1>1. /\ Proceed({w}) /\ kernel' = kernel /\ loader' = loader /\ dq_warp' = dq_warp /\ q_pipe' = q_pipe /\ do_pipe' = do_pipe
      /\ barriers' = barriers /\ smem' = [smem EXCEPT !.storing = Together]
  BY DEF StoreDkvTile
<1>2. PICK x \in {"written", "store"} : Does(w, x) /\ (x = "written" => barriers.written = WGs)
  BY DEF StoreDkvTile
<1>3. /\ DOMAIN smem' = DOMAIN smem /\ smem'.kv = smem.kv /\ smem'.dkv = smem.dkv /\ smem'.storing = Together
      /\ smem'.p = smem.p /\ smem'.ds = smem.ds /\ smem'.dq = smem.dq
  BY <1>1, InvFacts DEF Fields
<1>4. Goes({w}, x) BY <1>1, <1>2, ProceedGoes
<1>5. WGs' = WGs /\ OneGoes(kernel, w, mma[w], mma'[w], x) /\ \A v \in WGs : v # w => mma'[v] = mma[v]
  BY <1>4, EachGoes
<1>6. Places' /\ LoaderInv' /\ KvInv' BY <1>1, <1>3, <1>4, GoesKeeps
<1>7. PdSInv' /\ DqInv'
  <2>1. PdSInv' BY <1>3, <1>4, InvFacts, PdSKept
  <2>2. DqInv' BY <1>1, <1>3, <1>4, InvFacts, DqKept
  <2> QED BY <2>1, <2>2
<1>8. SyncInv' BY <1>1, <1>4, InvFacts, SyncKept
<1>9. QueryRing' /\ DoRing' BY <1>1, <1>4, InvFacts, QuerySame, DoSame
<1>10. Fields' BY <1>1, <1>3, InvFacts DEF Fields
<1>11. EpilogueInv'
  <2>1. /\ smem.dkv = [v \in WGs |-> Written(kernel, v, mma[v])]
        /\ barriers.written \subseteq WGs
        /\ \A v \in barriers.written : kernel.epilogue = "tma" /\ smem.dkv[v] = {"dk", "dv"}
    BY InvFacts DEF EpilogueInv
  <2>2. /\ w = Leader(kernel) /\ mma[w].at = "epilogue"
        /\ x = "written" => kernel.epilogue = "tma"
        /\ x = "store" => /\ kernel.epilogue = "gqa"
                          /\ \/ Round(kernel, w, mma[w]) = <<kernel.blocks, 2>> /\ Written(kernel, w, mma[w]) = {"dv"}
                             \/ Round(kernel, w, mma[w]) = <<kernel.blocks, 4>> /\ Written(kernel, w, mma[w]) = {"dk"}
    BY <1>5, InvFacts, EpilogueDoing
  <2>3. Storing(kernel, mma'[w]) = IF x = "written" THEN {"dk", "dv"} ELSE Written(kernel, w, mma[w])
    BY <1>5, <2>2 DEF OneGoes, Effects
  <2>4. \A v \in WGs : Written(kernel, v, mma'[v]) = Written(kernel, v, mma[v])
    BY <1>5 DEF OneGoes, Effects
  <2>5. Together = Storing(kernel, mma'[w])
    <3>1. CASE x = "written"
      <4>1. \A v \in WGs : smem.dkv[v] = {"dk", "dv"} BY <1>2, <2>1, <3>1
      <4> QED BY <2>3, <3>1, <4>1 DEF Together
    <3>2. CASE x = "store"
      <4>1. \A v \in WGs : Round(kernel, v, mma[v]) = Round(kernel, w, mma[w])
        BY InvFacts DEF SyncInv
      <4>2. \A v \in WGs : Place(kernel, v, mma[v]) /\ v \in Groups(kernel) BY InvFacts
      <4>3. PICK which \in {"dk", "dv"} : Written(kernel, w, mma[w]) = {which} BY <2>2, <3>2
      <4>4. \A v \in WGs : Written(kernel, v, mma[v]) = {which}
        <5>1. CASE Round(kernel, w, mma[w]) = <<kernel.blocks, 2>>
          BY <2>2, <3>2, <4>1, <4>2, <4>3, <5>1, InvFacts, RoundWritten
        <5>2. CASE Round(kernel, w, mma[w]) = <<kernel.blocks, 4>>
          BY <2>2, <3>2, <4>1, <4>2, <4>3, <5>2, InvFacts, RoundWritten
        <5> QED BY <2>2, <3>2, <5>1, <5>2
      <4>5. \A v \in WGs : smem.dkv[v] = {which} BY <2>1, <4>4
      <4>6. Together = {which} BY <4>5 DEF Together
      <4> QED BY <2>3, <3>2, <4>3, <4>6
    <3> QED BY <3>1, <3>2
  <2>6. smem.dkv = [v \in WGs |-> Written(kernel, v, mma'[v])] BY <2>1, <2>4
  <2>7. kernel.epilogue = "tma" => barriers.written = WGs BY <1>2, <2>2
  <2> QED BY <1>1, <1>3, <1>5, <2>1, <2>2, <2>5, <2>6, <2>7 DEF EpilogueInv
<1> QED BY <1>6, <1>7, <1>8, <1>9, <1>10, <1>11 DEF IInv

LEMMA StoredDkvTileKeeps ==
  ASSUME IInv, NEW w \in WGs, StoredDkvTile(w)
  PROVE  IInv'
<1>1. /\ Proceed({w}) /\ kernel' = kernel /\ loader' = loader /\ dq_warp' = dq_warp /\ q_pipe' = q_pipe /\ do_pipe' = do_pipe
      /\ barriers' = barriers
  BY DEF StoredDkvTile
<1>2. PICK x \in {"stored", "copy"} :
        Does(w, x) /\ smem' = IF x = "stored" THEN [smem EXCEPT !.storing = {}] ELSE smem
  BY DEF StoredDkvTile
<1>3. /\ DOMAIN smem' = DOMAIN smem /\ smem'.kv = smem.kv /\ smem'.dkv = smem.dkv
      /\ smem'.storing = IF x = "stored" THEN {} ELSE smem.storing
      /\ smem'.p = smem.p /\ smem'.ds = smem.ds /\ smem'.dq = smem.dq
  BY <1>2, InvFacts DEF Fields
<1>4. Goes({w}, x) BY <1>1, <1>2, ProceedGoes
<1>5. WGs' = WGs /\ OneGoes(kernel, w, mma[w], mma'[w], x) /\ \A v \in WGs : v # w => mma'[v] = mma[v]
  BY <1>4, EachGoes
<1>6. Places' /\ LoaderInv' /\ KvInv' BY <1>1, <1>3, <1>4, GoesKeeps
<1>7. PdSInv' /\ DqInv'
  <2>1. PdSInv' BY <1>3, <1>4, InvFacts, PdSKept
  <2>2. DqInv' BY <1>1, <1>3, <1>4, InvFacts, DqKept
  <2> QED BY <2>1, <2>2
<1>8. SyncInv' BY <1>1, <1>4, InvFacts, SyncKept
<1>9. QueryRing' /\ DoRing' BY <1>1, <1>4, InvFacts, QuerySame, DoSame
<1>10. Fields' BY <1>1, <1>3, InvFacts DEF Fields
<1>11. EpilogueInv'
  <2>1. /\ smem.dkv = [v \in WGs |-> Written(kernel, v, mma[v])]
        /\ smem.storing = Storing(kernel, mma[Leader(kernel)])
        /\ barriers.written \subseteq WGs
        /\ \A v \in barriers.written : kernel.epilogue = "tma" /\ smem.dkv[v] = {"dk", "dv"}
        /\ kernel.epilogue = "tma" /\ smem.storing # {} => barriers.written = WGs
    BY InvFacts DEF EpilogueInv
  <2>2. \A v \in WGs : Written(kernel, v, mma'[v]) = Written(kernel, v, mma[v])
    BY <1>5 DEF OneGoes, Effects
  <2>3. smem'.storing = Storing(kernel, mma'[Leader(kernel)])
    <3>1. CASE x = "stored"
      <4>1. w = Leader(kernel) BY <1>5, <3>1, InvFacts, EpilogueDoing
      <4> QED BY <1>3, <1>5, <3>1, <4>1 DEF OneGoes, Effects
    <3>2. CASE x = "copy"
      <4>1. Leader(kernel) \in WGs BY KernelTypes, InvFacts
      <4> QED BY <1>3, <1>5, <2>1, <3>2, <4>1 DEF OneGoes, Effects
    <3> QED BY <3>1, <3>2
  <2>4. smem.dkv = [v \in WGs |-> Written(kernel, v, mma'[v])] BY <2>1, <2>2
  <2> QED BY <1>1, <1>3, <1>5, <2>1, <2>3, <2>4 DEF EpilogueInv
<1> QED BY <1>6, <1>7, <1>8, <1>9, <1>10, <1>11 DEF IInv

-----------------------------------------------------------------------------
(* The invariant holds.                                                    *)

LEMMA InitIInv ==
  ASSUME CtaInit
  PROVE  IInv
<1>1. /\ kernel \in CtaKernels
      /\ loader = [at |-> IF kernel.blocks = 0 THEN "tail" ELSE "q", m |-> 0,
                   write |-> QPipe!StartState, write_do |-> QPipe!StartState]
      /\ mma = [w \in WGs |-> [at |-> "init", pc |-> 1, m |-> 0, read |-> QPipe!StartState, read_do |-> QPipe!StartState,
                               gemms |-> << >>, dk |-> << >>, dv |-> << >>]]
      /\ dq_warp = [m |-> 0, wg |-> 0, at |-> "copy"]
      /\ q_pipe = QPipe!EmptyPipeline /\ do_pipe = DoPipe!EmptyPipeline
  BY DEF CtaInit
<1>2. /\ DOMAIN smem = {"kv", "p", "ds", "dq", "dkv", "storing"}
      /\ smem.kv = "empty" /\ smem.p = [s \in {0, 1} |-> [w \in WGs |-> Nil]] /\ smem.ds = [s \in {0, 1} |-> [w \in WGs |-> Nil]]
      /\ smem.dq = [w \in WGs |-> Nil] /\ smem.dkv = [w \in WGs |-> {}] /\ smem.storing = {}
  BY DEF CtaInit
<1>3. /\ DOMAIN barriers = {"PdS", "Epilogue", "written", "dQEmpty", "dQFull"}
      /\ barriers.PdS = {} /\ barriers.Epilogue = {} /\ barriers.written = {}
      /\ barriers.dQEmpty = [w \in WGs |-> 0] /\ barriers.dQFull = [w \in WGs |-> 0]
  BY DEF CtaInit
<1>k. /\ kernel.wgs \in {2, 3} /\ kernel.kStages_dO \in {1, 2} /\ kernel.blocks \in Nat /\ WGs = Groups(kernel) /\ 0 \in WGs
      /\ Leader(kernel) \in WGs
  BY <1>1, KernelTypes, GroupsOf
<1>s. QPipe!StartState = [index |-> 0, lap |-> 0] BY DEF QPipe!StartState
<1>4. ASSUME NEW w \in WGs
      PROVE  /\ mma[w].at = "init" /\ mma[w].pc = 1 /\ mma[w].m = 0 /\ mma[w].gemms = << >>
             /\ mma[w].read = [index |-> 0, lap |-> 0] /\ mma[w].read_do = [index |-> 0, lap |-> 0]
             /\ Place(kernel, w, mma[w])
  <2>1. /\ DOMAIN mma[w] = {"at", "pc", "m", "read", "read_do", "gemms", "dk", "dv"}
        /\ mma[w].at = "init" /\ mma[w].pc = 1 /\ mma[w].m = 0 /\ mma[w].gemms = << >>
        /\ mma[w].read = [index |-> 0, lap |-> 0] /\ mma[w].read_do = [index |-> 0, lap |-> 0]
    BY <1>1, <1>s
  <2>2. << >> \in Seq(GemmRecord) BY EmptySeq
  <2>3. /\ mma[w].read \in [index : {0, 1}, lap : Nat] /\ mma[w].read.lap * 2 + mma[w].read.index = mma[w].m
        /\ mma[w].read_do \in [index : 0 .. kernel.kStages_dO - 1, lap : Nat]
        /\ mma[w].read_do.lap * kernel.kStages_dO + mma[w].read_do.index = mma[w].m
    BY <1>k, <2>1
  <2> QED BY <2>1, <2>2, <2>3 DEF Place, InEpilogue
<1>5. Places
  <2>1. mma = [w \in WGs |-> mma[w]] BY <1>1
  <2> QED BY <1>4, <2>1 DEF Places
<1>6. ASSUME NEW w \in WGs
      PROVE  /\ ~HoldsQ(mma[w]) /\ ~HoldsDo(kernel, mma[w]) /\ ~Past(mma[w], ReleaseDo(kernel))
             /\ SharesP(kernel) => WrittenP(kernel, mma[w]) = 0
             /\ WrittenDs(kernel, mma[w]) = 0 /\ WrittenDq(kernel, mma[w]) = 0
             /\ Round(kernel, w, mma[w]) = <<0, 0>> /\ Written(kernel, w, mma[w]) = {} /\ Storing(kernel, mma[w]) = {}
  BY <1>1, <1>4, <1>k, FirstCall
<1>7. LoaderInv
  <2>1. /\ DOMAIN loader = {"at", "m", "write", "write_do"}
        /\ loader.at = (IF kernel.blocks = 0 THEN "tail" ELSE "q") /\ loader.m = 0
        /\ loader.write = [index |-> 0, lap |-> 0] /\ loader.write_do = [index |-> 0, lap |-> 0]
    BY <1>1, <1>s
  <2>2. loader.write_do.lap * kernel.kStages_dO + loader.write_do.index = loader.m BY <1>k, <2>1
  <2> QED BY <1>1, <1>k, <2>1, <2>2 DEF LoaderInv
<1>8. QueryRing
  <2>1. QueryReads = [w \in WGs |-> RQ!StartState] /\ QueryReaders = {}
    BY <1>4, <1>6 DEF QueryReads, QueryReaders, RQ!StartState
  <2>2. RQ!NumberedRing(RQ!EmptyPipeline, RQ!StartState, [w \in WGs |-> RQ!StartState], {})
    BY <1>1, Instances, RQ!NumberedStart
  <2>3. loader.write = RQ!StartState BY <1>1, SamePipes
  <2> QED BY <1>1, <2>1, <2>2, <2>3, SamePipes DEF QueryRing
<1>9. DoRing
  <2>1. \A w \in WGs : ReadDo(kernel, mma[w]) = RD!StartState
    BY <1>4, <1>6 DEF ReadDo, RD!StartState
  <2>2. DoReads = [w \in WGs |-> RD!StartState] /\ DoReaders = {}
    BY <1>6, <2>1 DEF DoReads, DoReaders
  <2>3. RD!NumberedRing(RD!EmptyPipeline, RD!StartState, [w \in WGs |-> RD!StartState], {})
    BY <1>1, Instances, RD!NumberedStart
  <2>4. loader.write_do = RD!StartState BY <1>1, SamePipes
  <2> QED BY <1>1, <2>2, <2>3, <2>4, SamePipes DEF DoRing
<1>10. SyncInv BY <1>3, <1>6, <1>k DEF SyncInv
<1>11. PdSInv
  <2>1. \A buffer, w : Holds(kernel, buffer, w, 0) BY DEF Holds
  <2>2. \A x \in {"p", "ds"} : smem[x] \in [{0, 1} -> [WGs -> Nat \cup {Nil}]] BY <1>2
  <2> QED BY <1>6, <2>1, <2>2 DEF PdSInv
<1>12. DqInv
  <2>1. dq_warp \in [m : Nat, wg : WGs, at : {"copy", "wait"}] /\ dq_warp.m = 0 /\ dq_warp.wg = 0 /\ dq_warp.at = "copy"
    BY <1>1, <1>k
  <2>2. \A w \in WGs : Copied(w) = 0 /\ Freed(w) = 0
    <3>1. \A w \in WGs : ~(w < 0) BY <1>k DEF WGs
    <3> QED BY <2>1, <3>1 DEF Copied, Freed
  <2> QED BY <1>2, <1>3, <1>4, <1>6, <2>1, <2>2 DEF DqInv
<1>13. KvInv BY <1>2, <1>4 DEF KvInv
<1>14. EpilogueInv
  <2>1. smem.dkv = [w \in WGs |-> Written(kernel, w, mma[w])] BY <1>2, <1>6
  <2> QED BY <1>2, <1>3, <1>6, <1>k, <2>1 DEF EpilogueInv
<1>15. Fields BY <1>2, <1>3 DEF Fields
<1> QED BY <1>5, <1>7, <1>8, <1>9, <1>10, <1>11, <1>12, <1>13, <1>14, <1>15 DEF IInv

LEMMA StutterKeeps ==
  ASSUME IInv, UNCHANGED ctaVars
  PROVE  IInv'
<1>1. /\ kernel' = kernel /\ loader' = loader /\ mma' = mma /\ dq_warp' = dq_warp /\ q_pipe' = q_pipe /\ do_pipe' = do_pipe
      /\ smem' = smem /\ barriers' = barriers
  BY DEF ctaVars
<1>2. /\ Places' /\ SyncInv' /\ KvInv' /\ PdSInv' /\ DqInv' /\ EpilogueInv' /\ QueryRing' /\ DoRing' /\ LoaderInv'
  BY <1>1, Idle
<1>3. Fields' BY <1>1, InvFacts DEF Fields
<1> QED BY <1>2, <1>3 DEF IInv

LEMMA NextKeeps ==
  ASSUME IInv, [CtaNext]_ctaVars
  PROVE  IInv'
<1>1. ASSUME NEW w \in WGs, MmaWarpGroup(w) PROVE IInv'
  <2>1. CASE MmaInit(w) BY <2>1, MmaInitKeeps
  <2>2. CASE WaitKV(w) BY <2>2, WaitKVKeeps
  <2>3. CASE ReadStage(w) BY <2>3, ReadStageKeeps
  <2>4. CASE ReleaseStage(w) BY <2>4, ReleaseStageKeeps
  <2>5. CASE SyncAll(w) BY <2>5, SyncAllKeeps
  <2>6. CASE WritePdS(w) BY <2>6, WritePdSKeeps
  <2>7. CASE WriteDq(w) BY <2>7, WriteDqKeeps
  <2>8. CASE AtomicAddDq(w) BY <2>8, AtomicAddDqKeeps
  <2>9. CASE WriteDkv(w) BY <2>9, WriteDkvKeeps
  <2>10. CASE StoreDkvTile(w) BY <2>10, StoreDkvTileKeeps
  <2>11. CASE StoredDkvTile(w) BY <2>11, StoredDkvTileKeeps
  <2> QED BY <1>1, <2>1, <2>2, <2>3, <2>4, <2>5, <2>6, <2>7, <2>8, <2>9, <2>10,
             <2>11 DEF MmaWarpGroup
<1>2. CASE LoadQuery BY <1>2, LoadQueryKeeps
<1>3. CASE LoadKV BY <1>3, LoadKVKeeps
<1>4. CASE LoadDo BY <1>4, LoadDoKeeps
<1>5. CASE LoaderTail BY <1>5, LoaderTailKeeps
<1>6. CASE LandKV BY <1>6, LandKVKeeps
<1>7. CASE CopyDq BY <1>7, CopyDqKeeps
<1>8. CASE CopiedDq BY <1>8, CopiedDqKeeps
<1>9. ASSUME NEW s \in QPipe!Stages, LandQuery(s) PROVE IInv' BY <1>9, LandQueryKeeps
<1>10. ASSUME NEW s \in DoPipe!Stages, LandDo(s) PROVE IInv' BY <1>10, LandDoKeeps
<1>11. CASE UNCHANGED ctaVars BY <1>11, StutterKeeps
<1> QED BY <1>1, <1>2, <1>3, <1>4, <1>5, <1>6, <1>7, <1>8, <1>9, <1>10, <1>11 DEF CtaNext

THEOREM IInvAlways == CtaSpec => []IInv
<1>1. CtaInit => IInv BY InitIInv
<1>2. IInv /\ [CtaNext]_ctaVars => IInv' BY NextKeeps
<1> QED BY <1>1, <1>2, PTL DEF CtaSpec

-----------------------------------------------------------------------------
(* What the invariant says of a gemm, of the dQ warp and of a store.       *)

\* Where in the loop a gemm may be under way.
LEMMA UnderWayOps ==
  ASSUME NEW k \in CtaKernels, NEW pc \in 1 .. LoopLen(k), NEW x, x = DsShared(k), NEW i \in 1 .. Len(UnderWay(k, pc)),
         NEW op, op = UnderWay(k, pc)[i][1]
  PROVE  /\ op \in {"s", "dp", "dv", "dq", "dk"} /\ pc > 1
         /\ op = "dp" => pc = 3
         /\ op = "dv" => pc >= x /\ pc <= ReleaseDo(k)
         /\ op \in {"dq", "dk"} => pc > x
<1> DEFINE u == UnderWay(k, pc)
<1>k. x \in 5 .. 8 /\ k.Slice_dQKV_Mma \in BOOLEAN BY KernelTypes
<1>n. /\ k.Slice_dQKV_Mma => LoopLen(k) = x + 6 /\ ReleaseDo(k) = x + 4
      /\ ~k.Slice_dQKV_Mma => LoopLen(k) = x + 4 /\ ReleaseDo(k) = x + 2
  BY DEF LoopLen, ReleaseDo
<1>i. i \in 1 .. Len(u) /\ op = u[i][1] OBVIOUS
<1>t. /\ pc = 2 => u = << <<"s", 0>> >>
      /\ pc = 3 => u = << <<"s", 0>>, <<"dp", 0>> >>
      /\ pc = 1 \/ pc \in 4 .. x - 1 => u = << >>
      /\ pc = x \/ pc = x + 1 => u = << <<"dv", 0>> >>
      /\ pc = x + 2 => u = << <<"dv", 0>>, <<"dq", 0>> >>
      /\ ~k.Slice_dQKV_Mma /\ pc = x + 3 => u = << <<"dq", 0>>, <<"dk", 0>> >>
      /\ ~k.Slice_dQKV_Mma /\ pc = x + 4 => u = << <<"dk", 0>> >>
      /\ k.Slice_dQKV_Mma /\ pc = x + 3 => u = << <<"dv", 0>>, <<"dq", 0>>, <<"dv", 1>> >>
      /\ k.Slice_dQKV_Mma /\ pc = x + 4 => u = << <<"dv", 1>>, <<"dk", 0>> >>
      /\ k.Slice_dQKV_Mma /\ pc = x + 5 => u = << <<"dk", 0>>, <<"dq", 1>> >>
      /\ k.Slice_dQKV_Mma /\ pc = x + 6 => u = << <<"dk", 1>> >>
  BY UnderWayTable
<1> HIDE DEF u
<1>1. \A a : u = <<a>> => op = a[1]
  <2>1. SUFFICES ASSUME NEW a, u = <<a>> PROVE op = a[1] OBVIOUS
  <2>2. Len(u) = 1 /\ u[1] = a BY ONLY <2>1
  <2> QED BY ONLY <1>i, <2>2
<1>2. \A a, b : u = <<a, b>> => op = a[1] \/ op = b[1]
  <2>1. SUFFICES ASSUME NEW a, NEW b, u = <<a, b>> PROVE op = a[1] \/ op = b[1] OBVIOUS
  <2>2. Len(u) = 2 /\ u[1] = a /\ u[2] = b BY ONLY <2>1
  <2> QED BY ONLY <1>i, <2>2
<1>3. \A a, b, d : u = <<a, b, d>> => op = a[1] \/ op = b[1] \/ op = d[1]
  <2>1. SUFFICES ASSUME NEW a, NEW b, NEW d, u = <<a, b, d>> PROVE op = a[1] \/ op = b[1] \/ op = d[1] OBVIOUS
  <2>2. Len(u) = 3 /\ u[1] = a /\ u[2] = b /\ u[3] = d BY ONLY <2>1
  <2> QED BY ONLY <1>i, <2>2
<1>4. u # << >>
  <2>1. SUFFICES ASSUME u = << >> PROVE FALSE OBVIOUS
  <2>2. Len(u) = 0 BY ONLY <2>1
  <2> QED BY ONLY <1>i, <2>2
<1>5. /\ pc # 1 /\ pc \notin 4 .. x - 1
      /\ pc = 2 => op = "s"
      /\ pc = 3 => op \in {"s", "dp"}
      /\ pc = x \/ pc = x + 1 => op = "dv"
      /\ pc = x + 2 => op \in {"dv", "dq"}
      /\ ~k.Slice_dQKV_Mma /\ pc \in {x + 3, x + 4} => op \in {"dq", "dk"}
      /\ k.Slice_dQKV_Mma /\ pc \in {x + 3, x + 4} => op \in {"dv", "dq", "dk"}
      /\ k.Slice_dQKV_Mma /\ pc \in {x + 5, x + 6} => op \in {"dk", "dq"}
  <2>1. pc # 1 /\ pc \notin 4 .. x - 1 BY <1>t, <1>4
  <2>2. pc = 2 => op = "s" BY <1>t, <1>1
  <2>3. pc = 3 => op \in {"s", "dp"} BY <1>t, <1>2
  <2>4. pc = x \/ pc = x + 1 => op = "dv" BY <1>t, <1>1
  <2>5. pc = x + 2 => op \in {"dv", "dq"} BY <1>t, <1>2
  <2>6. ~k.Slice_dQKV_Mma /\ pc \in {x + 3, x + 4} => op \in {"dq", "dk"} BY <1>t, <1>1, <1>2
  <2>7. k.Slice_dQKV_Mma /\ pc \in {x + 3, x + 4} => op \in {"dv", "dq", "dk"}
    BY <1>t, <1>2, <1>3
  <2>8. k.Slice_dQKV_Mma /\ pc \in {x + 5, x + 6} => op \in {"dk", "dq"} BY <1>t, <1>1, <1>2
  <2> QED BY <2>1, <2>2, <2>3, <2>4, <2>5, <2>6, <2>7, <2>8
<1>6. CASE pc < x BY <1>k, <1>5, <1>6
<1>7. CASE pc \in x .. x + 2
  <2>1. op \in {"dv", "dq"} /\ (op = "dq" => pc = x + 2) BY <1>k, <1>5, <1>7
  <2>2. pc <= ReleaseDo(k) BY <1>k, <1>n, <1>7
  <2> QED BY <1>k, <1>7, <2>1, <2>2
<1>8. CASE pc > x + 2 /\ ~k.Slice_dQKV_Mma
  <2>1. pc \in {x + 3, x + 4} BY <1>k, <1>n, <1>8
  <2> QED BY <1>k, <1>n, <1>5, <1>8, <2>1
<1>9. CASE pc > x + 2 /\ k.Slice_dQKV_Mma
  <2>0. LoopLen(k) = x + 6 BY <1>n, <1>9
  <2>a. pc \in Int /\ x \in Int /\ pc > x + 2 /\ pc <= x + 6 BY <1>k, <1>9, <2>0
  <2>b. pc = x + 3 \/ pc = x + 4 \/ pc = x + 5 \/ pc = x + 6 BY ONLY <2>a
  <2>1. pc \in {x + 3, x + 4} \/ pc \in {x + 5, x + 6} BY ONLY <2>b
  <2>2. op \in {"dv", "dq", "dk"} BY <1>5, <1>9, <2>1
  <2>3. op = "dv" => pc \in {x + 3, x + 4} BY <1>5, <1>9, <2>1
  <2>4. ReleaseDo(k) = x + 4 BY <1>n, <1>9
  <2>5. op = "dv" => pc >= x /\ pc <= ReleaseDo(k) BY <1>k, <2>3, <2>4
  <2>6. pc > 1 /\ pc > x BY <1>k, <1>9
  <2> QED BY <2>2, <2>5, <2>6
<1> QED BY <1>k, <1>6, <1>7, <1>8, <1>9

\* A buffer written up to block n - 1 holds block m: the last one, or with two
\* buffers the one before.
Current(k, m, n) == n = m + 1 \/ (k.kStages_dS = 2 /\ n = m + 2)

\* Who has passed the same syncs has written as many blocks, or with two
\* buffers one more.
LEMMA Lockstep ==
  ASSUME NEW k \in CtaKernels, NEW w \in Groups(k), NEW v \in Groups(k), NEW c, NEW d, Place(k, w, c), Place(k, v, d),
         c.at = "loop", Round(k, v, d) = Round(k, w, c)
  PROVE  /\ c.pc >= DsShared(k) /\ SharesP(k) => Current(k, c.m, WrittenP(k, d))
         /\ c.pc > DsShared(k) => Current(k, c.m, WrittenDs(k, d))
<1> DEFINE x == DsShared(k)
           pre(a) == (IF SyncsBeforeP(k) /\ Past(a, x - 4) THEN 1 ELSE 0) + (IF SyncsBeforeDs(k) /\ Past(a, x - 2) THEN 1 ELSE 0)
           m == c.m
<1>k. /\ x \in 5 .. 8 /\ (SyncsBeforeDs(k) => x >= 6) /\ (SharesP(k) => x >= 7) /\ (SyncsBeforeP(k) => x = 8)
      /\ k.kStages_dS \in {1, 2} /\ k.blocks \in Nat
  BY KernelTypes
<1>p. /\ c.m \in Nat /\ d.m \in Nat /\ c.pc \in Nat /\ d.pc \in Nat /\ m < k.blocks
      /\ d.at \in {"init", "wait_kv", "loop", "epilogue", "exit"} /\ (InEpilogue(d) => d.m = k.blocks)
  BY DEF Place
<1>s. /\ SharesP(k) => SyncsBeforeDs(k)
      /\ SharesP(k) /\ ~SyncsBeforeP(k) => k.kStages_dS = 2
      /\ ~SyncsBeforeDs(k) => k.kStages_dS = 2
  BY <1>k DEF SharesP, SyncsBeforeDs, SyncsBeforeP
<1>t. \A a, i, j : Past(a, i) => a.at = "loop" BY DEF Past
<1>u. \A i, j \in Int : Past(d, i) /\ j <= i => Past(d, j) BY <1>p DEF Past
<1>1. CASE c.pc = x
  <2>1. ~Past(c, x) /\ ~InEpilogue(c) BY <1>p, <1>1 DEF Past, InEpilogue
  <2>2. Round(k, w, c) = <<m, pre(c)>> BY <2>1 DEF Round
  <2>3. SUFFICES ASSUME SharesP(k) PROVE WrittenP(k, d) = m + 1 BY <1>p, <1>1 DEF Current
  <2>4. SyncsBeforeDs(k) /\ Past(c, x - 2) BY <1>k, <1>p, <1>s, <1>1, <2>3 DEF Past
  <2>5. pre(c) >= 1 BY <2>4
  <2>6. Round(k, v, d)[1] = m /\ Round(k, v, d)[2] = pre(c) BY <2>2
  <2>7. ~Past(d, x) BY <2>5, <2>6 DEF Round
  <2>8. Round(k, v, d)[1] = d.m BY <2>7 DEF Round
  <2>9. d.m = m /\ ~InEpilogue(d) BY <1>p, <2>6, <2>8
  <2>10. pre(c) = pre(d) BY <2>6, <2>7, <2>9 DEF Round
  <2>11. SyncsBeforeP(k) => Past(c, x - 4) BY <1>k, <1>p, <1>1 DEF Past
  <2>12. Past(d, x - 2) BY <2>4, <2>10, <2>11
  <2>13. Past(d, x - 3) BY <1>k, <1>u, <2>12
  <2> QED BY <2>3, <2>9, <2>13 DEF WrittenP
<1>2. CASE c.pc > x
  <2>1. Past(c, x) BY <1>2 DEF Past
  <2>2. Round(k, v, d) = <<m + 1, 0>> BY <2>1 DEF Round
  <2>3. CASE Past(d, x)
    <3>1. Round(k, v, d) = <<d.m + 1, 0>> BY <2>3 DEF Round
    <3>2. d.m = m BY <1>p, <2>2, <3>1
    <3>3. Past(d, x - 3) /\ Past(d, x - 1) BY <1>k, <1>u, <2>3
    <3>4. (SharesP(k) => WrittenP(k, d) = m + 1) /\ WrittenDs(k, d) = m + 1
      BY <3>2, <3>3 DEF WrittenP, WrittenDs
    <3> QED BY <3>4 DEF Current
  <2>4. CASE ~Past(d, x)
    <3>1. d.m = m + 1 BY <2>2, <2>4 DEF Round
    <3>2. CASE d.at # "loop"
      <4>1. \A i : ~Past(d, i) BY <3>2 DEF Past
      <4>2. WrittenP(k, d) = m + 1 /\ WrittenDs(k, d) = m + 1
        BY <1>p, <3>1, <4>1 DEF WrittenP, WrittenDs
      <4> QED BY <4>2 DEF Current
    <3>3. CASE d.at = "loop"
      <4>1. ~InEpilogue(d) BY <3>3 DEF InEpilogue
      <4>2. pre(d) = 0 BY <2>2, <2>4, <4>1 DEF Round
      <4>3. (SyncsBeforeP(k) => ~Past(d, x - 4)) /\ (SyncsBeforeDs(k) => ~Past(d, x - 2))
        BY <4>2
      <4>4. (SyncsBeforeP(k) => ~Past(d, x - 3)) /\ (SyncsBeforeDs(k) => ~Past(d, x - 1))
        BY <1>k, <1>u, <4>3
      <4>5. SharesP(k) => Current(k, m, WrittenP(k, d))
        <5>1. CASE SyncsBeforeP(k) BY <1>p, <3>1, <4>4, <5>1 DEF WrittenP, Current
        <5>2. CASE ~SyncsBeforeP(k)
          <6>1. WrittenP(k, d) \in {m + 1, m + 2} BY <1>p, <3>1 DEF WrittenP
          <6> QED BY <1>s, <5>2, <6>1 DEF Current
        <5> QED BY <5>1, <5>2
      <4>6. Current(k, m, WrittenDs(k, d))
        <5>1. CASE SyncsBeforeDs(k) BY <1>p, <3>1, <4>4, <5>1 DEF WrittenDs, Current
        <5>2. CASE ~SyncsBeforeDs(k)
          <6>1. WrittenDs(k, d) \in {m + 1, m + 2} BY <1>p, <3>1 DEF WrittenDs
          <6> QED BY <1>s, <5>2, <6>1 DEF Current
        <5> QED BY <5>1, <5>2
      <4> QED BY <4>5, <4>6
    <3> QED BY <3>2, <3>3
  <2> QED BY <2>3, <2>4
<1> QED BY <1>k, <1>p, <1>1, <1>2

LEMMA CurrentHeld ==
  ASSUME NEW k \in CtaKernels, NEW buffer, NEW v, NEW m \in Nat, NEW n, Current(k, m, n), Holds(k, buffer, v, n)
  PROVE  buffer[IF k.kStages_dS = 1 THEN 0 ELSE m % 2][v] = m
<1>1. n - 1 \in Int /\ m \in {n - 1, n - 2} /\ m >= 0 /\ (k.kStages_dS = 1 => m = n - 1)
  BY KernelTypes DEF Current
<1> QED BY <1>1 DEF Holds

\* A warpgroup that reads a stage finds the block it is on.
LEMMA QueryHeld ==
  ASSUME IInv, NEW w \in WGs, HoldsQ(mma[w])
  PROVE  q_pipe.data[mma[w].read.index] = mma[w].m /\ q_pipe.load[mma[w].read.index] = Nil
<1>1. w \in QueryReaders /\ QueryReads[w] = mma[w].read BY DEF QueryReaders, QueryReads
<1>2. /\ q_pipe.data[mma[w].read.index] = RQ!Pos(mma[w].read) /\ q_pipe.load[mma[w].read.index] = Nil
  BY <1>1, InvFacts, Instances, RQ!NumberedRead DEF QueryRing
<1>3. RQ!Pos(mma[w].read) = mma[w].m BY InvFacts DEF RQ!Pos, Place
<1> QED BY <1>2, <1>3

LEMMA DoHeld ==
  ASSUME IInv, NEW w \in WGs, HoldsDo(kernel, mma[w])
  PROVE  do_pipe.data[mma[w].read_do.index] = mma[w].m /\ do_pipe.load[mma[w].read_do.index] = Nil
<1>1. DoReads[w] = mma[w].read_do BY DEF DoReads, ReadDo, HoldsDo
<1>2. w \in DoReaders BY DEF DoReaders
<1>3. /\ do_pipe.data[mma[w].read_do.index] = RD!Pos(mma[w].read_do) /\ do_pipe.load[mma[w].read_do.index] = Nil
  BY <1>1, <1>2, InvFacts, Instances, RD!NumberedRead DEF DoRing
<1>4. RD!Pos(mma[w].read_do) = mma[w].m BY InvFacts DEF RD!Pos, Place
<1> QED BY <1>3, <1>4

\* What a gemm may read, by where its warpgroup is.
LEMMA GemmReads ==
  ASSUME NEW k \in CtaKernels, NEW op, NEW operand, k = kernel, op \in {"s", "dp", "dv", "dq", "dk"}, operand \in Operands(op)
  PROVE  /\ operand \in {"q", "do", "kv", "p", "ds"}
         /\ operand = "do" => op \in {"dp", "dv"}
         /\ operand = "p" => op = "dv" /\ SharesP(k)
         /\ operand = "ds" => op \in {"dq", "dk"}
<1>1. CASE op = "s" BY <1>1 DEF Operands
<1>2. CASE op = "dp" BY <1>2 DEF Operands
<1>3. CASE op = "dv" BY <1>3 DEF Operands, SharesP
<1>4. CASE op = "dq" BY <1>4 DEF Operands
<1>5. CASE op = "dk" BY <1>5 DEF Operands
<1> QED BY <1>1, <1>2, <1>3, <1>4, <1>5

LEMMA GemmIntact ==
  ASSUME IInv, NEW w \in WGs, NEW i \in 1 .. 4, i <= Len(mma[w].gemms), NEW operand \in Operands(mma[w].gemms[i].op)
  PROVE  Intact(operand, mma[w].gemms[i])
<1> DEFINE c == mma[w]
           g == c.gemms[i]
           k == kernel
           op == UnderWay(k, c.pc)[i][1]
<1>k. k \in CtaKernels /\ WGs = Groups(k) /\ Place(k, w, c) BY InvFacts
<1>t. k.kStages_dS \in {1, 2} /\ DsShared(k) \in 5 .. 8 BY <1>k, KernelTypes
<1>1. c.at = "loop"
  <2>1. c.gemms # << >>
    <3>1. SUFFICES ASSUME c.gemms = << >> PROVE FALSE OBVIOUS
    <3>2. Len(c.gemms) = 0 BY <3>1
    <3> QED BY <3>2
  <2> QED BY <1>k, <2>1 DEF Place, InEpilogue
<1>2. c.pc \in 1 .. LoopLen(k) /\ i \in 1 .. Len(UnderWay(k, c.pc)) /\ g = GemmOf(c, UnderWay(k, c.pc)[i])
  <2>1. /\ c.pc \in 1 .. LoopLen(k) /\ Len(c.gemms) = Len(UnderWay(k, c.pc)) /\ c.gemms \in Seq(GemmRecord)
        /\ \A j \in 1 .. Len(c.gemms) : c.gemms[j] = GemmOf(c, UnderWay(k, c.pc)[j])
    BY <1>k, <1>1 DEF Place
  <2>2. Len(c.gemms) \in Nat BY <2>1, LenProperties
  <2>3. i \in 1 .. Len(c.gemms) BY <2>2
  <2> QED BY <2>1, <2>3
<1>3. g.op = op /\ g.m = c.m /\ g.q = c.read.index /\ g.do = c.read_do.index BY <1>2 DEF GemmOf
<1>4. c.m \in Nat /\ c.pc \in Nat /\ c.read.index = c.m % 2
  <2>1. c.m \in Nat /\ c.pc \in Nat /\ c.read.lap \in Nat /\ c.read.index \in {0, 1} /\ c.read.lap * 2 + c.read.index = c.m
    BY <1>k DEF Place
  <2> QED BY <2>1
<1> HIDE DEF g, op
<1>5. /\ op \in {"s", "dp", "dv", "dq", "dk"} /\ c.pc > 1
      /\ op = "dp" => c.pc = 3
      /\ op = "dv" => c.pc >= DsShared(k) /\ c.pc <= ReleaseDo(k)
      /\ op \in {"dq", "dk"} => c.pc > DsShared(k)
  BY <1>k, <1>2, UnderWayOps DEF op
<1>6. operand \in Operands(op) BY <1>3 DEF g
<1>7. /\ operand \in {"q", "do", "kv", "p", "ds"}
      /\ operand = "do" => op \in {"dp", "dv"}
      /\ operand = "p" => op = "dv" /\ SharesP(k)
      /\ operand = "ds" => op \in {"dq", "dk"}
  BY <1>k, <1>5, <1>6, GemmReads
<1>8. SUFFICES Intact(operand, g) BY DEF g
<1> HIDE DEF c, k
<1>9. CASE operand = "q"
  <2>1. HoldsQ(c) BY <1>1, <1>5 DEF HoldsQ, Past
  <2>2. q_pipe.data[c.read.index] = c.m /\ q_pipe.load[c.read.index] = Nil
    BY <2>1, QueryHeld DEF c
  <2> QED BY <1>3, <1>9, <2>2 DEF Intact
<1>10. CASE operand = "do"
  <2>1. c.pc > 2 /\ c.pc <= ReleaseDo(k)
    <3>1. ReleaseDo(k) \in 7 .. 12 BY <1>k, KernelTypes
    <3> QED BY <1>t, <1>4, <1>5, <1>7, <1>10, <3>1
  <2>2. HoldsDo(k, c)
    <3>1. ReleaseDo(k) \in 7 .. 12 BY <1>k, KernelTypes
    <3>2. ~(c.pc > ReleaseDo(k)) BY <1>4, <2>1, <3>1
    <3> QED BY <1>1, <2>1, <3>2 DEF HoldsDo, Past
  <2>3. do_pipe.data[c.read_do.index] = c.m /\ do_pipe.load[c.read_do.index] = Nil
    BY <2>2, DoHeld DEF c, k
  <2> QED BY <1>3, <1>10, <2>3 DEF Intact
<1>11. CASE operand = "kv"
  <2>1. smem.kv = "loaded" BY <1>1, InvFacts DEF KvInv, c
  <2> QED BY <1>11, <2>1 DEF Intact
<1>12. CASE operand \in {"p", "ds"}
  <2>1. ASSUME NEW v \in WGs PROVE smem[operand][DsStage(g.q)][v] = g.m
    <3>1. Place(k, v, mma[v]) /\ Round(k, v, mma[v]) = Round(k, w, c) /\ w \in Groups(k) /\ v \in Groups(k)
      BY <1>k, InvFacts DEF SyncInv, c, k
    <3>2. /\ c.pc >= DsShared(k) /\ SharesP(k) => Current(k, c.m, WrittenP(k, mma[v]))
          /\ c.pc > DsShared(k) => Current(k, c.m, WrittenDs(k, mma[v]))
      BY <1>k, <1>1, <3>1, Lockstep
    <3>3. DsStage(g.q) = IF k.kStages_dS = 1 THEN 0 ELSE c.m % 2 BY <1>3, <1>4 DEF DsStage, k
    <3>4. CASE operand = "p"
      <4>1. Current(k, c.m, WrittenP(k, mma[v])) /\ SharesP(k) BY <1>5, <1>7, <3>2, <3>4
      <4>2. Holds(k, smem.p, v, WrittenP(k, mma[v])) BY <4>1, InvFacts DEF PdSInv, k
      <4>3. smem.p[IF k.kStages_dS = 1 THEN 0 ELSE c.m % 2][v] = c.m
        BY <1>k, <1>4, <4>1, <4>2, CurrentHeld
      <4> QED BY <1>3, <3>3, <3>4, <4>3
    <3>5. CASE operand = "ds"
      <4>1. Current(k, c.m, WrittenDs(k, mma[v])) BY <1>5, <1>7, <3>2, <3>5
      <4>2. Holds(k, smem.ds, v, WrittenDs(k, mma[v])) BY InvFacts DEF PdSInv, k
      <4>3. smem.ds[IF k.kStages_dS = 1 THEN 0 ELSE c.m % 2][v] = c.m
        BY <1>k, <1>4, <4>1, <4>2, CurrentHeld
      <4> QED BY <1>3, <3>3, <3>5, <4>3
    <3> QED BY <1>12, <3>4, <3>5
  <2> QED BY <1>12, <2>1 DEF Intact
<1> QED BY <1>7, <1>9, <1>10, <1>11, <1>12

LEMMA DqIntact ==
  ASSUME IInv, NEW w \in WGs
  PROVE  /\ barriers.dQEmpty[w] <= 1 /\ barriers.dQFull[w] <= 1
         /\ (DqWarpAt("wait") /\ w >= dq_warp.wg) \/ (DqWarpAt("copy") /\ w < dq_warp.wg) => smem.dq[w] = dq_warp.m
<1>1. barriers.dQEmpty[w] <= 1 /\ barriers.dQFull[w] <= 1 BY InvFacts DEF DqInv
<1>2. ASSUME (DqWarpAt("wait") /\ w >= dq_warp.wg) \/ (DqWarpAt("copy") /\ w < dq_warp.wg)
      PROVE  smem.dq[w] = dq_warp.m
  <2> DEFINE m == dq_warp.m
             n == WrittenDq(kernel, mma[w])
  <2>1. ~kernel.Slice_dQKV_Mma BY <1>2 DEF DqWarpAt
  <2>2. /\ m \in Nat /\ w \in Nat /\ dq_warp.wg \in Nat /\ n \in Nat /\ DqCounts(w)
        /\ barriers.dQEmpty[w] \in {0, 1} /\ barriers.dQFull[w] \in {0, 1}
    BY <2>1, DqFacts
  <2>3. Copied(w) = m + 1 /\ Freed(w) = m
    <3>1. CASE DqWarpAt("wait") /\ w >= dq_warp.wg
      <4>1. dq_warp.at = "wait" /\ ~(w < dq_warp.wg) BY <2>2, <3>1 DEF DqWarpAt
      <4> QED BY <2>2, <4>1 DEF Copied, Freed
    <3>2. CASE DqWarpAt("copy") /\ w < dq_warp.wg
      <4>1. dq_warp.at # "wait" /\ w < dq_warp.wg BY <3>2 DEF DqWarpAt
      <4> QED BY <2>2, <4>1 DEF Copied, Freed
    <3> QED BY <1>2, <3>1, <3>2
  <2>4. /\ barriers.dQFull[w] = n - Copied(w)
        /\ barriers.dQEmpty[w] = (IF mma[w].at = "init" THEN 0 ELSE 1) + Freed(w) - n
        /\ n > 0 => smem.dq[w] = n - 1
    BY <2>2 DEF DqCounts
  <2> HIDE DEF n
  <2>5. n = m + 1 BY <2>2, <2>3, <2>4
  <2> QED BY <2>2, <2>4, <2>5
<1> QED BY <1>1, <1>2

LEMMA StoringIntact ==
  ASSUME IInv, NEW w \in WGs
  PROVE  smem.storing \subseteq smem.dkv[w]
<1> DEFINE l == Leader(kernel)
           c == mma[l]
<1>k. kernel \in CtaKernels /\ l \in WGs /\ Place(kernel, l, c) /\ kernel.blocks \in Nat
  BY InvFacts, KernelTypes
<1>1. /\ smem.dkv[w] = Written(kernel, w, mma[w]) /\ smem.storing = Storing(kernel, c)
      /\ \A v \in barriers.written : kernel.epilogue = "tma" /\ smem.dkv[v] = {"dk", "dv"}
      /\ kernel.epilogue = "tma" /\ smem.storing # {} => barriers.written = WGs
  BY InvFacts DEF EpilogueInv
<1>2. CASE smem.storing = {} BY <1>2
<1>3. CASE smem.storing # {} /\ kernel.epilogue = "tma"
  <2>1. smem.storing = {"dk", "dv"} BY <1>1, <1>3 DEF Storing
  <2> QED BY <1>1, <1>3, <2>1
<1>4. CASE smem.storing # {} /\ kernel.epilogue # "tma"
  <2>1. /\ c.at = "epilogue" /\ kernel.epilogue = "gqa"
        /\ (c.pc = 5 /\ smem.storing = {"dv"}) \/ (c.pc = 10 /\ smem.storing = {"dk"})
    BY <1>1, <1>4 DEF Storing
  <2>2. c.m = kernel.blocks /\ ~Past(c, DsShared(kernel)) /\ InEpilogue(c)
    BY <1>k, <2>1 DEF Place, InEpilogue, Past
  <2>3. Round(kernel, l, c) = <<kernel.blocks, EpilogueSyncs(kernel, l, c.pc)>>
    BY <2>2 DEF Round
  <2>4. EpilogueSyncs(kernel, l, c.pc) = IF c.pc = 5 THEN 2 ELSE 4 BY <2>1 DEF EpilogueSyncs
  <2>5. Round(kernel, w, mma[w]) = Round(kernel, l, c) BY <1>k, InvFacts DEF SyncInv
  <2>6. Place(kernel, w, mma[w]) /\ w \in Groups(kernel) BY InvFacts
  <2>7. CASE c.pc = 5
    <3>1. Round(kernel, w, mma[w]) = <<kernel.blocks, 2>> BY <2>3, <2>4, <2>5, <2>7
    <3>2. Written(kernel, w, mma[w]) = {"dv"} BY <1>k, <2>1, <2>6, <3>1, RoundWritten
    <3> QED BY <1>1, <2>1, <2>7, <3>2
  <2>8. CASE c.pc = 10
    <3>1. Round(kernel, w, mma[w]) = <<kernel.blocks, 4>> BY <2>3, <2>4, <2>5, <2>8
    <3>2. Written(kernel, w, mma[w]) = {"dk"} BY <1>k, <2>1, <2>6, <3>1, RoundWritten
    <3> QED BY <1>1, <2>1, <2>8, <3>2
  <2> QED BY <2>1, <2>7, <2>8
<1> QED BY <1>2, <1>3, <1>4

(* BwdSmemSafe: whatever a gemm, the dQ warp or a store of the epilogue     *)
(* reads in shared memory is what was meant for it until it has ended       *)
(* (mainloop_bwd_sm90_tma_gmma_ws.hpp, epilogue_bwd.hpp), for every kernel  *)
(* and any number of Q blocks.                                              *)
THEOREM SharedMemorySafe == CtaSpec => []BwdSmemSafe
<1>1. IInv => BwdSmemSafe
  <2>1. SUFFICES ASSUME IInv PROVE BwdSmemSafe OBVIOUS
  <2>2. \A w \in WGs, i \in 1 .. 4 :
          i <= Len(mma[w].gemms) =>
            \A operand \in Operands(mma[w].gemms[i].op) : Intact(operand, mma[w].gemms[i])
    BY <2>1, GemmIntact
  <2>3. \A w \in WGs :
          /\ barriers.dQEmpty[w] <= 1 /\ barriers.dQFull[w] <= 1
          /\ (DqWarpAt("wait") /\ w >= dq_warp.wg) \/ (DqWarpAt("copy") /\ w < dq_warp.wg) => smem.dq[w] = dq_warp.m
          /\ smem.storing \subseteq smem.dkv[w]
    BY <2>1, DqIntact, StoringIntact
  <2> QED BY <2>2, <2>3 DEF BwdSmemSafe
<1> QED BY <1>1, IInvAlways, PTL

-----------------------------------------------------------------------------
(* The sums: what every warpgroup has added up, and what has left the CTA. *)

\* The first n gemms of a kind, in order: one of every block, or two.
TermAt(k, n) == IF k.Slice_dQKV_Mma THEN <<n \div 2, n % 2>> ELSE <<n, 0>>
FirstTerms(k, n) == [i \in 1 .. n |-> TermAt(k, i - 1)]

Step(P) == IF P THEN 1 ELSE 0
EndedCount(k, c, op) ==
  IF k.Slice_dQKV_Mma THEN 2 * c.m + Step(Past(c, EndOf(k, op, 0))) + Step(Past(c, EndOf(k, op, 1)))
  ELSE c.m + Step(Past(c, EndOf(k, op, 0)))

LEMMA TermsSeq ==
  ASSUME NEW k \in CtaKernels, NEW n \in Nat
  PROVE  /\ FirstTerms(k, n) \in Seq(Nat \X Nat) /\ Len(FirstTerms(k, n)) = n
         /\ \A i \in 1 .. n : FirstTerms(k, n)[i] = TermAt(k, i - 1)
<1> DEFINE s == FirstTerms(k, n)
<1>1. \A i \in 1 .. n : s[i] = TermAt(k, i - 1) BY DEF FirstTerms
<1>2. \A i \in 1 .. n : s[i] \in Nat \X Nat
  <2>1. \A i \in 1 .. n : i - 1 \in Nat OBVIOUS
  <2>2. \A i \in Nat : TermAt(k, i) \in Nat \X Nat
    <3>1. \A i \in Nat : i \div 2 \in Nat /\ i % 2 \in Nat OBVIOUS
    <3> QED BY <3>1 DEF TermAt
  <2> QED BY <1>1, <2>1, <2>2
<1>3. s = [i \in 1 .. n |-> s[i]] BY DEF FirstTerms
<1> HIDE DEF s
<1>4. s \in [1 .. n -> Nat \X Nat] BY <1>2, <1>3
<1>5. s \in Seq(Nat \X Nat) /\ Len(s) = n BY <1>4
<1> QED BY <1>1, <1>5 DEF s

\* How many come before that of block m.
TermCount(k, m, slice) == IF k.Slice_dQKV_Mma THEN 2 * m + slice ELSE m

LEMMA NextTerm ==
  ASSUME NEW k \in CtaKernels, NEW m \in Nat, NEW slice \in {0, 1}, NEW n, ~k.Slice_dQKV_Mma => slice = 0,
         n = TermCount(k, m, slice)
  PROVE  /\ n \in Nat
         /\ FirstTerms(k, n) \o << <<m, slice>> >> = FirstTerms(k, n + 1)
         /\ Append(FirstTerms(k, n), <<m, slice>>) = FirstTerms(k, n + 1)
<1> DEFINE S == Nat \X Nat
           t == <<m, slice>>
           s == FirstTerms(k, n)
           r == FirstTerms(k, n + 1)
           a == Append(s, t)
<1>k. k.Slice_dQKV_Mma \in BOOLEAN BY KernelTypes
<1>0. n = IF k.Slice_dQKV_Mma THEN 2 * m + slice ELSE m BY DEF TermCount
<1>1. n \in Nat BY <1>0
<1>2. t \in S OBVIOUS
<1>3. TermAt(k, n) = t
  <2>1. CASE k.Slice_dQKV_Mma
    <3>1. n = 2 * m + slice BY <1>0, <2>1
    <3>2. n \div 2 = m /\ n % 2 = slice BY <3>1
    <3> QED BY <2>1, <3>2 DEF TermAt
  <2>2. CASE ~k.Slice_dQKV_Mma BY <1>0, <2>2 DEF TermAt
  <2> QED BY <1>k, <2>1, <2>2
<1>4. /\ s \in Seq(S) /\ Len(s) = n
      /\ \A i \in 1 .. n : s[i] = TermAt(k, i - 1)
  BY <1>1, TermsSeq
<1>5. /\ r \in Seq(S) /\ Len(r) = n + 1
      /\ \A i \in 1 .. n + 1 : r[i] = TermAt(k, i - 1)
  <2>1. n + 1 \in Nat BY <1>1
  <2> HIDE DEF r
  <2> QED BY <2>1, TermsSeq DEF r
<1> HIDE DEF s, r, t, S
<1>6. a \in Seq(S) /\ Len(a) = n + 1 /\ (\A i \in 1 .. n : a[i] = s[i]) /\ a[n + 1] = t
  BY <1>2, <1>4, AppendProperties
<1>7. a = s \o <<t>> BY <1>2, <1>4, AppendIsConcat
<1> HIDE DEF a
<1>8. \A i \in 1 .. n + 1 : a[i] = r[i]
  <2>1. ASSUME NEW i \in 1 .. n PROVE a[i] = r[i]
    <3>1. i \in 1 .. n + 1 BY <1>1
    <3> QED BY <1>4, <1>5, <1>6, <3>1
  <2>2. a[n + 1] = r[n + 1]
    <3>1. n + 1 \in 1 .. n + 1 /\ n + 1 - 1 = n BY <1>1
    <3>2. r[n + 1] = TermAt(k, n) BY <1>1, <1>5, <3>1
    <3> QED BY <1>3, <1>6, <3>2
  <2>3. \A i \in 1 .. n + 1 : i \in 1 .. n \/ i = n + 1 BY <1>1
  <2> QED BY <2>1, <2>2, <2>3
<1>9. a = r BY <1>5, <1>6, <1>8, SeqEqual
<1> QED BY <1>1, <1>7, <1>9 DEF a, r, s, t

CountGoes(k, c, d, op) ==
  LET n == EndedCount(k, c, op)
      ends == EndedAt(k, c.pc, op)
  IN  /\ n \in Nat
      /\ ends = {} => EndedCount(k, d, op) = n
      /\ \A slice \in ends : /\ EndedCount(k, d, op) = n + 1
                             /\ slice \in {0, 1} /\ (~k.Slice_dQKV_Mma => slice = 0)
                             /\ n = IF k.Slice_dQKV_Mma THEN 2 * c.m + slice ELSE c.m
      /\ ends = {} \/ \E slice : ends = {slice}

\* A call makes the sums those of the gemms that have ended after it.
LEMMA CountStep ==
  ASSUME NEW k \in CtaKernels, NEW w \in Groups(k), NEW c, NEW d, Moved(k, w, c, d), c.at = "loop", NEW op \in {"dq", "dk", "dv"}
  PROVE  CountGoes(k, c, d, op)
<1>g. SUFFICES LET n == EndedCount(k, c, op)
                   ends == EndedAt(k, c.pc, op)
               IN  /\ n \in Nat
                   /\ ends = {} => EndedCount(k, d, op) = n
                   /\ \A slice \in ends : /\ EndedCount(k, d, op) = n + 1
                                          /\ slice \in {0, 1} /\ (~k.Slice_dQKV_Mma => slice = 0)
                                          /\ n = IF k.Slice_dQKV_Mma THEN 2 * c.m + slice ELSE c.m
                   /\ ends = {} \/ \E slice : ends = {slice}
  BY DEF CountGoes
<1> DEFINE e0 == EndOf(k, op, 0)
           e1 == EndOf(k, op, 1)
           l == LoopLen(k)
<1>k. DsShared(k) \in 5 .. 8 /\ k.Slice_dQKV_Mma \in BOOLEAN BY KernelTypes
<1>1. /\ e0 \in Nat /\ e1 \in Nat /\ l \in Nat /\ e0 <= l /\ e0 >= 1
      /\ k.Slice_dQKV_Mma => e0 < e1 /\ e1 <= l
  <2>1. CASE op = "dv" BY <1>k, <2>1 DEF EndOf, LoopLen
  <2>2. CASE op = "dq" BY <1>k, <2>2 DEF EndOf, LoopLen
  <2>3. CASE op = "dk" BY <1>k, <2>3 DEF EndOf, LoopLen
  <2> QED BY <2>1, <2>2, <2>3
<1>2. EndedAt(k, c.pc, op) = IF c.pc = e0 THEN {0} ELSE IF k.Slice_dQKV_Mma /\ c.pc = e1 THEN {1} ELSE {}
  BY DEF EndedAt
<1>3. /\ \A a : EndedCount(k, a, op) = IF k.Slice_dQKV_Mma THEN 2 * a.m + Step(Past(a, e0)) + Step(Past(a, e1))
                                       ELSE a.m + Step(Past(a, e0))
  BY DEF EndedCount
<1>4. c.m \in Nat /\ c.pc \in 1 .. l BY DEF Moved, Place
<1>5. /\ c.pc # l => d.at = "loop" /\ d.pc = c.pc + 1 /\ d.m = c.m
      /\ c.pc = l => d.pc = 1 /\ d.m = c.m + 1
  BY DEF Moved
<1>l. c.at = "loop" OBVIOUS
<1> HIDE DEF e0, e1, l
<1>6. \A i \in Nat : /\ Past(c, i) <=> c.pc > i
                     /\ c.pc # l => (Past(d, i) <=> c.pc + 1 > i)
                     /\ c.pc = l /\ i >= 1 => ~Past(d, i)
  BY <1>4, <1>5, <1>l DEF Past
<1>7. CASE ~k.Slice_dQKV_Mma
  <2>1. /\ EndedCount(k, c, op) = c.m + Step(Past(c, e0)) /\ EndedCount(k, d, op) = d.m + Step(Past(d, e0))
        /\ EndedAt(k, c.pc, op) = IF c.pc = e0 THEN {0} ELSE {}
    BY <1>2, <1>3, <1>7
  <2>2. CASE c.pc = e0
    <3>1. ~Past(c, e0) /\ (c.pc # l => Past(d, e0)) /\ (c.pc = l => ~Past(d, e0))
      BY <1>1, <1>4, <1>6, <2>2
    <3>2. EndedCount(k, c, op) = c.m BY <1>4, <2>1, <3>1 DEF Step
    <3>3. EndedCount(k, d, op) = c.m + 1 BY <1>4, <1>5, <2>1, <3>1 DEF Step
    <3> QED BY <1>4, <1>7, <2>1, <2>2, <3>2, <3>3
  <2>3. CASE c.pc # e0
    <3>1. /\ c.pc # l => (Past(d, e0) <=> Past(c, e0))
          /\ c.pc = l => ~Past(d, e0) /\ Past(c, e0)
      BY <1>1, <1>4, <1>6, <2>3
    <3>2. EndedCount(k, c, op) = EndedCount(k, d, op) /\ EndedCount(k, c, op) \in Nat
      BY <1>4, <1>5, <2>1, <3>1 DEF Step
    <3> QED BY <2>1, <2>3, <3>2
  <2> QED BY <2>2, <2>3
<1>8. CASE k.Slice_dQKV_Mma
  <2>1. /\ EndedCount(k, c, op) = 2 * c.m + Step(Past(c, e0)) + Step(Past(c, e1))
        /\ EndedCount(k, d, op) = 2 * d.m + Step(Past(d, e0)) + Step(Past(d, e1))
        /\ EndedAt(k, c.pc, op) = IF c.pc = e0 THEN {0} ELSE IF c.pc = e1 THEN {1} ELSE {}
    BY <1>2, <1>3, <1>8
  <2>2. CASE c.pc = e0
    <3>1. ~Past(c, e0) /\ ~Past(c, e1) /\ Past(d, e0) /\ ~Past(d, e1) /\ c.pc # l
      BY <1>1, <1>4, <1>6, <1>8, <2>2
    <3>2. EndedCount(k, c, op) = 2 * c.m BY <1>4, <2>1, <3>1 DEF Step
    <3>3. EndedCount(k, d, op) = 2 * c.m + 1 BY <1>4, <1>5, <2>1, <3>1 DEF Step
    <3>4. EndedAt(k, c.pc, op) = {0} BY <2>1, <2>2
    <3>5. EndedCount(k, c, op) = 2 * c.m + 0 /\ EndedCount(k, c, op) \in Nat BY <1>4, <3>2
    <3> QED BY <1>8, <3>2, <3>3, <3>4, <3>5
  <2>3. CASE c.pc = e1
    <3>0. c.pc # e0 /\ c.pc > e0 BY <1>1, <1>4, <1>8, <2>3
    <3>1. /\ Past(c, e0) /\ ~Past(c, e1)
          /\ c.pc # l => Past(d, e0) /\ Past(d, e1)
          /\ c.pc = l => ~Past(d, e0) /\ ~Past(d, e1)
      BY <1>1, <1>4, <1>6, <1>8, <2>3, <3>0
    <3>2. EndedCount(k, c, op) = 2 * c.m + 1 BY <1>4, <2>1, <3>1 DEF Step
    <3>3. EndedCount(k, d, op) = 2 * c.m + 2 BY <1>4, <1>5, <2>1, <3>1 DEF Step
    <3>4. EndedAt(k, c.pc, op) = {1} BY <2>1, <2>3, <3>0
    <3>5. EndedCount(k, d, op) = EndedCount(k, c, op) + 1 /\ EndedCount(k, c, op) \in Nat
      BY <1>4, <3>2, <3>3
    <3> QED BY <1>8, <3>2, <3>4, <3>5
  <2>4. CASE c.pc # e0 /\ c.pc # e1
    <3>1. /\ c.pc # l => (Past(d, e0) <=> Past(c, e0)) /\ (Past(d, e1) <=> Past(c, e1))
          /\ c.pc = l => ~Past(d, e0) /\ ~Past(d, e1) /\ Past(c, e0) /\ Past(c, e1)
      BY <1>1, <1>4, <1>6, <1>8, <2>4
    <3>2. EndedCount(k, c, op) = EndedCount(k, d, op) /\ EndedCount(k, c, op) \in Nat
      BY <1>4, <1>5, <2>1, <3>1 DEF Step
    <3> QED BY <2>1, <2>4, <3>2
  <2> QED BY <2>2, <2>3, <2>4
<1> QED BY <1>k, <1>7, <1>8

\* How often a warpgroup's call has stored dK or dV, and how often they have been.
StoredAt(k, which) == IF k.epilogue = "gqa" THEN IF which = "dv" THEN 5 ELSE 10 ELSE 4
Stored(k, c, which) == Step(InEpilogue(c) /\ c.pc > StoredAt(k, which))
Stores(which) ==
  IF kernel.epilogue = "varlen"
  THEN Stored(kernel, mma[0], which) + Stored(kernel, mma[1], which)
       + (IF kernel.wgs = 3 THEN Stored(kernel, mma[2], which) ELSE 0)
  ELSE Stored(kernel, mma[Leader(kernel)], which)

SumsInv == \A w \in WGs, op \in {"dk", "dv"} : mma[w][op] = FirstTerms(kernel, EndedCount(kernel, mma[w], op))
DqTerms(w) == IF kernel.Slice_dQKV_Mma THEN EndedCount(kernel, mma[w], "dq") ELSE Freed(w)
AddedDq == [w \in WGs |-> FirstTerms(kernel, DqTerms(w))]
Tiles(n) == [i \in 1 .. n |-> [w \in WGs |-> AllTerms]]
GradientsInv == SumsInv /\ added = [dq |-> AddedDq, dk |-> Tiles(Stores("dk")), dv |-> Tiles(Stores("dv"))]

LEMMA NoTerms ==
  ASSUME NEW k \in CtaKernels
  PROVE  FirstTerms(k, 0) = << >>
<1>1. FirstTerms(k, 0) \in Seq(Nat \X Nat) /\ Len(FirstTerms(k, 0)) = 0 BY TermsSeq
<1> HIDE DEF FirstTerms
<1> QED BY <1>1, EmptySeq

\* In the epilogue all gemms have ended.
LEMMA CountsOfTile ==
  ASSUME NEW k \in CtaKernels, NEW w, NEW c, Place(k, w, c), NEW op
  PROVE  /\ c.at # "loop" => EndedCount(k, c, op) = IF k.Slice_dQKV_Mma THEN 2 * c.m ELSE c.m
         /\ c.m \in Nat /\ (InEpilogue(c) => c.m = k.blocks)
<1>1. c.m \in Nat /\ (InEpilogue(c) => c.m = k.blocks) BY DEF Place
<1>2. ASSUME c.at # "loop" PROVE EndedCount(k, c, op) = IF k.Slice_dQKV_Mma THEN 2 * c.m ELSE c.m
  <2>1. Step(Past(c, EndOf(k, op, 0))) = 0 /\ Step(Past(c, EndOf(k, op, 1))) = 0
    BY <1>2 DEF Past, Step
  <2>2. EndedCount(k, c, op) = IF k.Slice_dQKV_Mma THEN 2 * c.m + 0 + 0 ELSE c.m + 0
    BY <2>1, Zenon DEF EndedCount
  <2> QED BY <1>1, <2>2
<1> QED BY <1>1, <1>2

LEMMA CallSums ==
  ASSUME kernel \in CtaKernels, NEW w \in WGs, Place(kernel, w, mma[w]), mma[w].at \in {"loop", "epilogue"},
         NEW op \in {"dk", "dv"}, mma[w][op] = FirstTerms(kernel, EndedCount(kernel, mma[w], op))
  PROVE  AfterCall(w)[op] = FirstTerms(kernel, EndedCount(kernel, AfterCall(w), op))
<1> DEFINE c == mma[w]
           d == AfterCall(w)
           k == kernel
           t == Terms(w, CallOf(w), op)
           n == EndedCount(k, c, op)
           x == CallOf(w).does
<1>1. d[op] = c[op] \o t
  <2>1. d.dk = c.dk \o Terms(w, CallOf(w), "dk") /\ d.dv = c.dv \o Terms(w, CallOf(w), "dv")
    BY AfterCallFields
  <2> QED BY <2>1
<1>2. Moved(k, w, c, d)
  <2>1. Does(w, x) BY DEF Does
  <2> QED BY <2>1, CallGoes DEF OneGoes
<1>3. CASE c.at = "loop"
  <2> DEFINE ends == EndedAt(k, c.pc, op)
  <2>1. IsTerms(t, ends, c.m) BY <1>3, LoopTerms
  <2>2. w \in Groups(k) BY GroupsOf
  <2>3. /\ n \in Nat
        /\ ends = {} => EndedCount(k, d, op) = n
        /\ \A slice \in ends : /\ EndedCount(k, d, op) = n + 1
                               /\ slice \in {0, 1} /\ (~k.Slice_dQKV_Mma => slice = 0)
                               /\ n = IF k.Slice_dQKV_Mma THEN 2 * c.m + slice ELSE c.m
        /\ ends = {} \/ \E slice : ends = {slice}
    <3>1. CountGoes(k, c, d, op)
      <4> HIDE DEF c, d
      <4> QED BY <1>2, <1>3, <2>2, CountStep
    <3> QED BY <3>1 DEF CountGoes
  <2>4. c.m \in Nat BY DEF Place
  <2>5. c[op] = FirstTerms(k, n) OBVIOUS
  <2> HIDE DEF c, d, k, t, ends, n
  <2>6. CASE ends = {}
    <3>1. t = << >> BY <2>1, <2>6 DEF IsTerms
    <3>2. FirstTerms(k, n) \in Seq(Nat \X Nat) BY <2>3, TermsSeq DEF k
    <3>3. FirstTerms(k, n) \o << >> = FirstTerms(k, n) BY <3>2, ConcatEmptySeq
    <3> QED BY <1>1, <2>3, <2>5, <2>6, <3>1, <3>3 DEF d, k
  <2>7. ASSUME NEW slice, ends = {slice} PROVE d[op] = FirstTerms(k, EndedCount(k, d, op))
    <3>1. t = << <<c.m, slice>> >> BY <2>1, <2>7 DEF IsTerms
    <3>2. /\ EndedCount(k, d, op) = n + 1 /\ slice \in {0, 1} /\ (~k.Slice_dQKV_Mma => slice = 0)
          /\ n = IF k.Slice_dQKV_Mma THEN 2 * c.m + slice ELSE c.m
      BY <2>3, <2>7
    <3>3. FirstTerms(k, n) \o << <<c.m, slice>> >> = FirstTerms(k, n + 1)
      BY <2>4, <3>2, NextTerm DEF k, TermCount
    <3> QED BY <1>1, <2>5, <3>1, <3>2, <3>3
  <2> QED BY <2>3, <2>6, <2>7 DEF d, k
<1>4. CASE c.at = "epilogue"
  <2>1. c.gemms = << >> /\ d.m = c.m /\ d.at \in {"exit", "epilogue"} /\ c.m \in Nat
    BY <1>2, <1>4 DEF Place, InEpilogue, Moved
  <2>2. CallOf(w).left = 9 BY <1>4, EpilogueStep DEF Call, NoWait
  <2>3. Len(Ended(w, CallOf(w))) = 0
    <3>1. Ended(w, CallOf(w)) = SubSeq(<< >>, 1, 0 - 9) BY <2>1, <2>2 DEF Ended
    <3>2. SubSeq(<< >>, 1, 0 - 9) = << >> BY SubSeqEmpty
    <3> QED BY <3>1, <3>2
  <2>4. t = << >> BY <2>3, TermsOf
  <2>5. Place(k, w, d) BY <1>2 DEF Moved
  <2>6. n = IF k.Slice_dQKV_Mma THEN 2 * c.m ELSE c.m BY <1>4, CountsOfTile
  <2>7. EndedCount(k, d, op) = n BY <2>1, <2>5, <2>6, CountsOfTile
  <2>8. n \in Nat BY <2>1, <2>6
  <2>9. FirstTerms(k, n) \in Seq(Nat \X Nat) BY <2>8, TermsSeq
  <2> HIDE DEF t, d, n
  <2>10. FirstTerms(k, n) \o << >> = FirstTerms(k, n) BY <2>9, ConcatEmptySeq
  <2> QED BY <1>1, <2>4, <2>7, <2>10 DEF n, d
<1> QED BY <1>3, <1>4

DqCountGoes(k, c, d, x) ==
  /\ EndedCount(k, c, "dq") \in Nat
  /\ EndedCount(k, d, "dq") = EndedCount(k, c, "dq") + (IF x = "dq" THEN 1 ELSE 0)
  /\ x = "dq" => /\ c.at = "loop"
                 /\ \E slice \in {0, 1} : EndedAt(k, c.pc, "dq") = {slice} /\ EndedCount(k, c, "dq") = 2 * c.m + slice

\* The gemms of dQ that end do so in the calls that take dQ away.
LEMMA DqCountStep ==
  ASSUME NEW k \in CtaKernels, NEW w \in Groups(k), NEW c, NEW d, NEW x, OneGoes(k, w, c, d, x), x # "nothing", k.Slice_dQKV_Mma
  PROVE  DqCountGoes(k, c, d, x)
<1>0. SUFFICES /\ EndedCount(k, c, "dq") \in Nat
               /\ EndedCount(k, d, "dq") = EndedCount(k, c, "dq") + (IF x = "dq" THEN 1 ELSE 0)
               /\ x = "dq" => /\ c.at = "loop"
                              /\ \E slice \in {0, 1} :
                                    EndedAt(k, c.pc, "dq") = {slice} /\ EndedCount(k, c, "dq") = 2 * c.m + slice
  BY DEF DqCountGoes
<1>1. c.at \in {"loop", "epilogue"} /\ x = Doing(k, w, c) /\ Moved(k, w, c, d) /\ Place(k, w, c) /\ Place(k, w, d)
  BY DEF OneGoes, Moved
<1>2. CASE c.at = "loop"
  <2> DEFINE ends == EndedAt(k, c.pc, "dq")
             n == EndedCount(k, c, "dq")
             y == DsShared(k)
  <2>1. x = CallAt(k, c.pc).does /\ c.pc \in 1 .. LoopLen(k) BY <1>1, <1>2 DEF Doing, Place
  <2>2. /\ n \in Nat
        /\ ends = {} => EndedCount(k, d, "dq") = n
        /\ \A slice \in ends : /\ EndedCount(k, d, "dq") = n + 1
                               /\ slice \in {0, 1} /\ (~k.Slice_dQKV_Mma => slice = 0)
                               /\ n = IF k.Slice_dQKV_Mma THEN 2 * c.m + slice ELSE c.m
        /\ ends = {} \/ \E slice : ends = {slice}
    <3>1. CountGoes(k, c, d, "dq") BY <1>1, <1>2, CountStep
    <3> QED BY <3>1 DEF CountGoes
  <2>3. ends = IF c.pc = y + 3 THEN {0} ELSE IF c.pc = y + 5 THEN {1} ELSE {}
    <3>1. EndOf(k, "dq", 0) = y + 3 /\ EndOf(k, "dq", 1) = y + 5 BY KernelTypes DEF EndOf
    <3> QED BY <3>1 DEF EndedAt
  <2>4. x = "dq" <=> c.pc = y + 3 \/ c.pc = y + 5 BY <2>1, CallKinds
  <2> HIDE DEF ends, n
  <2>5. x # "dq" => EndedCount(k, d, "dq") = n + 0 BY <2>2, <2>3, <2>4
  <2>6. ASSUME x = "dq"
        PROVE  EndedCount(k, d, "dq") = n + 1 /\ \E slice \in {0, 1} : ends = {slice} /\ n = 2 * c.m + slice
    <3>1. PICK slice \in {0, 1} : ends = {slice} BY <2>3, <2>4, <2>6
    <3> QED BY <2>2, <3>1
  <2> QED BY <1>2, <2>2, <2>5, <2>6 DEF ends, n
<1>3. CASE c.at = "epilogue"
  <2>1. d.m = c.m /\ d.at # "loop" BY <1>1, <1>3 DEF Moved
  <2>2. x # "dq"
    <3>1. c.pc \in 1 .. EpilogueLen(k, w) /\ x = EpilogueDoes(k, w)[c.pc]
      BY <1>1, <1>3 DEF Place, Doing
    <3> QED BY <3>1, EpilogueTable, KernelTypes
  <2>3. EndedCount(k, c, "dq") = 2 * c.m /\ EndedCount(k, d, "dq") = 2 * c.m /\ c.m \in Nat
    BY <1>1, <1>3, <2>1, CountsOfTile
  <2> QED BY <2>2, <2>3
<1> QED BY <1>1, <1>2, <1>3

\* What the calls that end a store do.
LEMMA StoredStep ==
  ASSUME NEW k \in CtaKernels, NEW w \in Groups(k), NEW c, NEW d, NEW x, OneGoes(k, w, c, d, x), x # "nothing",
         NEW which \in {"dk", "dv"}
  PROVE  /\ Stored(k, c, which) \in {0, 1}
         /\ x \notin {"stored", "copy"} /\ (w = Leader(k) \/ k.epilogue = "varlen") => Stored(k, d, which) = Stored(k, c, which)
         /\ x = "stored" => /\ c.at = "epilogue" /\ w = Leader(k) /\ k.epilogue # "varlen" /\ c.pc > 3
                            /\ Stored(k, d, which) = Stored(k, c, which) + Step(which \in Storing(k, c))
         /\ x = "copy" => /\ c.at = "epilogue" /\ k.epilogue = "varlen" /\ c.pc = 4
                          /\ Stored(k, d, which) = Stored(k, c, which) + 1
<1> DEFINE s == StoredAt(k, which)
<1>1. c.at \in {"loop", "epilogue"} /\ x = Doing(k, w, c) /\ Moved(k, w, c, d) /\ Place(k, w, c)
  BY DEF OneGoes, Moved
<1>2. /\ s \in {4, 5, 10}
      /\ k.epilogue # "gqa" => s = 4
      /\ k.epilogue = "gqa" => s = IF which = "dv" THEN 5 ELSE 10
      /\ \A a : Stored(k, a, which) = IF InEpilogue(a) /\ a.pc > s THEN 1 ELSE 0
  BY DEF StoredAt, Stored, Step
<1> HIDE DEF s
<1>3. CASE c.at = "loop"
  <2>1. x = CallAt(k, c.pc).does /\ c.pc \in 1 .. LoopLen(k) BY <1>1, <1>3 DEF Doing, Place
  <2>2. x \notin {"stored", "copy"} BY <2>1, CallKinds
  <2>3. d.at = "loop" \/ d.pc = 1 BY <1>1, <1>3 DEF Moved
  <2>4. ~InEpilogue(c) BY <1>3 DEF InEpilogue
  <2>5. ~(InEpilogue(d) /\ d.pc > s) BY <1>2, <2>3 DEF InEpilogue
  <2> QED BY <1>2, <2>2, <2>4, <2>5
<1>4. CASE c.at = "epilogue"
  <2>1. /\ c.pc \in 1 .. EpilogueLen(k, w) /\ x = EpilogueDoes(k, w)[c.pc] /\ c.pc \in Nat
        /\ InEpilogue(c) /\ InEpilogue(d) /\ d.pc = c.pc + 1
    BY <1>1, <1>4 DEF Place, Doing, InEpilogue, Moved
  <2>2. /\ Stored(k, c, which) = IF c.pc > s THEN 1 ELSE 0
        /\ Stored(k, d, which) = IF c.pc >= s THEN 1 ELSE 0
    BY <1>2, <2>1
  <2>3. /\ Stored(k, c, which) \in {0, 1}
        /\ c.pc # s => Stored(k, d, which) = Stored(k, c, which)
        /\ c.pc = s => Stored(k, d, which) = Stored(k, c, which) + 1
    BY <1>2, <2>1, <2>2
  <2>4. k.epilogue \in {"tma", "varlen", "gqa"} BY KernelTypes
  <2>t. /\ k.epilogue = "tma" =>
             \/ c.pc = 1 /\ x = "Epilogue"
             \/ c.pc = 2 /\ x = "dkv"
             \/ w = Leader(k) /\ c.pc = 3 /\ x = "written"
             \/ w = Leader(k) /\ c.pc = 4 /\ x = "stored"
        /\ k.epilogue = "varlen" =>
             \/ c.pc \in {1, 3} /\ x = "Epilogue"
             \/ c.pc = 2 /\ x = "dkv"
             \/ c.pc = 4 /\ x = "copy"
        /\ k.epilogue = "gqa" /\ w = Leader(k) =>
             \/ c.pc \in {1, 3, 6, 8} /\ x = "Epilogue"
             \/ c.pc = 2 /\ x = "dv"
             \/ c.pc = 7 /\ x = "dk"
             \/ c.pc \in {4, 9} /\ x = "store"
             \/ c.pc \in {5, 10} /\ x = "stored"
        /\ k.epilogue = "gqa" /\ w # Leader(k) => x \in {"Epilogue", "dv", "dk"}
    BY <2>1, EpilogueTable
  <2>5. CASE k.epilogue = "tma"
    <3>1. x # "copy" /\ (x = "stored" => w = Leader(k) /\ c.pc = 4) /\ (c.pc = 4 => x = "stored")
      BY <2>t, <2>5
    <3>2. x = "stored" => Storing(k, c) = {"dk", "dv"} BY <1>4, <2>5, <3>1 DEF Storing
    <3>3. s = 4 BY <1>2, <2>5
    <3>4. x = "stored" => Stored(k, d, which) = Stored(k, c, which) + 1 /\ Step(which \in Storing(k, c)) = 1
      BY <2>3, <3>1, <3>2, <3>3 DEF Step
    <3> QED BY <1>4, <2>3, <2>5, <3>1, <3>3, <3>4
  <2>6. CASE k.epilogue = "varlen"
    <3>1. x # "stored" /\ (x = "copy" <=> c.pc = 4) BY <2>t, <2>6
    <3>2. s = 4 BY <1>2, <2>6
    <3> QED BY <1>4, <2>3, <2>6, <3>1, <3>2
  <2>7. CASE k.epilogue = "gqa" /\ w # Leader(k)
    <3>1. x \notin {"stored", "copy"} BY <2>t, <2>7
    <3> QED BY <2>3, <2>7, <3>1
  <2>8. CASE k.epilogue = "gqa" /\ w = Leader(k)
    <3>1. x # "copy" /\ (x = "stored" <=> c.pc \in {5, 10}) BY <2>t, <2>8
    <3>2. s = IF which = "dv" THEN 5 ELSE 10 BY <1>2, <2>8
    <3>3. x = "stored" => Storing(k, c) = IF c.pc = 5 THEN {"dv"} ELSE {"dk"}
      BY <1>4, <2>8, <3>1 DEF Storing
    <3>4. x = "stored" => (which \in Storing(k, c) <=> c.pc = s) BY <3>1, <3>2, <3>3
    <3>5. x = "stored" => Stored(k, d, which) = Stored(k, c, which) + Step(which \in Storing(k, c))
      BY <2>3, <3>4 DEF Step
    <3>6. x = "stored" => c.pc > 3 BY <3>1
    <3>7. x \notin {"stored", "copy"} => c.pc # s BY <3>1, <3>2
    <3> QED BY <1>4, <2>3, <2>8, <3>1, <3>5, <3>6, <3>7
  <2> QED BY <2>4, <2>5, <2>6, <2>7, <2>8
<1> QED BY <1>1, <1>3, <1>4

\* How often dK or dV has been stored, and how often it has been after a call.
LEMMA StoresStep ==
  ASSUME IInv, NEW G \in SUBSET WGs, NEW x, Goes(G, x), x # "nothing", NEW which \in {"dk", "dv"}
  PROVE  /\ x \notin {"stored", "copy"} => Stores(which)' = Stores(which)
         /\ \A w \in WGs : G = {w} /\ x = "stored" => Stores(which)' = Stores(which) + Step(which \in smem.storing)
         /\ \A w \in WGs : G = {w} /\ x = "copy" => Stores(which)' = Stores(which) + 1
         /\ Stores(which) \in Nat
<1> DEFINE k == kernel
           l == Leader(kernel)
           S(v) == Stored(kernel, mma[v], which)
           T(v) == Stored(kernel, mma'[v], which)
<1>1. k \in CtaKernels /\ k.wgs \in {2, 3} /\ WGs = Groups(k) /\ k' = k /\ l \in WGs /\ smem.storing = Storing(k, mma[l])
  BY InvFacts, KernelTypes DEF Goes, EpilogueInv
<1>2. \A v \in WGs \ G : mma'[v] = mma[v] BY EachGoes
<1>3. \A v \in WGs : S(v) \in {0, 1} BY DEF Stored, Step
<1>4. \A v \in G : OneGoes(k, v, mma[v], mma'[v], x) BY EachGoes
<1>5. \A v \in G :
        /\ x \notin {"stored", "copy"} /\ (v = l \/ k.epilogue = "varlen") => T(v) = S(v)
        /\ x = "stored" => v = l /\ k.epilogue # "varlen" /\ T(v) = S(v) + Step(which \in Storing(k, mma[v]))
        /\ x = "copy" => k.epilogue = "varlen" /\ T(v) = S(v) + 1
  <2> TAKE v \in G
  <2>1. v \in Groups(k) BY <1>1
  <2>2. OneGoes(k, v, mma[v], mma'[v], x) BY <1>4
  <2> HIDE DEF k
  <2> QED BY <1>1, <2>1, <2>2, StoredStep DEF k
<1>6. /\ k.epilogue = "varlen" => /\ Stores(which) = S(0) + S(1) + (IF k.wgs = 3 THEN S(2) ELSE 0)
                                  /\ Stores(which)' = T(0) + T(1) + (IF k.wgs = 3 THEN T(2) ELSE 0)
      /\ k.epilogue # "varlen" => Stores(which) = S(l) /\ Stores(which)' = T(l)
  BY <1>1 DEF Stores, Stored, Leader
<1>7. \A v \in WGs \ G : T(v) = S(v) BY <1>2
<1>8. (k.wgs = 3 => WGs = {0, 1, 2}) /\ (k.wgs = 2 => WGs = {0, 1})
  <2>1. WGs = 0 .. k.wgs - 1 BY <1>1 DEF Groups
  <2>2. 0 .. 3 - 1 = {0, 1, 2} /\ 0 .. 2 - 1 = {0, 1} OBVIOUS
  <2> HIDE DEF k
  <2> QED BY <2>1, <2>2
<1> HIDE DEF k, l, S, T
<1>9. Stores(which) \in Nat
  <2>1. S(0) \in {0, 1} /\ S(1) \in {0, 1} /\ (k.wgs = 3 => S(2) \in {0, 1}) /\ S(l) \in {0, 1}
    BY <1>1, <1>3, <1>8
  <2>2. CASE k.epilogue = "varlen" /\ k.wgs = 3 BY <1>6, <2>1, <2>2
  <2>3. CASE k.epilogue = "varlen" /\ k.wgs # 3 BY <1>6, <2>1, <2>3
  <2>4. CASE k.epilogue # "varlen" BY <1>6, <2>1, <2>4
  <2> QED BY <2>2, <2>3, <2>4
<1>10. ASSUME x \notin {"stored", "copy"} PROVE Stores(which)' = Stores(which)
  <2>1. k.epilogue = "varlen" => \A v \in WGs : T(v) = S(v) BY <1>5, <1>7, <1>10
  <2>2. T(l) = S(l) BY <1>1, <1>5, <1>7, <1>10
  <2>3. CASE k.epilogue = "varlen"
    <3>1. T(0) = S(0) /\ T(1) = S(1) /\ (k.wgs = 3 => T(2) = S(2)) BY <1>1, <1>8, <2>1, <2>3
    <3> QED BY <1>6, <2>3, <3>1
  <2> QED BY <1>6, <2>2, <2>3
<1>11. ASSUME NEW w \in WGs, G = {w}, x = "stored" PROVE Stores(which)' = Stores(which) + Step(which \in smem.storing)
  <2>1. w = l /\ k.epilogue # "varlen" /\ T(w) = S(w) + Step(which \in Storing(k, mma[w]))
    BY <1>5, <1>11
  <2> QED BY <1>1, <1>6, <2>1 DEF l, k
<1>12. ASSUME NEW w \in WGs, G = {w}, x = "copy" PROVE Stores(which)' = Stores(which) + 1
  <2>1. k.epilogue = "varlen" /\ T(w) = S(w) + 1 BY <1>5, <1>12
  <2>2. \A v \in WGs : v # w => T(v) = S(v) BY <1>7, <1>12
  <2>3. CASE k.wgs = 3
    <3>1. \A v \in {0, 1, 2} : T(v) = S(v) + (IF v = w THEN 1 ELSE 0) /\ S(v) \in {0, 1}
      BY <1>3, <1>8, <2>1, <2>2, <2>3
    <3>2. w \in {0, 1, 2} BY <1>8, <2>3
    <3> QED BY <1>6, <2>1, <2>3, <3>1, <3>2
  <2>4. CASE k.wgs = 2
    <3>1. \A v \in {0, 1} : T(v) = S(v) + (IF v = w THEN 1 ELSE 0) /\ S(v) \in {0, 1}
      BY <1>3, <1>8, <2>1, <2>2, <2>4
    <3>2. w \in {0, 1} BY <1>8, <2>4
    <3> QED BY <1>6, <2>1, <2>4, <3>1, <3>2
  <2> QED BY <1>1, <2>3, <2>4
<1> QED BY <1>9, <1>10, <1>11, <1>12

\* A step of the loading warp, of a copy, or of the dQ warp up to its wait.
LEMMA SameSums ==
  ASSUME IInv, GradientsInv, kernel' = kernel, mma' = mma, added' = added, \A v \in WGs : Freed(v)' = Freed(v)
  PROVE  GradientsInv'
<1>1. WGs' = WGs /\ AllTerms' = AllTerms BY DEF WGs, AllTerms
<1>2. SumsInv' BY <1>1 DEF GradientsInv, SumsInv
<1>3. AddedDq' = AddedDq
  <2>1. \A w \in WGs : DqTerms(w)' = DqTerms(w) BY DEF DqTerms
  <2> QED BY <1>1, <2>1 DEF AddedDq
<1>4. Tiles(Stores("dk"))' = Tiles(Stores("dk")) /\ Tiles(Stores("dv"))' = Tiles(Stores("dv"))
  BY <1>1 DEF Tiles, Stores
<1> QED BY <1>2, <1>3, <1>4 DEF GradientsInv

\* Before the loop there is nothing yet.
LEMMA NothingYet ==
  ASSUME NEW k \in CtaKernels, NEW c, c.at \in {"init", "wait_kv", "loop", "exit"}, c.m = 0, c.pc = 1,
         NEW op \in {"dq", "dk", "dv"}, NEW which \in {"dk", "dv"}
  PROVE  EndedCount(k, c, op) = 0 /\ Stored(k, c, which) = 0
<1>1. EndOf(k, op, 0) \in Nat /\ EndOf(k, op, 0) >= 1 /\ EndOf(k, op, 1) \in Nat /\ EndOf(k, op, 1) >= 1
  BY KernelTypes DEF EndOf
<1>2. ~Past(c, EndOf(k, op, 0)) /\ ~Past(c, EndOf(k, op, 1)) BY <1>1 DEF Past
<1>3. EndedCount(k, c, op) = IF k.Slice_dQKV_Mma THEN 2 * c.m + 0 + 0 ELSE c.m + 0
  BY <1>2, Zenon DEF EndedCount, Step
<1>4. StoredAt(k, which) \in {4, 5, 10} BY DEF StoredAt
<1>5. Stored(k, c, which) = 0 BY <1>4 DEF Stored, Step
<1> QED BY <1>3, <1>5

LEMMA EntersSums ==
  ASSUME IInv, GradientsInv, NEW w \in WGs, mma[w].at \in {"init", "wait_kv"}, NEW at \in {"wait_kv", "loop", "exit"},
         mma' = [mma EXCEPT ![w].at = at], kernel' = kernel, dq_warp' = dq_warp, added' = added
  PROVE  GradientsInv'
<1> DEFINE k == kernel
<1>0. /\ k \in CtaKernels /\ mma = [v \in WGs |-> mma[v]] /\ WGs' = WGs /\ AllTerms' = AllTerms
      /\ \A v \in WGs : Place(k, v, mma[v])
  BY InvFacts DEF Places, WGs, AllTerms
<1>1. mma[w].m = 0 /\ mma[w].pc = 1 /\ DOMAIN mma[w] = {"at", "pc", "m", "read", "read_do", "gemms", "dk", "dv"}
  BY <1>0 DEF Place
<1>2. /\ mma' = [v \in WGs |-> mma'[v]]
      /\ mma'[w].at = at /\ mma'[w].m = 0 /\ mma'[w].pc = 1 /\ mma'[w].dk = mma[w].dk /\ mma'[w].dv = mma[w].dv
      /\ \A v \in WGs : v # w => mma'[v] = mma[v]
  <2>1. mma' = [mma EXCEPT ![w] = [mma[w] EXCEPT !.at = at]] OBVIOUS
  <2>2. mma'[w] = [mma[w] EXCEPT !.at = at] BY <1>0, <2>1
  <2> QED BY <1>0, <1>1, <2>1, <2>2
<1>3. /\ \A v \in WGs, op \in {"dq", "dk", "dv"} : EndedCount(k, mma'[v], op) = EndedCount(k, mma[v], op)
      /\ \A v \in WGs, which \in {"dk", "dv"} : Stored(k, mma'[v], which) = Stored(k, mma[v], which)
  <2>1. ASSUME NEW op \in {"dq", "dk", "dv"}, NEW which \in {"dk", "dv"}
        PROVE  /\ EndedCount(k, mma'[w], op) = EndedCount(k, mma[w], op)
               /\ Stored(k, mma'[w], which) = Stored(k, mma[w], which)
    <3> DEFINE c == mma[w]
               d == mma'[w]
    <3>1. /\ c.at \in {"init", "wait_kv", "loop", "exit"} /\ c.m = 0 /\ c.pc = 1
          /\ d.at \in {"init", "wait_kv", "loop", "exit"} /\ d.m = 0 /\ d.pc = 1
      BY <1>1, <1>2
    <3> HIDE DEF c, d
    <3>2. EndedCount(k, c, op) = 0 /\ Stored(k, c, which) = 0 BY <1>0, <3>1, NothingYet
    <3>3. EndedCount(k, d, op) = 0 /\ Stored(k, d, which) = 0 BY <1>0, <3>1, NothingYet
    <3> QED BY <3>2, <3>3 DEF c, d
  <2> HIDE DEF k
  <2> QED BY <1>2, <2>1
<1>4. SumsInv'
  <2>1. \A v \in WGs, op \in {"dk", "dv"} : mma'[v][op] = FirstTerms(k, EndedCount(k, mma[v], op))
    <3>1. \A v \in WGs, op \in {"dk", "dv"} : mma'[v][op] = mma[v][op] BY <1>2
    <3>2. \A v \in WGs, op \in {"dk", "dv"} : mma[v][op] = FirstTerms(k, EndedCount(k, mma[v], op))
      BY DEF GradientsInv, SumsInv
    <3>3. ASSUME NEW v \in WGs, NEW op \in {"dk", "dv"} PROVE mma'[v][op] = FirstTerms(k, EndedCount(k, mma[v], op))
      <4>1. mma'[v][op] = mma[v][op] BY <3>1
      <4>2. mma[v][op] = FirstTerms(k, EndedCount(k, mma[v], op)) BY <3>2
      <4> QED BY ONLY <4>1, <4>2
    <3> QED BY <3>3
  <2>2. ASSUME NEW v \in WGs, NEW op \in {"dk", "dv"} PROVE mma'[v][op] = FirstTerms(k, EndedCount(k, mma'[v], op))
    <3>1. EndedCount(k, mma'[v], op) = EndedCount(k, mma[v], op) BY <1>3
    <3>2. mma'[v][op] = FirstTerms(k, EndedCount(k, mma[v], op)) BY <2>1
    <3> QED BY ONLY <3>1, <3>2
  <2> QED BY <1>0, <2>2 DEF SumsInv
<1>5. AddedDq' = AddedDq
  <2>1. \A v \in WGs : Freed(v)' = Freed(v) BY DEF Freed
  <2>2. \A v \in WGs : DqTerms(v)' = DqTerms(v) BY <1>3, <2>1 DEF DqTerms
  <2> QED BY <1>0, <2>2 DEF AddedDq
<1>6. \A which \in {"dk", "dv"} : Stores(which)' = Stores(which)
  <2>1. k.wgs \in {2, 3} /\ Leader(k) \in WGs /\ 0 \in WGs /\ 1 \in WGs /\ (k.wgs = 3 => 2 \in WGs)
    BY <1>0, KernelTypes, GroupsOf DEF WGs
  <2> QED BY <1>3, <2>1 DEF Stores
<1>7. Tiles(Stores("dk"))' = Tiles(Stores("dk")) /\ Tiles(Stores("dv"))' = Tiles(Stores("dv"))
  BY <1>0, <1>6 DEF Tiles
<1> QED BY <1>4, <1>5, <1>7 DEF GradientsInv

\* Calls of the warpgroups G: what they add up.
LEMMA SumsStep ==
  ASSUME IInv, GradientsInv, NEW G \in SUBSET WGs, NEW x, \A w \in G : Does(w, x), Proceed(G), kernel' = kernel
  PROVE  SumsInv'
<1>1. /\ kernel \in CtaKernels /\ WGs' = WGs
      /\ \A w \in WGs : Place(kernel, w, mma[w])
  BY InvFacts DEF WGs
<1>2. \A w \in G : mma[w].at \in {"loop", "epilogue"} BY DEF Does
<1>3. \A w \in WGs : mma'[w] = IF w \in G THEN AfterCall(w) ELSE mma[w] BY DEF Proceed
<1>4. ASSUME NEW w \in WGs, NEW op \in {"dk", "dv"}
      PROVE  mma'[w][op] = FirstTerms(kernel, EndedCount(kernel, mma'[w], op))
  <2>1. mma[w][op] = FirstTerms(kernel, EndedCount(kernel, mma[w], op))
    BY DEF GradientsInv, SumsInv
  <2>2. CASE w \in G
    <3>1. AfterCall(w)[op] = FirstTerms(kernel, EndedCount(kernel, AfterCall(w), op))
      BY <1>1, <1>2, <2>1, <2>2, CallSums
    <3> QED BY <1>3, <2>2, <3>1
  <2>3. CASE w \notin G BY <1>3, <2>1, <2>3
  <2> QED BY <2>2, <2>3
<1> QED BY <1>1, <1>4 DEF SumsInv

LEMMA AddedDqStep ==
  ASSUME IInv, NEW G \in SUBSET WGs, NEW x, Goes(G, x), x # "nothing", dq_warp' = dq_warp, x # "dq" \/ ~kernel.Slice_dQKV_Mma
  PROVE  AddedDq' = AddedDq
<1>1. kernel \in CtaKernels /\ WGs = Groups(kernel) /\ WGs' = WGs /\ kernel' = kernel
  BY InvFacts, EachGoes
<1>2. \A v \in WGs : Freed(v)' = Freed(v) BY DEF Freed
<1>3. ASSUME NEW v \in WGs PROVE DqTerms(v)' = DqTerms(v)
  <2>1. CASE ~kernel.Slice_dQKV_Mma BY <1>1, <1>2, <2>1 DEF DqTerms
  <2>2. CASE kernel.Slice_dQKV_Mma /\ v \in G
    <3> DEFINE c == mma[v]
               d == mma'[v]
    <3>1. OneGoes(kernel, v, c, d, x) BY <2>2, EachGoes
    <3> HIDE DEF c, d
    <3>0. DqCountGoes(kernel, c, d, x) BY <1>1, <2>2, <3>1, DqCountStep
    <3>2. EndedCount(kernel, d, "dq") = EndedCount(kernel, c, "dq") + 0 /\ EndedCount(kernel, c, "dq") \in Nat
      BY <2>2, <3>0 DEF DqCountGoes
    <3>3. EndedCount(kernel, d, "dq") = EndedCount(kernel, c, "dq") BY <3>2
    <3> QED BY <1>1, <2>2, <3>3 DEF DqTerms, c, d
  <2>3. CASE kernel.Slice_dQKV_Mma /\ v \notin G
    <3>1. mma'[v] = mma[v] BY <2>3, EachGoes
    <3> QED BY <1>1, <2>3, <3>1 DEF DqTerms
  <2> QED BY <2>1, <2>2, <2>3
<1> QED BY <1>1, <1>3 DEF AddedDq

\* A call that neither adds dQ nor ends a store.
LEMMA GoesSums ==
  ASSUME IInv, GradientsInv, NEW G \in SUBSET WGs, NEW x, \A w \in G : Does(w, x), Proceed(G), kernel' = kernel,
         dq_warp' = dq_warp, added' = added, x \notin {"nothing", "stored", "copy"}, x # "dq" \/ ~kernel.Slice_dQKV_Mma
  PROVE  GradientsInv'
<1>1. Goes(G, x) BY ProceedGoes
<1>2. SumsInv' BY SumsStep
<1>3. AddedDq' = AddedDq BY <1>1, AddedDqStep
<1>4. Stores("dk")' = Stores("dk") /\ Stores("dv")' = Stores("dv") BY <1>1, StoresStep
<1>5. WGs' = WGs /\ AllTerms' = AllTerms BY DEF WGs, AllTerms
<1>6. Tiles(Stores("dk"))' = Tiles(Stores("dk")) /\ Tiles(Stores("dv"))' = Tiles(Stores("dv"))
  BY <1>4, <1>5 DEF Tiles
<1> QED BY <1>2, <1>3, <1>6 DEF GradientsInv

LEMMA CopyDqSums ==
  ASSUME IInv, GradientsInv, CopyDq
  PROVE  GradientsInv'
<1>1. \A v \in WGs : Freed(v)' = Freed(v) BY CopyDqMoves
<1>2. kernel' = kernel /\ mma' = mma /\ added' = added BY DEF CopyDq
<1> QED BY <1>1, <1>2, SameSums

TermsOfAll(k, W, F) == [v \in W |-> FirstTerms(k, F[v])]
OneMore(k, W, w, F, H, m, slice) == TermsOfAll(k, W, H) = [TermsOfAll(k, W, F) EXCEPT ![w] = Append(@, <<m, slice>>)]

\* One more term of one warpgroup's dQ.
LEMMA OneMoreDq ==
  ASSUME NEW k \in CtaKernels, NEW W, NEW w \in W, NEW F, NEW H, NEW m \in Nat, NEW slice \in {0, 1},
         ~k.Slice_dQKV_Mma => slice = 0, F[w] = TermCount(k, m, slice), H[w] = F[w] + 1,
         \A v \in W : v # w => H[v] = F[v]
  PROVE  OneMore(k, W, w, F, H, m, slice)
<1> DEFINE n == F[w]
<1>1. n = TermCount(k, m, slice) OBVIOUS
<1>2. H[w] = n + 1 OBVIOUS
<1> HIDE DEF n
<1>3. Append(FirstTerms(k, n), <<m, slice>>) = FirstTerms(k, n + 1) BY <1>1, NextTerm
<1>4. FirstTerms(k, H[w]) = Append(FirstTerms(k, F[w]), <<m, slice>>) BY <1>2, <1>3 DEF n
<1> QED BY <1>4 DEF TermsOfAll, OneMore

LEMMA CopiedDqSums ==
  ASSUME IInv, GradientsInv, CopiedDq
  PROVE  GradientsInv'
<1> DEFINE w == dq_warp.wg
<1>1. /\ DqWarpAt("wait") /\ kernel' = kernel /\ mma' = mma
      /\ added' = [added EXCEPT !.dq[w] = Append(@, <<smem.dq[w], 0>>)]
  BY DEF CopiedDq
<1>2. ~kernel.Slice_dQKV_Mma BY <1>1 DEF DqWarpAt
<1>3. w \in WGs /\ dq_warp.m \in Nat /\ kernel \in CtaKernels BY <1>2, DqFacts, InvFacts
<1>4. smem.dq[w] = dq_warp.m
  <2>1. w >= w BY <1>3 DEF WGs
  <2> QED BY <1>1, <1>3, <2>1, DqIntact
<1>5. /\ \A v \in WGs : Freed(v)' = Freed(v) + (IF v = w THEN 1 ELSE 0)
      /\ Freed(w) = dq_warp.m
      /\ \A v \in WGs : Freed(v) \in Nat
  BY <1>2, CopiedDqMoves, DqFacts
<1>6. WGs' = WGs /\ AllTerms' = AllTerms BY <1>1 DEF WGs, AllTerms
<1>7. AddedDq' = [AddedDq EXCEPT ![w] = Append(@, <<smem.dq[w], 0>>)]
  <2> DEFINE F == [v \in WGs |-> Freed(v)]
             H == [v \in WGs |-> Freed(v)']
  <2>1. AddedDq = TermsOfAll(kernel, WGs, F) BY <1>2 DEF AddedDq, DqTerms, TermsOfAll
  <2>2. AddedDq' = TermsOfAll(kernel, WGs, H)
    BY <1>1, <1>2, <1>6 DEF AddedDq, DqTerms, TermsOfAll
  <2>3. F[w] = TermCount(kernel, dq_warp.m, 0) /\ H[w] = F[w] + 1 /\ \A v \in WGs : v # w => H[v] = F[v]
    BY <1>2, <1>3, <1>5 DEF TermCount
  <2> HIDE DEF F, H, w
  <2>4. OneMore(kernel, WGs, w, F, H, dq_warp.m, 0)
    <3>1. (0 \in {0, 1}) /\ (~kernel.Slice_dQKV_Mma => 0 = 0) OBVIOUS
    <3> QED BY <1>3, <2>3, <3>1, OneMoreDq
  <2> QED BY <1>4, <2>1, <2>2, <2>4 DEF OneMore
<1>8. /\ added' = [dq |-> AddedDq', dk |-> added.dk, dv |-> added.dv]
      /\ added.dk = Tiles(Stores("dk")) /\ added.dv = Tiles(Stores("dv"))
  BY <1>1, <1>7 DEF GradientsInv
<1>9. Tiles(Stores("dk"))' = Tiles(Stores("dk")) /\ Tiles(Stores("dv"))' = Tiles(Stores("dv"))
  BY <1>1, <1>6 DEF Tiles, Stores
<1>10. SumsInv' BY <1>1, <1>6 DEF GradientsInv, SumsInv
<1> QED BY <1>8, <1>9, <1>10 DEF GradientsInv

LEMMA AtomicAddDqSums ==
  ASSUME IInv, GradientsInv, NEW w \in WGs, AtomicAddDq(w)
  PROVE  GradientsInv'
<1> DEFINE c == mma[w]
           k == kernel
<1>1. /\ Does(w, "dq") /\ k.Slice_dQKV_Mma /\ Proceed({w}) /\ kernel' = kernel /\ dq_warp' = dq_warp
      /\ added' = [added EXCEPT !.dq[w] = Append(@, DqDone(w))]
  BY DEF AtomicAddDq
<1>2. Goes({w}, "dq")
  <2>1. {w} \in SUBSET WGs /\ \A v \in {w} : Does(v, "dq") BY <1>1
  <2> QED BY <1>1, <2>1, ProceedGoes
<1>3. k \in CtaKernels /\ WGs = Groups(k) /\ Place(k, w, c) /\ WGs' = WGs /\ k' = k /\ AllTerms' = AllTerms
  BY <1>1, InvFacts DEF WGs, AllTerms
<1>4. OneGoes(k, w, c, mma'[w], "dq") /\ \A v \in WGs : v # w => mma'[v] = mma[v]
  <2>1. {w} \in SUBSET WGs OBVIOUS
  <2> QED BY <1>2, <2>1, EachGoes
<1>5. /\ EndedCount(k, mma'[w], "dq") = EndedCount(k, c, "dq") + 1
      /\ c.at = "loop"
      /\ \E slice \in {0, 1} : EndedAt(k, c.pc, "dq") = {slice} /\ EndedCount(k, c, "dq") = 2 * c.m + slice
  <2>1. w \in Groups(k) BY <1>3
  <2> DEFINE d == mma'[w]
  <2> HIDE DEF c, d, k
  <2>2. "dq" # "nothing" OBVIOUS
  <2>3. k \in CtaKernels /\ OneGoes(k, w, c, d, "dq") /\ k.Slice_dQKV_Mma
    BY <1>1, <1>3, <1>4 DEF d, k
  <2>4. DqCountGoes(k, c, d, "dq") BY <2>1, <2>2, <2>3, DqCountStep
  <2> QED BY <2>4 DEF DqCountGoes, d
<1>6. PICK slice \in {0, 1} : EndedAt(k, c.pc, "dq") = {slice} /\ EndedCount(k, c, "dq") = 2 * c.m + slice
  BY <1>5
<1>7. DqDone(w) = <<c.m, slice>>
  <2>1. IsTerms(Terms(w, CallOf(w), "dq"), EndedAt(k, c.pc, "dq"), c.m) BY <1>3, <1>5, LoopTerms
  <2>2. Terms(w, CallOf(w), "dq") = << <<c.m, slice>> >> BY <1>6, <2>1 DEF IsTerms
  <2> QED BY <2>2 DEF DqDone
<1>8. AddedDq' = [AddedDq EXCEPT ![w] = Append(@, DqDone(w))]
  <2> DEFINE F == [v \in WGs |-> EndedCount(k, mma[v], "dq")]
             H == [v \in WGs |-> EndedCount(k, mma'[v], "dq")]
  <2>1. AddedDq = TermsOfAll(k, WGs, F) BY <1>1 DEF AddedDq, DqTerms, TermsOfAll
  <2>2. AddedDq' = TermsOfAll(k, WGs, H) BY <1>1, <1>3 DEF AddedDq, DqTerms, TermsOfAll
  <2>3. F[w] = TermCount(k, c.m, slice) /\ H[w] = F[w] + 1 /\ \A v \in WGs : v # w => H[v] = F[v]
    BY <1>1, <1>4, <1>5, <1>6 DEF TermCount
  <2>4. c.m \in Nat BY <1>3 DEF Place
  <2> HIDE DEF F, H, c, k
  <2>5. OneMore(k, WGs, w, F, H, c.m, slice) BY <1>1, <1>3, <2>3, <2>4, OneMoreDq
  <2> QED BY <1>7, <2>1, <2>2, <2>5 DEF OneMore
<1>9. /\ added' = [dq |-> AddedDq', dk |-> added.dk, dv |-> added.dv]
      /\ added.dk = Tiles(Stores("dk")) /\ added.dv = Tiles(Stores("dv"))
  BY <1>1, <1>8 DEF GradientsInv
<1>10. Stores("dk")' = Stores("dk") /\ Stores("dv")' = Stores("dv")
  <2>1. {w} \in SUBSET WGs OBVIOUS
  <2> QED BY <1>2, <2>1, StoresStep
<1>11. Tiles(Stores("dk"))' = Tiles(Stores("dk")) /\ Tiles(Stores("dv"))' = Tiles(Stores("dv"))
  BY <1>3, <1>10 DEF Tiles
<1>12. SumsInv'
  <2>1. {w} \in SUBSET WGs /\ \A v \in {w} : Does(v, "dq") BY <1>1
  <2> QED BY <1>1, <2>1, SumsStep
<1> QED BY <1>9, <1>11, <1>12 DEF GradientsInv

LEMMA AllTermsAre ==
  ASSUME kernel \in CtaKernels
  PROVE  AllTerms = FirstTerms(kernel, IF kernel.Slice_dQKV_Mma THEN 2 * kernel.blocks ELSE kernel.blocks)
<1>1. CASE kernel.Slice_dQKV_Mma BY <1>1 DEF AllTerms, FirstTerms, TermAt
<1>2. CASE ~kernel.Slice_dQKV_Mma BY <1>2 DEF AllTerms, FirstTerms, TermAt
<1> QED BY <1>1, <1>2

\* Once all are in the epilogue, every warpgroup has all of dK and dV.
LEMMA PartsWhole ==
  ASSUME IInv, GradientsInv, \A v \in WGs : InEpilogue(mma[v]), NEW which \in {"dk", "dv"}
  PROVE  Parts(which) = [w \in WGs |-> AllTerms]
<1>1. kernel \in CtaKernels /\ \A v \in WGs : Place(kernel, v, mma[v]) BY InvFacts
<1>2. ASSUME NEW v \in WGs PROVE mma[v][which] = AllTerms
  <2> DEFINE c == mma[v]
             n == EndedCount(kernel, mma[v], which)
  <2>1. c[which] = FirstTerms(kernel, n) BY DEF GradientsInv, SumsInv
  <2>2. c.m = kernel.blocks /\ c.at # "loop"
    <3>1. InEpilogue(c) BY <1>2
    <3> QED BY <1>1, <3>1 DEF Place, InEpilogue
  <2>3. n = IF kernel.Slice_dQKV_Mma THEN 2 * c.m ELSE c.m
    <3> HIDE DEF c
    <3> QED BY <1>1, <2>2, CountsOfTile DEF c
  <2>4. n = IF kernel.Slice_dQKV_Mma THEN 2 * kernel.blocks ELSE kernel.blocks BY <2>2, <2>3
  <2> HIDE DEF n
  <2> QED BY <1>1, <2>1, <2>4, AllTermsAre
<1> QED BY <1>2 DEF Parts

LEMMA NextTile ==
  ASSUME NEW n \in Nat
  PROVE  Append(Tiles(n), [w \in WGs |-> AllTerms]) = Tiles(n + 1)
<1> DEFINE t == [w \in WGs |-> AllTerms]
           s == [i \in 1 .. n |-> t]
           r == [i \in 1 .. n + 1 |-> t]
           a == Append(s, t)
<1>1. s = Tiles(n) /\ r = Tiles(n + 1) BY DEF Tiles
<1> HIDE DEF t
<1>2. s \in [1 .. n -> {t}] /\ r \in [1 .. n + 1 -> {t}] /\ n + 1 \in Nat OBVIOUS
<1> HIDE DEF s, r
<1>3. s \in Seq({t}) /\ Len(s) = n /\ r \in Seq({t}) /\ Len(r) = n + 1 BY <1>2
<1>4. a \in Seq({t}) /\ Len(a) = n + 1 BY <1>3, AppendProperties
<1> HIDE DEF a
<1>5. \A i \in 1 .. n + 1 : a[i] \in {t} /\ r[i] \in {t} BY <1>3, <1>4, ElementOfSeq
<1>6. \A i \in 1 .. n + 1 : a[i] = r[i] BY <1>5
<1>7. a = r BY <1>3, <1>4, <1>6, SeqEqual
<1> QED BY <1>1, <1>7 DEF a, t

LEMMA StoredDkvTileSums ==
  ASSUME IInv, GradientsInv, NEW w \in WGs, StoredDkvTile(w)
  PROVE  GradientsInv'
<1> DEFINE c == mma[w]
           k == kernel
           tile == [v \in WGs |-> AllTerms]
<1>1. PICK x \in {"stored", "copy"} :
        /\ Does(w, x) /\ Proceed({w}) /\ kernel' = kernel /\ dq_warp' = dq_warp
        /\ x = "stored" => added' = WithStored(smem.storing)
        /\ x = "copy" => added' = WithStored(Together)
  BY DEF StoredDkvTile
<1>2. {w} \in SUBSET WGs /\ (\A v \in {w} : Does(v, x)) /\ x # "nothing" /\ x # "dq" BY <1>1
<1>3. Goes({w}, x) BY <1>1, <1>2, ProceedGoes
<1>4. /\ k \in CtaKernels /\ WGs = Groups(k) /\ WGs' = WGs /\ k' = k /\ AllTerms' = AllTerms
      /\ smem.dkv = [v \in WGs |-> Written(k, v, mma[v])]
  BY <1>1, InvFacts DEF WGs, AllTerms, EpilogueInv
<1>5. OneGoes(k, w, c, mma'[w], x) BY <1>2, <1>3, EachGoes
<1>6. /\ c.at = "epilogue" /\ c.pc > 3 /\ (x = "copy" => k.epilogue = "varlen" /\ c.pc = 4)
      /\ x = "stored" => k.epilogue # "varlen"
  <2> DEFINE d == mma'[w]
  <2>1. w \in Groups(k) /\ "dk" \in {"dk", "dv"} BY <1>4
  <2> HIDE DEF c, d, k
  <2>2. /\ x = "stored" => c.at = "epilogue" /\ k.epilogue # "varlen" /\ c.pc > 3
        /\ x = "copy" => c.at = "epilogue" /\ k.epilogue = "varlen" /\ c.pc = 4
    BY <1>2, <1>4, <1>5, <2>1, StoredStep DEF d
  <2> QED BY <1>1, <2>2
<1>7. Round(k, w, c) = <<c.m, EpilogueSyncs(k, w, c.pc)>>
  <2>1. ~Past(c, DsShared(k)) /\ InEpilogue(c) BY <1>6 DEF Past, InEpilogue
  <2> QED BY <2>1 DEF Round
<1>8. /\ EpilogueSyncs(k, w, c.pc) > 0 /\ (x = "copy" => EpilogueSyncs(k, w, c.pc) = 2)
  <2>1. k.epilogue \in {"tma", "varlen", "gqa"} /\ c.pc \in Nat
    BY <1>4, InvFacts, KernelTypes DEF Place
  <2>2. CASE k.epilogue = "tma" BY <1>6, <2>1, <2>2 DEF EpilogueSyncs
  <2>3. CASE k.epilogue = "varlen" BY <1>6, <2>1, <2>3 DEF EpilogueSyncs
  <2>4. CASE k.epilogue = "gqa"
    <3>1. EpilogueSyncs(k, w, c.pc) \in {2, 3, 4} BY <1>6, <2>1, <2>4 DEF EpilogueSyncs
    <3> QED BY <1>6, <2>4, <3>1
  <2> QED BY <2>1, <2>2, <2>3, <2>4
<1>9. \A v \in WGs : InEpilogue(mma[v]) /\ Round(k, v, mma[v]) = Round(k, w, c)
  <2>1. Round(k, w, c)[2] > 0 BY <1>7, <1>8
  <2> QED BY <1>6, <2>1, AllInEpilogue
<1>10. Parts("dk") = tile /\ Parts("dv") = tile BY <1>9, PartsWhole
<1>11. x = "copy" => Together = {"dk", "dv"}
  <2> SUFFICES ASSUME x = "copy", NEW v \in WGs PROVE smem.dkv[v] = {"dk", "dv"} BY DEF Together
  <2>1. InEpilogue(mma[v]) /\ Round(k, v, mma[v]) = <<c.m, 2>> /\ k.epilogue = "varlen"
    BY <1>6, <1>7, <1>8, <1>9
  <2>2. Round(k, v, mma[v]) = <<mma[v].m, EpilogueSyncs(k, v, mma[v].pc)>>
    <3>1. ~Past(mma[v], DsShared(k)) BY <2>1 DEF Past, InEpilogue
    <3> QED BY <2>1, <3>1 DEF Round
  <2>3. EpilogueSyncs(k, v, mma[v].pc) = 2 BY <2>1, <2>2
  <2>4. mma[v].pc \in Nat BY InvFacts DEF Place
  <2>5. mma[v].pc > 3 BY <2>1, <2>3, <2>4 DEF EpilogueSyncs
  <2>6. Written(k, v, mma[v]) = {"dk", "dv"} BY <2>1, <2>4, <2>5 DEF Written
  <2> QED BY <1>4, <2>6
<1>12. ASSUME NEW which \in {"dk", "dv"}
       PROVE  /\ Stores(which) \in Nat
              /\ x = "stored" => Stores(which)' = Stores(which) + Step(which \in smem.storing)
              /\ x = "copy" => Stores(which)' = Stores(which) + 1
  BY <1>2, <1>3, StoresStep
<1> DEFINE S == IF x = "stored" THEN smem.storing ELSE Together
<1>13. added' = WithStored(S) BY <1>1
<1>14. \A which \in {"dk", "dv"} :
         /\ Stores(which) \in Nat
         /\ which \in S => Stores(which)' = Stores(which) + 1
         /\ which \notin S => Stores(which)' = Stores(which)
  <2> TAKE which \in {"dk", "dv"}
  <2>1. CASE x = "stored"
    <3>1. Stores(which) \in Nat /\ Stores(which)' = Stores(which) + Step(which \in smem.storing)
      BY <1>12, <2>1
    <3> QED BY <2>1, <3>1 DEF Step
  <2>2. CASE x = "copy"
    <3>1. which \in S BY <1>11, <2>2
    <3> QED BY <1>12, <2>2, <3>1
  <2> QED BY <1>1, <2>1, <2>2
<1>15. AddedDq' = AddedDq BY <1>1, <1>2, <1>3, AddedDqStep
<1>16. SumsInv' BY <1>1, <1>2, SumsStep
<1> HIDE DEF S
<1>17. added = [dq |-> AddedDq, dk |-> Tiles(Stores("dk")), dv |-> Tiles(Stores("dv"))]
  BY DEF GradientsInv
<1>18. added' = [dq |-> AddedDq, dk |-> IF "dk" \in S THEN Append(Tiles(Stores("dk")), tile) ELSE Tiles(Stores("dk")),
                 dv |-> IF "dv" \in S THEN Append(Tiles(Stores("dv")), tile) ELSE Tiles(Stores("dv"))]
  BY <1>10, <1>13, <1>17 DEF WithStored
<1>19. \A which \in {"dk", "dv"} :
         Tiles(Stores(which))' = IF which \in S THEN Append(Tiles(Stores(which)), tile) ELSE Tiles(Stores(which))
  <2>1. \A which \in {"dk", "dv"} : Tiles(Stores(which))' = Tiles(Stores(which)')
    BY <1>4 DEF Tiles
  <2>2. \A n \in Nat : Append(Tiles(n), tile) = Tiles(n + 1) BY NextTile
  <2> HIDE DEF tile
  <2> QED BY <1>14, <2>1, <2>2
<1>20. added' = [dq |-> AddedDq', dk |-> Tiles(Stores("dk"))', dv |-> Tiles(Stores("dv"))']
  BY <1>15, <1>18, <1>19
<1> QED BY <1>16, <1>20 DEF GradientsInv

\* The actions of a warpgroup that neither add dQ nor end a store.
LEMMA SyncAllSums ==
  ASSUME IInv, GradientsInv, NEW w \in WGs, SyncAll(w)
  PROVE  GradientsInv'
<1>1. PICK b \in {"PdS", "Epilogue"} :
        /\ Does(w, b) /\ Proceed(IF barriers[b] \cup {w} = WGs THEN WGs ELSE {})
        /\ kernel' = kernel /\ dq_warp' = dq_warp /\ added' = added
  BY DEF SyncAll
<1> DEFINE G == IF barriers[b] \cup {w} = WGs THEN WGs ELSE {}
<1>2. \A v \in barriers[b] \cup {w} : v \in WGs /\ Does(v, b)
  <2>1. ASSUME NEW v \in barriers[b] PROVE v \in WGs /\ Does(v, b)
    <3>1. v \in WGs /\ Doing(kernel, v, mma[v]) = b BY InvFacts DEF SyncInv
    <3>2. mma[v].at \in {"loop", "epilogue"} BY <3>1 DEF Doing
    <3> QED BY <3>1, <3>2, InvFacts, Doings DEF Does
  <2> QED BY <1>1, <2>1
<1>3. G \in SUBSET WGs /\ \A v \in G : Does(v, b) BY <1>2
<1>4. Proceed(G) /\ b \notin {"nothing", "stored", "copy", "dq"} BY <1>1
<1> HIDE DEF G
<1> QED BY <1>1, <1>3, <1>4, GoesSums

LEMMA OneSums ==
  ASSUME IInv, GradientsInv, NEW w \in WGs, NEW x, Does(w, x), Proceed({w}), kernel' = kernel, dq_warp' = dq_warp, added' = added,
         x \notin {"nothing", "stored", "copy"}, x # "dq" \/ ~kernel.Slice_dQKV_Mma
  PROVE  GradientsInv'
<1>1. {w} \in SUBSET WGs /\ \A v \in {w} : Does(v, x) OBVIOUS
<1> QED BY <1>1, GoesSums

LEMMA WarpGroupSums ==
  ASSUME IInv, GradientsInv, NEW w \in WGs, MmaWarpGroup(w)
  PROVE  GradientsInv'
<1>1. CASE MmaInit(w)
  <2> DEFINE at == IF kernel.blocks = 0 THEN "exit" ELSE "wait_kv"
  <2>1. /\ mma[w].at = "init" /\ mma' = [mma EXCEPT ![w].at = at]
        /\ kernel' = kernel /\ dq_warp' = dq_warp /\ added' = added
    BY <1>1 DEF MmaInit
  <2>2. at \in {"wait_kv", "loop", "exit"} OBVIOUS
  <2> HIDE DEF at
  <2> QED BY <2>1, <2>2, EntersSums
<1>2. CASE WaitKV(w)
  <2>1. /\ mma[w].at = "wait_kv" /\ mma' = [mma EXCEPT ![w].at = "loop"]
        /\ kernel' = kernel /\ dq_warp' = dq_warp /\ added' = added
    BY <1>2 DEF WaitKV
  <2> QED BY <2>1, EntersSums
<1>3. CASE ReadStage(w)
  <2>1. PICK x \in {"q", "do", "none"} : Does(w, x) BY <1>3 DEF ReadStage
  <2>2. Proceed({w}) /\ kernel' = kernel /\ dq_warp' = dq_warp /\ added' = added
    BY <1>3 DEF ReadStage
  <2>3. x \notin {"nothing", "stored", "copy", "dq"} OBVIOUS
  <2> QED BY <2>1, <2>2, <2>3, OneSums
<1>4. CASE ReleaseStage(w)
  <2>1. PICK x \in {"release_q", "release_do"} : Does(w, x) BY <1>4 DEF ReleaseStage
  <2>2. Proceed({w}) /\ kernel' = kernel /\ dq_warp' = dq_warp /\ added' = added
    BY <1>4 DEF ReleaseStage
  <2>3. x \notin {"nothing", "stored", "copy", "dq"} OBVIOUS
  <2> QED BY <2>1, <2>2, <2>3, OneSums
<1>5. CASE SyncAll(w) BY <1>5, SyncAllSums
<1>6. CASE WritePdS(w)
  <2>1. PICK x \in {"p", "ds"} : Does(w, x) BY <1>6 DEF WritePdS
  <2>2. Proceed({w}) /\ kernel' = kernel /\ dq_warp' = dq_warp /\ added' = added
    BY <1>6 DEF WritePdS
  <2>3. x \notin {"nothing", "stored", "copy", "dq"} OBVIOUS
  <2> QED BY <2>1, <2>2, <2>3, OneSums
<1>7. CASE WriteDq(w)
  <2>1. Does(w, "dq") /\ ~kernel.Slice_dQKV_Mma BY <1>7 DEF WriteDq
  <2>2. Proceed({w}) /\ kernel' = kernel /\ dq_warp' = dq_warp /\ added' = added
    BY <1>7 DEF WriteDq
  <2>3. "dq" \notin {"nothing", "stored", "copy"} OBVIOUS
  <2> QED BY <2>1, <2>2, <2>3, OneSums
<1>8. CASE AtomicAddDq(w) BY <1>8, AtomicAddDqSums
<1>9. CASE WriteDkv(w)
  <2>1. PICK which \in {{"dk"}, {"dv"}, {"dk", "dv"}} : Does(w, IF which = {"dk", "dv"} THEN "dkv" ELSE CHOOSE x \in which : TRUE)
    BY <1>9 DEF WriteDkv
  <2> DEFINE y == IF which = {"dk", "dv"} THEN "dkv" ELSE CHOOSE x \in which : TRUE
  <2>2. y \in {"dkv", "dk", "dv"}
    <3>1. (CHOOSE x \in {"dk"} : TRUE) = "dk" /\ (CHOOSE x \in {"dv"} : TRUE) = "dv" OBVIOUS
    <3> QED BY <3>1
  <2>3. Proceed({w}) /\ kernel' = kernel /\ dq_warp' = dq_warp /\ added' = added
    BY <1>9 DEF WriteDkv
  <2>4. Does(w, y) BY <2>1
  <2> HIDE DEF y
  <2>5. y \notin {"nothing", "stored", "copy", "dq"} BY <2>2
  <2> QED BY <2>3, <2>4, <2>5, OneSums
<1>10. CASE StoreDkvTile(w)
  <2>1. PICK x \in {"written", "store"} : Does(w, x) BY <1>10 DEF StoreDkvTile
  <2>2. Proceed({w}) /\ kernel' = kernel /\ dq_warp' = dq_warp /\ added' = added
    BY <1>10 DEF StoreDkvTile
  <2>3. x \notin {"nothing", "stored", "copy", "dq"} OBVIOUS
  <2> QED BY <2>1, <2>2, <2>3, OneSums
<1>11. CASE StoredDkvTile(w) BY <1>11, StoredDkvTileSums
<1> QED BY <1>1, <1>2, <1>3, <1>4, <1>5, <1>6, <1>7, <1>8, <1>9, <1>10, <1>11 DEF MmaWarpGroup

LEMMA NextSums ==
  ASSUME IInv, GradientsInv, [CtaNext]_ctaVars
  PROVE  GradientsInv'
<1>1. CASE \/ LoadQuery \/ LoadKV \/ LoadDo \/ LoaderTail \/ LandKV \/ (\E s \in QPipe!Stages : LandQuery(s))
           \/ (\E s \in DoPipe!Stages : LandDo(s)) \/ UNCHANGED ctaVars
  <2>1. kernel' = kernel /\ mma' = mma /\ dq_warp' = dq_warp /\ added' = added
    BY <1>1 DEF LoadQuery, LoadKV, LoadDo, LoaderTail, LandKV, LandQuery, LandDo, ctaVars
  <2>2. \A v \in WGs : Freed(v)' = Freed(v) BY <2>1 DEF Freed
  <2> QED BY <2>1, <2>2, SameSums
<1>2. CASE CopyDq BY <1>2, CopyDqSums
<1>3. CASE CopiedDq BY <1>3, CopiedDqSums
<1>4. ASSUME NEW w \in WGs, MmaWarpGroup(w) PROVE GradientsInv' BY <1>4, WarpGroupSums
<1> QED BY <1>1, <1>2, <1>3, <1>4 DEF CtaNext

LEMMA InitSums ==
  ASSUME CtaInit
  PROVE  GradientsInv
<1> DEFINE k == kernel
<1>1. /\ k \in CtaKernels /\ WGs = Groups(k)
      /\ \A w \in WGs : mma[w].at = "init" /\ mma[w].m = 0 /\ mma[w].pc = 1 /\ mma[w].dk = << >> /\ mma[w].dv = << >>
      /\ dq_warp = [m |-> 0, wg |-> 0, at |-> "copy"]
      /\ added = [dq |-> [w \in WGs |-> << >>], dk |-> << >>, dv |-> << >>]
  BY GroupsOf DEF CtaInit
<1>2. \A w \in WGs, op \in {"dq", "dk", "dv"}, which \in {"dk", "dv"} :
        EndedCount(k, mma[w], op) = 0 /\ Stored(k, mma[w], which) = 0
  <2> TAKE w \in WGs, op \in {"dq", "dk", "dv"}, which \in {"dk", "dv"}
  <2> DEFINE c == mma[w]
  <2>1. c.at \in {"init", "wait_kv", "loop", "exit"} /\ c.m = 0 /\ c.pc = 1 BY <1>1
  <2> HIDE DEF c, k
  <2> QED BY <1>1, <2>1, NothingYet DEF c
<1>3. FirstTerms(k, 0) = << >> BY <1>1, NoTerms
<1>4. SumsInv
  <2>1. \A w \in WGs, op \in {"dk", "dv"} : mma[w][op] = << >> BY <1>1
  <2> QED BY <1>2, <1>3, <2>1 DEF SumsInv
<1>5. AddedDq = [w \in WGs |-> << >>]
  <2>1. \A w \in WGs : w \in Nat BY DEF WGs
  <2>2. \A w \in WGs : Freed(w) = 0 BY <1>1, <2>1 DEF Freed
  <2>3. \A w \in WGs : DqTerms(w) = 0 BY <1>2, <2>2 DEF DqTerms
  <2> QED BY <1>3, <2>3 DEF AddedDq
<1>6. \A which \in {"dk", "dv"} : Stores(which) = 0
  <2>1. k.wgs \in {2, 3} /\ Leader(k) \in WGs /\ 0 \in WGs /\ 1 \in WGs /\ (k.wgs = 3 => 2 \in WGs)
    BY <1>1, KernelTypes, GroupsOf DEF WGs
  <2>2. \A which \in {"dk", "dv"}, w \in WGs : Stored(k, mma[w], which) = 0 BY <1>2
  <2> QED BY <2>1, <2>2 DEF Stores
<1>7. Tiles(0) = << >>
  <2>1. 1 .. 0 = {} OBVIOUS
  <2> QED BY <2>1 DEF Tiles
<1> QED BY <1>1, <1>4, <1>5, <1>6, <1>7 DEF GradientsInv

\* A warpgroup that has ended has stored its tile, if there was one.
LEMMA ExitStored ==
  ASSUME NEW k \in CtaKernels, NEW w \in Groups(k), NEW c, Place(k, w, c), c.at = "exit", NEW which \in {"dk", "dv"},
         w = Leader(k) \/ k.epilogue = "varlen"
  PROVE  Stored(k, c, which) = IF k.blocks = 0 THEN 0 ELSE 1
<1>1. c.pc = (IF k.blocks = 0 THEN 1 ELSE EpilogueLen(k, w) + 1) /\ InEpilogue(c)
  BY DEF Place, InEpilogue
<1>2. k.epilogue \in {"tma", "varlen", "gqa"} BY KernelTypes
<1>3. /\ k.epilogue = "tma" => EpilogueLen(k, w) = 4
      /\ k.epilogue = "varlen" => EpilogueLen(k, w) = 4
      /\ k.epilogue = "gqa" => EpilogueLen(k, w) = 10
  <2>1. CASE k.epilogue = "tma" BY <2>1 DEF EpilogueLen, EpilogueDoes
  <2>2. CASE k.epilogue = "varlen" BY <2>2 DEF EpilogueLen, EpilogueDoes
  <2>3. CASE k.epilogue = "gqa" BY <2>3 DEF EpilogueLen, EpilogueDoes
  <2> QED BY <1>2, <2>1, <2>2, <2>3
<1>4. StoredAt(k, which) \in {4, 5, 10} /\ StoredAt(k, which) <= EpilogueLen(k, w)
  BY <1>2, <1>3 DEF StoredAt
<1>5. EpilogueLen(k, w) \in {4, 10} BY <1>2, <1>3
<1>6. c.pc > StoredAt(k, which) <=> k.blocks # 0 BY <1>1, <1>4, <1>5
<1> QED BY <1>1, <1>6 DEF Stored, Step

\* The dQ warp has gone through all blocks, and no warpgroup through more.
LEMMA ExitFreed ==
  ASSUME IInv, Exited, ~kernel.Slice_dQKV_Mma, NEW w \in WGs
  PROVE  Freed(w) = kernel.blocks
<1>1. /\ dq_warp.m \in Nat /\ barriers.dQFull[w] \in {0, 1} /\ DqCounts(w) /\ kernel.blocks \in Nat
  BY DqFacts, InvFacts
<1>2. mma[w].at = "exit" /\ dq_warp.m > kernel.blocks - 1 BY DEF Exited, LastM
<1>3. WrittenDq(kernel, mma[w]) = kernel.blocks
  <2>1. mma[w].m = kernel.blocks BY <1>2, InvFacts DEF Place, InEpilogue
  <2>2. ~Past(mma[w], DsShared(kernel) + 3) BY <1>2 DEF Past
  <2> QED BY <1>1, <2>1, <2>2 DEF WrittenDq
<1>4. barriers.dQFull[w] = kernel.blocks - Copied(w) BY <1>1, <1>3 DEF DqCounts
<1>5. Copied(w) \in {dq_warp.m, dq_warp.m + 1} BY <1>1 DEF Copied
<1>6. Copied(w) = dq_warp.m /\ dq_warp.m = kernel.blocks BY <1>1, <1>2, <1>4, <1>5
<1>7. ~(dq_warp.at = "wait" /\ w < dq_warp.wg) BY <1>1, <1>6 DEF Copied
<1> QED BY <1>1, <1>6, <1>7 DEF Freed

LEMMA ExitSums ==
  ASSUME IInv, GradientsInv, Exited
  PROVE  GradientsOfTile
<1> DEFINE k == kernel
           stores == IF k.blocks = 0 THEN 0 ELSE IF k.epilogue = "varlen" THEN k.wgs ELSE 1
<1>1. /\ k \in CtaKernels /\ WGs = Groups(k)
      /\ \A w \in WGs : Place(k, w, mma[w]) /\ mma[w].at = "exit"
  BY InvFacts DEF Exited
<1>2. ASSUME NEW w \in WGs PROVE added.dq[w] = AllTerms
  <2>1. added.dq[w] = FirstTerms(k, DqTerms(w)) BY DEF GradientsInv, AddedDq
  <2>2. DqTerms(w) = IF k.Slice_dQKV_Mma THEN 2 * k.blocks ELSE k.blocks
    <3>1. CASE ~k.Slice_dQKV_Mma BY <3>1, ExitFreed DEF DqTerms
    <3>2. CASE k.Slice_dQKV_Mma
      <4> DEFINE c == mma[w]
      <4>1. c.at # "loop" /\ c.m = k.blocks BY <1>1 DEF Place, InEpilogue
      <4>2. Place(k, w, c) BY <1>1
      <4> HIDE DEF c, k
      <4>3. EndedCount(k, c, "dq") = IF k.Slice_dQKV_Mma THEN 2 * c.m ELSE c.m
        BY <1>1, <4>1, <4>2, CountsOfTile
      <4>4. EndedCount(k, c, "dq") = 2 * k.blocks BY <3>2, <4>1, <4>3
      <4> QED BY <3>2, <4>4 DEF DqTerms, c, k
    <3> QED BY <3>1, <3>2
  <2> QED BY <1>1, <2>1, <2>2, AllTermsAre
<1>3. ASSUME NEW which \in {"dk", "dv"} PROVE Stores(which) = stores
  <2> DEFINE one == IF k.blocks = 0 THEN 0 ELSE 1
  <2>1. k.wgs \in {2, 3} /\ Leader(k) \in WGs /\ 0 \in WGs /\ 1 \in WGs /\ (k.wgs = 3 => 2 \in WGs)
    BY <1>1, KernelTypes, GroupsOf DEF WGs
  <2>2. ASSUME NEW w \in WGs, w = Leader(k) \/ k.epilogue = "varlen" PROVE Stored(k, mma[w], which) = one
    <3> DEFINE c == mma[w]
    <3>1. Place(k, w, c) /\ c.at = "exit" /\ w \in Groups(k) BY <1>1
    <3> HIDE DEF c, k
    <3> QED BY <1>1, <2>2, <3>1, ExitStored DEF c
  <2> HIDE DEF one
  <2>3. CASE k.epilogue # "varlen"
    <3>1. Stores(which) = one BY <2>1, <2>2, <2>3 DEF Stores
    <3> QED BY <2>3, <3>1 DEF one
  <2>4. CASE k.epilogue = "varlen"
    <3>1. Stores(which) = one + one + (IF k.wgs = 3 THEN one ELSE 0)
      BY <2>1, <2>2, <2>4 DEF Stores
    <3>2. CASE k.blocks = 0 BY <3>1, <3>2 DEF one
    <3>3. CASE k.blocks # 0 BY <2>1, <2>4, <3>1, <3>3 DEF one
    <3> QED BY <3>2, <3>3
  <2> QED BY <2>3, <2>4
<1>4. added.dk = Tiles(stores) /\ added.dv = Tiles(stores)
  <2>1. added.dk = Tiles(Stores("dk")) /\ added.dv = Tiles(Stores("dv")) BY DEF GradientsInv
  <2>2. Stores("dk") = stores /\ Stores("dv") = stores BY <1>3
  <2> HIDE DEF stores
  <2> QED BY <2>1, <2>2
<1> QED BY <1>2, <1>4 DEF GradientsOfTile, Tiles

(* The safety part of CtaGradientsRight: when a CTA has ended, every part   *)
(* of dQ has been added once for every Q block, in order, and dK and dV     *)
(* have been stored once with all Q blocks in them (mma and store_dq of     *)
(* mainloop_bwd_sm90_tma_gmma_ws.hpp, store of epilogue_bwd.hpp), for every *)
(* kernel and any number of Q blocks.                                       *)
THEOREM EndedCtaAddsAll == CtaSpec => [](Exited => GradientsOfTile)
<1>1. CtaInit => GradientsInv BY InitSums
<1>2. IInv /\ GradientsInv /\ [CtaNext]_ctaVars => GradientsInv' BY NextSums
<1>3. IInv /\ GradientsInv => (Exited => GradientsOfTile) BY ExitSums
<1> QED BY <1>1, <1>2, <1>3, IInvAlways, PTL DEF CtaSpec
=============================================================================
