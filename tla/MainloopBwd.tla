----------------------------- MODULE MainloopBwd -----------------------------
(***************************************************************************)
(* One CTA of the Hopper backward kernel: the warp that loads, the MMA     *)
(* warpgroups, the warp that adds dQ to global memory, and the epilogue.   *)
(* For every Q block m the warpgroups issue five gemms, which go on while  *)
(* the warpgroup does; P, dS and dQ go from warpgroup to warpgroup, and    *)
(* to the dQ warp, through shared memory guarded by named barriers only.   *)
(*                                                                         *)
(* The kernels of the head dimensions differ in the stages of dO and dS,   *)
(* in which gemms take an operand from registers, and in the order of the  *)
(* gemms.  A warpgroup's calls are a sequence, Loop, that it goes through  *)
(* for every m.  A gemm reads its operands until the wait that ends it.    *)
(***************************************************************************)
EXTENDS Integers, Sequences

CONSTANT CtaKernels   \* the kernels to consider, with a tile's number of Q blocks

ASSUME CtaKernelsAssumption ==
  CtaKernels \subseteq
    [wgs : {2, 3}, kStages_dO : {1, 2}, kStages_dS : {1, 2}, Mma_dKV_is_RS : BOOLEAN, Mma_dP_is_RS : BOOLEAN,
     Slice_dQKV_Mma : BOOLEAN, epilogue : {"tma", "varlen", "gqa"}, blocks : Nat]

VARIABLES
  kernel,    \* the kernel, fixed
  loader,    \* the warp that loads
  mma,       \* the warpgroups
  dq_warp,   \* the warp that stores dQ
  q_pipe,    \* pipeline_q with smem_q and smem_lse
  do_pipe,   \* pipeline_do with smem_do and smem_dpsum
  smem,      \* K and V, P, dS, dQ; dK and dV of the epilogue over K and V
  barriers,  \* arrivals pending on the named barriers
  added      \* what has left the CTA

ctaVars == <<kernel, loader, mma, dq_warp, q_pipe, do_pipe, smem, barriers, added>>

Nil == -1
WGs == 0 .. kernel.wgs - 1
QPipe == INSTANCE TmaPipeline WITH kStages <- 2, Consumers <- WGs, NoBlock <- Nil
DoPipe == INSTANCE TmaPipeline WITH kStages <- kernel.kStages_dO, Consumers <- WGs, NoBlock <- Nil
LastM == kernel.blocks - 1

-----------------------------------------------------------------------------
\* A call of a warpgroup: what it does; before that, it waits until at most
\* `left` gemms are under way; after that, it issues a gemm, a slice of one.
Call(does, left, gemm) == [does |-> does, left |-> left, gemm |-> gemm]
NoWait == 9
PdSSync == <<Call("PdS", NoWait, <<>>)>>

\* P has been used in the previous iteration.
SyncBeforeP == IF kernel.kStages_dS = 1 THEN PdSSync ELSE << >>

\* P and dS are in registers: how they get to shared memory, up to the dV gemm.
ShareP == IF kernel.Mma_dKV_is_RS THEN << >> ELSE SyncBeforeP \o <<Call("p", NoWait, <<>>)>>

\* Mutant: dS is written while another warpgroup may still read the last one.
SyncBeforeDsNever == << >>

\* P has been written, and dS has been used in the previous iteration; with two
\* buffers for dS the sync at the end of an iteration does.
SyncBeforeDs == IF kernel.Mma_dKV_is_RS /\ kernel.kStages_dS = 2 THEN << >> ELSE PdSSync

Gradients ==
  << Call("none", NoWait, <<"dq", 0>>), Call("release_do", 1, <<"dk", 0>>), Call("dq", 1, <<>>) >>
SlicedGradients ==
  << Call("none", NoWait, <<"dq", 0>>), Call("none", NoWait, <<"dv", 1>>), Call("dq", 1, <<"dk", 0>>),
     Call("release_do", 1, <<"dq", 1>>), Call("dq", 0, <<"dk", 1>>) >>

\* bwd_step.
Loop ==
  << Call("q", NoWait, <<"s", 0>>), Call("do", NoWait, <<"dp", 0>>), Call("none", 0, <<>>) >>
  \o ShareP \o SyncBeforeDs \o <<Call("ds", NoWait, <<"dv", 0>>)>> \o PdSSync
  \o (IF kernel.Slice_dQKV_Mma THEN SlicedGradients ELSE Gradients)
  \o <<Call("release_q", 0, <<>>)>>

\* store: one thread stores for all with TMA; each for itself without.
Epilogue(w) ==
  LET sync == <<Call("Epilogue", NoWait, <<>>)>>
      does(call) == <<Call(call, NoWait, <<>>)>>
      leader(calls) == IF w = (IF kernel.epilogue = "gqa" THEN 0 ELSE kernel.wgs - 1) THEN calls ELSE << >>
  IN  CASE kernel.epilogue = "tma" -> sync \o does("dkv") \o leader(does("written") \o does("stored"))
        [] kernel.epilogue = "varlen" -> sync \o does("dkv") \o sync \o does("copy")
        [] kernel.epilogue = "gqa" ->
             sync \o does("dv") \o sync \o leader(does("store") \o does("stored"))
             \o sync \o does("dk") \o sync \o leader(does("store") \o does("stored"))

CallOf(w) == IF mma[w].at = "loop" THEN Loop[mma[w].pc] ELSE Epilogue(w)[mma[w].pc]
Does(w, what) == mma[w].at \in {"loop", "epilogue"} /\ CallOf(w).does = what

-----------------------------------------------------------------------------
CtaInit ==
  /\ kernel \in CtaKernels
  /\ loader = [at |-> IF kernel.blocks = 0 THEN "tail" ELSE "q", m |-> 0,
               write |-> QPipe!StartState, write_do |-> QPipe!StartState]
  /\ mma = [w \in WGs |-> [at |-> "init", pc |-> 1, m |-> 0, read |-> QPipe!StartState, read_do |-> QPipe!StartState,
                           gemms |-> << >>, dk |-> << >>, dv |-> << >>]]
  /\ dq_warp = [m |-> 0, wg |-> 0, at |-> "copy"]
  /\ q_pipe = QPipe!EmptyPipeline /\ do_pipe = DoPipe!EmptyPipeline
  /\ smem = [kv |-> "empty", p |-> [s \in {0, 1} |-> [w \in WGs |-> Nil]], ds |-> [s \in {0, 1} |-> [w \in WGs |-> Nil]],
             dq |-> [w \in WGs |-> Nil], dkv |-> [w \in WGs |-> {}], storing |-> {}]
  /\ barriers = [PdS |-> {}, Epilogue |-> {}, written |-> {},
                 dQEmpty |-> [w \in WGs |-> 0], dQFull |-> [w \in WGs |-> 0]]
  /\ added = [dq |-> [w \in WGs |-> << >>], dk |-> << >>, dv |-> << >>]

-----------------------------------------------------------------------------
\* load: dO of a block after Q of it, Q of the next before dO of it.
LoadQuery ==
  /\ loader.at = "q"
  /\ QPipe!AcquireReady(q_pipe, loader.write)
  /\ q_pipe' = QPipe!Issue(q_pipe, loader.write, loader.m)
  /\ loader' = [loader EXCEPT !.at = IF loader.m = 0 THEN "kv" ELSE "do", !.write = QPipe!Advance(@)]
  /\ UNCHANGED <<kernel, mma, dq_warp, do_pipe, smem, barriers, added>>

LoadKV ==
  /\ loader.at = "kv"
  /\ smem' = [smem EXCEPT !.kv = "loading"]
  /\ loader' = [loader EXCEPT !.at = "do"]
  /\ UNCHANGED <<kernel, mma, dq_warp, q_pipe, do_pipe, barriers, added>>

LoadDo ==
  /\ loader.at = "do"
  /\ DoPipe!AcquireReady(do_pipe, loader.write_do)
  /\ do_pipe' = DoPipe!Issue(do_pipe, loader.write_do, loader.m)
  /\ loader' = [loader EXCEPT !.at = IF loader.m = LastM THEN "tail" ELSE "q", !.m = @ + 1,
                              !.write_do = DoPipe!Advance(@)]
  /\ UNCHANGED <<kernel, mma, dq_warp, q_pipe, smem, barriers, added>>

LoaderTail ==
  /\ loader.at = "tail"
  /\ QPipe!AllReleased(q_pipe, loader.write) /\ DoPipe!AllReleased(do_pipe, loader.write_do)
  /\ loader' = [loader EXCEPT !.at = "exit"]
  /\ UNCHANGED <<kernel, mma, dq_warp, q_pipe, do_pipe, smem, barriers, added>>

LandQuery(s) ==
  /\ q_pipe.load[s] # Nil
  /\ q_pipe' = QPipe!Land(q_pipe, s)
  /\ UNCHANGED <<kernel, loader, mma, dq_warp, do_pipe, smem, barriers, added>>

LandDo(s) ==
  /\ do_pipe.load[s] # Nil
  /\ do_pipe' = DoPipe!Land(do_pipe, s)
  /\ UNCHANGED <<kernel, loader, mma, dq_warp, q_pipe, smem, barriers, added>>

LandKV ==
  /\ smem.kv = "loading"
  /\ smem' = [smem EXCEPT !.kv = "loaded"]
  /\ UNCHANGED <<kernel, loader, mma, dq_warp, q_pipe, do_pipe, barriers, added>>

-----------------------------------------------------------------------------
\* Mutant: the first dQ waits for the dQ warp to free its buffer.
FreeAtInitNone(w) == barriers

\* mma_init: sdQ is empty, ready to be written to.
FreeAtInit(w) ==
  IF kernel.Slice_dQKV_Mma THEN barriers ELSE [barriers EXCEPT !.dQEmpty[w] = @ + 1]

\* mma returns false, store_zero: the tile has no Q blocks.
MmaInit(w) ==
  /\ mma[w].at = "init"
  /\ barriers' = FreeAtInit(w)
  /\ mma' = [mma EXCEPT ![w].at = IF kernel.blocks = 0 THEN "exit" ELSE "wait_kv"]
  /\ UNCHANGED <<kernel, loader, dq_warp, q_pipe, do_pipe, smem, added>>

WaitKV(w) ==
  /\ mma[w].at = "wait_kv" /\ smem.kv = "loaded"
  /\ mma' = [mma EXCEPT ![w].at = "loop"]
  /\ UNCHANGED <<kernel, loader, dq_warp, q_pipe, do_pipe, smem, barriers, added>>

\* The gemms that have ended by call `call`, oldest first, and their results.
Ended(w, call) == SubSeq(mma[w].gemms, 1, Len(mma[w].gemms) - call.left)
Terms(w, call, op) ==
  LET ended == Ended(w, call)
      terms[n \in 0 .. Len(ended)] ==
        IF n = 0 THEN << >>
        ELSE IF ended[n].op = op THEN Append(terms[n - 1], <<ended[n].m, ended[n].slice>>) ELSE terms[n - 1]
  IN  terms[Len(ended)]

\* Warpgroup w goes on to its next call.
AfterCall(w) ==
  LET c == mma[w]
      call == CallOf(w)
      issued == IF call.gemm = << >> THEN << >>
                ELSE <<[op |-> call.gemm[1], slice |-> call.gemm[2], m |-> c.m, q |-> c.read.index, do |-> c.read_do.index]>>
      next == [c EXCEPT !.pc = @ + 1,
                        !.gemms = SubSeq(@, Len(Ended(w, call)) + 1, Len(@)) \o issued,
                        !.dk = @ \o Terms(w, call, "dk"), !.dv = @ \o Terms(w, call, "dv"),
                        !.read_do = IF call.does = "release_q" THEN DoPipe!Advance(@) ELSE @,
                        !.read = IF call.does = "release_q" THEN QPipe!Advance(@) ELSE @]
  IN  CASE c.at = "loop" /\ c.pc = Len(Loop) ->
             [next EXCEPT !.pc = 1, !.m = @ + 1, !.at = IF c.m = LastM THEN "epilogue" ELSE "loop"]
        [] c.at = "epilogue" /\ c.pc = Len(Epilogue(w)) -> [next EXCEPT !.at = "exit"]
        [] OTHER -> next
Proceed(G) == mma' = [w \in WGs |-> IF w \in G THEN AfterCall(w) ELSE mma[w]]

\* consumer_wait, then a gemm on the stage.
ReadStage(w) ==
  /\ \/ Does(w, "q") /\ QPipe!FullReady(q_pipe, mma[w].read)
     \/ Does(w, "do") /\ DoPipe!FullReady(do_pipe, mma[w].read_do)
     \/ Does(w, "none")
  /\ Proceed({w})
  /\ UNCHANGED <<kernel, loader, dq_warp, q_pipe, do_pipe, smem, barriers, added>>

\* consumer_release.
ReleaseStage(w) ==
  /\ \/ Does(w, "release_q") /\ q_pipe' = QPipe!Release(q_pipe, mma[w].read, w) /\ UNCHANGED do_pipe
     \/ Does(w, "release_do") /\ do_pipe' = DoPipe!Release(do_pipe, mma[w].read_do, w) /\ UNCHANGED q_pipe
  /\ Proceed({w})
  /\ UNCHANGED <<kernel, loader, dq_warp, smem, barriers, added>>

\* NamedBarrier::sync of the warpgroups: the last one to come lets all go on.
SyncAll(w) ==
  \E b \in {"PdS", "Epilogue"} :
    LET arrived == barriers[b] \cup {w}
    IN  /\ Does(w, b) /\ w \notin barriers[b]
        /\ barriers' = [barriers EXCEPT ![b] = IF arrived = WGs THEN {} ELSE arrived]
        /\ Proceed(IF arrived = WGs THEN WGs ELSE {})
        /\ UNCHANGED <<kernel, loader, dq_warp, q_pipe, do_pipe, smem, added>>

\* The buffer of P and dS.
DsStage(read_index) == IF kernel.kStages_dS = 1 THEN 0 ELSE read_index

WritePdS(w) ==
  /\ \E x \in {"p", "ds"} :
       Does(w, x) /\ smem' = [smem EXCEPT ![x][DsStage(mma[w].read.index)][w] = mma[w].m]
  /\ Proceed({w})
  /\ UNCHANGED <<kernel, loader, dq_warp, q_pipe, do_pipe, barriers, added>>

\* The gemm that ends here has computed dQ: to the dQ warp through sdQ, or to
\* global memory by atomicAdd.
DqDone(w) == Terms(w, CallOf(w), "dq")[1]

WriteDq(w) ==
  /\ Does(w, "dq") /\ ~kernel.Slice_dQKV_Mma
  /\ barriers.dQEmpty[w] > 0
  /\ smem' = [smem EXCEPT !.dq[w] = DqDone(w)[1]]
  /\ barriers' = [barriers EXCEPT !.dQEmpty[w] = 0, !.dQFull[w] = @ + 1]
  /\ Proceed({w})
  /\ UNCHANGED <<kernel, loader, dq_warp, q_pipe, do_pipe, added>>

AtomicAddDq(w) ==
  /\ Does(w, "dq") /\ kernel.Slice_dQKV_Mma
  /\ added' = [added EXCEPT !.dq[w] = Append(@, DqDone(w))]
  /\ Proceed({w})
  /\ UNCHANGED <<kernel, loader, dq_warp, q_pipe, do_pipe, smem, barriers>>

-----------------------------------------------------------------------------
\* store_dq, block by block: the copies of all warpgroups' parts, then the waits
\* for them.  With semaphores, it waits for its turn before a block.
DqWarpAt(at) == dq_warp.at = at /\ dq_warp.m \in 0 .. LastM /\ ~kernel.Slice_dQKV_Mma

CopyDq ==
  LET w == dq_warp.wg
  IN  /\ DqWarpAt("copy")
      /\ barriers.dQFull[w] > 0
      /\ barriers' = [barriers EXCEPT !.dQFull[w] = 0]
      /\ dq_warp' = IF w = kernel.wgs - 1 THEN [dq_warp EXCEPT !.wg = 0, !.at = "wait"] ELSE [dq_warp EXCEPT !.wg = @ + 1]
      /\ UNCHANGED <<kernel, loader, mma, q_pipe, do_pipe, smem, added>>

CopiedDq ==
  LET w == dq_warp.wg
  IN  /\ DqWarpAt("wait")
      /\ added' = [added EXCEPT !.dq[w] = Append(@, <<smem.dq[w], 0>>)]
      /\ barriers' = [barriers EXCEPT !.dQEmpty[w] = @ + 1]
      /\ dq_warp' = IF w = kernel.wgs - 1 THEN [m |-> dq_warp.m + 1, wg |-> 0, at |-> "copy"]
                    ELSE [dq_warp EXCEPT !.wg = @ + 1]
      /\ UNCHANGED <<kernel, loader, mma, q_pipe, do_pipe, smem>>

-----------------------------------------------------------------------------
\* The epilogue writes dK and dV where K and V were.
WriteDkv(w) ==
  /\ \E which \in {{"dk"}, {"dv"}, {"dk", "dv"}} :
       /\ Does(w, IF which = {"dk", "dv"} THEN "dkv" ELSE CHOOSE x \in which : TRUE)
       /\ smem' = [smem EXCEPT !.kv = "overwritten", !.dkv[w] = which]
  /\ barriers' = IF kernel.epilogue = "tma" THEN [barriers EXCEPT !.written = @ \cup {w}] ELSE barriers
  /\ Proceed({w})
  /\ UNCHANGED <<kernel, loader, dq_warp, q_pipe, do_pipe, added>>

\* What every warpgroup has written its part of.
Together == {which \in {"dk", "dv"} : \A w \in WGs : which \in smem.dkv[w]}

\* One thread issues the copy, once every part has been written ...
StoreDkvTile(w) ==
  /\ \/ Does(w, "written") /\ barriers.written = WGs
     \/ Does(w, "store")
  /\ smem' = [smem EXCEPT !.storing = Together]
  /\ Proceed({w})
  /\ UNCHANGED <<kernel, loader, dq_warp, q_pipe, do_pipe, barriers, added>>

Parts(which) == [w \in WGs |-> mma[w][which]]
WithStored(stored) ==
  [added EXCEPT !.dk = IF "dk" \in stored THEN Append(@, Parts("dk")) ELSE @,
                !.dv = IF "dv" \in stored THEN Append(@, Parts("dv")) ELSE @]

\* ... and waits for it; without TMA, everybody copies what it sees.
StoredDkvTile(w) ==
  /\ \/ Does(w, "stored") /\ smem' = [smem EXCEPT !.storing = {}] /\ added' = WithStored(smem.storing)
     \/ Does(w, "copy") /\ UNCHANGED smem /\ added' = WithStored(Together)
  /\ Proceed({w})
  /\ UNCHANGED <<kernel, loader, dq_warp, q_pipe, do_pipe, barriers>>

MmaWarpGroup(w) ==
  \/ MmaInit(w) \/ WaitKV(w) \/ ReadStage(w) \/ ReleaseStage(w) \/ SyncAll(w) \/ WritePdS(w)
  \/ WriteDq(w) \/ AtomicAddDq(w) \/ WriteDkv(w) \/ StoreDkvTile(w) \/ StoredDkvTile(w)

CtaNext ==
  \/ LoadQuery \/ LoadKV \/ LoadDo \/ LoaderTail \/ LandKV \/ CopyDq \/ CopiedDq
  \/ \E s \in QPipe!Stages : LandQuery(s)
  \/ \E s \in DoPipe!Stages : LandDo(s)
  \/ \E w \in WGs : MmaWarpGroup(w)

CtaSpec == CtaInit /\ [][CtaNext]_ctaVars /\ WF_ctaVars(CtaNext)

-----------------------------------------------------------------------------
Operands(op) ==
  [s |-> {"q", "kv"},
   dp |-> {"do"} \cup (IF kernel.Mma_dP_is_RS THEN {} ELSE {"kv"}),
   dv |-> {"do"} \cup (IF kernel.Mma_dKV_is_RS THEN {} ELSE {"p"}),
   dq |-> {"ds", "kv"},
   dk |-> {"q"} \cup (IF kernel.Mma_dKV_is_RS THEN {} ELSE {"ds"})][op]

Intact(operand, g) ==
  CASE operand = "q" -> q_pipe.data[g.q] = g.m /\ q_pipe.load[g.q] = Nil
    [] operand = "do" -> do_pipe.data[g.do] = g.m /\ do_pipe.load[g.do] = Nil
    [] operand = "kv" -> smem.kv = "loaded"
    [] operand \in {"p", "ds"} -> \A w \in WGs : smem[operand][DsStage(g.q)][w] = g.m

(* As long as a gemm may read shared memory, all its operands are those of  *)
(* its Q block, written by every warpgroup and overwritten by none; so are  *)
(* dQ while the dQ warp copies it and dK and dV while they are stored; and  *)
(* nobody arrives twice at a barrier of the dQ warp before it is waited for *)
(* (mainloop_bwd :886-925).                                                 *)
BwdSmemSafe ==
  /\ \A w \in WGs, i \in 1 .. 4 :
       i <= Len(mma[w].gemms) =>
         \A operand \in Operands(mma[w].gemms[i].op) : Intact(operand, mma[w].gemms[i])
  /\ \A w \in WGs :
       /\ barriers.dQEmpty[w] <= 1 /\ barriers.dQFull[w] <= 1
       /\ (DqWarpAt("wait") /\ w >= dq_warp.wg) \/ (DqWarpAt("copy") /\ w < dq_warp.wg) => smem.dq[w] = dq_warp.m
       /\ smem.storing \subseteq smem.dkv[w]

Exited ==
  loader.at = "exit" /\ (\A w \in WGs : mma[w].at = "exit") /\ (dq_warp.m > LastM \/ kernel.Slice_dQKV_Mma)

\* One gemm of every Q block in order, or two if sliced.
AllTerms ==
  IF ~kernel.Slice_dQKV_Mma THEN [i \in 1 .. kernel.blocks |-> <<i - 1, 0>>]
  ELSE [i \in 1 .. 2 * kernel.blocks |-> <<(i - 1) \div 2, (i - 1) % 2>>]

GradientsOfTile ==
  LET stores == IF kernel.blocks = 0 THEN 0 ELSE IF kernel.epilogue = "varlen" THEN kernel.wgs ELSE 1
  IN  /\ \A w \in WGs : added.dq[w] = AllTerms
      /\ \A stored \in {added.dk, added.dv} : stored = [i \in 1 .. stores |-> [w \in WGs |-> AllTerms]]

(* The CTA ends: no warp waits for another for ever.  Then every            *)
(* warpgroup's part of dQ has been added once for every Q block, in order,  *)
(* and dK and dV have been stored once, when they had all Q blocks in them. *)
CtaGradientsRight == (\E w \in WGs : mma[w].at # "init") ~> (Exited /\ GradientsOfTile)
=============================================================================
