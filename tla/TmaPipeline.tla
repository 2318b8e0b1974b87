---------------------------- MODULE TmaPipeline ----------------------------
(***************************************************************************)
(* One multi-stage shared-memory pipeline of the Hopper kernels: a warp    *)
(* that issues asynchronous TMA copies into a ring of kStages buffers and  *)
(* a set of warpgroups that each read every buffer.  Every stage has two   *)
(* mbarriers, full (one producer arrival plus the bytes of the copy) and   *)
(* empty (one arrival per consumer warpgroup), which a thread tests by     *)
(* PARITY: a wait names the phase bit it expects to be over, never how     *)
(* often the barrier has completed.                                        *)
(*                                                                         *)
(* These operators are pipeline_k and pipeline_v of MainloopFwd.  TmaRing  *)
(* runs one pipeline alone, and TmaRingProofs proves it safe for every     *)
(* number of stages and every set of consumers.                            *)
(***************************************************************************)
EXTENDS Integers

CONSTANTS
  kStages,    (* stages of the ring                                        *)
  Consumers,  (* the warpgroups that read every stage                      *)
  NoBlock     (* what a stage holds before any copy has landed in it       *)

ASSUME StagesAssumption == kStages \in Nat \ {0}
ASSUME ConsumersAssumption == Consumers # {}

Stages == 0 .. kStages - 1

(***************************************************************************)
(* cutlass::PipelineState.  The code keeps index_ and phase_, flipping     *)
(* phase_ whenever index_ wraps; lap counts the wraps, so phase_ is the    *)
(* parity of lap (a producer starts with the opposite phase).              *)
(***************************************************************************)
PipelineState == [index : Stages, lap : Nat]

StartState == [index |-> 0, lap |-> 0]

(* Mutant: the index does not wrap.                                        *)
AdvanceNoWrap(st) == [index |-> st.index + 1, lap |-> st.lap]

Advance(st) ==
  IF st.index + 1 = kStages
  THEN [index |-> 0, lap |-> st.lap + 1]
  ELSE [index |-> st.index + 1, lap |-> st.lap]

ConsumerPhase(st) == st.lap % 2
ProducerPhase(st) == (st.lap + 1) % 2

(***************************************************************************)
(* The pipeline's shared memory: per stage, how many phases the full and   *)
(* the empty barrier have completed, which consumers have arrived in the   *)
(* empty barrier's current phase, the copy in flight and the data that     *)
(* landed last.                                                            *)
(***************************************************************************)
EmptyPipeline ==
  [full    |-> [s \in Stages |-> 0],
   empty   |-> [s \in Stages |-> 0],
   arrived |-> [s \in Stages |-> {}],
   load    |-> [s \in Stages |-> NoBlock],
   data    |-> [s \in Stages |-> NoBlock]]

PipelineStorage(Payload) ==
  [full    : [Stages -> Nat],
   empty   : [Stages -> Nat],
   arrived : [Stages -> SUBSET Consumers],
   load    : [Stages -> Payload \cup {NoBlock}],
   data    : [Stages -> Payload \cup {NoBlock}]]

(* mbarrier.try_wait.parity: true once the phase with this parity is over, *)
(* that is when the barrier's current phase has the other parity.          *)
PhaseOver(completed, parity) == completed % 2 # parity

(* Mutant: the producer does not wait for the empty barrier.               *)
AcquireReadyAlways(p, st) == TRUE

(* producer_acquire returns; the copy is then issued on the full barrier.  *)
AcquireReady(p, st) == PhaseOver(p.empty[st.index], ProducerPhase(st))

(* producer_tail: every stage, from the next one to write, is acquired.    *)
AllReleased(p, st) ==
  \A s \in Stages :
    PhaseOver(p.empty[s], ProducerPhase(IF s < st.index THEN [st EXCEPT !.lap = @ + 1] ELSE st))

Issue(p, st, b) == [p EXCEPT !.load = [p.load EXCEPT ![st.index] = b]]

(* The copy's bytes arrive: the full barrier completes a phase.            *)
Land(p, s) ==
  [p EXCEPT !.full = [p.full EXCEPT ![s] = @ + 1],
            !.data = [p.data EXCEPT ![s] = p.load[s]],
            !.load = [p.load EXCEPT ![s] = NoBlock]]

FullReady(p, st) == PhaseOver(p.full[st.index], ConsumerPhase(st))

(* Mutants: the empty barrier completes with the first arrival, as if      *)
(* initialised for one consumer; no phase of it ever ends the arrivals.    *)
ReleaseFirst(p, st, c) ==
  [p EXCEPT !.empty = [p.empty EXCEPT ![st.index] = @ + 1]]
ReleaseKeepsArrivals(p, st, c) ==
  LET arrived == p.arrived[st.index] \cup {c}
  IN [p EXCEPT !.arrived = [p.arrived EXCEPT ![st.index] = arrived],
               !.empty = [p.empty EXCEPT ![st.index] =
                            IF arrived = Consumers THEN @ + 1 ELSE @]]

(* consumer_release: one thread of the warpgroup arrives on empty.         *)
Release(p, st, c) ==
  LET arrived == p.arrived[st.index] \cup {c}
  IN IF arrived = Consumers
     THEN [p EXCEPT !.arrived = [p.arrived EXCEPT ![st.index] = {}],
                    !.empty = [p.empty EXCEPT ![st.index] = @ + 1]]
     ELSE [p EXCEPT !.arrived = [p.arrived EXCEPT ![st.index] = arrived]]

-----------------------------------------------------------------------------
(* The counting argument.  w is the position the producer fills next, r[c] *)
(* the one consumer c is reading or will read next, and reading is the set *)
(* of consumers whose gemm reads theirs.                                   *)

(* Times a position that goes round the ring has passed stage s.           *)
Passed(st, s) == st.lap + (IF s < st.index THEN 1 ELSE 0)

(* Every issued copy is in flight or has completed the full barrier once.  *)
CopiesCounted(p, w) ==
  \A s \in Stages :
    p.full[s] + (IF p.load[s] = NoBlock THEN 0 ELSE 1) = Passed(w, s)

(* The producer is at most one copy ahead of the empty barrier: its parity *)
(* test tells the two cases apart.                                         *)
ProducerWithinOneLap(p, w) ==
  \A s \in Stages : Passed(w, s) \in {p.empty[s], p.empty[s] + 1}

(* A consumer has released a stage as often as the empty barrier completed,*)
(* once more if it has arrived in the current phase, and never before the  *)
(* copy landed; the phase completes with the last arrival.                 *)
ReleasesCounted(p, r) ==
  \A s \in Stages :
    /\ p.arrived[s] # Consumers
    /\ \A c \in Consumers :
         /\ Passed(r[c], s) = p.empty[s] + (IF c \in p.arrived[s] THEN 1 ELSE 0)
         /\ Passed(r[c], s) <= p.full[s]

(* A consumer inside its gemm has seen the full barrier of its own lap.    *)
ReadersSawFull(p, r, reading) ==
  \A c \in reading : r[c].lap < p.full[r[c].index]

Counted(p, w, r, reading) ==
  /\ CopiesCounted(p, w)
  /\ ProducerWithinOneLap(p, w)
  /\ ReleasesCounted(p, r)
  /\ ReadersSawFull(p, r, reading)

=============================================================================
