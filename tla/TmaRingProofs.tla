--------------------------- MODULE TmaRingProofs ---------------------------
(***************************************************************************)
(* TmaRing is safe for every number of stages, every set of consumers and  *)
(* every number of laps.                                                   *)
(***************************************************************************)
EXTENDS TmaRing, TmaPipelineProofs

USE StagesAssumption, ConsumersAssumption, NoBlockAssumption

TheRing == Ring(pipe, write, read, reading, PipelineState)

LEMMA TheRingMeans == TheRing /\ ContentsKnown <=> TypeOK /\ RingInv
  BY DEF TheRing, Ring, TypeOK, RingInv

-----------------------------------------------------------------------------
(* The contents of the stages: what is in flight, and what landed last.    *)

LEMMA LoadKeepsContents ==
  ASSUME TheRing, ContentsKnown, ProducerLoad
  PROVE  TheRing' /\ ContentsKnown'
<1> DEFINE i == write.index
<1>1. i \in Stages /\ write.lap \in Nat /\ write = [index |-> i, lap |-> write.lap]
      /\ write \in PipelineState
  BY PassedOwnStage DEF TheRing, Ring
<1>2. pipe.full[i] = write.lap
  BY AcquiredStageIsFree DEF TheRing, ProducerLoad
<1>3. pipe \in PipelineStorage(PipelineState) BY DEF TheRing, Ring
<1>4. /\ pipe'.full = pipe.full /\ pipe'.data = pipe.data
      /\ pipe'.load = [pipe.load EXCEPT ![i] = write]
  BY <1>1, <1>3, IssueFields DEF ProducerLoad
<1>5. pipe.load \in [Stages -> PipelineState \cup {NoBlock}] BY <1>3 DEF PipelineStorage
<1>6. TheRing'
  <2>1. write # NoBlock BY <1>1, NoBlockAssumption
  <2>2. Ring(Issue(pipe, write, write), Advance(write), read, reading, PipelineState)
    BY <1>1, <2>1, IssueKeepsRing DEF TheRing, ProducerLoad
  <2> QED BY <2>2 DEF TheRing, ProducerLoad
<1>7. ContentsKnown'
  BY <1>1, <1>2, <1>4, <1>5 DEF ContentsKnown
<1> QED BY <1>6, <1>7

LEMMA LandKeepsContents ==
  ASSUME TheRing, ContentsKnown, NEW s \in Stages, TmaLand(s)
  PROVE  TheRing' /\ ContentsKnown'
<1>1. pipe \in PipelineStorage(PipelineState) BY DEF TheRing, Ring
<1>2. \A t \in Stages :
        /\ pipe'.full[t] = pipe.full[t] + (IF t = s THEN 1 ELSE 0)
        /\ pipe'.data[t] = IF t = s THEN pipe.load[t] ELSE pipe.data[t]
        /\ pipe'.load[t] = IF t = s THEN NoBlock ELSE pipe.load[t]
  BY <1>1, LandFields DEF TmaLand
<1>3. TheRing'
  <2>1. Ring(Land(pipe, s), write, read, reading, PipelineState)
    BY LandKeepsRing DEF TheRing, TmaLand
  <2> QED BY <2>1 DEF TheRing, TmaLand
<1>4. ContentsKnown'
  <2> SUFFICES ASSUME NEW t \in Stages
               PROVE  /\ pipe'.load[t] # NoBlock =>
                           pipe'.load[t] = [index |-> t, lap |-> pipe'.full[t]]
                      /\ pipe'.full[t] > 0 =>
                           pipe'.data[t] = [index |-> t, lap |-> pipe'.full[t] - 1]
    BY DEF ContentsKnown
  <2>1. /\ pipe.load[t] # NoBlock => pipe.load[t] = [index |-> t, lap |-> pipe.full[t]]
        /\ pipe.full[t] > 0 => pipe.data[t] = [index |-> t, lap |-> pipe.full[t] - 1]
        /\ pipe.full[t] \in Nat
    BY <1>1 DEF ContentsKnown, PipelineStorage
  <2>2. CASE t = s
    <3>1. pipe'.full[t] - 1 = pipe.full[t] BY <1>2, <2>1, <2>2
    <3> QED BY <1>2, <2>1, <2>2, <3>1 DEF TmaLand
  <2>3. CASE t # s
    <3>1. pipe'.full[t] = pipe.full[t] BY <1>2, <2>1, <2>3
    <3> QED BY <1>2, <2>1, <2>3, <3>1
  <2> QED BY <2>2, <2>3
<1> QED BY <1>3, <1>4

LEMMA WaitKeepsContents ==
  ASSUME TheRing, ContentsKnown, NEW c \in Consumers, ConsumerWait(c)
  PROVE  TheRing' /\ ContentsKnown'
<1>1. read[c].lap < pipe.full[read[c].index]
  BY AwaitedCopyLanded DEF TheRing, ConsumerWait
<1>2. Ring(pipe, write, read, reading \cup {c}, PipelineState)
  BY <1>1, WaitKeepsRing DEF TheRing
<1> QED BY <1>2 DEF TheRing, ConsumerWait, ContentsKnown

LEMMA ReleaseKeepsContents ==
  ASSUME TheRing, ContentsKnown, NEW c \in Consumers, ConsumerRelease(c)
  PROVE  TheRing' /\ ContentsKnown'
<1>1. read[c] \in PipelineState /\ pipe \in PipelineStorage(PipelineState) /\ c \in reading
  BY DEF TheRing, Ring, ConsumerRelease
<1>2. pipe'.full = pipe.full /\ pipe'.load = pipe.load /\ pipe'.data = pipe.data
  BY <1>1, ReleaseFields DEF ConsumerRelease
<1>3. Ring(Release(pipe, read[c], c), write, [read EXCEPT ![c] = Advance(read[c])],
           reading \ {c}, PipelineState)
  BY <1>1, ReleaseKeepsRing DEF TheRing
<1> QED BY <1>2, <1>3 DEF TheRing, ConsumerRelease, ContentsKnown

LEMMA TheRingHolds == Spec => [](TheRing /\ ContentsKnown)
<1>1. Init => TheRing /\ ContentsKnown
  <2> SUFFICES ASSUME Init PROVE TheRing /\ ContentsKnown
    OBVIOUS
  <2>1. TheRing
    <3>1. Ring(EmptyPipeline, StartState, [c \in Consumers |-> StartState], {}, PipelineState)
      BY EmptyRing
    <3> QED BY <3>1 DEF Init, TheRing
  <2>2. \A s \in Stages : pipe.load[s] = NoBlock /\ pipe.full[s] = 0
    BY DEF Init, EmptyPipeline
  <2> QED BY <2>1, <2>2 DEF ContentsKnown
<1>2. TheRing /\ ContentsKnown /\ [Next]_vars => (TheRing /\ ContentsKnown)'
  <2> SUFFICES ASSUME TheRing, ContentsKnown, [Next]_vars PROVE (TheRing /\ ContentsKnown)'
    OBVIOUS
  <2>1. CASE UNCHANGED vars BY <2>1 DEF vars, TheRing, ContentsKnown
  <2> QED BY <2>1, LoadKeepsContents, LandKeepsContents, WaitKeepsContents,
             ReleaseKeepsContents DEF Next
<1> QED BY <1>1, <1>2, PTL DEF Spec

-----------------------------------------------------------------------------
(* Every variable keeps its type.                                          *)
THEOREM TypeCorrect == Spec => []TypeOK
<1>1. TheRing /\ ContentsKnown => TypeOK BY TheRingMeans
<1> QED BY <1>1, TheRingHolds, PTL

(* RingInv holds in every reachable state: the positions of the producer   *)
(* and of every consumer agree with what the barriers have counted.        *)
THEOREM RingInvariant == Spec => []RingInv
<1>1. TheRing /\ ContentsKnown => RingInv BY TheRingMeans
<1> QED BY <1>1, TheRingHolds, PTL

(* A gemm of the mainloop never reads a buffer that holds another lap's    *)
(* block or that a TMA copy is writing, for every number of stages.        *)
THEOREM ReadsOwnLapAlways == Spec => []ReadsOwnLap
<1>1. TheRing /\ ContentsKnown => ReadsOwnLap
  <2> SUFFICES ASSUME TheRing, ContentsKnown, NEW c \in reading
               PROVE  /\ pipe.data[read[c].index] = read[c]
                      /\ pipe.load[read[c].index] = NoBlock
    BY DEF ReadsOwnLap
  <2>1. c \in Consumers /\ read[c].lap < pipe.full[read[c].index]
    BY DEF TheRing, Ring, Counted, ReadersSawFull
  <2>2. /\ read[c].index \in Stages /\ read[c].lap \in Nat
        /\ read[c] = [index |-> read[c].index, lap |-> read[c].lap]
    BY <2>1, PassedOwnStage DEF TheRing, Ring
  <2>3. /\ pipe.full[read[c].index] = read[c].lap + 1
        /\ pipe.load[read[c].index] = NoBlock
    BY <2>1, ReadStageIsHeld DEF TheRing
  <2>4. /\ pipe.full[read[c].index] > 0
        /\ pipe.full[read[c].index] - 1 = read[c].lap
    BY <2>2, <2>3
  <2>5. pipe.data[read[c].index] =
          [index |-> read[c].index, lap |-> pipe.full[read[c].index] - 1]
    BY <2>2, <2>4 DEF ContentsKnown
  <2> QED BY <2>2, <2>3, <2>4, <2>5
<1> QED BY <1>1, TheRingHolds, PTL

(* The producer's parity test only passes on a stage whose last copy has   *)
(* landed and which every consumer has read and released: no TMA copy is   *)
(* ever issued over an unread block.                                       *)
THEOREM NeverOverwrites == Spec => NoOverwrite
<1> DEFINE Unread(s) ==
      /\ pipe.full[s] = Passed(write, s)
      /\ \A c \in Consumers : /\ Passed(read[c], s) = Passed(write, s)
                              /\ c \in reading => read[c].index # s
<1>1. TheRing /\ ContentsKnown /\ [Next]_vars =>
        [\A s \in Stages :
           pipe.load[s] = NoBlock /\ pipe.load'[s] # NoBlock => Unread(s)]_vars
  <2> SUFFICES ASSUME TheRing, ContentsKnown, Next, NEW s \in Stages,
                      pipe.load[s] = NoBlock, pipe.load'[s] # NoBlock
               PROVE  Unread(s)
    OBVIOUS
  <2>1. CASE ProducerLoad
    <3>1. pipe.load' = [pipe.load EXCEPT ![write.index] = write]
      BY <2>1, IssueFields DEF ProducerLoad, TheRing, Ring
    <3>2. s = write.index
      BY <3>1
    <3>3. /\ Passed(write, s) = write.lap /\ write.lap \in Nat
          /\ pipe.full[s] = write.lap
          /\ pipe.empty[s] = write.lap
          /\ pipe.arrived[s] = {}
      BY <2>1, <3>2, AcquiredStageIsFree, PassedOwnStage DEF ProducerLoad, TheRing, Ring
    <3>4. ASSUME NEW c \in Consumers PROVE Passed(read[c], s) = write.lap
      BY <3>3, RingCounts DEF TheRing
    <3>5. ASSUME NEW c \in Consumers, c \in reading, read[c].index = s PROVE FALSE
      <4>1. read[c].lap = write.lap
        BY <3>4, <3>5, PassedOwnStage DEF TheRing, Ring
      <4> QED BY <3>3, <3>5, <4>1 DEF TheRing, Ring, Counted, ReadersSawFull
    <3> QED BY <3>3, <3>4, <3>5
  <2>2. ASSUME NEW t \in Stages, TmaLand(t) PROVE FALSE
    <3>1. pipe.load'[s] = IF s = t THEN NoBlock ELSE pipe.load[s]
      BY <2>2, LandFields DEF TmaLand, TheRing, Ring
    <3> QED BY <3>1
  <2>3. ASSUME NEW c \in Consumers, ConsumerWait(c) \/ ConsumerRelease(c) PROVE FALSE
    <3>1. CASE ConsumerWait(c)
      BY <3>1 DEF ConsumerWait
    <3>2. CASE ConsumerRelease(c)
      <4>1. /\ pipe \in PipelineStorage(PipelineState) /\ read[c] \in PipelineState
            /\ pipe' = Release(pipe, read[c], c)
        BY <3>2 DEF ConsumerRelease, TheRing, Ring
      <4>2. pipe'.load = pipe.load
        BY <4>1, ReleaseFields
      <4> QED BY <4>2
    <3> QED BY <2>3, <3>1, <3>2
  <2> QED BY <2>1, <2>2, <2>3 DEF Next
<1> QED BY <1>1, TheRingHolds, PTL DEF Spec, NoOverwrite

=============================================================================
