-------------------------- MODULE TmaPipelineProofs --------------------------
(***************************************************************************)
(* The operations of a pipeline keep the counts of its barriers and of the *)
(* positions of its users together, for every number of stages, every set  *)
(* of consumers and whatever the stages hold.  TmaRingProofs applies this  *)
(* to a pipeline alone, MainloopFwdProofs to the two of a forward CTA.     *)
(***************************************************************************)
EXTENDS TmaPipeline, TLAPS

USE StagesAssumption, ConsumersAssumption

-----------------------------------------------------------------------------
(* Positions                                                               *)

(* Advancing goes once past the stage it leaves and past no other.         *)
LEMMA AdvancePasses ==
  ASSUME NEW st \in PipelineState
  PROVE  /\ Advance(st) \in PipelineState
         /\ \A s \in Stages : Passed(Advance(st), s) =
              Passed(st, s) + (IF s = st.index THEN 1 ELSE 0)
  BY DEF PipelineState, Stages, Advance, Passed

(* A position's count of its own stage is its lap.                         *)
LEMMA PassedOwnStage ==
  ASSUME NEW st \in PipelineState
  PROVE  /\ st.index \in Stages
         /\ st.lap \in Nat
         /\ Passed(st, st.index) = st.lap
         /\ st = [index |-> st.index, lap |-> st.lap]
  BY DEF PipelineState, Stages, Passed

LEMMA PassedNat ==
  ASSUME NEW st \in PipelineState, NEW s \in Stages
  PROVE  Passed(st, s) \in Nat
  BY DEF PipelineState, Stages, Passed

-----------------------------------------------------------------------------
(* What the three operations of a pipeline do to each of its fields.       *)

LEMMA IssueFields ==
  ASSUME NEW Payload, NEW p \in PipelineStorage(Payload), NEW st \in PipelineState,
         NEW b \in Payload
  PROVE  /\ Issue(p, st, b) \in PipelineStorage(Payload)
         /\ Issue(p, st, b).full = p.full
         /\ Issue(p, st, b).empty = p.empty
         /\ Issue(p, st, b).arrived = p.arrived
         /\ Issue(p, st, b).data = p.data
         /\ Issue(p, st, b).load = [p.load EXCEPT ![st.index] = b]
  BY PassedOwnStage DEF PipelineStorage, Issue

LEMMA LandFields ==
  ASSUME NEW Payload, NEW p \in PipelineStorage(Payload), NEW s \in Stages
  PROVE  /\ Land(p, s) \in PipelineStorage(Payload)
         /\ Land(p, s).empty = p.empty
         /\ Land(p, s).arrived = p.arrived
         /\ \A t \in Stages :
              /\ Land(p, s).full[t] = p.full[t] + (IF t = s THEN 1 ELSE 0)
              /\ Land(p, s).data[t] = IF t = s THEN p.load[t] ELSE p.data[t]
              /\ Land(p, s).load[t] = IF t = s THEN NoBlock ELSE p.load[t]
<1>1. /\ [p.full EXCEPT ![s] = @ + 1] \in [Stages -> Nat]
      /\ [p.data EXCEPT ![s] = p.load[s]] \in [Stages -> Payload \cup {NoBlock}]
      /\ [p.load EXCEPT ![s] = NoBlock] \in [Stages -> Payload \cup {NoBlock}]
  BY DEF PipelineStorage
<1>2. /\ Land(p, s).full = [p.full EXCEPT ![s] = @ + 1]
      /\ Land(p, s).data = [p.data EXCEPT ![s] = p.load[s]]
      /\ Land(p, s).load = [p.load EXCEPT ![s] = NoBlock]
      /\ Land(p, s).empty = p.empty /\ Land(p, s).arrived = p.arrived
  BY DEF PipelineStorage, Land
<1>3. Land(p, s) \in PipelineStorage(Payload)
  BY <1>1 DEF PipelineStorage, Land
<1> QED BY <1>2, <1>3 DEF PipelineStorage

LEMMA ReleaseFields ==
  ASSUME NEW Payload, NEW p \in PipelineStorage(Payload), NEW st \in PipelineState,
         NEW c \in Consumers
  PROVE  /\ Release(p, st, c) \in PipelineStorage(Payload)
         /\ Release(p, st, c).full = p.full
         /\ Release(p, st, c).load = p.load
         /\ Release(p, st, c).data = p.data
         /\ \A t \in Stages : t # st.index =>
              /\ Release(p, st, c).arrived[t] = p.arrived[t]
              /\ Release(p, st, c).empty[t] = p.empty[t]
         /\ p.arrived[st.index] \cup {c} = Consumers =>
              /\ Release(p, st, c).arrived[st.index] = {}
              /\ Release(p, st, c).empty[st.index] = p.empty[st.index] + 1
         /\ p.arrived[st.index] \cup {c} # Consumers =>
              /\ Release(p, st, c).arrived[st.index] = p.arrived[st.index] \cup {c}
              /\ Release(p, st, c).empty[st.index] = p.empty[st.index]
<1> DEFINE i == st.index
<1>1. i \in Stages
  BY PassedOwnStage
<1>2. /\ [p.arrived EXCEPT ![i] = {}] \in [Stages -> SUBSET Consumers]
      /\ [p.arrived EXCEPT ![i] = p.arrived[i] \cup {c}] \in [Stages -> SUBSET Consumers]
      /\ [p.empty EXCEPT ![i] = p.empty[i] + 1] \in [Stages -> Nat]
  BY <1>1 DEF PipelineStorage
<1>3. CASE p.arrived[i] \cup {c} = Consumers
  BY <1>1, <1>2, <1>3 DEF PipelineStorage, Release
<1>4. CASE p.arrived[i] \cup {c} # Consumers
  BY <1>1, <1>2, <1>4 DEF PipelineStorage, Release
<1> QED BY <1>3, <1>4

-----------------------------------------------------------------------------
(* What the parity tests tell.                                             *)

(* A pipeline, the positions of its users, and counts that agree.          *)
Ring(p, w, r, reading, Payload) ==
  /\ p \in PipelineStorage(Payload)
  /\ w \in PipelineState
  /\ r \in [Consumers -> PipelineState]
  /\ reading \in SUBSET Consumers
  /\ Counted(p, w, r, reading)

(* A parity test tells n from n + 1.                                       *)
LEMMA ParitySeparates ==
  ASSUME NEW n \in Nat, NEW m \in {n, n + 1}
  PROVE  /\ PhaseOver(m, n % 2) <=> m = n + 1
         /\ PhaseOver(n, (m + 1) % 2) <=> m = n
  BY DEF PhaseOver

LEMMA RingCounts ==
  ASSUME NEW p, NEW w, NEW r, NEW reading, NEW Payload, Ring(p, w, r, reading, Payload),
         NEW s \in Stages
  PROVE  /\ p.full[s] \in Nat /\ p.empty[s] \in Nat /\ p.arrived[s] \subseteq Consumers
         /\ Passed(w, s) \in Nat
         /\ p.full[s] + (IF p.load[s] = NoBlock THEN 0 ELSE 1) = Passed(w, s)
         /\ Passed(w, s) \in {p.empty[s], p.empty[s] + 1}
         /\ p.arrived[s] # Consumers
         /\ \A c \in Consumers :
              /\ r[c] \in PipelineState /\ Passed(r[c], s) \in Nat
              /\ Passed(r[c], s) = p.empty[s] + (IF c \in p.arrived[s] THEN 1 ELSE 0)
              /\ Passed(r[c], s) <= p.full[s]
  BY PassedNat DEF Ring, PipelineStorage, Counted, CopiesCounted, ProducerWithinOneLap,
     ReleasesCounted

(* When the producer's test passes, every consumer has released the stage  *)
(* as often as it has been filled and no copy is in flight into it.        *)
LEMMA AcquiredStageIsFree ==
  ASSUME NEW p, NEW w, NEW r, NEW reading, NEW Payload, Ring(p, w, r, reading, Payload),
         AcquireReady(p, w)
  PROVE  /\ p.load[w.index] = NoBlock
         /\ p.full[w.index] = w.lap
         /\ p.empty[w.index] = w.lap
         /\ p.arrived[w.index] = {}
<1> DEFINE i == w.index
<1>1. i \in Stages /\ w.lap \in Nat /\ Passed(w, i) = w.lap
  BY PassedOwnStage DEF Ring
<1>2. p.full[i] \in Nat /\ p.empty[i] \in Nat /\ p.arrived[i] \subseteq Consumers
  BY <1>1, RingCounts
<1>3. p.empty[i] = w.lap
  <2>1. w.lap \in {p.empty[i], p.empty[i] + 1}
    BY <1>1, RingCounts
  <2>2. PhaseOver(p.empty[i], (w.lap + 1) % 2)
    BY DEF AcquireReady, ProducerPhase
  <2> QED BY <1>2, <2>1, <2>2, ParitySeparates
<1>4. p.full[i] + (IF p.load[i] = NoBlock THEN 0 ELSE 1) = w.lap
  BY <1>1, RingCounts
<1>5. \A c \in Consumers :
        /\ Passed(r[c], i) = p.empty[i] + (IF c \in p.arrived[i] THEN 1 ELSE 0)
        /\ Passed(r[c], i) <= p.full[i]
  BY <1>1, RingCounts
<1>6. p.arrived[i] = {}
  <2>1. \A c \in Consumers : c \notin p.arrived[i]
    BY <1>1, <1>2, <1>3, <1>4, <1>5
  <2> QED BY <1>2, <2>1
<1>7. p.full[i] = w.lap
  <2>1. PICK c \in Consumers : TRUE
    BY ConsumersAssumption
  <2>2. w.lap <= p.full[i]
    BY <1>1, <1>2, <1>3, <1>5, <1>6, <2>1
  <2> QED BY <1>1, <1>2, <1>4, <2>2
<1>8. p.load[i] = NoBlock
  BY <1>1, <1>2, <1>4, <1>7
<1> QED BY <1>3, <1>6, <1>7, <1>8

(* When a consumer's test passes, the copy of its own lap has landed and   *)
(* the empty barrier still waits for this consumer.                        *)
LEMMA AwaitedCopyLanded ==
  ASSUME NEW p, NEW w, NEW r, NEW reading, NEW Payload, Ring(p, w, r, reading, Payload),
         NEW c \in Consumers, FullReady(p, r[c])
  PROVE  r[c].lap < p.full[r[c].index]
<1> DEFINE i == r[c].index
<1>1. i \in Stages /\ r[c].lap \in Nat /\ Passed(r[c], i) = r[c].lap
  BY PassedOwnStage DEF Ring
<1>2. p.full[i] \in Nat /\ p.empty[i] \in Nat /\ Passed(w, i) \in Nat
  BY <1>1, RingCounts
<1>3. r[c].lap \in {p.empty[i], p.empty[i] + 1} /\ r[c].lap <= p.full[i]
  <2>1. /\ r[c].lap = p.empty[i] + (IF c \in p.arrived[i] THEN 1 ELSE 0)
        /\ r[c].lap <= p.full[i]
    BY <1>1, RingCounts
  <2> QED BY <1>2, <2>1
<1>4. p.full[i] <= p.empty[i] + 1
  <2>1. p.full[i] + (IF p.load[i] = NoBlock THEN 0 ELSE 1) = Passed(w, i)
    BY <1>1, RingCounts
  <2>2. Passed(w, i) \in {p.empty[i], p.empty[i] + 1}
    BY <1>1, RingCounts
  <2> QED BY <1>2, <2>1, <2>2
<1>5. p.full[i] \in {r[c].lap, r[c].lap + 1}
  BY <1>1, <1>2, <1>3, <1>4
<1>6. PhaseOver(p.full[i], r[c].lap % 2)
  BY DEF FullReady, ConsumerPhase
<1> QED BY <1>1, <1>5, <1>6, ParitySeparates

(* While a consumer reads a stage, that stage holds its lap's copy: it is  *)
(* full once more than empty and the consumer has not arrived.             *)
LEMMA ReadStageIsHeld ==
  ASSUME NEW p, NEW w, NEW r, NEW reading, NEW Payload, Ring(p, w, r, reading, Payload),
         NEW c \in Consumers, r[c].lap < p.full[r[c].index]
  PROVE  /\ p.full[r[c].index] = r[c].lap + 1
         /\ p.empty[r[c].index] = r[c].lap
         /\ c \notin p.arrived[r[c].index]
         /\ p.load[r[c].index] = NoBlock
         /\ Passed(w, r[c].index) = r[c].lap + 1
<1> DEFINE i == r[c].index
<1>1. i \in Stages /\ r[c].lap \in Nat /\ Passed(r[c], i) = r[c].lap
  BY PassedOwnStage DEF Ring
<1>2. p.full[i] \in Nat /\ p.empty[i] \in Nat /\ Passed(w, i) \in Nat
  BY <1>1, RingCounts
<1>3. r[c].lap = p.empty[i] + (IF c \in p.arrived[i] THEN 1 ELSE 0)
  BY <1>1, RingCounts
<1>4. Passed(w, i) \in {p.empty[i], p.empty[i] + 1}
  BY <1>1, RingCounts
<1>5. p.full[i] + (IF p.load[i] = NoBlock THEN 0 ELSE 1) = Passed(w, i)
  BY <1>1, RingCounts
<1> QED BY <1>1, <1>2, <1>3, <1>4, <1>5

-----------------------------------------------------------------------------
(* What the steps of the producer, of the copies and of the consumers do   *)
(* to the counts.                                                          *)

LEMMA EmptyRing ==
  ASSUME NEW Payload
  PROVE  Ring(EmptyPipeline, StartState, [c \in Consumers |-> StartState], {}, Payload)
<1> DEFINE p == EmptyPipeline
           r == [c \in Consumers |-> StartState]
<1>1. StartState \in PipelineState /\ \A s \in Stages : Passed(StartState, s) = 0
  BY DEF StartState, Passed, Stages, PipelineState
<1>2. \A s \in Stages : /\ p.full[s] = 0 /\ p.empty[s] = 0
                        /\ p.arrived[s] = {} /\ p.load[s] = NoBlock
  BY DEF EmptyPipeline
<1>3. p \in PipelineStorage(Payload)
  BY DEF EmptyPipeline, PipelineStorage
<1> HIDE DEF p
<1>4. Counted(p, StartState, r, {})
  BY <1>1, <1>2, ConsumersAssumption
     DEF Counted, CopiesCounted, ProducerWithinOneLap, ReleasesCounted, ReadersSawFull
<1> QED BY <1>1, <1>3, <1>4 DEF Ring, p

LEMMA IssueKeepsRing ==
  ASSUME NEW p, NEW w, NEW r, NEW reading, NEW Payload, Ring(p, w, r, reading, Payload),
         NEW b \in Payload, b # NoBlock, AcquireReady(p, w)
  PROVE  Ring(Issue(p, w, b), Advance(w), r, reading, Payload)
<1> DEFINE i == w.index
           q == Issue(p, w, b)
           v == Advance(w)
<1>1. i \in Stages /\ w.lap \in Nat /\ w \in PipelineState /\ p \in PipelineStorage(Payload)
  BY PassedOwnStage DEF Ring
<1>2. p.load[i] = NoBlock /\ p.full[i] = w.lap /\ p.empty[i] = w.lap /\ p.arrived[i] = {}
  BY AcquiredStageIsFree
<1>3. /\ q \in PipelineStorage(Payload)
      /\ q.full = p.full /\ q.empty = p.empty /\ q.arrived = p.arrived
      /\ q.load = [p.load EXCEPT ![i] = b]
  BY <1>1, IssueFields
<1>4. /\ v \in PipelineState
      /\ \A s \in Stages : Passed(v, s) = Passed(w, s) + (IF s = i THEN 1 ELSE 0)
  BY <1>1, AdvancePasses
<1> HIDE DEF q, v
<1>5. p.load \in [Stages -> Payload \cup {NoBlock}]
  BY <1>1 DEF PipelineStorage
<1>6. CopiesCounted(q, v)
  <2> SUFFICES ASSUME NEW s \in Stages
               PROVE  q.full[s] + (IF q.load[s] = NoBlock THEN 0 ELSE 1) = Passed(v, s)
    BY DEF CopiesCounted
  <2>1. p.full[s] + (IF p.load[s] = NoBlock THEN 0 ELSE 1) = Passed(w, s) /\ p.full[s] \in Nat
    BY RingCounts
  <2>2. q.load[s] = IF s = i THEN b ELSE p.load[s] BY <1>3, <1>5
  <2>3. Passed(v, s) = Passed(w, s) + (IF s = i THEN 1 ELSE 0) BY <1>4
  <2>4. CASE s = i BY <2>1, <2>2, <2>3, <2>4, <1>2, <1>3
  <2>5. CASE s # i BY <2>1, <2>2, <2>3, <2>5, <1>3
  <2> QED BY <2>4, <2>5
<1>7. ProducerWithinOneLap(q, v)
  <2> SUFFICES ASSUME NEW s \in Stages PROVE Passed(v, s) \in {q.empty[s], q.empty[s] + 1}
    BY DEF ProducerWithinOneLap
  <2>1. Passed(w, s) \in {p.empty[s], p.empty[s] + 1} /\ p.empty[s] \in Nat BY RingCounts
  <2>2. s = i => Passed(w, s) = w.lap BY <1>1, PassedOwnStage
  <2> QED BY <1>1, <1>2, <1>3, <1>4, <2>1, <2>2
<1>8. ReleasesCounted(q, r) /\ ReadersSawFull(q, r, reading)
  BY <1>3 DEF Ring, Counted, ReleasesCounted, ReadersSawFull
<1>9. Counted(q, v, r, reading) BY <1>6, <1>7, <1>8 DEF Counted
<1> QED BY <1>3, <1>4, <1>9 DEF Ring, q, v

LEMMA LandKeepsRing ==
  ASSUME NEW p, NEW w, NEW r, NEW reading, NEW Payload, Ring(p, w, r, reading, Payload),
         NEW s \in Stages, p.load[s] # NoBlock
  PROVE  Ring(Land(p, s), w, r, reading, Payload)
<1> DEFINE q == Land(p, s)
<1>0. p \in PipelineStorage(Payload) BY DEF Ring
<1>1. /\ q \in PipelineStorage(Payload) /\ q.empty = p.empty /\ q.arrived = p.arrived
      /\ \A t \in Stages : /\ q.full[t] = p.full[t] + (IF t = s THEN 1 ELSE 0)
                            /\ q.load[t] = IF t = s THEN NoBlock ELSE p.load[t]
  BY <1>0, LandFields
<1> HIDE DEF q
<1>2. /\ p.full \in [Stages -> Nat] /\ p.load \in [Stages -> Payload \cup {NoBlock}]
      /\ r \in [Consumers -> PipelineState] /\ reading \subseteq Consumers
  BY DEF Ring, PipelineStorage
<1>3. CopiesCounted(q, w)
  <2> SUFFICES ASSUME NEW t \in Stages
               PROVE  q.full[t] + (IF q.load[t] = NoBlock THEN 0 ELSE 1) = Passed(w, t)
    BY DEF CopiesCounted
  <2>1. p.full[t] + (IF p.load[t] = NoBlock THEN 0 ELSE 1) = Passed(w, t) /\ p.full[t] \in Nat
    BY RingCounts
  <2>2. CASE t = s
    <3>1. q.full[t] = p.full[t] + 1 /\ q.load[t] = NoBlock BY <1>1, <1>2, <2>2
    <3> QED BY <2>1, <2>2, <3>1
  <2>3. CASE t # s
    <3>1. q.full[t] = p.full[t] /\ q.load[t] = p.load[t] BY <1>1, <1>2, <2>3
    <3> QED BY <2>1, <3>1
  <2> QED BY <2>2, <2>3
<1>4. ProducerWithinOneLap(q, w)
  BY <1>1 DEF Ring, Counted, ProducerWithinOneLap
<1>5. ReleasesCounted(q, r)
  <2> SUFFICES ASSUME NEW t \in Stages
               PROVE  /\ q.arrived[t] # Consumers
                      /\ \A c \in Consumers :
                           /\ Passed(r[c], t) = q.empty[t] + (IF c \in q.arrived[t] THEN 1 ELSE 0)
                           /\ Passed(r[c], t) <= q.full[t]
    BY DEF ReleasesCounted
  <2>1. q.full[t] \in Nat /\ p.full[t] \in Nat /\ p.full[t] <= q.full[t] BY <1>1, <1>2
  <2>2. /\ p.arrived[t] # Consumers
        /\ \A c \in Consumers :
             /\ Passed(r[c], t) \in Nat
             /\ Passed(r[c], t) = p.empty[t] + (IF c \in p.arrived[t] THEN 1 ELSE 0)
             /\ Passed(r[c], t) <= p.full[t]
    BY RingCounts
  <2> QED BY <1>1, <2>1, <2>2
<1>6. ReadersSawFull(q, r, reading)
  <2> SUFFICES ASSUME NEW c \in reading PROVE r[c].lap < q.full[r[c].index]
    BY DEF ReadersSawFull
  <2>1. r[c].index \in Stages /\ r[c].lap \in Nat BY <1>2, PassedOwnStage
  <2>2. r[c].lap < p.full[r[c].index] BY DEF Ring, Counted, ReadersSawFull
  <2>3. /\ p.full[r[c].index] \in Nat /\ q.full[r[c].index] \in Nat
        /\ p.full[r[c].index] <= q.full[r[c].index]
    BY <1>1, <1>2, <2>1
  <2> QED BY <2>1, <2>2, <2>3
<1>7. Counted(q, w, r, reading) BY <1>3, <1>4, <1>5, <1>6 DEF Counted
<1> QED BY <1>1, <1>7 DEF Ring, q

LEMMA WaitKeepsRing ==
  ASSUME NEW p, NEW w, NEW r, NEW reading, NEW Payload, Ring(p, w, r, reading, Payload),
         NEW c \in Consumers, r[c].lap < p.full[r[c].index]
  PROVE  Ring(p, w, r, reading \cup {c}, Payload)
<1>1. ReadersSawFull(p, r, reading \cup {c})
  BY DEF Ring, Counted, ReadersSawFull
<1>2. Counted(p, w, r, reading \cup {c}) BY <1>1 DEF Ring, Counted
<1> QED BY <1>2 DEF Ring

LEMMA ReleaseKeepsRing ==
  ASSUME NEW p, NEW w, NEW r, NEW reading, NEW Payload, Ring(p, w, r, reading, Payload),
         NEW c \in reading
  PROVE  Ring(Release(p, r[c], c), w, [r EXCEPT ![c] = Advance(r[c])], reading \ {c}, Payload)
<1> DEFINE i == r[c].index
           q == Release(p, r[c], c)
           r2 == [r EXCEPT ![c] = Advance(r[c])]
           full == p.arrived[i] \cup {c} = Consumers
<1>0. c \in Consumers /\ r \in [Consumers -> PipelineState] /\ p \in PipelineStorage(Payload)
  BY DEF Ring
<1>1. i \in Stages /\ r[c].lap \in Nat /\ r[c] \in PipelineState
  BY <1>0, PassedOwnStage
<1>2. /\ p.full[i] = r[c].lap + 1 /\ p.empty[i] = r[c].lap
      /\ c \notin p.arrived[i] /\ p.load[i] = NoBlock
      /\ Passed(w, i) = r[c].lap + 1
  <2>1. r[c].lap < p.full[r[c].index]
    BY DEF Ring, Counted, ReadersSawFull
  <2> QED BY <1>0, <2>1, ReadStageIsHeld
<1>3. /\ q \in PipelineStorage(Payload)
      /\ q.full = p.full /\ q.load = p.load /\ q.data = p.data
      /\ \A t \in Stages : t # i => q.arrived[t] = p.arrived[t] /\ q.empty[t] = p.empty[t]
      /\ full => q.arrived[i] = {} /\ q.empty[i] = p.empty[i] + 1
      /\ ~full => q.arrived[i] = p.arrived[i] \cup {c} /\ q.empty[i] = p.empty[i]
  <2>1. /\ q \in PipelineStorage(Payload)
        /\ q.full = p.full /\ q.load = p.load /\ q.data = p.data
        /\ \A t \in Stages : t # i => q.arrived[t] = p.arrived[t] /\ q.empty[t] = p.empty[t]
    BY <1>0, <1>1, ReleaseFields
  <2>2. ASSUME full PROVE q.arrived[i] = {} /\ q.empty[i] = p.empty[i] + 1
    BY <1>0, <1>1, <2>2, ReleaseFields
  <2>3. ASSUME ~full PROVE q.arrived[i] = p.arrived[i] \cup {c} /\ q.empty[i] = p.empty[i]
    BY <1>0, <1>1, <2>3, ReleaseFields
  <2> QED BY <2>1, <2>2, <2>3
<1>4. Advance(r[c]) \in PipelineState BY <1>1, AdvancePasses
<1>5. /\ r2 \in [Consumers -> PipelineState]
      /\ \A d \in Consumers : r2[d] = IF d = c THEN Advance(r[c]) ELSE r[d]
  BY <1>0, <1>4
<1>6. \A d \in Consumers, s \in Stages :
        Passed(r2[d], s) = Passed(r[d], s) + (IF d = c /\ s = i THEN 1 ELSE 0)
  <2> SUFFICES ASSUME NEW d \in Consumers, NEW s \in Stages
               PROVE  Passed(r2[d], s) = Passed(r[d], s) + (IF d = c /\ s = i THEN 1 ELSE 0)
    OBVIOUS
  <2>1. Passed(r[d], s) \in Nat BY <1>0, PassedNat
  <2>2. CASE d = c BY <1>1, <1>5, <2>2, AdvancePasses
  <2>3. CASE d # c BY <1>5, <2>1, <2>3
  <2> QED BY <2>2, <2>3
<1> HIDE DEF q, r2, full
<1>7. /\ p.full \in [Stages -> Nat] /\ p.empty \in [Stages -> Nat]
      /\ p.arrived \in [Stages -> SUBSET Consumers]
  BY <1>0 DEF PipelineStorage
<1>8. CopiesCounted(q, w)
  BY <1>3 DEF Ring, Counted, CopiesCounted
<1>9. ProducerWithinOneLap(q, w)
  <2> SUFFICES ASSUME NEW s \in Stages
               PROVE  Passed(w, s) \in {q.empty[s], q.empty[s] + 1}
    BY DEF ProducerWithinOneLap
  <2>1. Passed(w, s) \in {p.empty[s], p.empty[s] + 1} /\ p.empty[s] \in Nat
    BY RingCounts
  <2>2. CASE s = i
    <3>1. q.empty[s] \in {p.empty[s], p.empty[s] + 1} BY <1>3, <1>7, <2>2
    <3> QED BY <1>1, <1>2, <2>2, <3>1
  <2>3. CASE s # i
    <3>1. q.empty[s] = p.empty[s] BY <1>3, <1>7, <2>3
    <3> QED BY <2>1, <3>1
  <2> QED BY <2>2, <2>3
<1>10. ReleasesCounted(q, r2)
  <2> SUFFICES ASSUME NEW s \in Stages
               PROVE  /\ q.arrived[s] # Consumers
                      /\ \A d \in Consumers :
                           /\ Passed(r2[d], s) = q.empty[s] + (IF d \in q.arrived[s] THEN 1 ELSE 0)
                           /\ Passed(r2[d], s) <= q.full[s]
    BY DEF ReleasesCounted
  <2>1. /\ p.arrived[s] # Consumers /\ p.empty[s] \in Nat /\ p.full[s] \in Nat
        /\ \A d \in Consumers :
             /\ Passed(r[d], s) \in Nat
             /\ Passed(r[d], s) = p.empty[s] + (IF d \in p.arrived[s] THEN 1 ELSE 0)
             /\ Passed(r[d], s) <= p.full[s]
    BY RingCounts
  <2>3. CASE s # i
    <3>1. q.arrived[s] = p.arrived[s] /\ q.empty[s] = p.empty[s] /\ q.full[s] = p.full[s]
      BY <1>3, <1>7, <2>3
    <3> QED BY <1>6, <2>1, <2>3, <3>1
  <2>4. CASE s = i /\ full
    <3>1. /\ q.arrived[s] = {} /\ q.empty[s] = p.empty[s] + 1 /\ q.full[s] = p.full[s]
      BY <1>1, <1>3, <1>7, <2>4
    <3>2. \A d \in Consumers : d # c => d \in p.arrived[s]
      BY <2>4 DEF full
    <3> QED BY <1>1, <1>2, <1>6, <2>1, <2>4, <3>1, <3>2, ConsumersAssumption
  <2>5. CASE s = i /\ ~full
    <3>1. /\ q.arrived[s] = p.arrived[s] \cup {c} /\ q.empty[s] = p.empty[s]
          /\ q.full[s] = p.full[s]
      BY <1>1, <1>3, <1>7, <2>5
    <3> QED BY <1>1, <1>2, <1>6, <2>1, <2>5, <3>1 DEF full
  <2> QED BY <2>3, <2>4, <2>5
<1>11. ReadersSawFull(q, r2, reading \ {c})
  <2> SUFFICES ASSUME NEW d \in reading, d # c PROVE r2[d].lap < q.full[r2[d].index]
    BY DEF ReadersSawFull
  <2>1. d \in Consumers BY DEF Ring
  <2> QED BY <1>3, <1>5, <2>1 DEF Ring, Counted, ReadersSawFull
<1>12. Counted(q, w, r2, reading \ {c}) BY <1>8, <1>9, <1>10, <1>11 DEF Counted
<1> QED BY <1>3, <1>5, <1>12 DEF Ring, q, r2

(* What the stages hold does not matter.                                   *)
LEMMA DataKeepsRing ==
  ASSUME NEW p, NEW w, NEW r, NEW reading, NEW Payload, Ring(p, w, r, reading, Payload),
         NEW data \in [Stages -> Payload \cup {NoBlock}]
  PROVE  Ring([p EXCEPT !.data = data], w, r, reading, Payload)
<1> DEFINE q == [p EXCEPT !.data = data]
<1>1. /\ q \in PipelineStorage(Payload)
      /\ q.full = p.full /\ q.empty = p.empty /\ q.arrived = p.arrived /\ q.load = p.load
  BY DEF Ring, PipelineStorage
<1> HIDE DEF q
<1>2. Counted(q, w, r, reading)
  BY <1>1 DEF Ring, Counted, CopiesCounted, ProducerWithinOneLap, ReleasesCounted,
     ReadersSawFull
<1> QED BY <1>1, <1>2 DEF Ring, q
-----------------------------------------------------------------------------
(* Positions as numbers: how many blocks have gone by.                     *)
Pos(st) == st.lap * kStages + st.index

LEMMA PosAdvance ==
  ASSUME NEW st \in PipelineState
  PROVE  Pos(st) \in Nat /\ Pos(Advance(st)) = Pos(st) + 1
<1>1. st.lap \in Nat /\ st.index \in 0 .. kStages - 1 /\ kStages \in Nat
  BY StagesAssumption DEF PipelineState, Stages
<1>2. st.lap * kStages \in Nat /\ (st.lap + 1) * kStages = st.lap * kStages + kStages
  BY <1>1
<1>3. CASE st.index + 1 = kStages
  BY <1>1, <1>2, <1>3 DEF Pos, Advance
<1>4. CASE st.index + 1 # kStages
  BY <1>1, <1>2, <1>4 DEF Pos, Advance
<1> QED BY <1>3, <1>4

LEMMA PosStart == Pos(StartState) = 0
<1>1. kStages \in Nat /\ 0 * kStages = 0 BY StagesAssumption
<1> QED BY <1>1 DEF Pos, StartState

(* Fewer blocks gone by: an earlier lap, or an earlier stage of this one.  *)
LEMMA PosOrder ==
  ASSUME NEW a \in PipelineState, NEW b \in PipelineState, Pos(a) <= Pos(b)
  PROVE  a.lap < b.lap \/ (a.lap = b.lap /\ a.index <= b.index)
<1>1. /\ a.lap \in Nat /\ a.index \in Nat /\ a.index < kStages /\ kStages \in Nat
      /\ b.lap \in Nat /\ b.index \in Nat /\ b.index < kStages
  BY StagesAssumption DEF PipelineState, Stages
<1>2. ASSUME b.lap < a.lap PROVE FALSE
  <2>1. PICK d \in Nat : a.lap = b.lap + 1 + d
    <3>1. a.lap - b.lap - 1 \in Nat /\ a.lap = b.lap + 1 + (a.lap - b.lap - 1) BY <1>1, <1>2
    <3> QED BY <3>1
  <2>2. a.lap * kStages = b.lap * kStages + kStages + d * kStages
    BY <1>1, <2>1
  <2>3. d * kStages \in Nat /\ b.lap * kStages \in Nat /\ a.lap * kStages \in Nat
    BY <1>1, <2>1
  <2>4. a.lap * kStages + a.index <= b.lap * kStages + b.index BY DEF Pos
  <2> QED BY <1>1, <2>2, <2>3, <2>4
<1>3. a.lap = b.lap => a.index <= b.index
  <2> SUFFICES ASSUME a.lap = b.lap PROVE a.index <= b.index OBVIOUS
  <2>1. b.lap * kStages + a.index <= b.lap * kStages + b.index BY DEF Pos
  <2>2. b.lap * kStages \in Nat BY <1>1
  <2> QED BY <1>1, <2>1, <2>2
<1> QED BY <1>1, <1>2, <1>3

LEMMA PosMonotone ==
  ASSUME NEW a \in PipelineState, NEW b \in PipelineState, Pos(a) <= Pos(b), NEW s \in Stages
  PROVE  Passed(a, s) <= Passed(b, s)
<1>1. a.lap < b.lap \/ (a.lap = b.lap /\ a.index <= b.index) BY PosOrder
<1> QED BY <1>1 DEF PipelineState, Stages, Passed

LEMMA PosUnique ==
  ASSUME NEW a \in PipelineState, NEW b \in PipelineState, Pos(a) = Pos(b)
  PROVE  a = b
<1>1. Pos(a) \in Nat /\ Pos(a) <= Pos(b) /\ Pos(b) <= Pos(a) BY PosAdvance
<1>2. /\ a.lap < b.lap \/ (a.lap = b.lap /\ a.index <= b.index)
      /\ b.lap < a.lap \/ (b.lap = a.lap /\ b.index <= a.index)
  BY <1>1, PosOrder
<1>3. a.lap = b.lap /\ a.index = b.index BY <1>2 DEF PipelineState, Stages
<1> QED BY <1>3, PassedOwnStage

(* A consumer is never ahead of the producer, and reads only what has been *)
(* issued.                                                                 *)
LEMMA ConsumersBehind ==
  ASSUME NEW p, NEW w, NEW r, NEW reading, NEW Payload, Ring(p, w, r, reading, Payload),
         NEW c \in Consumers
  PROVE  /\ Pos(r[c]) <= Pos(w)
         /\ c \in reading => Pos(r[c]) < Pos(w)
<1>1. r[c] \in PipelineState /\ w \in PipelineState BY DEF Ring
<1>2. Pos(r[c]) \in Nat /\ Pos(w) \in Nat BY <1>1, PosAdvance
<1>3. ASSUME Pos(w) < Pos(r[c]) PROVE FALSE
  <2>1. Pos(Advance(w)) <= Pos(r[c]) /\ Advance(w) \in PipelineState
    BY <1>1, <1>2, <1>3, PosAdvance, AdvancePasses
  <2>2. w.index \in Stages /\ w.lap \in Nat /\ Passed(w, w.index) = w.lap
    BY <1>1, PassedOwnStage
  <2>3. Passed(Advance(w), w.index) = w.lap + 1 BY <1>1, <2>2, AdvancePasses
  <2>4. w.lap + 1 <= Passed(r[c], w.index) BY <1>1, <2>1, <2>2, <2>3, PosMonotone
  <2>5. /\ Passed(r[c], w.index) \in Nat /\ p.full[w.index] \in Nat
        /\ Passed(r[c], w.index) <= p.full[w.index]
        /\ p.full[w.index] + (IF p.load[w.index] = NoBlock THEN 0 ELSE 1) = w.lap
    BY <2>2, RingCounts
  <2> QED BY <2>2, <2>4, <2>5
<1>4. ASSUME c \in reading, Pos(w) = Pos(r[c]) PROVE FALSE
  <2>1. w = r[c] BY <1>1, <1>4, PosUnique
  <2>2. w.index \in Stages /\ w.lap \in Nat /\ Passed(w, w.index) = w.lap
    BY <1>1, PassedOwnStage
  <2>3. w.lap < p.full[w.index] BY <1>4, <2>1 DEF Ring, Counted, ReadersSawFull
  <2>4. /\ p.full[w.index] \in Nat
        /\ p.full[w.index] + (IF p.load[w.index] = NoBlock THEN 0 ELSE 1) = w.lap
    BY <2>2, RingCounts
  <2> QED BY <2>2, <2>3, <2>4
<1> QED BY <1>2, <1>3, <1>4

(* Where another consumer reads or has been, the copy has landed: that is  *)
(* how a warpgroup may leave the wait for a full barrier to another.       *)
LEMMA FollowersFindFull ==
  ASSUME NEW p, NEW w, NEW r, NEW reading, NEW Payload, Ring(p, w, r, reading, Payload),
         NEW c \in Consumers, NEW d \in Consumers,
         Pos(r[c]) < Pos(r[d]) \/ (Pos(r[c]) = Pos(r[d]) /\ d \in reading)
  PROVE  r[c].lap < p.full[r[c].index]
<1>1. r[c] \in PipelineState /\ r[d] \in PipelineState BY DEF Ring
<1>2. Pos(r[c]) \in Nat /\ Pos(r[d]) \in Nat BY <1>1, PosAdvance
<1>3. r[c].index \in Stages /\ r[c].lap \in Nat /\ Passed(r[c], r[c].index) = r[c].lap
  BY <1>1, PassedOwnStage
<1>4. CASE Pos(r[c]) < Pos(r[d])
  <2>1. Pos(Advance(r[c])) <= Pos(r[d]) /\ Advance(r[c]) \in PipelineState
    BY <1>1, <1>2, <1>4, PosAdvance, AdvancePasses
  <2>2. Passed(Advance(r[c]), r[c].index) = r[c].lap + 1 BY <1>1, <1>3, AdvancePasses
  <2>3. r[c].lap + 1 <= Passed(r[d], r[c].index) BY <1>1, <1>3, <2>1, <2>2, PosMonotone
  <2>4. /\ Passed(r[d], r[c].index) \in Nat /\ p.full[r[c].index] \in Nat
        /\ Passed(r[d], r[c].index) <= p.full[r[c].index]
    BY <1>3, RingCounts
  <2> QED BY <1>3, <2>3, <2>4
<1>5. CASE Pos(r[c]) = Pos(r[d]) /\ d \in reading
  <2>1. r[c] = r[d] BY <1>1, <1>5, PosUnique
  <2> QED BY <1>5, <2>1 DEF Ring, Counted, ReadersSawFull
<1> QED BY <1>4, <1>5

(* When all consumers have caught up with the producer nothing is in       *)
(* flight, and every stage has been released as often as it was filled.    *)
LEMMA CaughtUp ==
  ASSUME NEW p, NEW w, NEW r, NEW reading, NEW Payload, Ring(p, w, r, reading, Payload),
         \A c \in Consumers : Pos(r[c]) = Pos(w), NEW s \in Stages
  PROVE  p.load[s] = NoBlock /\ p.full[s] = p.empty[s]
<1>1. \A c \in Consumers : r[c] = w BY PosUnique DEF Ring
<1>2. PICK c \in Consumers : TRUE BY ConsumersAssumption
<1>3. /\ p.full[s] \in Nat /\ p.empty[s] \in Nat /\ p.arrived[s] \subseteq Consumers
      /\ Passed(w, s) \in Nat /\ p.arrived[s] # Consumers
      /\ p.full[s] + (IF p.load[s] = NoBlock THEN 0 ELSE 1) = Passed(w, s)
      /\ Passed(w, s) <= p.full[s]
      /\ \A d \in Consumers : Passed(w, s) = p.empty[s] + (IF d \in p.arrived[s] THEN 1 ELSE 0)
  BY <1>1, <1>2, RingCounts
<1>4. p.load[s] = NoBlock /\ p.full[s] = Passed(w, s) BY <1>3
<1>5. PICK d \in Consumers : d \notin p.arrived[s] BY <1>3
<1>6. Passed(w, s) = p.empty[s] BY <1>3, <1>5
<1> QED BY <1>4, <1>6

(* producer_tail waits until that is so.                                   *)
LEMMA ReleasedIsDrained ==
  ASSUME NEW p, NEW w, NEW r, NEW reading, NEW Payload, Ring(p, w, r, reading, Payload),
         AllReleased(p, w), NEW s \in Stages
  PROVE  p.load[s] = NoBlock /\ p.full[s] = p.empty[s]
<1>1. w \in PipelineState BY DEF Ring
<1>2. /\ p.full[s] \in Nat /\ p.empty[s] \in Nat /\ Passed(w, s) \in Nat
      /\ p.full[s] + (IF p.load[s] = NoBlock THEN 0 ELSE 1) = Passed(w, s)
      /\ Passed(w, s) \in {p.empty[s], p.empty[s] + 1}
      /\ \A c \in Consumers : p.empty[s] <= Passed(r[c], s) /\ Passed(r[c], s) <= p.full[s]
  BY RingCounts
<1>3. PhaseOver(p.empty[s], (Passed(w, s) + 1) % 2)
  <2>1. PhaseOver(p.empty[s], ProducerPhase(IF s < w.index THEN [w EXCEPT !.lap = @ + 1] ELSE w))
    BY DEF AllReleased
  <2>2. CASE s < w.index
    <3>1. [w EXCEPT !.lap = @ + 1].lap = Passed(w, s) BY <1>1, <2>2 DEF PipelineState, Passed
    <3> QED BY <2>1, <2>2, <3>1 DEF ProducerPhase
  <2>3. CASE ~(s < w.index)
    <3>1. w.lap = Passed(w, s) BY <1>1, <2>3 DEF PipelineState, Passed
    <3> QED BY <2>1, <2>3, <3>1 DEF ProducerPhase
  <2> QED BY <2>2, <2>3
<1>4. Passed(w, s) = p.empty[s] BY <1>2, <1>3, ParitySeparates
<1>5. PICK c \in Consumers : TRUE BY ConsumersAssumption
<1>6. Passed(r[c], s) \in Nat /\ p.empty[s] <= Passed(r[c], s) /\ Passed(r[c], s) <= p.full[s]
  BY <1>2, <1>5, RingCounts
<1> QED BY <1>2, <1>4, <1>6

-----------------------------------------------------------------------------
(* A pipeline through which the blocks 0, 1, 2, ... go, one after another. *)

(* On its way to a stage, and in it, is the block of that lap.             *)
Numbered(p) ==
  \A s \in Stages :
    /\ p.load[s] # NoBlock => p.load[s] = p.full[s] * kStages + s
    /\ p.full[s] > 0 => p.data[s] = (p.full[s] - 1) * kStages + s

NumberedRing(p, w, r, reading) == Ring(p, w, r, reading, Nat) /\ Numbered(p)

(* One step: the next block is issued or lands, a consumer begins to read, *)
(* or has read and releases; or nothing.                                   *)
NumberedMove(p, w, r, reading, p2, w2, r2, reading2) ==
  \/ /\ AcquireReady(p, w)
     /\ p2 = Issue(p, w, Pos(w)) /\ w2 = Advance(w) /\ r2 = r /\ reading2 = reading
  \/ \E s \in Stages :
       p.load[s] # NoBlock /\ p2 = Land(p, s) /\ w2 = w /\ r2 = r /\ reading2 = reading
  \/ \E c \in Consumers :
       FullReady(p, r[c]) /\ reading2 = reading \cup {c} /\ p2 = p /\ w2 = w /\ r2 = r
  \/ \E c \in reading :
       /\ p2 = Release(p, r[c], c) /\ r2 = [r EXCEPT ![c] = Advance(r[c])] /\ reading2 = reading \ {c}
       /\ w2 = w
  \/ p2 = p /\ w2 = w /\ r2 = r /\ reading2 = reading

LEMMA NumberedStart ==
  NumberedRing(EmptyPipeline, StartState, [c \in Consumers |-> StartState], {})
<1>1. \A s \in Stages : EmptyPipeline.full[s] = 0 /\ EmptyPipeline.load[s] = NoBlock
  BY DEF EmptyPipeline
<1> QED BY <1>1, EmptyRing DEF NumberedRing, Numbered

(* A reader finds the block of its position, and keeps it.                 *)
LEMMA NumberedRead ==
  ASSUME NEW p, NEW w, NEW r, NEW reading, NumberedRing(p, w, r, reading), NEW c \in reading
  PROVE  p.data[r[c].index] = Pos(r[c]) /\ p.load[r[c].index] = NoBlock
<1> DEFINE i == r[c].index
<1>1. /\ Ring(p, w, r, reading, Nat) /\ Numbered(p) /\ c \in Consumers
      /\ r[c] \in PipelineState /\ r[c].lap < p.full[i]
  BY DEF NumberedRing, Ring, Counted, ReadersSawFull
<1>2. i \in Stages /\ r[c].lap \in Nat BY <1>1, PassedOwnStage
<1>3. p.full[i] = r[c].lap + 1 /\ p.load[i] = NoBlock BY <1>1, ReadStageIsHeld
<1>4. p.data[i] = (p.full[i] - 1) * kStages + i BY <1>1, <1>2, <1>3 DEF Numbered
<1>5. p.full[i] - 1 = r[c].lap BY <1>2, <1>3
<1> QED BY <1>3, <1>4, <1>5 DEF Pos

LEMMA NumberedKept ==
  ASSUME NoBlock \notin Nat,
         NEW p, NEW w, NEW r, NEW reading, NumberedRing(p, w, r, reading),
         NEW p2, NEW w2, NEW r2, NEW reading2, NumberedMove(p, w, r, reading, p2, w2, r2, reading2)
  PROVE  NumberedRing(p2, w2, r2, reading2)
<1> USE DEF NumberedRing
<1>1. /\ p \in PipelineStorage(Nat) /\ w \in PipelineState /\ reading \subseteq Consumers
      /\ r \in [Consumers -> PipelineState] /\ Ring(p, w, r, reading, Nat)
  BY DEF Ring
<1>2. ASSUME AcquireReady(p, w), p2 = Issue(p, w, Pos(w)), w2 = Advance(w), r2 = r, reading2 = reading
      PROVE  NumberedRing(p2, w2, r2, reading2)
  <2>1. Pos(w) \in Nat /\ Pos(w) # NoBlock BY <1>1, PosAdvance
  <2>2. Ring(p2, w2, r2, reading2, Nat) BY <1>1, <1>2, <2>1, IssueKeepsRing
  <2>3. p2.full = p.full /\ p2.data = p.data /\ p2.load = [p.load EXCEPT ![w.index] = Pos(w)]
    BY <1>1, <1>2, <2>1, IssueFields
  <2>4. p.full[w.index] = w.lap BY <1>1, <1>2, AcquiredStageIsFree
  <2>5. w.index \in Stages /\ p.load \in [Stages -> Nat \cup {NoBlock}]
    BY <1>1 DEF PipelineState, PipelineStorage
  <2>6. p2.load[w.index] = p.full[w.index] * kStages + w.index BY <2>3, <2>4, <2>5 DEF Pos
  <2>7. \A s \in Stages : s # w.index => p2.load[s] = p.load[s] BY <2>3, <2>5
  <2>8. Numbered(p2) BY <2>3, <2>6, <2>7 DEF Numbered
  <2> QED BY <2>2, <2>8
<1>3. ASSUME NEW s \in Stages, p.load[s] # NoBlock, p2 = Land(p, s), w2 = w, r2 = r, reading2 = reading
      PROVE  NumberedRing(p2, w2, r2, reading2)
  <2>1. Ring(p2, w2, r2, reading2, Nat) BY <1>1, <1>3, LandKeepsRing
  <2>2. \A t \in Stages : /\ p2.full[t] = p.full[t] + (IF t = s THEN 1 ELSE 0)
                          /\ p2.data[t] = IF t = s THEN p.load[t] ELSE p.data[t]
                          /\ p2.load[t] = IF t = s THEN NoBlock ELSE p.load[t]
    BY <1>1, <1>3, LandFields
  <2>3. p.full \in [Stages -> Nat] BY <1>1 DEF PipelineStorage
  <2>4. p2.full[s] - 1 = p.full[s] BY <2>2, <2>3
  <2>5. p2.data[s] = (p2.full[s] - 1) * kStages + s
    <3>1. p2.data[s] = p.full[s] * kStages + s BY <1>3, <2>2 DEF Numbered
    <3> QED BY <2>4, <3>1
  <2>6. p2.load[s] = NoBlock BY <2>2
  <2>7. \A t \in Stages : t # s => p2.full[t] = p.full[t] /\ p2.data[t] = p.data[t] /\ p2.load[t] = p.load[t]
    BY <2>2, <2>3
  <2>8. Numbered(p2) BY <2>5, <2>6, <2>7 DEF Numbered
  <2> QED BY <2>1, <2>8
<1>4. ASSUME NEW c \in Consumers, FullReady(p, r[c]), reading2 = reading \cup {c}, p2 = p, w2 = w, r2 = r
      PROVE  NumberedRing(p2, w2, r2, reading2)
  <2>1. r[c].lap < p.full[r[c].index] BY <1>1, <1>4, AwaitedCopyLanded
  <2> QED BY <1>1, <1>4, <2>1, WaitKeepsRing
<1>5. ASSUME NEW c \in reading, p2 = Release(p, r[c], c), r2 = [r EXCEPT ![c] = Advance(r[c])],
             reading2 = reading \ {c}, w2 = w
      PROVE  NumberedRing(p2, w2, r2, reading2)
  <2>1. Ring(Release(p, r[c], c), w, [r EXCEPT ![c] = Advance(r[c])], reading \ {c}, Nat)
    BY <1>1, ReleaseKeepsRing
  <2>2. c \in Consumers /\ r[c] \in PipelineState BY <1>1
  <2>3. p2.full = p.full /\ p2.data = p.data /\ p2.load = p.load
    BY <1>1, <1>5, <2>2 DEF Release, PipelineStorage
  <2>4. Numbered(p2) BY <2>3 DEF Numbered
  <2> QED BY <1>5, <2>1, <2>4
<1> QED BY <1>2, <1>3, <1>4, <1>5 DEF NumberedMove
=============================================================================
