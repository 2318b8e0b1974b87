------------------------------ MODULE TmaRing ------------------------------
(***************************************************************************)
(* One TmaPipeline used the way every mainloop of the repository uses its  *)
(* K and V pipelines: the producer acquires, issues and advances; every    *)
(* consumer waits, reads, releases and advances, each at its own pace.     *)
(* Copies land in any order.  Nobody knows how far the others are: they    *)
(* only test the parity of the mbarriers.                                  *)
(***************************************************************************)
EXTENDS TmaPipeline

(* A payload is identified by the ring position it was issued for: reading *)
(* a stage at position st must find st.                                    *)

CONSTANT Laps  (* bound: the laps in which the producer goes on            *)

(* A copy in flight is told from none.                                     *)
ASSUME NoBlockAssumption == NoBlock \notin PipelineState

VARIABLES
  pipe,     (* the pipeline's storage                                      *)
  write,    (* smem_pipe_write of the producer                             *)
  read,     (* smem_pipe_read of each consumer                             *)
  reading   (* the consumers whose gemm is reading their stage             *)

vars == <<pipe, write, read, reading>>

Init ==
  /\ pipe = EmptyPipeline
  /\ write = StartState
  /\ read = [c \in Consumers |-> StartState]
  /\ reading = {}

ProducerLoad ==
  /\ write.lap \in Laps
  /\ AcquireReady(pipe, write)
  /\ pipe' = Issue(pipe, write, write)
  /\ write' = Advance(write)
  /\ UNCHANGED <<read, reading>>

TmaLand(s) ==
  /\ pipe.load[s] # NoBlock
  /\ pipe' = Land(pipe, s)
  /\ UNCHANGED <<write, read, reading>>

ConsumerWait(c) ==
  /\ c \notin reading
  /\ FullReady(pipe, read[c])
  /\ reading' = reading \cup {c}
  /\ UNCHANGED <<pipe, write, read>>

ConsumerRelease(c) ==
  /\ c \in reading
  /\ pipe' = Release(pipe, read[c], c)
  /\ read' = [read EXCEPT ![c] = Advance(@)]
  /\ reading' = reading \ {c}
  /\ UNCHANGED write

Next ==
  \/ ProducerLoad
  \/ \E s \in Stages : TmaLand(s)
  \/ \E c \in Consumers : ConsumerWait(c) \/ ConsumerRelease(c)

Spec == Init /\ [][Next]_vars

-----------------------------------------------------------------------------
TypeOK ==
  /\ pipe \in PipelineStorage(PipelineState)
  /\ write \in PipelineState
  /\ read \in [Consumers -> PipelineState]
  /\ reading \in SUBSET Consumers

(* Whatever a gemm reads is the data issued for exactly that position of   *)
(* the ring, and no copy is in flight into the buffer it reads: a parity   *)
(* test never mistakes an older or a later lap for the one awaited.        *)
ReadsOwnLap ==
  \A c \in reading :
    /\ pipe.data[read[c].index] = read[c]
    /\ pipe.load[read[c].index] = NoBlock

(* A copy is issued only into a stage whose every earlier copy has landed  *)
(* and has been read and released by every consumer: no unread buffer is   *)
(* overwritten, although producer_acquire only tests one parity bit.       *)
NoOverwrite ==
  [][\A s \in Stages :
       pipe.load[s] = NoBlock /\ pipe.load'[s] # NoBlock
         => /\ pipe.full[s] = Passed(write, s)
            /\ \A c \in Consumers : /\ Passed(read[c], s) = Passed(write, s)
                                    /\ c \in reading => read[c].index # s]_vars

(* What is in flight into a stage, and what landed there last.             *)
ContentsKnown ==
  \A s \in Stages :
    /\ pipe.load[s] # NoBlock => pipe.load[s] = [index |-> s, lap |-> pipe.full[s]]
    /\ pipe.full[s] > 0 => pipe.data[s] = [index |-> s, lap |-> pipe.full[s] - 1]

RingInv == Counted(pipe, write, read, reading) /\ ContentsKnown

=============================================================================
