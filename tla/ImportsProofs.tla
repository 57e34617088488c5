---------------------------- MODULE ImportsProofs ----------------------------
(***************************************************************************)
(* Proofs about the import pipeline, for any runs, workers and bounds.     *)
(*                                                                         *)
(* FinishImportSynthesis overwrites the synthesis state without looking.   *)
(* It is safe because a run in pass 2 has one process, and stays 'running' *)
(* until that process writes: Begin needs "none", Cancel needs "none", and *)
(* recovery takes only runs no process holds.                              *)
(***************************************************************************)
EXTENDS Imports, TLAPS

OneSynthesizer ==
    /\ \A p \in Procs : proc[p].pc \in Pass2 => syn[proc[p].run] = "running"
    /\ \A p, q \in Procs :
          proc[p].pc \in Pass2 /\ proc[q].pc \in Pass2 /\ proc[p].run = proc[q].run => p = q

AppliesOnce ==
    /\ \A p \in Procs : proc[p].pc \in {"read", "model"} => applied[proc[p].run] = 0
    /\ \A r \in Runs : syn[r] = "none" => applied[r] = 0
    /\ \A r \in Runs : applied[r] <= 1

\* Jobs on their way are rows.
JobsKnown ==
    /\ \A m \in claimed : st[m] # "none"
    /\ \A i \in DOMAIN channel : st[channel[i]] # "none"
    /\ \A p \in Procs : proc[p].pc = "extract" => st[proc[p].mat] # "none"

\* A submission that was not made has no rows.
IdleIsEmpty == \A r \in Runs : sub[r] = "idle" => \A m \in Of(r) : st[m] = "none"

\* A run found ready stays ready, and its submission is over.
Ready(r) == sub[r] = "done" /\ AllTerminal(r)
StaysReady ==
    \A r \in Runs \ (early \union late) :
        /\ syn[r] = "running" => Ready(r)
        /\ \A p \in Procs : proc[p].pc = "begin" /\ proc[p].run = r => Ready(r)

\* Two runs that are active, or past the gate and not yet known, raced.
Present(r) == IsActive(r) \/ (sub[r] = "enqueue" /\ ~Known(r))
GateHolds == \A r, q \in Runs : r # q /\ Present(r) /\ Present(q) => {r, q} \subseteq raced

IInv == /\ TypeOK /\ OneSynthesizer /\ AppliesOnce
        /\ JobsKnown /\ IdleIsEmpty /\ StaysReady /\ GateHolds

LEMMA MaterialsHaveRuns ==
    /\ \A m \in Materials : m[1] \in Runs
    /\ \A r \in Runs : Primary(r) \in Materials /\ Primary(r) \in Of(r)
  <1>1. \A m \in Materials : m[1] \in Runs
    BY DEF Materials
  <1>2. ASSUME NEW r \in Runs PROVE Primary(r) \in Materials
    <2>1. 1 \in 1..Size[r]
      BY ImportsAssumption
    <2> QED
      BY <2>1 DEF Materials, Primary
  <1> QED
    BY <1>1, <1>2 DEF Of, Primary

LEMMA IdleIsAJob == Idle \in Jobs
  BY DEF Idle, Jobs

LEMMA InitTyped == Init => TypeOK
<1> SUFFICES ASSUME Init PROVE TypeOK
  OBVIOUS
<1>1. proc \in [Procs -> Jobs]
  BY DEF Init, Idle, Jobs, Procs
<1>2. \A p \in Procs : proc[p].pc \in {"idle", "recover"}
  BY DEF Init, Idle
<1> QED
  BY <1>1, <1>2, ImportsAssumption DEF Init, TypeOK, Statuses, Pass2

\* What a step does to the processes keeps them typed: nothing, or process p
\* goes on to a job that has what its step needs.
Sound(j) ==
    /\ j \in Jobs
    /\ j.pc = "extract" => j.mat \in Materials
    /\ j.pc \in Pass2 \union {"maybe", "begin"} => j.run \in Runs
    /\ j.pc = "finish" => j.out \in Terminal

LEMMA ProcsTyped ==
    ASSUME TypeOK, NEW p \in Procs, NEW j, Sound(j), proc' = [proc EXCEPT ![p] = j]
    PROVE  /\ proc' \in [Procs -> Jobs]
           /\ \A q \in Procs : Sound(proc'[q])
  BY DEF TypeOK, Sound

LEMMA ProcsSound == TypeOK => \A p \in Procs : Sound(proc[p])
  BY DEF TypeOK, Sound

LEMMA GoSound ==
    ASSUME TypeOK, NEW p \in Procs, NEW s,
           s \in {"idle", "hand", "recover", "resynth", "list", "pending"}
                \/ (s \in {"begin", "read", "mark"} /\ proc[p].run \in Runs)
    PROVE  Sound([proc[p] EXCEPT !.pc = s])
  BY DEF TypeOK, Sound, Jobs, Pass2

LEMMA ReturnSound ==
    ASSUME NEW p \in Procs
    PROVE  /\ Sound(Idle)
           /\ Sound([Idle EXCEPT !.pc = "pending"])
           /\ Sound([Idle EXCEPT !.pc = "recover"])
           /\ \A r \in Runs : Sound([Idle EXCEPT !.pc = "maybe", !.run = r])
           /\ \A m \in Materials : Sound([Idle EXCEPT !.pc = "extract", !.mat = m])
  BY DEF Sound, Jobs, Idle, Pass2

ProcsAre(f) == f \in [Procs -> Jobs] /\ \A q \in Procs : Sound(f[q])

LEMMA ProcsStep == ASSUME TypeOK, [Next]_vars PROVE ProcsAre(proc')
<1> USE DEF At, Go, Return
<1>0. /\ Loop \in Procs
      /\ \A w \in Workers : w \in Procs
  BY DEF Procs
<1>k. proc' = proc => ProcsAre(proc')
  BY ProcsSound DEF ProcsAre, TypeOK
<1>p. ASSUME NEW p \in Procs, NEW j, Sound(j), proc' = [proc EXCEPT ![p] = j]
      PROVE  ProcsAre(proc')
  BY <1>p, ProcsTyped DEF ProcsAre
<1>g. ASSUME NEW p \in Procs, NEW s, Go(p, s),
             s \in {"idle", "hand", "recover", "resynth", "list", "pending"}
                \/ (s \in {"begin", "read", "mark"} /\ proc[p].run \in Runs)
      PROVE  ProcsAre(proc')
  <2>1. Sound([proc[p] EXCEPT !.pc = s])
    BY <1>g, GoSound
  <2> QED
    BY <1>g, <1>p, <2>1
<1>r. ASSUME NEW p \in Procs, Return(p) PROVE ProcsAre(proc')
  BY <1>r, <1>p, ReturnSound
<1>1. ASSUME NEW r \in Runs, SubmitGate(r) \/ Submission(r) \/ CancelImportRun(r) PROVE ProcsAre(proc')
  BY <1>1, <1>k DEF SubmitGate, Submission, EnqueueImport, EnqueueFails, CancelImportRun, pool
<1>2. CASE ClaimImportJobs
  BY <1>2, <1>0, <1>g DEF ClaimImportJobs
<1>3. CASE HandOver
  BY <1>3, <1>0, <1>g, <1>k DEF HandOver
<1>4. CASE Recover
  <2>1. CASE \E S \in SUBSET Extracting : RecoverImportJobs(S)
    BY <2>1, <1>0, <1>g DEF RecoverImportJobs
  <2>2. CASE \E S \in SUBSET Orphaned : RecoverStuckSynthesis(S)
    BY <2>2, <1>0, <1>g DEF RecoverStuckSynthesis
  <2>3. CASE PendingSynthesisPrimaries
    BY <2>3, <1>0, <1>g DEF PendingSynthesisPrimaries
  <2>4. CASE NextPending
    <3>1. CASE todo = {} /\ Go(Loop, "idle")
      BY <3>1, <1>0, <1>g
    <3>2. ASSUME NEW r \in todo, proc' = [proc EXCEPT ![Loop] = [Idle EXCEPT !.pc = "maybe", !.run = r]]
          PROVE  ProcsAre(proc')
      <4>1. r \in Runs
        BY DEF TypeOK
      <4>2. Sound([Idle EXCEPT !.pc = "maybe", !.run = r])
        BY <1>0, <4>1, ReturnSound
      <4> QED
        BY <3>2, <1>0, <4>2, <1>p
    <3> QED
      BY <2>4, <3>1, <3>2 DEF NextPending
  <2>5. CASE RecoveryFails
    BY <2>5, <1>0, <1>g DEF RecoveryFails
  <2> QED
    BY <1>4, <2>1, <2>2, <2>3, <2>4, <2>5 DEF Recover
<1>5. ASSUME NEW w \in Workers, PassOne(w) PROVE ProcsAre(proc')
  <2>0. w \in Procs
    BY <1>0
  <2>1. CASE Take(w)
    <3>1. Head(channel) \in Materials
      BY <2>1 DEF Take, TypeOK
    <3>2. Sound([Idle EXCEPT !.pc = "extract", !.mat = Head(channel)])
      BY <2>0, <3>1, ReturnSound
    <3> QED
      BY <2>0, <2>1, <3>2, <1>p DEF Take
  <2>2. ASSUME At(w, "extract"), Maybe(w) PROVE ProcsAre(proc')
    <3>1. proc[w].mat[1] \in Runs
      BY <2>0, <2>2, MaterialsHaveRuns DEF TypeOK
    <3>2. Sound([Idle EXCEPT !.pc = "maybe", !.run = proc[w].mat[1]])
      BY <2>0, <3>1, ReturnSound
    <3> QED
      BY <2>0, <2>2, <3>2, <1>p DEF Maybe
  <2> QED
    BY <1>5, <2>1, <2>2 DEF PassOne, FinishImportExtraction, RequeueImportJob, RecordFails
<1>6. ASSUME NEW p \in Procs, PassTwo(p) PROVE ProcsAre(proc')
  <2>1. CASE MaybeSynthesize(p)
    BY <2>1, <1>g, <1>r DEF MaybeSynthesize, TypeOK
  <2>2. CASE BeginImportSynthesis(p)
    BY <2>2, <1>g, <1>r DEF BeginImportSynthesis, TypeOK
  <2>3. CASE ReadEvidence(p)
    <3> DEFINE j == [proc[p] EXCEPT !.pc = "model", !.ev = Evidence(proc[p].run)]
    <3>1. Sound(j)
      BY <2>3 DEF ReadEvidence, TypeOK, Sound, Jobs, Pass2, Of, Evidence
    <3>2. proc' = [proc EXCEPT ![p] = j]
      BY <2>3 DEF ReadEvidence
    <3> QED
      BY <3>1, <3>2, <1>p
  <2>e. ASSUME NEW o \in Terminal, proc[p].pc \in Pass2, Close(p, o) PROVE ProcsAre(proc')
    <3>1. Sound([proc[p] EXCEPT !.pc = "finish", !.ev = {}, !.out = o])
      BY <2>e DEF TypeOK, Sound, Jobs, Pass2
    <3> QED
      BY <2>e, <3>1, <1>p DEF Close
  <2>4. ASSUME NEW o \in {"built", "failed", "needs_human"}, Answer(p, o) PROVE ProcsAre(proc')
    <3>1. CASE o = "built"
      BY <2>4, <3>1, <1>g DEF Answer, TypeOK, Pass2
    <3>2. CASE o # "built"
      <4>1. o \in Terminal
        BY DEF Terminal
      <4>2. proc[p].pc \in Pass2 /\ Close(p, o)
        BY <2>4, <3>2 DEF Answer, Pass2
      <4> QED
        BY <4>1, <4>2, <2>e
    <3> QED
      BY <3>1, <3>2
  <2>5. CASE MarkImportBuilt(p)
    <3>1. "built" \in Terminal /\ proc[p].pc \in Pass2
      BY <2>5 DEF MarkImportBuilt, Terminal, Pass2
    <3> QED
      BY <2>5, <3>1, <2>e DEF MarkImportBuilt
  <2>6. CASE FinishImportSynthesis(p)
    BY <2>6, <1>r DEF FinishImportSynthesis
  <2>7. CASE SynthesisFails(p)
    <3>1. CASE Return(p)
      BY <3>1, <1>r
    <3>2. CASE At(p, "read") /\ Close(p, "failed")
      <4>1. "failed" \in Terminal /\ proc[p].pc \in Pass2
        BY <3>2 DEF Terminal, Pass2
      <4> QED
        BY <3>2, <4>1, <2>e
    <3>3. CASE At(p, "mark") /\ Close(p, "built")
      <4>1. "built" \in Terminal /\ proc[p].pc \in Pass2
        BY <3>3 DEF Terminal, Pass2
      <4> QED
        BY <3>3, <4>1, <2>e
    <3> QED
      BY <2>7, <3>1, <3>2, <3>3 DEF SynthesisFails
  <2> QED
    BY <1>6, <2>1, <2>2, <2>3, <2>4, <2>5, <2>6, <2>7 DEF PassTwo
<1>7. CASE CrashRestart
  <2>1. Sound(Idle) /\ Sound([Idle EXCEPT !.pc = "recover"])
    BY <1>0, ReturnSound
  <2> QED
    BY <1>7, <2>1 DEF CrashRestart, ProcsAre, Sound
<1>8. CASE UNCHANGED vars
  BY <1>8, <1>k DEF vars, pool
<1> QED
  BY <1>0, <1>1, <1>2, <1>3, <1>4, <1>5, <1>6, <1>7, <1>8 DEF Next, LoopStep

\* The variables other than the processes.
RestTyped ==
    /\ st \in [Materials -> Statuses] /\ attempts \in [Materials -> Nat]
    /\ syn \in [Runs -> Terminal \union {"none", "running"}]
    /\ sub \in [Runs -> {"idle", "enqueue", "done"}] /\ next \in [Runs -> Nat]
    /\ claimed \in SUBSET Materials /\ channel \in Seq(Materials) /\ todo \in SUBSET Runs
    /\ faults \in 0..MaxFaults
    /\ raced \in SUBSET Runs /\ early \in SUBSET Runs /\ late \in SUBSET Runs
    /\ applied \in [Runs -> Nat]

LEMMA TypeSplits == TypeOK <=> RestTyped /\ ProcsAre(proc)
  BY DEF TypeOK, RestTyped, ProcsAre, Sound

LEMMA RestStep == ASSUME TypeOK, [Next]_vars PROVE RestTyped'
<1> USE ImportsAssumption DEF RestTyped, db, http, pool, hist, Fault
<1> RestTyped /\ \A p \in Procs : Sound(proc[p])
  BY TypeSplits DEF ProcsAre
<1> /\ Open \subseteq Statuses
    /\ {"none", "parsed", "needs_human", "failed", "cancelled", "built", "queued", "extracting"} \subseteq Statuses
    /\ {"cancelled", "needs_human", "built", "failed"} \subseteq Terminal
  BY DEF Statuses, Terminal, Open
<1>1. ASSUME NEW r \in Runs, SubmitGate(r) PROVE RestTyped'
  BY <1>1 DEF SubmitGate
<1>2. ASSUME NEW r \in Runs, EnqueueImport(r) PROVE RestTyped'
  <2>1. \A x : [st EXCEPT ![x] = "queued"] \in [Materials -> Statuses]
    OBVIOUS
  <2> QED
    BY <1>2, <2>1 DEF EnqueueImport
<1>3. ASSUME NEW r \in Runs, EnqueueFails(r) PROVE RestTyped'
  BY <1>3 DEF EnqueueFails
<1>4. ASSUME NEW r \in Runs, CancelImportRun(r) PROVE RestTyped'
  BY <1>4 DEF CancelImportRun
<1>5. CASE ClaimImportJobs
  BY <1>5 DEF ClaimImportJobs
<1>6. CASE HandOver
  BY <1>6 DEF HandOver
<1>7. ASSUME NEW S \in SUBSET Extracting, RecoverImportJobs(S) PROVE RestTyped'
  BY <1>7 DEF RecoverImportJobs, Extracting
<1>8. ASSUME NEW S \in SUBSET Orphaned, RecoverStuckSynthesis(S) PROVE RestTyped'
  BY <1>8 DEF RecoverStuckSynthesis
<1>9. CASE PendingSynthesisPrimaries
  BY <1>9 DEF PendingSynthesisPrimaries
<1>10. CASE NextPending
  BY <1>10 DEF NextPending
<1>11. CASE RecoveryFails
  BY <1>11 DEF RecoveryFails
<1>12. ASSUME NEW w \in Workers, Take(w) PROVE RestTyped'
  BY <1>12 DEF Take
<1>13. ASSUME NEW w \in Workers, NEW o \in {"parsed", "needs_human"}, FinishImportExtraction(w, o) PROVE RestTyped'
  BY <1>13 DEF FinishImportExtraction
<1>14. ASSUME NEW w \in Workers, RequeueImportJob(w) PROVE RestTyped'
  BY <1>14, MaterialsHaveRuns DEF RequeueImportJob, At, Sound, Procs
<1>15. ASSUME NEW w \in Workers, RecordFails(w) PROVE RestTyped'
  BY <1>15 DEF RecordFails
<1>16. ASSUME NEW p \in Procs, MaybeSynthesize(p) PROVE RestTyped'
  BY <1>16 DEF MaybeSynthesize, At, Sound, Pass2
<1>17. ASSUME NEW p \in Procs, BeginImportSynthesis(p) PROVE RestTyped'
  BY <1>17 DEF BeginImportSynthesis
<1>18. ASSUME NEW p \in Procs, ReadEvidence(p) PROVE RestTyped'
  BY <1>18 DEF ReadEvidence
<1>19. ASSUME NEW p \in Procs, NEW o \in {"built", "failed", "needs_human"}, Answer(p, o) PROVE RestTyped'
  BY <1>19 DEF Answer, At, Sound, Pass2
<1>20. ASSUME NEW p \in Procs, MarkImportBuilt(p) PROVE RestTyped'
  BY <1>20 DEF MarkImportBuilt
<1>21. ASSUME NEW p \in Procs, FinishImportSynthesis(p) PROVE RestTyped'
  BY <1>21 DEF FinishImportSynthesis, At, Sound, Pass2
<1>22. ASSUME NEW p \in Procs, SynthesisFails(p) PROVE RestTyped'
  BY <1>22 DEF SynthesisFails
<1>23. CASE CrashRestart
  BY <1>23 DEF CrashRestart
<1>24. CASE UNCHANGED vars
  BY <1>24 DEF vars
<1>25. CASE Recover
  BY <1>25, <1>7, <1>8, <1>9, <1>10, <1>11 DEF Recover
<1>26. ASSUME NEW p \in Procs, PassTwo(p) PROVE RestTyped'
  BY <1>26, <1>16, <1>17, <1>18, <1>19, <1>20, <1>21, <1>22 DEF PassTwo
<1>27. ASSUME NEW w \in Workers, PassOne(w) PROVE RestTyped'
  BY <1>27, <1>12, <1>13, <1>14, <1>15 DEF PassOne
<1> QED
  BY <1>1, <1>2, <1>3, <1>4, <1>5, <1>6, <1>23, <1>24, <1>25, <1>26, <1>27 DEF Next, LoopStep, Submission, Procs

LEMMA TypeStep == ASSUME TypeOK, [Next]_vars PROVE TypeOK'
  BY ProcsStep, RestStep, TypeSplits DEF TypeOK, RestTyped, ProcsAre, Sound

\* What a step shows of the processes: p is where it neither holds a run nor
\* is about to claim one, or it goes on with its run; the others stay.
Alone(p) == \A q \in Procs \ {p} : proc'[q] = proc[q]
Leaves(p) == proc'[p].pc \notin Pass2 \union {"begin"} /\ Alone(p)
GoesOn(p, s) == proc'[p].pc = s /\ proc'[p].run = proc[p].run /\ Alone(p)

LEMMA LoopIsAProc == Loop \in Procs
  BY DEF Procs
LEMMA WorkersAreProcs == \A w \in Workers : w \in Procs
  BY DEF Procs

LEMMA GoLeaves ==
    ASSUME TypeOK, NEW p \in Procs
    PROVE  /\ \A s \in {"idle", "hand", "recover", "resynth", "list", "pending"} : Go(p, s) => Leaves(p)
           /\ Return(p) => Leaves(p)
           /\ Maybe(p) => Leaves(p)
           /\ \A r \in Runs : proc' = [proc EXCEPT ![p] = [Idle EXCEPT !.pc = "maybe", !.run = r]] => Leaves(p)
           /\ \A m : proc' = [proc EXCEPT ![p] = [Idle EXCEPT !.pc = "extract", !.mat = m]] => Leaves(p)
<1> USE DEF TypeOK, Leaves, Alone, Pass2, Idle
<1>1. \A j : j.pc \notin Pass2 \union {"begin"} /\ proc' = [proc EXCEPT ![p] = j] => Leaves(p)
  OBVIOUS
<1>2. ASSUME NEW s \in {"idle", "hand", "recover", "resynth", "list", "pending"}, Go(p, s) PROVE Leaves(p)
  BY <1>2 DEF Go, Jobs
<1>3. Return(p) => Leaves(p)
  BY DEF Return
<1>4. Maybe(p) => Leaves(p)
  BY DEF Maybe
<1>5. ASSUME NEW r \in Runs, proc' = [proc EXCEPT ![p] = [Idle EXCEPT !.pc = "maybe", !.run = r]]
      PROVE  Leaves(p)
  BY <1>5
<1>6. ASSUME NEW m, proc' = [proc EXCEPT ![p] = [Idle EXCEPT !.pc = "extract", !.mat = m]]
      PROVE  Leaves(p)
  BY <1>6
<1> QED
  BY <1>2, <1>3, <1>4, <1>5, <1>6

LEMMA GoGoesOn ==
    ASSUME TypeOK, NEW p \in Procs
    PROVE  /\ \A s : Go(p, s) => GoesOn(p, s)
           /\ \A o : Close(p, o) => GoesOn(p, "finish")
<1> proc \in [Procs -> Jobs]
  BY DEF TypeOK
<1>1. ASSUME NEW s, Go(p, s) PROVE GoesOn(p, s)
  BY <1>1 DEF GoesOn, Alone, Go, Jobs
<1>2. ASSUME NEW o, Close(p, o) PROVE GoesOn(p, "finish")
  BY <1>2 DEF GoesOn, Alone, Close, Jobs
<1> QED
  BY <1>1, <1>2

LEMMA LeavingKeeps ==
    ASSUME TypeOK, OneSynthesizer, AppliesOnce, NEW p \in Procs, Leaves(p),
           UNCHANGED <<syn, applied>>
    PROVE  OneSynthesizer' /\ AppliesOnce'
  BY DEF OneSynthesizer, AppliesOnce, Leaves, Alone, Pass2

LEMMA StandingKeeps ==
    ASSUME TypeOK, OneSynthesizer, AppliesOnce, UNCHANGED <<syn, applied, proc>>
    PROVE  OneSynthesizer' /\ AppliesOnce'
  BY DEF OneSynthesizer, AppliesOnce

LEMMA GoingOnKeeps ==
    ASSUME TypeOK, OneSynthesizer, AppliesOnce, NEW p \in Procs, NEW s, GoesOn(p, s),
           proc[p].pc \in Pass2, s \in Pass2, s \in {"read", "model"} => applied[proc[p].run] = 0,
           UNCHANGED <<syn, applied>>
    PROVE  OneSynthesizer' /\ AppliesOnce'
  BY DEF OneSynthesizer, AppliesOnce, GoesOn, Alone, Pass2

LEMMA SynthesizerStep ==
    ASSUME TypeOK, OneSynthesizer, AppliesOnce, [Next]_vars
    PROVE  OneSynthesizer' /\ AppliesOnce'
<1> USE DEF db, http, pool, hist, Fault, At
<1>1. ASSUME NEW r \in Runs, SubmitGate(r) PROVE OneSynthesizer' /\ AppliesOnce'
  BY <1>1, StandingKeeps DEF SubmitGate
<1>2. ASSUME NEW r \in Runs, EnqueueImport(r) PROVE OneSynthesizer' /\ AppliesOnce'
  BY <1>2, StandingKeeps DEF EnqueueImport
<1>3. ASSUME NEW r \in Runs, EnqueueFails(r) PROVE OneSynthesizer' /\ AppliesOnce'
  BY <1>3, StandingKeeps DEF EnqueueFails
<1>4. ASSUME NEW r \in Runs, CancelImportRun(r) PROVE OneSynthesizer' /\ AppliesOnce'
  BY <1>4 DEF CancelImportRun, OneSynthesizer, AppliesOnce, TypeOK, Pass2
<1>5. CASE ClaimImportJobs
  <2>1. Leaves(Loop)
    BY <1>5, WorkersAreProcs, LoopIsAProc, GoLeaves DEF ClaimImportJobs
  <2> QED
    BY <1>5, <2>1, WorkersAreProcs, LoopIsAProc, LeavingKeeps DEF ClaimImportJobs
<1>6. CASE HandOver
  <2>1. CASE UNCHANGED proc
    BY <1>6, <2>1, StandingKeeps DEF HandOver
  <2>2. CASE Go(Loop, "idle")
    <3>1. Leaves(Loop)
      BY <2>2, LoopIsAProc, GoLeaves
    <3> QED
      BY <1>6, <3>1, LoopIsAProc, LeavingKeeps DEF HandOver
  <2> QED
    BY <1>6, <2>1, <2>2 DEF HandOver
<1>7. ASSUME NEW S \in SUBSET Extracting, RecoverImportJobs(S) PROVE OneSynthesizer' /\ AppliesOnce'
  <2>1. Leaves(Loop)
    BY <1>7, WorkersAreProcs, LoopIsAProc, GoLeaves DEF RecoverImportJobs
  <2> QED
    BY <1>7, <2>1, WorkersAreProcs, LoopIsAProc, LeavingKeeps DEF RecoverImportJobs
<1>8. ASSUME NEW S \in SUBSET Orphaned, RecoverStuckSynthesis(S) PROVE OneSynthesizer' /\ AppliesOnce'
  <2>1. Leaves(Loop)
    BY <1>8, LoopIsAProc, GoLeaves DEF RecoverStuckSynthesis
  <2>2. \A p \in Procs : proc[p].pc \in Pass2 => proc[p].run \notin S
    BY DEF Orphaned, Holds
  <2>3. \A p \in Procs : proc'[p].pc \in Pass2 => proc'[p] = proc[p]
    BY <2>1 DEF Leaves, Alone
  <2> QED
    BY <1>8, <2>2, <2>3 DEF RecoverStuckSynthesis, OneSynthesizer, AppliesOnce, TypeOK, Pass2
<1>9. CASE PendingSynthesisPrimaries
  <2>1. Leaves(Loop)
    BY <1>9, WorkersAreProcs, LoopIsAProc, GoLeaves DEF PendingSynthesisPrimaries
  <2> QED
    BY <1>9, <2>1, WorkersAreProcs, LoopIsAProc, LeavingKeeps DEF PendingSynthesisPrimaries
<1>10. CASE NextPending
  <2>1. Leaves(Loop)
    <3>1. CASE Go(Loop, "idle")
      BY <3>1, LoopIsAProc, GoLeaves
    <3>2. CASE \E r \in todo : proc' = [proc EXCEPT ![Loop] = [Idle EXCEPT !.pc = "maybe", !.run = r]]
      BY <3>2, LoopIsAProc, GoLeaves DEF TypeOK
    <3> QED
      BY <1>10, <3>1, <3>2 DEF NextPending
  <2> QED
    BY <1>10, <2>1, LoopIsAProc, LeavingKeeps DEF NextPending
<1>11. CASE RecoveryFails
  <2>1. Leaves(Loop)
    <3>1. \E s \in {"resynth", "list", "idle"} : Go(Loop, s)
      BY <1>11 DEF RecoveryFails
    <3> QED
      BY <3>1, LoopIsAProc, GoLeaves
  <2> QED
    BY <1>11, <2>1, LoopIsAProc, LeavingKeeps DEF RecoveryFails
<1>12. ASSUME NEW w \in Workers, Take(w) PROVE OneSynthesizer' /\ AppliesOnce'
  <2>1. Leaves(w)
    BY <1>12, WorkersAreProcs, LoopIsAProc, GoLeaves DEF Take
  <2> QED
    BY <1>12, <2>1, WorkersAreProcs, LoopIsAProc, LeavingKeeps DEF Take
<1>13. ASSUME NEW w \in Workers, NEW o \in {"parsed", "needs_human"}, FinishImportExtraction(w, o) PROVE OneSynthesizer' /\ AppliesOnce'
  <2>1. Leaves(w)
    BY <1>13, WorkersAreProcs, LoopIsAProc, GoLeaves DEF FinishImportExtraction
  <2> QED
    BY <1>13, <2>1, WorkersAreProcs, LoopIsAProc, LeavingKeeps DEF FinishImportExtraction
<1>14. ASSUME NEW w \in Workers, RequeueImportJob(w) PROVE OneSynthesizer' /\ AppliesOnce'
  <2>1. Leaves(w)
    BY <1>14, WorkersAreProcs, LoopIsAProc, GoLeaves DEF RequeueImportJob
  <2> QED
    BY <1>14, <2>1, WorkersAreProcs, LoopIsAProc, LeavingKeeps DEF RequeueImportJob
<1>15. ASSUME NEW w \in Workers, RecordFails(w) PROVE OneSynthesizer' /\ AppliesOnce'
  <2>1. Leaves(w)
    BY <1>15, WorkersAreProcs, LoopIsAProc, GoLeaves DEF RecordFails
  <2> QED
    BY <1>15, <2>1, WorkersAreProcs, LoopIsAProc, LeavingKeeps DEF RecordFails
<1>16. ASSUME NEW p \in Procs, MaybeSynthesize(p) PROVE OneSynthesizer' /\ AppliesOnce'
  <2>1. CASE Return(p)
    <3>1. Leaves(p)
      BY <2>1, GoLeaves
    <3> QED
      BY <1>16, <3>1, LeavingKeeps DEF MaybeSynthesize
  <2>2. CASE Go(p, "begin")
    <3>1. GoesOn(p, "begin")
      BY <2>2, GoGoesOn
    <3>2. UNCHANGED <<syn, applied>>
      BY <1>16 DEF MaybeSynthesize
    <3> QED
      BY <3>1, <3>2 DEF GoesOn, Alone, OneSynthesizer, AppliesOnce, Pass2
  <2> QED
    BY <1>16, <2>1, <2>2 DEF MaybeSynthesize
<1>17. ASSUME NEW p \in Procs, BeginImportSynthesis(p) PROVE OneSynthesizer' /\ AppliesOnce'
  <2>1. CASE syn[proc[p].run] # "none"
    <3>1. Leaves(p)
      BY <1>17, <2>1, GoLeaves DEF BeginImportSynthesis
    <3> QED
      BY <1>17, <2>1, <3>1, LeavingKeeps DEF BeginImportSynthesis
  <2>2. CASE syn[proc[p].run] = "none"
    <3>1. GoesOn(p, "read")
      BY <1>17, <2>2, GoGoesOn DEF BeginImportSynthesis
    <3>2. /\ syn' = [syn EXCEPT ![proc[p].run] = "running"] /\ applied' = applied
          /\ proc[p].run \in Runs
      BY <1>17, <2>2 DEF BeginImportSynthesis, TypeOK
    <3>3. \A q \in Procs : proc[q].pc \in Pass2 => proc[q].run # proc[p].run
      BY <2>2 DEF OneSynthesizer
    <3>4. \A q \in Procs : proc'[q].pc \in Pass2 => q = p \/ (proc'[q] = proc[q] /\ proc[q].run # proc[p].run)
      BY <3>1, <3>3 DEF GoesOn, Alone
    <3>5. \A q \in Procs : proc'[q].pc \in Pass2 => proc'[q].run \in Runs
      BY <3>1, <3>2, <3>4 DEF GoesOn, TypeOK
    <3>6. OneSynthesizer'
      <4>1. syn'[proc[p].run] = "running" /\ \A r \in Runs \ {proc[p].run} : syn'[r] = syn[r]
        BY <3>2 DEF TypeOK
      <4>2. proc'[p].run = proc[p].run
        BY <3>1 DEF GoesOn
      <4> QED
        BY <3>4, <3>5, <4>1, <4>2 DEF OneSynthesizer
    <3>7. AppliesOnce'
      <4>1. applied[proc[p].run] = 0 /\ proc'[p].run = proc[p].run
        BY <2>2, <3>1, <3>2 DEF AppliesOnce, GoesOn
      <4>2. \A q \in Procs : proc'[q].pc \in {"read", "model"} => applied[proc'[q].run] = 0
        BY <3>4, <4>1 DEF AppliesOnce, Pass2
      <4>3. \A r \in Runs : syn'[r] = "none" => syn[r] = "none"
        BY <3>2 DEF TypeOK
      <4> QED
        BY <3>2, <4>2, <4>3 DEF AppliesOnce
    <3> QED
      BY <3>6, <3>7
  <2> QED
    BY <2>1, <2>2
<1>18. ASSUME NEW p \in Procs, ReadEvidence(p) PROVE OneSynthesizer' /\ AppliesOnce'
  <2>1. GoesOn(p, "model")
    BY <1>18 DEF ReadEvidence, GoesOn, Alone, TypeOK, Jobs
  <2>2. applied[proc[p].run] = 0
    BY <1>18 DEF ReadEvidence, AppliesOnce
  <2> QED
    BY <1>18, <2>1, <2>2, GoingOnKeeps DEF ReadEvidence, Pass2
<1>19. ASSUME NEW p \in Procs, NEW o \in {"built", "failed", "needs_human"}, Answer(p, o) PROVE OneSynthesizer' /\ AppliesOnce'
  <2>1. CASE o # "built"
    <3>1. GoesOn(p, "finish")
      BY <1>19, <2>1, GoGoesOn DEF Answer
    <3> QED
      BY <1>19, <2>1, <3>1, GoingOnKeeps DEF Answer, Pass2
  <2>2. CASE o = "built"
    <3>1. GoesOn(p, "mark")
      BY <1>19, <2>2, GoGoesOn DEF Answer
    <3>2. /\ applied' = [applied EXCEPT ![proc[p].run] = 1] /\ syn' = syn
          /\ proc[p].run \in Runs /\ syn[proc[p].run] = "running" /\ proc[p].pc \in Pass2
      BY <1>19, <2>2 DEF Answer, AppliesOnce, OneSynthesizer, TypeOK, Pass2
    <3>3. \A q \in Procs : proc'[q].pc \in Pass2 =>
            q = p \/ (proc'[q] = proc[q] /\ proc[q].run # proc[p].run)
      BY <3>1, <3>2 DEF GoesOn, Alone, OneSynthesizer
    <3>4. proc'[p].run = proc[p].run /\ proc'[p].pc = "mark"
      BY <3>1 DEF GoesOn
    <3>5. OneSynthesizer'
      BY <3>2, <3>3, <3>4 DEF OneSynthesizer
    <3>6. AppliesOnce'
      <4>1. \A r \in Runs : applied'[r] = IF r = proc[p].run THEN 1 ELSE applied[r]
        BY <3>2 DEF TypeOK
      <4>2. \A q \in Procs : proc'[q].pc \in {"read", "model"} =>
              applied[proc[q].run] = 0 /\ proc'[q] = proc[q] /\ proc[q].run \in Runs \ {proc[p].run}
        BY <3>3, <3>4 DEF AppliesOnce, Pass2, TypeOK
      <4> QED
        BY <3>2, <4>1, <4>2 DEF AppliesOnce
    <3> QED
      BY <3>5, <3>6
  <2> QED
    BY <2>1, <2>2
<1>20. ASSUME NEW p \in Procs, MarkImportBuilt(p) PROVE OneSynthesizer' /\ AppliesOnce'
  <2>1. GoesOn(p, "finish")
    BY <1>20, GoGoesOn DEF MarkImportBuilt
  <2> QED
    BY <1>20, <2>1, GoingOnKeeps DEF MarkImportBuilt, Pass2
<1>21. ASSUME NEW p \in Procs, FinishImportSynthesis(p) PROVE OneSynthesizer' /\ AppliesOnce'
  <2>1. Leaves(p)
    BY <1>21, GoLeaves DEF FinishImportSynthesis
  <2>2. proc[p].run \in Runs /\ proc[p].out \in Terminal /\ proc[p].pc \in Pass2
    BY <1>21 DEF FinishImportSynthesis, TypeOK, Pass2
  <2>3. syn' = [syn EXCEPT ![proc[p].run] = proc[p].out] /\ applied' = applied
    BY <1>21 DEF FinishImportSynthesis
  <2>4. \A q \in Procs : proc'[q].pc \in Pass2 => q # p /\ proc'[q] = proc[q]
    BY <2>1 DEF Leaves, Alone
  <2> QED
    BY <2>2, <2>3, <2>4 DEF OneSynthesizer, AppliesOnce, TypeOK, Terminal, Pass2
<1>22. ASSUME NEW p \in Procs, SynthesisFails(p) PROVE OneSynthesizer' /\ AppliesOnce'
  <2>1. CASE Return(p)
    <3>1. Leaves(p)
      BY <2>1, GoLeaves
    <3> QED
      BY <1>22, <3>1, LeavingKeeps DEF SynthesisFails
  <2>2. CASE proc[p].pc \in Pass2 /\ \E o : Close(p, o)
    <3>1. GoesOn(p, "finish")
      BY <2>2, GoGoesOn
    <3> QED
      BY <1>22, <2>2, <3>1, GoingOnKeeps DEF SynthesisFails, Pass2
  <2> QED
    BY <1>22, <2>1, <2>2 DEF SynthesisFails, Pass2
<1>23. CASE CrashRestart
  <2>1. \A p \in Procs : proc'[p].pc \notin Pass2
    BY <1>23 DEF CrashRestart, Idle, Pass2
  <2> QED
    BY <1>23, <2>1 DEF CrashRestart, OneSynthesizer, AppliesOnce, Pass2
<1>24. CASE UNCHANGED vars
  BY <1>24, StandingKeeps DEF vars
<1>25. CASE Recover
  BY <1>25, <1>7, <1>8, <1>9, <1>10, <1>11 DEF Recover
<1>26. ASSUME NEW p \in Procs, PassTwo(p) PROVE OneSynthesizer' /\ AppliesOnce'
  BY <1>26, <1>16, <1>17, <1>18, <1>19, <1>20, <1>21, <1>22 DEF PassTwo
<1>27. ASSUME NEW w \in Workers, PassOne(w) PROVE OneSynthesizer' /\ AppliesOnce'
  BY <1>27, <1>12, <1>13, <1>14, <1>15 DEF PassOne
<1> QED
  BY <1>1, <1>2, <1>3, <1>4, <1>5, <1>6, <1>23, <1>24, <1>25, <1>26, <1>27 DEF Next, LoopStep, Submission, Procs

\* What a step may do to rows: one comes into being, or reopens, only by its
\* run's submission, or by a late requeue.
RowsKeep ==
    \A m \in Materials :
        /\ st[m] # "none" => st'[m] # "none"
        /\ st[m] = "none" /\ st'[m] # "none" => sub[m[1]] = "enqueue"
        /\ st[m] \notin Open /\ st'[m] \in Open => sub[m[1]] = "enqueue" \/ m[1] \in late'

\* The same for submissions and the histories.
SubsKeep ==
    /\ \A r \in Runs : /\ sub[r] = "done" => sub'[r] = "done"
                       /\ sub'[r] = "idle" => sub[r] = "idle"
                       /\ sub'[r] = "enqueue" /\ sub[r] # "enqueue" => SubmitGate(r)
    /\ early \subseteq early' /\ late \subseteq late' /\ raced \subseteq raced'

\* And for pass 2: a run that starts was begun, and one that is about to begin
\* was found ready.
FoundReady(r) == Known(r) /\ AllTerminal(r) /\ (sub[r] = "enqueue" => r \in early')
PassTwoKeeps ==
    /\ \A r \in Runs : syn'[r] = "running" =>
          syn[r] = "running" \/ \E p \in Procs : proc[p].pc = "begin" /\ proc[p].run = r
    /\ \A p \in Procs : proc'[p].pc = "begin" =>
          \/ proc[p].pc = "begin" /\ proc[p].run = proc'[p].run
          \/ FoundReady(proc'[p].run)

LEMMA RowsStep == ASSUME TypeOK, JobsKnown, [Next]_vars PROVE RowsKeep
<1> USE DEF RowsKeep, db, pool, hist, Fault
<1> /\ st \in [Materials -> Statuses]
    /\ "queued" \in Open /\ "extracting" \in Open
    /\ "none" \notin Open /\ "cancelled" \notin Open /\ "failed" \notin Open /\ "built" \notin Open
    /\ "parsed" \notin Open /\ "needs_human" \notin Open
  BY DEF TypeOK, Open
<1>1. ASSUME NEW r \in Runs, SubmitGate(r) PROVE RowsKeep
  BY <1>1 DEF SubmitGate
<1>2. ASSUME NEW r \in Runs, EnqueueImport(r) PROVE RowsKeep
  <2>1. \A m \in Materials : st'[m] = IF m = <<r, next[r]>> THEN "queued" ELSE st[m]
    BY <1>2 DEF EnqueueImport
  <2> QED
    BY <1>2, <2>1 DEF EnqueueImport
<1>3. ASSUME NEW r \in Runs, EnqueueFails(r) PROVE RowsKeep
  BY <1>3 DEF EnqueueFails
<1>4. ASSUME NEW r \in Runs, CancelImportRun(r) PROVE RowsKeep
  BY <1>4 DEF CancelImportRun
<1>5. CASE ClaimImportJobs
  BY <1>5 DEF ClaimImportJobs
<1>6. CASE HandOver
  BY <1>6 DEF HandOver
<1>7. ASSUME NEW S \in SUBSET Extracting, RecoverImportJobs(S) PROVE RowsKeep
  BY <1>7 DEF RecoverImportJobs, Extracting
<1>8. ASSUME NEW S \in SUBSET Orphaned, RecoverStuckSynthesis(S) PROVE RowsKeep
  BY <1>8 DEF RecoverStuckSynthesis
<1>9. CASE PendingSynthesisPrimaries
  BY <1>9 DEF PendingSynthesisPrimaries
<1>10. CASE NextPending
  BY <1>10 DEF NextPending
<1>11. CASE RecoveryFails
  BY <1>11 DEF RecoveryFails
<1>12. ASSUME NEW w \in Workers, Take(w) PROVE RowsKeep
  BY <1>12 DEF Take
<1>13. ASSUME NEW w \in Workers, NEW o \in {"parsed", "needs_human"}, FinishImportExtraction(w, o) PROVE RowsKeep
  <2>1. proc[w].mat \in Materials
    BY <1>13 DEF FinishImportExtraction, At, TypeOK, Procs
  <2>2. CASE st[proc[w].mat] = "extracting"
    <3>1. \A m \in Materials : st'[m] = IF m = proc[w].mat THEN o ELSE st[m]
      BY <1>13, <2>2 DEF FinishImportExtraction
    <3> QED
      BY <2>2, <3>1
  <2>3. CASE st[proc[w].mat] # "extracting"
    BY <1>13, <2>3 DEF FinishImportExtraction
  <2> QED
    BY <2>2, <2>3
<1>14. ASSUME NEW w \in Workers, RequeueImportJob(w) PROVE RowsKeep
  <2>1. proc[w].mat \in Materials /\ st[proc[w].mat] # "none"
    BY <1>14 DEF RequeueImportJob, At, TypeOK, JobsKnown, Procs
  <2>2. \E o \in {"needs_human", "queued"} : st' = [st EXCEPT ![proc[w].mat] = o]
    BY <1>14 DEF RequeueImportJob
  <2>3. st[proc[w].mat] # "extracting" => proc[w].mat[1] \in late'
    BY <1>14 DEF RequeueImportJob
  <2> QED
    BY <2>1, <2>2, <2>3
<1>15. ASSUME NEW w \in Workers, RecordFails(w) PROVE RowsKeep
  BY <1>15 DEF RecordFails
<1>16. ASSUME NEW p \in Procs, MaybeSynthesize(p) PROVE RowsKeep
  BY <1>16 DEF MaybeSynthesize
<1>17. ASSUME NEW p \in Procs, BeginImportSynthesis(p) PROVE RowsKeep
  BY <1>17 DEF BeginImportSynthesis
<1>18. ASSUME NEW p \in Procs, ReadEvidence(p) PROVE RowsKeep
  BY <1>18 DEF ReadEvidence
<1>19. ASSUME NEW p \in Procs, NEW o \in {"built", "failed", "needs_human"}, Answer(p, o) PROVE RowsKeep
  BY <1>19 DEF Answer
<1>20. ASSUME NEW p \in Procs, MarkImportBuilt(p) PROVE RowsKeep
  BY <1>20 DEF MarkImportBuilt
<1>21. ASSUME NEW p \in Procs, FinishImportSynthesis(p) PROVE RowsKeep
  BY <1>21 DEF FinishImportSynthesis
<1>22. ASSUME NEW p \in Procs, SynthesisFails(p) PROVE RowsKeep
  BY <1>22 DEF SynthesisFails
<1>23. CASE CrashRestart
  BY <1>23 DEF CrashRestart
<1>24. CASE UNCHANGED vars
  BY <1>24 DEF vars
<1>25. CASE Recover
  BY <1>25, <1>7, <1>8, <1>9, <1>10, <1>11 DEF Recover
<1>26. ASSUME NEW p \in Procs, PassTwo(p) PROVE RowsKeep
  BY <1>26, <1>16, <1>17, <1>18, <1>19, <1>20, <1>21, <1>22 DEF PassTwo
<1>27. ASSUME NEW w \in Workers, PassOne(w) PROVE RowsKeep
  BY <1>27, <1>12, <1>13, <1>14, <1>15 DEF PassOne
<1> QED
  BY <1>1, <1>2, <1>3, <1>4, <1>5, <1>6, <1>23, <1>24, <1>25, <1>26, <1>27 DEF Next, LoopStep, Submission, Procs

LEMMA SubsStep == ASSUME TypeOK, [Next]_vars PROVE SubsKeep
<1> USE DEF SubsKeep, http, hist, Fault
<1> sub \in [Runs -> {"idle", "enqueue", "done"}]
  BY DEF TypeOK
<1>1. ASSUME NEW r \in Runs, SubmitGate(r) PROVE SubsKeep
  BY <1>1 DEF SubmitGate
<1>2. ASSUME NEW r \in Runs, EnqueueImport(r) PROVE SubsKeep
  BY <1>2 DEF EnqueueImport
<1>3. ASSUME NEW r \in Runs, EnqueueFails(r) PROVE SubsKeep
  BY <1>3 DEF EnqueueFails
<1>4. ASSUME NEW r \in Runs, CancelImportRun(r) PROVE SubsKeep
  BY <1>4 DEF CancelImportRun
<1>5. CASE ClaimImportJobs
  BY <1>5 DEF ClaimImportJobs
<1>6. CASE HandOver
  BY <1>6 DEF HandOver
<1>7. ASSUME NEW S \in SUBSET Extracting, RecoverImportJobs(S) PROVE SubsKeep
  BY <1>7 DEF RecoverImportJobs
<1>8. ASSUME NEW S \in SUBSET Orphaned, RecoverStuckSynthesis(S) PROVE SubsKeep
  BY <1>8 DEF RecoverStuckSynthesis
<1>9. CASE PendingSynthesisPrimaries
  BY <1>9 DEF PendingSynthesisPrimaries
<1>10. CASE NextPending
  BY <1>10 DEF NextPending
<1>11. CASE RecoveryFails
  BY <1>11 DEF RecoveryFails
<1>12. ASSUME NEW w \in Workers, Take(w) PROVE SubsKeep
  BY <1>12 DEF Take
<1>13. ASSUME NEW w \in Workers, NEW o \in {"parsed", "needs_human"}, FinishImportExtraction(w, o) PROVE SubsKeep
  BY <1>13 DEF FinishImportExtraction
<1>14. ASSUME NEW w \in Workers, RequeueImportJob(w) PROVE SubsKeep
  BY <1>14 DEF RequeueImportJob
<1>15. ASSUME NEW w \in Workers, RecordFails(w) PROVE SubsKeep
  BY <1>15 DEF RecordFails
<1>16. ASSUME NEW p \in Procs, MaybeSynthesize(p) PROVE SubsKeep
  BY <1>16 DEF MaybeSynthesize
<1>17. ASSUME NEW p \in Procs, BeginImportSynthesis(p) PROVE SubsKeep
  BY <1>17 DEF BeginImportSynthesis
<1>18. ASSUME NEW p \in Procs, ReadEvidence(p) PROVE SubsKeep
  BY <1>18 DEF ReadEvidence
<1>19. ASSUME NEW p \in Procs, NEW o \in {"built", "failed", "needs_human"}, Answer(p, o) PROVE SubsKeep
  BY <1>19 DEF Answer
<1>20. ASSUME NEW p \in Procs, MarkImportBuilt(p) PROVE SubsKeep
  BY <1>20 DEF MarkImportBuilt
<1>21. ASSUME NEW p \in Procs, FinishImportSynthesis(p) PROVE SubsKeep
  BY <1>21 DEF FinishImportSynthesis
<1>22. ASSUME NEW p \in Procs, SynthesisFails(p) PROVE SubsKeep
  BY <1>22 DEF SynthesisFails
<1>23. CASE CrashRestart
  BY <1>23 DEF CrashRestart
<1>24. CASE UNCHANGED vars
  BY <1>24 DEF vars
<1>25. CASE Recover
  BY <1>25, <1>7, <1>8, <1>9, <1>10, <1>11 DEF Recover
<1>26. ASSUME NEW p \in Procs, PassTwo(p) PROVE SubsKeep
  BY <1>26, <1>16, <1>17, <1>18, <1>19, <1>20, <1>21, <1>22 DEF PassTwo
<1>27. ASSUME NEW w \in Workers, PassOne(w) PROVE SubsKeep
  BY <1>27, <1>12, <1>13, <1>14, <1>15 DEF PassOne
<1> QED
  BY <1>1, <1>2, <1>3, <1>4, <1>5, <1>6, <1>23, <1>24, <1>25, <1>26, <1>27 DEF Next, LoopStep, Submission, Procs

LEMMA PassTwoStep == ASSUME TypeOK, [Next]_vars PROVE PassTwoKeeps
<1> USE DEF PassTwoKeeps, db, pool, At, Go, Return, Idle
<1> /\ syn \in [Runs -> Terminal \union {"none", "running"}] /\ proc \in [Procs -> Jobs]
    /\ Loop \in Procs /\ \A w \in Workers : w \in Procs
    /\ "running" \notin Terminal
  BY DEF TypeOK, Procs, Terminal
<1>a. ASSUME NEW p \in Procs, Leaves(p), syn' = syn PROVE PassTwoKeeps
  BY <1>a DEF Leaves, Alone
<1>b. ASSUME proc' = proc, syn' = syn PROVE PassTwoKeeps
  BY <1>b
<1>c. ASSUME NEW p \in Procs, NEW s, GoesOn(p, s), s # "begin", syn' = syn PROVE PassTwoKeeps
  BY <1>c DEF GoesOn, Alone
<1>1. ASSUME NEW r \in Runs, SubmitGate(r) PROVE PassTwoKeeps
  BY <1>1, <1>b DEF SubmitGate
<1>2. ASSUME NEW r \in Runs, EnqueueImport(r) PROVE PassTwoKeeps
  BY <1>2, <1>b DEF EnqueueImport
<1>3. ASSUME NEW r \in Runs, EnqueueFails(r) PROVE PassTwoKeeps
  BY <1>3, <1>b DEF EnqueueFails
<1>4. ASSUME NEW r \in Runs, CancelImportRun(r) PROVE PassTwoKeeps
  BY <1>4 DEF CancelImportRun, Terminal
<1>5. CASE ClaimImportJobs
  <2>1. Leaves(Loop)
    BY <1>5, GoLeaves DEF ClaimImportJobs
  <2> QED
    BY <1>5, <2>1, <1>a DEF ClaimImportJobs
<1>6. CASE HandOver
  <2>1. CASE UNCHANGED proc
    BY <1>6, <2>1, <1>b DEF HandOver
  <2>2. CASE Go(Loop, "idle")
    <3>1. Leaves(Loop)
      BY <2>2, GoLeaves
    <3> QED
      BY <1>6, <3>1, <1>a DEF HandOver
  <2> QED
    BY <1>6, <2>1, <2>2 DEF HandOver
<1>7. ASSUME NEW S \in SUBSET Extracting, RecoverImportJobs(S) PROVE PassTwoKeeps
  <2>1. Leaves(Loop)
    BY <1>7, GoLeaves DEF RecoverImportJobs
  <2> QED
    BY <1>7, <2>1, <1>a DEF RecoverImportJobs
<1>8. ASSUME NEW S \in SUBSET Orphaned, RecoverStuckSynthesis(S) PROVE PassTwoKeeps
  <2>1. Leaves(Loop)
    BY <1>8, GoLeaves DEF RecoverStuckSynthesis
  <2> QED
    BY <1>8, <2>1 DEF RecoverStuckSynthesis, Leaves, Alone
<1>9. CASE PendingSynthesisPrimaries
  <2>1. Leaves(Loop)
    BY <1>9, GoLeaves DEF PendingSynthesisPrimaries
  <2> QED
    BY <1>9, <2>1, <1>a DEF PendingSynthesisPrimaries
<1>10. CASE NextPending
  <2>1. CASE Go(Loop, "idle")
    <3>1. Leaves(Loop)
      BY <2>1, GoLeaves
    <3> QED
      BY <1>10, <3>1, <1>a DEF NextPending
  <2>2. CASE \E r \in todo : proc' = [proc EXCEPT ![Loop] = [Idle EXCEPT !.pc = "maybe", !.run = r]]
    <3>1. Leaves(Loop)
      BY <2>2, GoLeaves DEF TypeOK
    <3> QED
      BY <1>10, <3>1, <1>a DEF NextPending
  <2> QED
    BY <1>10, <2>1, <2>2 DEF NextPending
<1>11. CASE RecoveryFails
  <2>1. \E s \in {"resynth", "list", "idle"} : Go(Loop, s)
    BY <1>11 DEF RecoveryFails
  <2>2. Leaves(Loop)
    BY <2>1, GoLeaves
  <2> QED
    BY <1>11, <2>2, <1>a DEF RecoveryFails
<1>12. ASSUME NEW w \in Workers, Take(w) PROVE PassTwoKeeps
  <2>1. Leaves(w)
    BY <1>12, GoLeaves DEF Take
  <2> QED
    BY <1>12, <2>1, <1>a DEF Take
<1>13. ASSUME NEW w \in Workers, NEW o \in {"parsed", "needs_human"}, FinishImportExtraction(w, o) PROVE PassTwoKeeps
  <2>1. Leaves(w)
    BY <1>13, GoLeaves DEF FinishImportExtraction
  <2> QED
    BY <1>13, <2>1, <1>a DEF FinishImportExtraction
<1>14. ASSUME NEW w \in Workers, RequeueImportJob(w) PROVE PassTwoKeeps
  <2>1. Leaves(w)
    BY <1>14, GoLeaves DEF RequeueImportJob
  <2> QED
    BY <1>14, <2>1, <1>a DEF RequeueImportJob
<1>15. ASSUME NEW w \in Workers, RecordFails(w) PROVE PassTwoKeeps
  <2>1. Leaves(w)
    BY <1>15, GoLeaves DEF RecordFails
  <2> QED
    BY <1>15, <2>1, <1>a DEF RecordFails
<1>16. ASSUME NEW p \in Procs, MaybeSynthesize(p) PROVE PassTwoKeeps
  <2>1. CASE Return(p)
    <3>1. Leaves(p)
      BY <2>1, GoLeaves
    <3> QED
      BY <1>16, <3>1, <1>a DEF MaybeSynthesize
  <2>2. CASE ~Return(p)
    <3>1. GoesOn(p, "begin")
      BY <1>16, <2>2, GoGoesOn DEF MaybeSynthesize
    <3>2. FoundReady(proc[p].run) /\ syn' = syn
      BY <1>16, <2>2 DEF MaybeSynthesize, FoundReady
    <3> QED
      BY <3>1, <3>2 DEF GoesOn, Alone
  <2> QED
    BY <2>1, <2>2
<1>17. ASSUME NEW p \in Procs, BeginImportSynthesis(p) PROVE PassTwoKeeps
  <2>1. CASE Return(p) /\ syn' = syn
    <3>1. Leaves(p)
      BY <2>1, GoLeaves
    <3> QED
      BY <2>1, <3>1, <1>a
  <2>2. CASE Go(p, "read") /\ syn' = [syn EXCEPT ![proc[p].run] = "running"]
    <3>1. GoesOn(p, "read")
      BY <2>2, GoGoesOn
    <3>2. \A r \in Runs : syn'[r] = "running" => syn[r] = "running" \/ proc[p].run = r
      BY <2>2
    <3> QED
      BY <1>17, <3>1, <3>2 DEF BeginImportSynthesis, GoesOn, Alone
  <2> QED
    BY <1>17, <2>1, <2>2 DEF BeginImportSynthesis
<1>18. ASSUME NEW p \in Procs, ReadEvidence(p) PROVE PassTwoKeeps
  <2>1. GoesOn(p, "model")
    BY <1>18 DEF ReadEvidence, GoesOn, Alone, Jobs
  <2> QED
    BY <1>18, <2>1, <1>c DEF ReadEvidence
<1>19. ASSUME NEW p \in Procs, NEW o \in {"built", "failed", "needs_human"}, Answer(p, o) PROVE PassTwoKeeps
  <2>1. GoesOn(p, "finish") \/ GoesOn(p, "mark")
    BY <1>19, GoGoesOn DEF Answer
  <2> QED
    BY <1>19, <2>1, <1>c DEF Answer
<1>20. ASSUME NEW p \in Procs, MarkImportBuilt(p) PROVE PassTwoKeeps
  <2>1. GoesOn(p, "finish")
    BY <1>20, GoGoesOn DEF MarkImportBuilt
  <2> QED
    BY <1>20, <2>1, <1>c DEF MarkImportBuilt
<1>21. ASSUME NEW p \in Procs, FinishImportSynthesis(p) PROVE PassTwoKeeps
  <2>1. Leaves(p)
    BY <1>21, GoLeaves DEF FinishImportSynthesis
  <2>2. proc[p].out \in Terminal
    BY <1>21 DEF FinishImportSynthesis, TypeOK
  <2> QED
    BY <1>21, <2>1, <2>2 DEF FinishImportSynthesis, Leaves, Alone
<1>22. ASSUME NEW p \in Procs, SynthesisFails(p) PROVE PassTwoKeeps
  <2>1. Leaves(p) \/ GoesOn(p, "finish")
    BY <1>22, GoLeaves, GoGoesOn DEF SynthesisFails
  <2> QED
    BY <1>22, <2>1, <1>a, <1>c DEF SynthesisFails
<1>23. CASE CrashRestart
  BY <1>23 DEF CrashRestart
<1>24. CASE UNCHANGED vars
  BY <1>24, <1>b DEF vars
<1>25. CASE Recover
  BY <1>25, <1>7, <1>8, <1>9, <1>10, <1>11 DEF Recover
<1>26. ASSUME NEW p \in Procs, PassTwo(p) PROVE PassTwoKeeps
  BY <1>26, <1>16, <1>17, <1>18, <1>19, <1>20, <1>21, <1>22 DEF PassTwo
<1>27. ASSUME NEW w \in Workers, PassOne(w) PROVE PassTwoKeeps
  BY <1>27, <1>12, <1>13, <1>14, <1>15 DEF PassOne
<1> QED
  BY <1>1, <1>2, <1>3, <1>4, <1>5, <1>6, <1>23, <1>24, <1>25, <1>26, <1>27 DEF Next, LoopStep, Submission, Procs

LEMMA JobsStep == ASSUME TypeOK, JobsKnown, RowsKeep, [Next]_vars PROVE JobsKnown'
<1> USE DEF db, pool, At, Go, Return, Maybe, Close, Idle
<1> DEFINE Quiet(p) == proc'[p].pc # "extract" /\ Alone(p)
<1>t. /\ proc \in [Procs -> Jobs] /\ channel \in Seq(Materials) /\ claimed \subseteq Materials
      /\ \A p \in Procs : proc[p].pc = "extract" => proc[p].mat \in Materials
      /\ Loop \in Procs /\ \A w \in Workers : w \in Procs
  BY DEF TypeOK, Procs
<1>m. \A m \in Materials : st[m] # "none" => st'[m] # "none"
  BY DEF RowsKeep
<1>a. ASSUME NEW p \in Procs, Quiet(p), claimed' \subseteq claimed, channel' = channel PROVE JobsKnown'
  BY <1>a, <1>t, <1>m DEF JobsKnown, Alone
<1>b. ASSUME UNCHANGED <<claimed, channel, proc>> PROVE JobsKnown'
  BY <1>b, <1>t, <1>m DEF JobsKnown
<1>g. ASSUME NEW p \in Procs, NEW s, Go(p, s), s # "extract" PROVE Quiet(p)
  BY <1>g, <1>t, GoGoesOn DEF GoesOn
<1>r. ASSUME NEW p \in Procs, Return(p) \/ Maybe(p) PROVE Quiet(p)
  <2>1. Return(p) => proc'[p].pc \in {"pending", "idle"} /\ \A q \in Procs \ {p} : proc'[q] = proc[q]
    BY <1>t
  <2>2. Maybe(p) => proc'[p].pc = "maybe" /\ \A q \in Procs \ {p} : proc'[q] = proc[q]
    BY <1>t
  <2> QED
    BY <1>r, <2>1, <2>2 DEF Alone
<1>c. ASSUME NEW p \in Procs, NEW o, Close(p, o) PROVE Quiet(p)
  BY <1>c, <1>t, GoGoesOn DEF GoesOn
<1>1. ASSUME NEW r \in Runs, SubmitGate(r) PROVE JobsKnown'
  BY <1>1, <1>b DEF SubmitGate
<1>2. ASSUME NEW r \in Runs, EnqueueImport(r) PROVE JobsKnown'
  BY <1>2, <1>b DEF EnqueueImport
<1>3. ASSUME NEW r \in Runs, EnqueueFails(r) PROVE JobsKnown'
  BY <1>3, <1>b DEF EnqueueFails
<1>4. ASSUME NEW r \in Runs, CancelImportRun(r) PROVE JobsKnown'
  BY <1>4, <1>b DEF CancelImportRun
<1>5. CASE ClaimImportJobs
  <2>1. Quiet(Loop)
    BY <1>5, <1>t, <1>g DEF ClaimImportJobs
  <2>2. \A m \in claimed' : m \in Materials /\ st[m] # "none"
    BY <1>5 DEF ClaimImportJobs
  <2> QED
    BY <1>5, <2>1, <2>2, <1>t, <1>m DEF ClaimImportJobs, JobsKnown, Alone
<1>6. CASE HandOver
  <2>1. \A p \in Procs : proc'[p].pc = "extract" => proc'[p] = proc[p]
    <3>1. CASE UNCHANGED proc
      BY <3>1
    <3>2. CASE Go(Loop, "idle")
      <4>1. Quiet(Loop)
        BY <3>2, <1>t, <1>g
      <4> QED
        BY <4>1 DEF Alone
    <3> QED
      BY <1>6, <3>1, <3>2 DEF HandOver
  <2>2. claimed' \subseteq claimed /\ st' = st
    BY <1>6 DEF HandOver
  <2>3. \A i \in DOMAIN channel' : st[channel'[i]] # "none"
    <3>1. PICK m \in claimed : channel' = IF Len(channel) < Capacity THEN Append(channel, m) ELSE channel
      BY <1>6 DEF HandOver
    <3>2. st[m] # "none"
      BY DEF JobsKnown
    <3> QED
      BY <3>1, <3>2, <1>t DEF JobsKnown
  <2> QED
    BY <2>1, <2>2, <2>3 DEF JobsKnown
<1>7. ASSUME NEW S \in SUBSET Extracting, RecoverImportJobs(S) PROVE JobsKnown'
  <2>1. Quiet(Loop)
    BY <1>7, <1>t, <1>g, <1>r, <1>c DEF RecoverImportJobs
  <2> QED
    BY <1>7, <1>t, <2>1, <1>a DEF RecoverImportJobs
<1>8. ASSUME NEW S \in SUBSET Orphaned, RecoverStuckSynthesis(S) PROVE JobsKnown'
  <2>1. Quiet(Loop)
    BY <1>8, <1>t, <1>g, <1>r, <1>c DEF RecoverStuckSynthesis
  <2> QED
    BY <1>8, <1>t, <2>1, <1>a DEF RecoverStuckSynthesis
<1>9. CASE PendingSynthesisPrimaries
  <2>1. Quiet(Loop)
    BY <1>9, <1>t, <1>g, <1>r, <1>c DEF PendingSynthesisPrimaries
  <2> QED
    BY <1>9, <1>t, <2>1, <1>a DEF PendingSynthesisPrimaries
<1>10. CASE NextPending
  <2>1. Quiet(Loop)
    <3>1. CASE Go(Loop, "idle")
      BY <3>1, <1>t, <1>g
    <3>2. CASE \E r \in todo : proc' = [proc EXCEPT ![Loop] = [Idle EXCEPT !.pc = "maybe", !.run = r]]
      BY <3>2, <1>t DEF Alone
    <3> QED
      BY <1>10, <3>1, <3>2 DEF NextPending
  <2> QED
    BY <1>10, <1>t, <2>1, <1>a DEF NextPending
<1>11. CASE RecoveryFails
  <2>1. Quiet(Loop)
    BY <1>11, <1>t, <1>g, <1>r, <1>c DEF RecoveryFails
  <2> QED
    BY <1>11, <1>t, <2>1, <1>a DEF RecoveryFails
<1>12. ASSUME NEW w \in Workers, Take(w) PROVE JobsKnown'
  <2>1. proc'[w].mat = Head(channel) /\ \A q \in Procs \ {w} : proc'[q] = proc[q]
    BY <1>12, <1>t DEF Take
  <2>2. st[Head(channel)] # "none"
    BY <1>12, <1>t DEF Take, JobsKnown
  <2>3. \A i \in DOMAIN channel' : st[channel'[i]] # "none"
    BY <1>12, <1>t DEF Take, JobsKnown
  <2> QED
    BY <1>12, <2>1, <2>2, <2>3, <1>t DEF Take, JobsKnown
<1>13. ASSUME NEW w \in Workers, NEW o \in {"parsed", "needs_human"}, FinishImportExtraction(w, o) PROVE JobsKnown'
  <2>1. Quiet(w)
    BY <1>13, <1>t, <1>g, <1>r, <1>c DEF FinishImportExtraction
  <2> QED
    BY <1>13, <1>t, <2>1, <1>a DEF FinishImportExtraction
<1>14. ASSUME NEW w \in Workers, RequeueImportJob(w) PROVE JobsKnown'
  <2>1. Quiet(w)
    BY <1>14, <1>t, <1>g, <1>r, <1>c DEF RequeueImportJob
  <2> QED
    BY <1>14, <1>t, <2>1, <1>a DEF RequeueImportJob
<1>15. ASSUME NEW w \in Workers, RecordFails(w) PROVE JobsKnown'
  <2>1. Quiet(w)
    BY <1>15, <1>t, <1>g, <1>r, <1>c DEF RecordFails
  <2> QED
    BY <1>15, <1>t, <2>1, <1>a DEF RecordFails
<1>16. ASSUME NEW p \in Procs, MaybeSynthesize(p) PROVE JobsKnown'
  <2>1. Quiet(p)
    BY <1>16, <1>t, <1>g, <1>r, <1>c DEF MaybeSynthesize
  <2> QED
    BY <1>16, <1>t, <2>1, <1>a DEF MaybeSynthesize
<1>17. ASSUME NEW p \in Procs, BeginImportSynthesis(p) PROVE JobsKnown'
  <2>1. Quiet(p)
    BY <1>17, <1>t, <1>g, <1>r, <1>c DEF BeginImportSynthesis
  <2> QED
    BY <1>17, <1>t, <2>1, <1>a DEF BeginImportSynthesis
<1>18. ASSUME NEW p \in Procs, ReadEvidence(p) PROVE JobsKnown'
  <2>1. Quiet(p)
    BY <1>18, <1>t DEF ReadEvidence, Alone, Jobs
  <2> QED
    BY <1>18, <1>t, <2>1, <1>a DEF ReadEvidence
<1>19. ASSUME NEW p \in Procs, NEW o \in {"built", "failed", "needs_human"}, Answer(p, o) PROVE JobsKnown'
  <2>1. Quiet(p)
    BY <1>19, <1>t, <1>g, <1>r, <1>c DEF Answer
  <2> QED
    BY <1>19, <1>t, <2>1, <1>a DEF Answer
<1>20. ASSUME NEW p \in Procs, MarkImportBuilt(p) PROVE JobsKnown'
  <2>1. Quiet(p)
    BY <1>20, <1>t, <1>g, <1>r, <1>c DEF MarkImportBuilt
  <2> QED
    BY <1>20, <1>t, <2>1, <1>a DEF MarkImportBuilt
<1>21. ASSUME NEW p \in Procs, FinishImportSynthesis(p) PROVE JobsKnown'
  <2>1. Quiet(p)
    BY <1>21, <1>t, <1>g, <1>r, <1>c DEF FinishImportSynthesis
  <2> QED
    BY <1>21, <1>t, <2>1, <1>a DEF FinishImportSynthesis
<1>22. ASSUME NEW p \in Procs, SynthesisFails(p) PROVE JobsKnown'
  <2>1. Quiet(p)
    BY <1>22, <1>t, <1>g, <1>r, <1>c DEF SynthesisFails
  <2> QED
    BY <1>22, <1>t, <2>1, <1>a DEF SynthesisFails
<1>23. CASE CrashRestart
  <2>1. \A p \in Procs : proc'[p].pc # "extract"
    BY <1>23 DEF CrashRestart
  <2>2. claimed' = {} /\ channel' = <<>>
    BY <1>23 DEF CrashRestart
  <2> QED
    BY <2>1, <2>2 DEF JobsKnown
<1>24. CASE UNCHANGED vars
  BY <1>24, <1>b DEF vars
<1>25. CASE Recover
  BY <1>25, <1>7, <1>8, <1>9, <1>10, <1>11 DEF Recover
<1>26. ASSUME NEW p \in Procs, PassTwo(p) PROVE JobsKnown'
  BY <1>26, <1>16, <1>17, <1>18, <1>19, <1>20, <1>21, <1>22 DEF PassTwo
<1>27. ASSUME NEW w \in Workers, PassOne(w) PROVE JobsKnown'
  BY <1>27, <1>12, <1>13, <1>14, <1>15 DEF PassOne
<1> QED
  BY <1>1, <1>2, <1>3, <1>4, <1>5, <1>6, <1>23, <1>24, <1>25, <1>26, <1>27 DEF Next, LoopStep, Submission, Procs

LEMMA ReadyStep ==
    ASSUME TypeOK, IdleIsEmpty, StaysReady, RowsKeep, SubsKeep, PassTwoKeeps, TypeOK'
    PROVE  StaysReady'
<1>1. ASSUME NEW r \in Runs, r \notin late', Ready(r) PROVE Ready(r)'
  <2>1. sub'[r] = "done"
    BY <1>1 DEF Ready, SubsKeep
  <2>2. \A m \in Of(r) : st'[m] \notin Open
    BY <1>1 DEF Ready, AllTerminal, RowsKeep, Of
  <2> QED
    BY <2>1, <2>2 DEF Ready, AllTerminal
<1>2. ASSUME NEW r \in Runs, r \notin early' \union late', FoundReady(r) PROVE Ready(r)
  <2>1. sub[r] # "enqueue" /\ AllTerminal(r) /\ Known(r)
    BY <1>2 DEF FoundReady
  <2>2. sub[r] # "idle"
    BY <2>1, MaterialsHaveRuns DEF IdleIsEmpty, Known
  <2> QED
    BY <2>1, <2>2 DEF Ready, TypeOK
<1>3. ASSUME NEW r \in Runs \ (early' \union late') PROVE syn'[r] = "running" => Ready(r)'
  <2>1. syn'[r] = "running" => Ready(r)
    BY <1>3 DEF StaysReady, PassTwoKeeps, SubsKeep
  <2> QED
    BY <1>1, <1>3, <2>1
<1>4. ASSUME NEW r \in Runs \ (early' \union late'), NEW p \in Procs, proc'[p].pc = "begin", proc'[p].run = r
      PROVE  Ready(r)'
  <2>1. Ready(r) \/ FoundReady(r)
    BY <1>4 DEF StaysReady, PassTwoKeeps, SubsKeep
  <2> QED
    BY <1>1, <1>2, <1>4, <2>1
<1> QED
  BY <1>3, <1>4 DEF StaysReady

LEMMA EmptyStep == ASSUME IdleIsEmpty, RowsKeep, SubsKeep PROVE IdleIsEmpty'
  BY DEF IdleIsEmpty, RowsKeep, SubsKeep, Of

\* An ended run stays as it ended.
LEMMA FinalStep ==
    ASSUME TypeOK, OneSynthesizer, [Next]_vars
    PROVE  \A r \in Runs : syn[r] \in Terminal => syn'[r] = syn[r]
<1> DEFINE Final == \A r \in Runs : syn[r] \in Terminal => syn'[r] = syn[r]
<1> USE DEF db
<1> "running" \notin Terminal /\ "none" \notin Terminal /\ syn \in [Runs -> Terminal \union {"none", "running"}]
  BY DEF Terminal, TypeOK
<1>1. ASSUME NEW r \in Runs, SubmitGate(r) \/ Submission(r) \/ CancelImportRun(r) PROVE Final
  BY <1>1 DEF SubmitGate, Submission, EnqueueImport, EnqueueFails, CancelImportRun
<1>2. CASE ClaimImportJobs \/ HandOver
  BY <1>2 DEF ClaimImportJobs, HandOver
<1>3. CASE Recover
  BY <1>3 DEF Recover, RecoverImportJobs, RecoverStuckSynthesis, Orphaned,
              PendingSynthesisPrimaries, NextPending, RecoveryFails
<1>4. ASSUME NEW w \in Workers, PassOne(w) PROVE Final
  BY <1>4 DEF PassOne, Take, FinishImportExtraction, RequeueImportJob, RecordFails
<1>5. ASSUME NEW p \in Procs, PassTwo(p) PROVE Final
  <2>1. CASE FinishImportSynthesis(p)
    BY <2>1 DEF FinishImportSynthesis, At, OneSynthesizer, Pass2
  <2>2. CASE BeginImportSynthesis(p)
    BY <2>2 DEF BeginImportSynthesis
  <2> QED
    BY <1>5, <2>1, <2>2 DEF PassTwo, MaybeSynthesize, ReadEvidence, Answer, MarkImportBuilt, SynthesisFails
<1>6. CASE CrashRestart \/ UNCHANGED vars
  BY <1>6 DEF CrashRestart, vars
<1> QED
  BY <1>1, <1>2, <1>3, <1>4, <1>5, <1>6 DEF Next, LoopStep, Procs

LEMMA GateStep ==
    ASSUME TypeOK, OneSynthesizer, JobsKnown, GateHolds, RowsKeep, SubsKeep, [Next]_vars, TypeOK'
    PROVE  GateHolds'
<1>0. /\ \A r \in Runs : Primary(r) \in Materials /\ Primary(r)[1] = r
      /\ \A r \in Runs : Known(r) => Known(r)'
  <2>1. \A r \in Runs : Primary(r) \in Materials /\ Primary(r)[1] = r
    BY MaterialsHaveRuns DEF Primary
  <2> QED
    BY <2>1 DEF Known, RowsKeep, Primary
<1>1. ASSUME NEW r \in Runs, Present(r)', ~SubmitGate(r) PROVE Present(r)
  <2>1. CASE IsActive(r)' /\ Known(r)
    BY <2>1, FinalStep DEF Present, IsActive
  <2>2. CASE IsActive(r)' /\ ~Known(r)
    <3>1. sub[r] = "enqueue"
      BY <1>0, <2>2 DEF IsActive, Known, RowsKeep, Primary
    <3> QED
      BY <2>2, <3>1 DEF Present
  <2>3. CASE (sub[r] = "enqueue" /\ ~Known(r))'
    BY <1>0, <1>1, <2>3 DEF Present, SubsKeep
  <2> QED
    BY <1>1, <2>1, <2>2, <2>3 DEF Present
<1>2. ASSUME NEW r \in Runs, NEW q \in Runs, r # q, Present(r)', Present(q)', SubmitGate(r)
      PROVE  {r, q} \subseteq raced'
  <2>1. ~SubmitGate(q)
    BY <1>2 DEF SubmitGate, TypeOK
  <2>2. Present(q) /\ ~IsActive(q)
    BY <1>1, <1>2, <2>1 DEF SubmitGate
  <2>3. q \in {x \in Runs : sub[x] = "enqueue" /\ ~Known(x)}
    BY <2>2 DEF Present
  <2> QED
    BY <1>2, <2>3 DEF SubmitGate
<1>3. ASSUME NEW r \in Runs, NEW q \in Runs, r # q, Present(r)', Present(q)', ~SubmitGate(r), ~SubmitGate(q)
      PROVE  {r, q} \subseteq raced'
  BY <1>1, <1>3 DEF GateHolds, SubsKeep
<1> QED
  BY <1>2, <1>3 DEF GateHolds

LEMMA InitHolds == Init => IInv
<1> SUFFICES ASSUME Init PROVE IInv
  OBVIOUS
<1>1. TypeOK
  BY InitTyped
<1>2. \A p \in Procs : proc[p].pc \in {"idle", "recover"}
  BY DEF Init, Idle
<1>3. OneSynthesizer /\ AppliesOnce
  BY <1>2 DEF Init, OneSynthesizer, AppliesOnce, Pass2
<1>4. JobsKnown /\ IdleIsEmpty
  BY <1>2 DEF Init, JobsKnown, IdleIsEmpty, Of
<1>5. StaysReady
  BY <1>2 DEF Init, StaysReady
<1>6. GateHolds
  BY MaterialsHaveRuns DEF Init, GateHolds, Present, IsActive, Known
<1> QED
  BY <1>1, <1>3, <1>4, <1>5, <1>6 DEF IInv

LEMMA InvariantStep == IInv /\ [Next]_vars => IInv'
<1> SUFFICES ASSUME IInv, [Next]_vars PROVE IInv'
  OBVIOUS
<1>1. RowsKeep /\ SubsKeep /\ PassTwoKeeps
  BY RowsStep, SubsStep, PassTwoStep DEF IInv
<1>2. TypeOK'
  BY TypeStep DEF IInv
<1>3. OneSynthesizer' /\ AppliesOnce'
  BY SynthesizerStep DEF IInv
<1>4. JobsKnown' /\ IdleIsEmpty'
  BY <1>1, JobsStep, EmptyStep DEF IInv
<1>5. StaysReady' /\ GateHolds'
  BY <1>1, <1>2, ReadyStep, GateStep DEF IInv
<1> QED
  BY <1>2, <1>3, <1>4, <1>5 DEF IInv

\* The strengthened invariant, over every submission, crash and recovery.
THEOREM ImportsInvariance == Spec => []IInv
  BY InitHolds, InvariantStep, PTL DEF Spec

\* Types, for the whole pipeline.
THEOREM ImportsTypeCorrect == Spec => []TypeOK
<1>1. IInv => TypeOK
  BY DEF IInv
<1> QED
  BY <1>1, ImportsInvariance, PTL

\* Pass 2 reaches the draft at most once per run, however many workers race to
\* synthesize it and wherever the process dies.
THEOREM SynthesisAppliesOnce == Spec => []AppliedOnce
<1>1. IInv => AppliedOnce
  BY DEF IInv, AppliesOnce, AppliedOnce
<1> QED
  BY <1>1, ImportsInvariance, PTL

\* While a run is synthesized all its evidence is in (maybeSynthesize's read
\* stays true past its claim), except for the histories the property names.
THEOREM SynthesisSeesAll == Spec => []EvidenceIsComplete
<1>1. IInv => EvidenceIsComplete
  BY DEF IInv, StaysReady, Ready, EvidenceIsComplete
<1> QED
  BY <1>1, ImportsInvariance, PTL

\* Of runs that did not race through Submit's gate at most one is active.
THEOREM OneRunAtATime == Spec => []OneActiveRun
<1>1. IInv => OneActiveRun
  BY DEF IInv, GateHolds, Present, OneActiveRun
<1> QED
  BY <1>1, ImportsInvariance, PTL

\* FinishImportSynthesis never overwrites the end of a run.
THEOREM EndsAreFinal == Spec => RunsAreFinal
<1>1. IInv /\ [Next]_vars => [\A r \in Runs : syn[r] \in Terminal => syn'[r] = syn[r]]_vars
  BY FinalStep DEF IInv
<1> QED
  BY <1>1, ImportsInvariance, PTL DEF Spec, RunsAreFinal

=============================================================================
