------------------------------- MODULE Imports -------------------------------
(***************************************************************************)
(* The structured-import pipeline (internal/kbimport, kbstore/import.go).  *)
(* The material rows are the job queue: a submission enqueues them one by  *)
(* one, the loop claims them and hands them to a pool of workers over a    *)
(* bounded channel, each worker extracts (pass 1) and then, if its run is  *)
(* ready, claims and runs the synthesis (pass 2) inline; recovery requeues *)
(* what a crash or a slow worker left, and may run pass 2 itself.          *)
(*                                                                         *)
(* One organization.  A material is <<run, i>>, the i-th its submission    *)
(* enqueues; the first one is the run's primary, whose row carries the     *)
(* synthesis state `syn'.  Every store call is one step.  The write of a   *)
(* row's import state is a compare-and-swap that re-reads when it loses    *)
(* (mutateImportParams), so each is one atomic read-modify-write.          *)
(***************************************************************************)
EXTENDS Integers, FiniteSets, Sequences

CONSTANTS Runs,         \* runs that may be submitted
          Size,         \* materials of each run's submission
          Workers,      \* the worker pool
          Loop,         \* the claim-and-recover goroutine
          Capacity,     \* of the channel (64 in the code)
          MaxAttempts,  \* extraction attempts of a material
          MaxFaults,    \* bound: crashes and failed store calls
          None          \* no run, no material, no outcome

ASSUME ImportsAssumption ==
    /\ Size \in [Runs -> Nat \ {0}] /\ Capacity \in Nat \ {0}
    /\ MaxAttempts \in Nat \ {0} /\ MaxFaults \in Nat
    /\ Loop \notin Workers /\ None \notin Runs

Procs     == Workers \union {Loop}
Materials == UNION {{r} \X (1..Size[r]) : r \in Runs}
Primary(r) == <<r, 1>>

VARIABLES st,       \* processing_status of a material ("none": no row yet)
          attempts, \* its import attempts
          syn,      \* the run's synthesis status ("none": not begun)
          sub,      \* a submission: idle, enqueue (past the gate), done
          next,     \* the material it enqueues next
          claimed,  \* rows of the loop's batch not yet handed over
          channel,  \* jobs on their way to a worker
          proc,     \* what a worker or the loop is doing
          todo,     \* runs the loop still has to look at for pass 2
          faults,
          raced,    \* history: runs that passed the gate beside another
          early,    \* history: runs found ready before their submission ended
          late,     \* history: runs with a material requeued though it was not extracting
          applied   \* history: how often pass 2 wrote into the draft

db   == <<st, attempts, syn>>
http == <<sub, next>>
pool == <<claimed, channel, proc, todo>>
hist == <<raced, early, late, applied>>
vars == <<db, http, pool, faults, hist>>

Open     == {"queued", "extracting"}
Terminal == {"built", "failed", "needs_human", "cancelled"}
Pass2    == {"read", "model", "mark", "finish"}
Idle     == [pc |-> "idle", mat |-> None, run |-> None, ev |-> {}, out |-> None]

Of(r)        == {m \in Materials : m[1] = r}
Enqueued(r)  == {m \in Of(r) : st[m] # "none"}
Known(r)     == st[Primary(r)] # "none"
IsActive(r)  == Known(r) /\ syn[r] \notin Terminal

\* (Mutant: a material a worker still has counts as finished.)
NoneQueued(r) == \A m \in Of(r) : st[m] # "queued"

\* allTerminal over the run's rows.
AllTerminal(r) == \A m \in Of(r) : st[m] \notin Open
Holds(p, r)  == proc[p].pc \in Pass2 /\ proc[p].run = r

Statuses == Open \union {"none", "parsed", "needs_human", "failed", "cancelled", "built"}
Jobs == [pc  : {"idle", "extract", "maybe", "begin", "hand", "recover", "resynth", "list", "pending"}
               \union Pass2,
         mat : Materials \union {None},
         run : Runs \union {None},
         ev  : SUBSET Materials,
         out : Terminal \union {None}]

\* A material or run is there whenever the step a process is at needs it.
TypeOK ==
    /\ st \in [Materials -> Statuses]
    /\ attempts \in [Materials -> Nat]
    /\ syn \in [Runs -> Terminal \union {"none", "running"}]
    /\ sub \in [Runs -> {"idle", "enqueue", "done"}]
    /\ next \in [Runs -> Nat]
    /\ claimed \in SUBSET Materials
    /\ channel \in Seq(Materials)
    /\ proc \in [Procs -> Jobs]
    /\ \A p \in Procs : /\ proc[p].pc = "extract" => proc[p].mat \in Materials
                        /\ proc[p].pc \in Pass2 \union {"maybe", "begin"} => proc[p].run \in Runs
                        /\ proc[p].pc = "finish" => proc[p].out \in Terminal
    /\ todo \in SUBSET Runs
    /\ faults \in 0..MaxFaults
    /\ raced \in SUBSET Runs /\ early \in SUBSET Runs /\ late \in SUBSET Runs
    /\ applied \in [Runs -> Nat]

Init ==
    /\ st = [m \in Materials |-> "none"] /\ attempts = [m \in Materials |-> 0]
    /\ syn = [r \in Runs |-> "none"]
    /\ sub = [r \in Runs |-> "idle"] /\ next = [r \in Runs |-> 1]
    /\ claimed = {} /\ channel = <<>> /\ todo = {}
    /\ proc = [p \in Procs |-> IF p = Loop THEN [Idle EXCEPT !.pc = "recover"] ELSE Idle]
    /\ faults = 0
    /\ raced = {} /\ early = {} /\ late = {} /\ applied = [r \in Runs |-> 0]

Fault == faults < MaxFaults /\ faults' = faults + 1

----------------------------------------------------------------------------
(* Submissions (POST /kb/imports).                                         *)

\* Submit reads the one-active-run gate; a refused request changes nothing.
SubmitGate(r) ==
    /\ sub[r] = "idle"
    /\ \A q \in Runs : ~IsActive(q)
    /\ sub' = [sub EXCEPT ![r] = "enqueue"]
    /\ LET other == {q \in Runs : sub[q] = "enqueue" /\ ~Known(q)}
       IN  raced' = raced \union other \union (IF other = {} THEN {} ELSE {r})
    /\ UNCHANGED <<db, next, pool, faults, early, late, applied>>

\* EnqueueImport: a new url row, or a staged file taken from 'parsed' to
\* 'queued'; either way the row is a queued job of the run from here on.
EnqueueImport(r) ==
    /\ sub[r] = "enqueue"
    /\ st' = [st EXCEPT ![<<r, next[r]>>] = "queued"]
    /\ next' = [next EXCEPT ![r] = @ + 1]
    /\ sub' = [sub EXCEPT ![r] = IF next[r] = Size[r] THEN "done" ELSE @]
    /\ UNCHANGED <<attempts, syn, pool, faults, hist>>

\* Staging or enqueueing fails: Submit returns, what it enqueued stays.
EnqueueFails(r) ==
    /\ sub[r] = "enqueue" /\ Fault
    /\ sub' = [sub EXCEPT ![r] = "done"]
    /\ UNCHANGED <<db, next, pool, hist>>

\* (Mutant: refused only once the run has ended.)
CancelUnfinished(r) ==
    /\ Known(r) /\ syn[r] \notin Terminal
    /\ syn' = [syn EXCEPT ![r] = "cancelled"]
    /\ st' = [m \in Materials |-> IF m[1] = r /\ st[m] \in Open THEN "cancelled" ELSE st[m]]
    /\ UNCHANGED <<attempts, http, pool, faults, hist>>

\* CancelImportRun: one transaction, refused once pass 2 was claimed.
CancelImportRun(r) ==
    /\ Known(r) /\ syn[r] = "none"
    /\ syn' = [syn EXCEPT ![r] = "cancelled"]
    /\ st' = [m \in Materials |-> IF m[1] = r /\ st[m] \in Open THEN "cancelled" ELSE st[m]]
    /\ UNCHANGED <<attempts, http, pool, faults, hist>>

----------------------------------------------------------------------------
(* The loop: claim and hand over.                                          *)

At(p, s)   == proc[p].pc = s
Go(p, s)   == proc' = [proc EXCEPT ![p].pc = s]
\* A worker goes back to the channel, the loop to the rest of its list.
Return(p)  == proc' = [proc EXCEPT ![p] = IF p = Loop THEN [Idle EXCEPT !.pc = "pending"] ELSE Idle]

\* ClaimImportJobs: every queued row (the batch limit exceeds the instance).
ClaimImportJobs ==
    /\ At(Loop, "idle")
    /\ LET batch == {m \in Materials : st[m] = "queued"}
       IN  /\ batch # {}
           /\ st' = [m \in Materials |-> IF m \in batch THEN "extracting" ELSE st[m]]
           /\ claimed' = batch
    /\ Go(Loop, "hand")
    /\ UNCHANGED <<attempts, syn, http, channel, todo, faults, hist>>

\* One job into the channel; when it stays full for two seconds the row is
\* left 'extracting' for recovery.
HandOver ==
    /\ At(Loop, "hand")
    /\ \E m \in claimed :
         /\ claimed' = claimed \ {m}
         /\ channel' = IF Len(channel) < Capacity THEN Append(channel, m) ELSE channel
         /\ IF claimed = {m} THEN Go(Loop, "idle") ELSE UNCHANGED proc
    /\ UNCHANGED <<db, http, todo, faults, hist>>

----------------------------------------------------------------------------
(* The loop: recovery, at boot and on every RecoverEvery tick.             *)

\* RecoverImportJobs takes rows that were claimed StuckAfter ago.  Time in
\* the channel counts, so the row's worker may be alive: any extracting row
\* can be old enough.
RecoverImportJobs(S) ==
    /\ At(Loop, "idle") \/ At(Loop, "recover")
    /\ attempts' = [m \in Materials |-> IF m \in S THEN attempts[m] + 1 ELSE attempts[m]]
    /\ st' = [m \in Materials |->
                IF m \notin S THEN st[m]
                ELSE IF attempts[m] + 1 >= MaxAttempts THEN "failed" ELSE "queued"]
    /\ Go(Loop, "resynth")
    /\ UNCHANGED <<syn, http, claimed, channel, todo, faults, hist>>

Extracting == {m \in Materials : st[m] = "extracting"}

\* RecoverStuckSynthesis.  SynthTimeout (2 min) bounds pass 2 and is shorter
\* than StuckAfter (5 min): a run old enough has no process left in pass 2.
Orphaned == {r \in Runs : syn[r] = "running" /\ \A p \in Procs : ~Holds(p, r)}

\* (Mutant: a stuck run is put back to be synthesized again.)
RestartSynthesis(S) ==
    /\ At(Loop, "resynth")
    /\ syn' = [r \in Runs |-> IF r \in S THEN "none" ELSE syn[r]]
    /\ Go(Loop, "list")
    /\ UNCHANGED <<st, attempts, http, claimed, channel, todo, faults, hist>>

RecoverStuckSynthesis(S) ==
    /\ At(Loop, "resynth")
    /\ syn' = [r \in Runs |-> IF r \in S THEN "needs_human" ELSE syn[r]]
    /\ Go(Loop, "list")
    /\ UNCHANGED <<st, attempts, http, claimed, channel, todo, faults, hist>>

\* (Mutant: lists runs that began pass 2, not those that never did.)
BegunPrimaries ==
    /\ At(Loop, "list")
    /\ todo' = {r \in Runs : Known(r) /\ syn[r] = "running"}
    /\ Go(Loop, "pending")
    /\ UNCHANGED <<db, http, claimed, channel, faults, hist>>

\* The runs whose pass 2 nobody has claimed.
PendingSynthesisPrimaries ==
    /\ At(Loop, "list")
    /\ todo' = {r \in Runs : Known(r) /\ syn[r] = "none"}
    /\ Go(Loop, "pending")
    /\ UNCHANGED <<db, http, claimed, channel, faults, hist>>

NextPending ==
    /\ At(Loop, "pending")
    /\ \/ /\ todo = {}
          /\ Go(Loop, "idle") /\ UNCHANGED todo
       \/ \E r \in todo :
            /\ todo' = todo \ {r}
            /\ proc' = [proc EXCEPT ![Loop] = [Idle EXCEPT !.pc = "maybe", !.run = r]]
    /\ UNCHANGED <<db, http, claimed, channel, faults, hist>>

\* A read or a write of the recovery pass fails: it is logged, and the pass
\* goes on, except that without the list of primaries it ends.
RecoveryFails ==
    /\ Fault
    /\ \/ /\ At(Loop, "idle") \/ At(Loop, "recover")
          /\ Go(Loop, "resynth")
       \/ At(Loop, "resynth") /\ Go(Loop, "list")
       \/ At(Loop, "list") /\ Go(Loop, "idle")
    /\ UNCHANGED <<db, http, claimed, channel, todo, hist>>

----------------------------------------------------------------------------
(* Workers: pass 1.                                                        *)

Take(w) ==
    /\ At(w, "idle") /\ channel # <<>>
    /\ proc' = [proc EXCEPT ![w] = [Idle EXCEPT !.pc = "extract", !.mat = Head(channel)]]
    /\ channel' = Tail(channel)
    /\ UNCHANGED <<db, http, claimed, todo, faults, hist>>

Maybe(w) == proc' = [proc EXCEPT ![w] = [Idle EXCEPT !.pc = "maybe", !.run = proc[w].mat[1]]]

\* FinishImportExtraction: a row that is not 'extracting' any more keeps its
\* status and the outcome is discarded.
FinishImportExtraction(w, outcome) ==
    LET m == proc[w].mat
    IN  /\ At(w, "extract")
        /\ st' = IF st[m] = "extracting" THEN [st EXCEPT ![m] = outcome] ELSE st
        /\ Maybe(w)
        /\ UNCHANGED <<attempts, syn, http, claimed, channel, todo, faults, hist>>

\* RequeueImportJob after a reported failure: no guard on the row's status.
RequeueImportJob(w) ==
    LET m == proc[w].mat
    IN  /\ At(w, "extract")
        /\ attempts' = [attempts EXCEPT ![m] = @ + 1]
        /\ st' = [st EXCEPT ![m] = IF attempts[m] + 1 >= MaxAttempts THEN "needs_human" ELSE "queued"]
        /\ late' = IF st[m] = "extracting" THEN late ELSE late \union {m[1]}
        /\ Maybe(w)
        /\ UNCHANGED <<syn, http, claimed, channel, todo, faults, raced, early, applied>>

\* Either write fails and is logged: the row stays as it is.
RecordFails(w) ==
    /\ At(w, "extract") /\ Fault
    /\ Maybe(w)
    /\ UNCHANGED <<db, http, claimed, channel, todo, hist>>

----------------------------------------------------------------------------
(* Pass 2, by a worker or by the loop.                                     *)

\* maybeSynthesize: the read of the run's rows and its guards.
MaybeSynthesize(p) ==
    LET r == proc[p].run
    IN  /\ At(p, "maybe")
        /\ IF Known(r) /\ syn[r] = "none" /\ AllTerminal(r)
           THEN /\ Go(p, "begin")
                /\ early' = IF sub[r] = "enqueue" THEN early \union {r} ELSE early
           ELSE Return(p) /\ UNCHANGED early
        /\ UNCHANGED <<db, http, claimed, channel, todo, faults, raced, late, applied>>

\* BeginImportSynthesis: the claim, guarded by the synthesis state alone.
BeginImportSynthesis(p) ==
    LET r == proc[p].run
    IN  /\ At(p, "begin")
        /\ IF syn[r] = "none"
           THEN syn' = [syn EXCEPT ![r] = "running"] /\ Go(p, "read")
           ELSE Return(p) /\ UNCHANGED syn
        /\ UNCHANGED <<st, attempts, http, claimed, channel, todo, faults, hist>>

\* What the prompt's manifest takes in (buildSynthesisPrompt).
Evidence(r) == {m \in Of(r) : st[m] \in {"parsed", "built"}}

\* runSynthesis reads the rows again; the prompt is built from this read.
ReadEvidence(p) ==
    LET r == proc[p].run
    IN  /\ At(p, "read")
        /\ proc' = [proc EXCEPT ![p] = [@ EXCEPT !.pc = "model", !.ev = Evidence(r)]]
        /\ UNCHANGED <<db, http, claimed, channel, todo, faults, hist>>

\* The outcome is settled and only has to be recorded.
Close(p, outcome) == proc' = [proc EXCEPT ![p] = [@ EXCEPT !.pc = "finish", !.ev = {}, !.out = outcome]]

\* The model answers: nothing usable, no model at all, or calls of which at
\* least one lands in the draft.
Answer(p, outcome) ==
    /\ At(p, "model")
    /\ IF outcome = "built"
       THEN /\ applied' = [applied EXCEPT ![proc[p].run] = @ + 1]
            /\ Go(p, "mark")
       ELSE /\ Close(p, outcome)
            /\ UNCHANGED applied
    /\ UNCHANGED <<db, http, claimed, channel, todo, faults, raced, early, late>>

MarkImportBuilt(p) ==
    /\ At(p, "mark")
    /\ st' = [m \in Materials |-> IF m \in proc[p].ev /\ st[m] = "parsed" THEN "built" ELSE st[m]]
    /\ Close(p, "built")
    /\ UNCHANGED <<attempts, syn, http, claimed, channel, todo, faults, hist>>

\* FinishImportSynthesis: no guard on the state it overwrites.
FinishImportSynthesis(p) ==
    /\ At(p, "finish")
    /\ syn' = [syn EXCEPT ![proc[p].run] = proc[p].out]
    /\ Return(p)
    /\ UNCHANGED <<st, attempts, http, claimed, channel, todo, faults, hist>>

\* A store call of pass 2 fails: the run is not looked at, not claimed, ended
\* as failed, not marked, or left 'running'.
SynthesisFails(p) ==
    /\ Fault
    /\ \/ proc[p].pc \in {"maybe", "begin", "finish"} /\ Return(p)
       \/ /\ At(p, "read")
          /\ Close(p, "failed")
       \/ /\ At(p, "mark")
          /\ Close(p, "built")
    /\ UNCHANGED <<db, http, claimed, channel, todo, hist>>

----------------------------------------------------------------------------
\* The process dies, or is shut down (every pending store call then fails);
\* the next one recovers before its workers take anything.
CrashRestart ==
    /\ Fault
    /\ sub' = [r \in Runs |-> IF sub[r] = "enqueue" THEN "done" ELSE sub[r]]
    /\ claimed' = {} /\ channel' = <<>> /\ todo' = {}
    /\ proc' = [p \in Procs |-> IF p = Loop THEN [Idle EXCEPT !.pc = "recover"] ELSE Idle]
    /\ UNCHANGED <<db, next, hist>>

Submission(r) == EnqueueImport(r) \/ EnqueueFails(r)

PassOne(w) ==
    \/ Take(w)
    \/ \E o \in {"parsed", "needs_human"} : FinishImportExtraction(w, o)
    \/ RequeueImportJob(w)
    \/ RecordFails(w)

PassTwo(p) ==
    \/ MaybeSynthesize(p) \/ BeginImportSynthesis(p) \/ ReadEvidence(p)
    \/ \E o \in {"built", "failed", "needs_human"} : Answer(p, o)
    \/ MarkImportBuilt(p) \/ FinishImportSynthesis(p)
    \/ SynthesisFails(p)

Recover ==
    \/ \E S \in SUBSET Extracting : RecoverImportJobs(S)
    \/ \E S \in SUBSET Orphaned : RecoverStuckSynthesis(S)
    \/ PendingSynthesisPrimaries \/ NextPending \/ RecoveryFails

LoopStep == ClaimImportJobs \/ HandOver \/ Recover \/ PassTwo(Loop)

Next ==
    \/ \E r \in Runs : SubmitGate(r) \/ Submission(r) \/ CancelImportRun(r)
    \/ LoopStep
    \/ \E w \in Workers : PassOne(w) \/ PassTwo(w)
    \/ CrashRestart

Spec == Init /\ [][Next]_vars

\* The tickers alternate in one select; a row or run that stays stuck gets
\* old, so recovery takes it.
Fairness ==
    /\ \A r \in Runs : WF_vars(Submission(r))
    /\ \A w \in Workers : WF_vars(PassOne(w) \/ PassTwo(w))
    /\ WF_vars(LoopStep) /\ SF_vars(ClaimImportJobs)
    /\ \A m \in Materials : SF_vars(m \in Extracting /\ \E S \in SUBSET Extracting : m \in S /\ RecoverImportJobs(S))
    /\ \A r \in Runs : SF_vars(r \in Orphaned /\ \E S \in SUBSET Orphaned : r \in S /\ RecoverStuckSynthesis(S))

FairSpec == Spec /\ Fairness

----------------------------------------------------------------------------
(* Properties.                                                             *)

\* An organization has one active run, as Submit's gate promises, except for
\* submissions that passed the gate before either had a row.
OneActiveRun ==
    \A r, q \in Runs : r # q /\ IsActive(r) /\ IsActive(q) => {r, q} \subseteq raced

\* Pass 2 runs on finished evidence: while it runs no material of the run is
\* waiting or being extracted, unless its submission was still enqueueing or
\* an unguarded requeue hit a finished row (maybeSynthesize reads, claims and
\* reads again in three calls).
EvidenceIsComplete ==
    \A r \in Runs \ (early \union late) : syn[r] = "running" => AllTerminal(r)

\* Pass 2 writes into the draft at most once per run, through crashes,
\* recovery and racing workers (import.go: never silently re-run pass 2).
AppliedOnce == \A r \in Runs : applied[r] <= 1

\* A run that ended stays as it ended: FinishImportSynthesis, which overwrites
\* without looking, never meets a cancelled or recovered run.
RunsAreFinal == [][\A r \in Runs : syn[r] \in Terminal => syn'[r] = syn[r]]_vars

\* A run that has its primary row ends, so the gate opens again.
RunEnds == \A r \in Runs : Known(r) ~> syn[r] \in Terminal
=============================================================================
