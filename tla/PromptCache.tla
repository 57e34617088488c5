---------------------------- MODULE PromptCache ----------------------------
(***************************************************************************)
(* The knowledge base that replies are written from                        *)
(* (internal/responsestore/cached.go), of one organization: replies and    *)
(* the prompt page load it through one cache, and every write of the live  *)
(* tables that goes through the API invalidates the cache after its        *)
(* commit.  Writes by the command line tools do not.                       *)
(*                                                                         *)
(* A state of the live tables is the number of commits that led to it.     *)
(* The age of an entry is not modelled: any entry may have expired.        *)
(***************************************************************************)
EXTENDS Naturals

CONSTANTS
    Loaders,      \* callers of Load
    Writers,      \* API requests that write the live tables
    NoEntry,      \* nothing cached
    MaxCommits    \* bound on commits, for model checking

ASSUME NoEntryIsNotAnEntry == NoEntry \notin [kb : Nat, gen : Nat]
ASSUME MaxCommitsIsNat == MaxCommits \in Nat

VARIABLES
    db,        \* the live tables
    entry,     \* CachedKBRepo.entries: the cached build
    gen,       \* CachedKBRepo.gens: the invalidation generation
    load,      \* loader -> what its goroutine holds
    writing,   \* writer -> the commit it has yet to invalidate, 0 for none
    settled,   \* commits whose invalidation is over (history)
    unseen     \* commits nobody will invalidate (history)

cacheVars == <<db, entry, gen, load, writing, settled, unseen>>

(* "settled" at the start of a Load is what it must answer for.            *)
Loads == [at : {"idle", "missed", "read", "answered"}, gen : Nat, kb : Nat, owes : SUBSET Nat]
Idle == [at |-> "idle", gen |-> 0, kb |-> 0, owes |-> {}]

CacheTypeOK ==
    /\ db \in Nat
    /\ entry \in [kb : Nat, gen : Nat] \cup {NoEntry}
    /\ gen \in Nat
    /\ load \in [Loaders -> Loads]
    /\ writing \in [Writers -> Nat]
    /\ settled \subseteq Nat
    /\ unseen \subseteq Nat

CacheInit ==
    /\ db = 0
    /\ entry = NoEntry
    /\ gen = 0
    /\ load = [l \in Loaders |-> Idle]
    /\ writing = [w \in Writers |-> 0]
    /\ settled = {}
    /\ unseen = {}

---------------------------------------------------------------------------
(* Load: the lookup and the store each hold the mutex, the database read   *)
(* between them is one transaction and does not.                           *)

Usable == entry # NoEntry /\ entry.gen = gen

Hit(l) ==
    /\ load[l].at = "idle"
    /\ Usable
    /\ load' = [load EXCEPT ![l] = [at |-> "answered", gen |-> gen, kb |-> entry.kb, owes |-> settled]]
    /\ UNCHANGED <<db, entry, gen, writing, settled, unseen>>

\* Also when the entry has expired.
Miss(l) ==
    /\ load[l].at = "idle"
    /\ load' = [load EXCEPT ![l] = [at |-> "missed", gen |-> gen, kb |-> 0, owes |-> settled]]
    /\ UNCHANGED <<db, entry, gen, writing, settled, unseen>>

ReadDatabase(l) ==
    /\ load[l].at = "missed"
    /\ load' = [load EXCEPT ![l].at = "read", ![l].kb = db]
    /\ UNCHANGED <<db, entry, gen, writing, settled, unseen>>

\* A failed load answers nothing and is never cached.
ReadFails(l) ==
    /\ load[l].at = "missed"
    /\ load' = [load EXCEPT ![l] = Idle]
    /\ UNCHANGED <<db, entry, gen, writing, settled, unseen>>

\* (Mutant: the generation is not looked at again.)
KeptAlways(l) == [kb |-> load[l].kb, gen |-> gen]

\* A build is cached unless an invalidation landed while it was read.
Kept(l) == IF gen = load[l].gen THEN [kb |-> load[l].kb, gen |-> load[l].gen] ELSE entry

Store(l) ==
    /\ load[l].at = "read"
    /\ entry' = Kept(l)
    /\ load' = [load EXCEPT ![l].at = "answered"]
    /\ UNCHANGED <<db, gen, writing, settled, unseen>>

\* The caller is done with the answer.
Return(l) ==
    /\ load[l].at = "answered"
    /\ load' = [load EXCEPT ![l] = Idle]
    /\ UNCHANGED <<db, entry, gen, writing, settled, unseen>>

---------------------------------------------------------------------------
(* A handler of /kb/* or an approval: the store commits, then              *)
(* invalidateKBCache runs.                                                 *)

Commit(w) ==
    /\ writing[w] = 0
    /\ db < MaxCommits
    /\ db' = db + 1
    /\ writing' = [writing EXCEPT ![w] = db + 1]
    /\ UNCHANGED <<entry, gen, load, settled, unseen>>

\* (Mutant: the entry goes, the generation stays.)
InvalidateDropsOnly(w) ==
    /\ writing[w] # 0
    /\ entry' = NoEntry
    /\ writing' = [writing EXCEPT ![w] = 0]
    /\ settled' = settled \cup {writing[w]}
    /\ UNCHANGED <<db, gen, load, unseen>>

Invalidate(w) ==
    /\ writing[w] # 0
    /\ entry' = NoEntry
    /\ gen' = gen + 1
    /\ writing' = [writing EXCEPT ![w] = 0]
    /\ settled' = settled \cup {writing[w]}
    /\ UNCHANGED <<db, load, unseen>>

\* kb-load writes the same tables from another process.
WriteOutsideTheAPI ==
    /\ db < MaxCommits
    /\ db' = db + 1
    /\ unseen' = unseen \cup {db + 1}
    /\ UNCHANGED <<entry, gen, load, writing, settled>>

\* The cache is memory: a restart empties it and ends every request.
CrashRestart ==
    /\ entry' = NoEntry
    /\ gen' = 0
    /\ load' = [l \in Loaders |-> Idle]
    /\ writing' = [w \in Writers |-> 0]
    /\ settled' = settled \cup ({writing[w] : w \in Writers} \ {0})
    /\ UNCHANGED <<db, unseen>>

CacheNext ==
    \/ \E l \in Loaders : Hit(l) \/ Miss(l) \/ ReadDatabase(l) \/ ReadFails(l) \/ Store(l) \/ Return(l)
    \/ \E w \in Writers : Commit(w) \/ Invalidate(w)
    \/ WriteOutsideTheAPI
    \/ CrashRestart

CacheSpec == CacheInit /\ [][CacheNext]_cacheVars

---------------------------------------------------------------------------

\* A Load that starts after a write's handler has invalidated the cache
\* answers with a knowledge base that has that write, whatever loads and
\* writes run beside it (kbLiveChanged: "visible to the NEXT customer reply").
NextReplySeesTheWrite ==
    \A l \in Loaders : load[l].at = "answered" => \A v \in load[l].owes : v <= load[l].kb

\* The cached build only misses commits whose handler has yet to invalidate
\* and commits nobody announces, which the TTL is for (the generation check
\* of Load: a slow read never brings back what Invalidate dropped).
CacheMissesOnlyOpenWrites ==
    entry # NoEntry =>
        \A v \in (entry.kb + 1)..db : v \in unseen \/ \E w \in Writers : writing[w] = v
=============================================================================
