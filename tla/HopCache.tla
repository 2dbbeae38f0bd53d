------------------------------- MODULE HopCache -------------------------------
(***************************************************************************)
(* The opt-in cache of verified hops (proof_frog/hop_cache.py) together    *)
(* with the two ways the engine uses it (proof_engine.py): one hop after   *)
(* the other (_check_equivalent_cached) and a batch of hops checked in a   *)
(* process pool (_prove_steps_parallel).                                   *)
(*                                                                         *)
(* Several `prove` runs share one cache directory; meanwhile somebody may  *)
(* edit the engine's sources.  A cache file belongs to one version of the  *)
(* engine, its fingerprint, and lists the digests of the hops that version *)
(* verified.  Whether an engine verifies a hop is left abstract: Accepts.  *)
(***************************************************************************)
EXTENDS Naturals, Sequences, FiniteSets

CONSTANTS
    Runs,           \* `prove` processes with the cache on
    Workers,        \* worker processes of one run's pool
    Engines,        \* versions of the engine's sources (fingerprints)
    Garbled,        \* a line of a file that is no digest
    NoEngine,       \* no fingerprint: not computed, or unreadable sources
    Contexts,       \* everything the pipeline context holds besides the games
    Games,          \* the pair of games and the step assumptions of a hop
    Accepts,        \* Accepts[e]: the hops engine e finds equivalent
    Uncacheable,    \* hops with a value the digest cannot serialize
    ProofOf,        \* ProofOf[r]: the equivalence hops of the proof r checks
    Modes,          \* subset of {"sequential", "parallel"}
    StartMethod,    \* of pool workers: "fork" or "spawn"
    PoolThreshold,  \* _prove_steps_parallel: fewer tasks are checked inline
    MaxEntries, TrimTo, MaxCacheFiles,
    PriorDirs,      \* cache directories earlier runs may have left behind
    Kills,          \* may a run be killed?
    EditWindows,    \* the kinds of process ("run", "worker") under which the
                    \* sources may change between import and fingerprint
    Reverts         \* may the sources go back to an earlier version?

Hops == [ctx : Contexts, games : Games]
Digests == [engine : Engines, ctx : Contexts, games : Games]
HopOf(d) == [ctx |-> d.ctx, games |-> d.games]

Lines == Digests \cup {Garbled}

(* _read_entries: the lines that are digests, oldest first; the set of     *)
(* them and their number.                                                  *)
Entries(s) == {s[i] : i \in DOMAIN s} \ {Garbled}
Readable(s) == {i \in DOMAIN s : s[i] # Garbled}

(* A file holds verdicts of its own engine only, and only correct ones.    *)
SoundFile(e, lines) ==
    \A i \in Readable(lines) : lines[i].engine = e /\ HopOf(lines[i]) \in Accepts[e]

ASSUME EnginesAssumption ==
    /\ NoEngine \notin Engines
    /\ Garbled \notin Digests
    /\ Accepts \in [Engines -> SUBSET Hops]
ASSUME ProofsAssumption ==
    /\ ProofOf \in [Runs -> Seq(Hops)]
    /\ Uncacheable \subseteq Hops
ASSUME ModesAssumption ==
    /\ Modes \subseteq {"sequential", "parallel"}
    /\ StartMethod \in {"fork", "spawn"}
    /\ EditWindows \subseteq {"run", "worker"}
    /\ {Kills, Reverts} \subseteq BOOLEAN
ASSUME LimitsAssumption ==
    /\ {PoolThreshold, MaxEntries, TrimTo, MaxCacheFiles} \subseteq Nat
    /\ TrimTo \in 1..MaxEntries
ASSUME PriorAssumption ==
    \A d \in PriorDirs :
        /\ d.content \in [Engines -> Seq(Lines)]
        /\ d.present \subseteq Engines
        /\ d.torn \subseteq d.present
        /\ \A e \in d.torn : d.content[e] # <<>>
        /\ d.newer \subseteq Engines \X Engines
        /\ \A e \in Engines : SoundFile(e, d.content[e])

VARIABLES
    sources,    \* the engine version on disk
    retired,    \* the versions that were on disk before (unless Reverts)
    present,    \* the engines that have a cache file
    content,    \* content[e]: the lines of e's file, oldest first
    torn,       \* the engines whose file ends without a newline
    newer,      \* <<f, e>>: file f was modified after file e
    upkeep,     \* for the properties: has a pruning been missed, or gone through?
    run,        \* run[r]: the state of a `prove` process
    worker      \* worker[r][w]: the state of a pool worker of r

vars == <<sources, retired, present, content, torn, newer, upkeep, run, worker>>

Hop(r, i) == ProofOf[r][i]
HopIndices(r) == DOMAIN ProofOf[r]

(* Mutants of Digest: the context is left out, or is no longer told apart. *)
DigestNoField(e, h) == [engine |-> e, games |-> h.games]
DigestNoContext(e, h) ==
    [engine |-> e, ctx |-> CHOOSE k \in Contexts : TRUE, games |-> h.games]

(* HopCache.key: the fingerprint, every input field of the context, the    *)
(* games and the step assumptions all enter the digest (no collisions).    *)
Digest(e, h) == [engine |-> e, ctx |-> h.ctx, games |-> h.games]

(* HopCache.lookup under _hop_cache_hit: at NORMAL verbosity never a hit.  *)
IsHit(r, i) ==
    /\ run[r].quiet
    /\ Hop(r, i) \notin Uncacheable
    /\ Digest(run[r].fp, Hop(r, i)) \in run[r].known

-------------------------------------------------------------------------------
IdleRun(r) ==
    [pc |-> "idle", mode |-> "sequential", quiet |-> FALSE,
     loaded |-> NoEngine, fp |-> NoEngine,
     known |-> {}, lines |-> 0, stale |-> FALSE,
     idx |-> 1,
     verdict |-> [i \in HopIndices(r) |-> "pending"],
     by |-> [i \in HopIndices(r) |-> NoEngine],
     created |-> FALSE, listed |-> {}, victims |-> {}, newest |-> <<>>]

IdleWorker == [loaded |-> NoEngine, fp |-> NoEngine, task |-> 0]

Init ==
    /\ sources \in Engines
    /\ retired = {}
    /\ \E d \in PriorDirs :
          /\ present = d.present /\ content = d.content
          /\ torn = d.torn /\ newer = d.newer
    /\ upkeep = "whole"
    /\ run = [r \in Runs |-> IdleRun(r)]
    /\ worker = [r \in Runs |-> [w \in Workers |-> IdleWorker]]

-------------------------------------------------------------------------------
(* Starting a run.                                                         *)

(* The python process imports the engine's modules.                        *)
Import(r) ==
    /\ run[r].pc = "idle"
    /\ run' = [run EXCEPT ![r].pc = "open", ![r].loaded = sources]
    /\ UNCHANGED <<sources, retired, present, content, torn, newer, upkeep, worker>>

(* HopCache.__init__: fingerprint the sources, then read this engine's     *)
(* file; a file that is missing or unreadable counts as empty.             *)
FileRead(e) == IF e \in present THEN {content[e], <<>>} ELSE {<<>>}

Open(r) ==
    /\ run[r].pc = "open"
    /\ \E m \in Modes, q \in BOOLEAN, read \in FileRead(sources) :
          run' = [run EXCEPT ![r].pc = IF m = "parallel" THEN "lookup" ELSE "hop",
                             ![r].mode = m,
                             ![r].quiet = q,
                             ![r].fp = sources,
                             ![r].known = Entries(read),
                             ![r].lines = Cardinality(Readable(read))]
    /\ UNCHANGED <<sources, retired, present, content, torn, newer, upkeep, worker>>

-------------------------------------------------------------------------------
(* Sequential proving (_check_equivalent_cached).                          *)

NextHop(r) == IF run[r].mode = "parallel" THEN "record" ELSE "hop"

HopHit(r) ==
    /\ run[r].pc = "hop"
    /\ run[r].idx \in HopIndices(r)
    /\ IsHit(r, run[r].idx)
    /\ run' = [run EXCEPT ![r].verdict[run[r].idx] = "cached",
                          ![r].idx = @ + 1]
    /\ UNCHANGED <<sources, retired, present, content, torn, newer, upkeep, worker>>

Verdict(e, h) == IF h \in Accepts[e] THEN "valid" ELSE "invalid"

(* Mutant of HopCheck: a failing hop is recorded like a valid one.         *)
HopCheckAlwaysAdds(r) ==
    /\ run[r].pc = "hop"
    /\ run[r].idx \in HopIndices(r)
    /\ ~IsHit(r, run[r].idx)
    /\ run' = [run EXCEPT ![r].pc = "add",
                          ![r].verdict[run[r].idx] =
                              Verdict(run[r].loaded, Hop(r, run[r].idx))]
    /\ UNCHANGED <<sources, retired, present, content, torn, newer, upkeep, worker>>

HopCheck(r) ==
    /\ run[r].pc = "hop"
    /\ run[r].idx \in HopIndices(r)
    /\ ~IsHit(r, run[r].idx)
    /\ LET v == Verdict(run[r].loaded, Hop(r, run[r].idx)) IN
          run' = [run EXCEPT ![r].verdict[run[r].idx] = v,
                             ![r].pc = IF v = "valid" THEN "add" ELSE "hop",
                             ![r].idx = IF v = "valid" THEN @ ELSE @ + 1]
    /\ UNCHANGED <<sources, retired, present, content, torn, newer, upkeep, worker>>

-------------------------------------------------------------------------------
(* Parallel proving (_prove_steps_parallel).                               *)

Tasks(r) == {i \in HopIndices(r) : ~IsHit(r, i)}

(* All keys are looked up first.  Few uncached hops are checked inline, by *)
(* this process; otherwise they go to the pool.                            *)
LookupAll(r) ==
    /\ run[r].pc = "lookup"
    /\ Cardinality(Tasks(r)) >= PoolThreshold
    /\ run' = [run EXCEPT
                 ![r].pc = "pool",
                 ![r].verdict = [i \in HopIndices(r) |->
                     IF i \in Tasks(r) THEN "pending" ELSE "cached"]]
    /\ UNCHANGED <<sources, retired, present, content, torn, newer, upkeep, worker>>

LookupAllInline(r) ==
    /\ run[r].pc = "lookup"
    /\ Cardinality(Tasks(r)) < PoolThreshold
    /\ run' = [run EXCEPT
                 ![r].pc = "record",
                 ![r].verdict = [i \in HopIndices(r) |->
                     IF i \in Tasks(r) THEN Verdict(run[r].loaded, Hop(r, i))
                     ELSE "cached"],
                 ![r].by = [i \in HopIndices(r) |->
                     IF i \in Tasks(r) THEN run[r].fp ELSE NoEngine]]
    /\ UNCHANGED <<sources, retired, present, content, torn, newer, upkeep, worker>>

(* A worker takes a pending task.  A forked worker has its parent's code   *)
(* and fingerprint; a spawned one imports the sources as they are now and  *)
(* has no fingerprint yet.                                                 *)
TaskFree(r, i) ==
    run[r].verdict[i] = "pending" /\ \A w \in Workers : worker[r][w].task # i

BusyWorker(r, w, i) ==
    IF worker[r][w].loaded # NoEngine THEN [worker[r][w] EXCEPT !.task = i]
    ELSE IF StartMethod = "fork"
    THEN [loaded |-> run[r].loaded, fp |-> run[r].fp, task |-> i]
    ELSE [loaded |-> sources, fp |-> NoEngine, task |-> i]

WorkerTake(r, w) ==
    /\ run[r].pc = "pool"
    /\ worker[r][w].task = 0
    /\ \E i \in HopIndices(r) :
          /\ TaskFree(r, i)
          /\ worker' = [worker EXCEPT ![r][w] = BusyWorker(r, w, i)]
    /\ UNCHANGED <<sources, retired, present, content, torn, newer, upkeep, run>>

(* _check_equivalent_worker: the fingerprint is computed after the check,  *)
(* once per process; unreadable sources give one that matches no cache.    *)
WorkerFp(r, w) ==
    IF worker[r][w].fp # NoEngine THEN {worker[r][w].fp} ELSE {sources, NoEngine}

WorkerReport(r, w) ==
    /\ run[r].pc = "pool"
    /\ worker[r][w].task # 0
    /\ \E f \in WorkerFp(r, w) :
          LET i == worker[r][w].task IN
          /\ run' = [run EXCEPT
                 ![r].verdict[i] = Verdict(worker[r][w].loaded, Hop(r, i)),
                 ![r].by[i] = f]
          /\ worker' = [worker EXCEPT ![r][w].task = 0, ![r][w].fp = f]
    /\ UNCHANGED <<sources, retired, present, content, torn, newer, upkeep>>

(* Every future has completed: the pool shuts down.                        *)
PoolDone(r) ==
    /\ run[r].pc = "pool"
    /\ \A i \in HopIndices(r) : run[r].verdict[i] # "pending"
    /\ run' = [run EXCEPT ![r].pc = "record"]
    /\ worker' = [worker EXCEPT ![r] = [w \in Workers |-> IdleWorker]]
    /\ UNCHANGED <<sources, retired, present, content, torn, newer, upkeep>>

(* Mutant of RecordHop: the hop's verdict is not looked at.                *)
RecordHopUnchecked(r) ==
    /\ run[r].pc = "record"
    /\ run[r].idx \in HopIndices(r)
    /\ run' = [run EXCEPT ![r].pc = "add"]
    /\ UNCHANGED <<sources, retired, present, content, torn, newer, upkeep, worker>>

(* The valid, not cached hops are recorded in order.                       *)
RecordHop(r) ==
    /\ run[r].pc = "record"
    /\ run[r].idx \in HopIndices(r)
    /\ IF run[r].verdict[run[r].idx] = "valid"
       THEN run' = [run EXCEPT ![r].pc = "add"]
       ELSE run' = [run EXCEPT ![r].idx = @ + 1]
    /\ UNCHANGED <<sources, retired, present, content, torn, newer, upkeep, worker>>

Finish(r) ==
    /\ run[r].pc \in {"hop", "record"}
    /\ run[r].idx \notin HopIndices(r)
    /\ run' = [run EXCEPT ![r].pc = "done"]
    /\ UNCHANGED <<sources, retired, present, content, torn, newer, upkeep, worker>>

-------------------------------------------------------------------------------
(* HopCache.add.                                                           *)

AddKey(r) == Digest(run[r].fp, Hop(r, run[r].idx))

(* Mutant of VerifiedByOther: whoever checked the hop, it is recorded.     *)
AnyVerifier(r) == FALSE

(* verified_by is given for a batch only; it must be this run's engine.    *)
VerifiedByOther(r) ==
    run[r].mode = "parallel" /\ run[r].by[run[r].idx] # run[r].fp

AddRefused(r) ==
    \/ Hop(r, run[r].idx) \in Uncacheable
    \/ AddKey(r) \in run[r].known
    \/ run[r].stale
    \/ VerifiedByOther(r)

AddReturns(r) ==
    /\ run[r].pc = "add"
    /\ AddRefused(r)
    /\ run' = [run EXCEPT ![r].pc = NextHop(r), ![r].idx = @ + 1]
    /\ UNCHANGED <<sources, retired, present, content, torn, newer, upkeep, worker>>

(* The sources are hashed again: changed or unreadable, the run records    *)
(* nothing from now on; otherwise the digest is known and goes to the file. *)
AddStale(r) ==
    /\ run[r].pc = "add"
    /\ ~AddRefused(r)
    /\ run' = [run EXCEPT ![r].pc = NextHop(r), ![r].idx = @ + 1,
                          ![r].stale = TRUE]
    /\ UNCHANGED <<sources, retired, present, content, torn, newer, upkeep, worker>>

(* Mutant of AddKnown: the file's absence goes unnoticed.                  *)
AddKnownNotCreated(r) ==
    /\ run[r].pc = "add"
    /\ ~AddRefused(r)
    /\ sources = run[r].fp
    /\ run' = [run EXCEPT ![r].pc = "append",
                          ![r].known = @ \cup {AddKey(r)}]
    /\ UNCHANGED <<sources, retired, present, content, torn, newer, upkeep, worker>>

AddKnown(r) ==
    /\ run[r].pc = "add"
    /\ ~AddRefused(r)
    /\ sources = run[r].fp
    /\ run' = [run EXCEPT ![r].pc = "append",
                          ![r].known = @ \cup {AddKey(r)},
                          ![r].created = run[r].fp \notin present]
    /\ UNCHANGED <<sources, retired, present, content, torn, newer, upkeep, worker>>

(* Modifying a file makes it the newest one.                               *)
Touch(e) == {p \in newer : e \notin {p[1], p[2]}} \cup ({e} \X (present \ {e}))

(* What add does once its file step is over: the caller goes on.           *)
AfterAdd(r, n) ==
    IF n > MaxEntries THEN [run[r] EXCEPT !.pc = "trim", !.lines = n]
    ELSE [run[r] EXCEPT !.pc = NextHop(r), !.lines = n, !.idx = @ + 1]

AddEnds(r) == run' = [run EXCEPT ![r].pc = NextHop(r), ![r].idx = @ + 1,
                                 ![r].created = FALSE]

AfterAppend(r) ==
    IF run[r].created
    THEN [run[r] EXCEPT !.pc = "glob", !.lines = @ + 1, !.created = FALSE]
    ELSE AfterAdd(r, run[r].lines + 1)

(* Whatever is written after a line without its newline joins that line.   *)
Extended(s, e, line) ==
    IF e \in torn THEN [s EXCEPT ![Len(s)] = Garbled] ELSE Append(s, line)

(* open(path, "a") creates the file when it is missing.                    *)
Write(r, line) ==
    /\ content' = [content EXCEPT ![run[r].fp] = Extended(@, run[r].fp, line)]
    /\ newer' = Touch(run[r].fp)

AppendLine(r) ==
    /\ run[r].pc = "append"
    /\ Write(r, AddKey(r))
    /\ present' = present \cup {run[r].fp}
    /\ torn' = torn \ {run[r].fp}
    /\ run' = [run EXCEPT ![r] = AfterAppend(r)]
    /\ UNCHANGED <<sources, retired, upkeep, worker>>

(* Mutant of AppendFails: the exception escapes and ends the run.          *)
AppendRaises(r) ==
    /\ run[r].pc = "append"
    /\ run' = [run EXCEPT ![r].pc = "killed"]
    /\ UNCHANGED <<sources, retired, present, content, torn, newer, upkeep, worker>>

(* A failing exists, mkdir or open is swallowed; the digest stays known in  *)
(* memory.                                                                 *)
AppendFails(r) ==
    /\ run[r].pc = "append"
    /\ AddEnds(r)
    /\ UNCHANGED <<sources, retired, present, content, torn, newer, upkeep, worker>>

(* The file's creator never prunes, or not to the end.                     *)
Missed == IF upkeep = "settled" THEN "settled" ELSE "missed"

WriteNothing(r) ==
    /\ newer' = IF run[r].fp \in present THEN newer ELSE Touch(run[r].fp)
    /\ UNCHANGED <<content, torn>>

(* The file is open, and created if it was missing, when write or close    *)
(* fails: nothing, part of the line, or all of it with or without its      *)
(* newline has reached the file, which nobody prunes for.                  *)
AppendBreaks(r) ==
    /\ run[r].pc = "append"
    /\ AddEnds(r)
    /\ present' = present \cup {run[r].fp}
    /\ upkeep' = IF run[r].created THEN Missed ELSE upkeep
    /\ \/ WriteNothing(r)
       \/ Write(r, Garbled) /\ torn' = torn \cup {run[r].fp}
       \/ Write(r, AddKey(r)) /\ torn' \in {torn \cup {run[r].fp}, torn \ {run[r].fp}}
    /\ UNCHANGED <<sources, retired, worker>>

-------------------------------------------------------------------------------
(* HopCache._prune, after a run created its file.                          *)

PruneGlob(r) ==
    /\ run[r].pc = "glob"
    /\ run' = [run EXCEPT ![r].pc = "stat", ![r].listed = present]
    /\ UNCHANGED <<sources, retired, present, content, torn, newer, upkeep, worker>>

(* A listed file that vanished makes stat raise, which abandons this add,  *)
(* its trim included.                                                      *)
PruneStatFails(r) ==
    /\ run[r].pc = "stat"
    /\ ~(run[r].listed \subseteq present)
    /\ run' = [run EXCEPT ![r].pc = NextHop(r), ![r].idx = @ + 1,
                          ![r].listed = {}]
    /\ UNCHANGED <<sources, retired, present, content, torn, newer, upkeep, worker>>

(* glob, stat or unlink fails otherwise: that too abandons the add, trim   *)
(* included, and files that should go may stay.                            *)
PruneFails(r) ==
    /\ run[r].pc \in {"glob", "stat", "unlink"}
    /\ run[r].pc = "unlink" => run[r].victims # {}
    /\ run' = [run EXCEPT ![r].pc = NextHop(r), ![r].idx = @ + 1,
                          ![r].listed = {}, ![r].victims = {}]
    /\ upkeep' = Missed
    /\ UNCHANGED <<sources, retired, present, content, torn, newer, worker>>

(* Mutant of Victims: one file too many is kept.                           *)
VictimsOneLess(r) ==
    {e \in run[r].listed \ {run[r].fp} :
        Cardinality({f \in run[r].listed : <<f, e>> \in newer}) > MaxCacheFiles}

(* All listed files but the MaxCacheFiles newest and the run's own.        *)
Victims(r) ==
    {e \in run[r].listed \ {run[r].fp} :
        Cardinality({f \in run[r].listed : <<f, e>> \in newer}) >= MaxCacheFiles}

PruneStat(r) ==
    /\ run[r].pc = "stat"
    /\ run[r].listed \subseteq present
    /\ run' = [run EXCEPT ![r].pc = "unlink", ![r].victims = Victims(r),
                          ![r].listed = {}]
    /\ UNCHANGED <<sources, retired, present, content, torn, newer, upkeep, worker>>

(* One file after the other; a missing one is not an error.                *)
Unlink(r) ==
    /\ run[r].pc = "unlink"
    /\ \E e \in run[r].victims :
          /\ present' = present \ {e}
          /\ content' = [content EXCEPT ![e] = <<>>]
          /\ torn' = torn \ {e}
          /\ newer' = {p \in newer : e \notin {p[1], p[2]}}
          /\ run' = [run EXCEPT ![r].victims = @ \ {e}]
    /\ UNCHANGED <<sources, retired, upkeep, worker>>

PruneEnds(r) ==
    /\ run[r].pc = "unlink"
    /\ run[r].victims = {}
    /\ run' = [run EXCEPT ![r] = AfterAdd(r, run[r].lines)]
    /\ upkeep' = IF run[r].fp \in present THEN "settled" ELSE upkeep
    /\ UNCHANGED <<sources, retired, present, content, torn, newer, worker>>

-------------------------------------------------------------------------------
(* HopCache._trim.                                                         *)

(* The position of the last line that holds d.                             *)
LastAt(s, d) == CHOOSE i \in DOMAIN s :
                  s[i] = d /\ \A j \in DOMAIN s : s[j] = d => j <= i

(* t is the TrimTo most recently written distinct entries of s, in order.  *)
NewestLength(s) ==
    IF Cardinality(Entries(s)) < TrimTo THEN Cardinality(Entries(s)) ELSE TrimTo

(* Mutant of Newest: the oldest entries survive.                           *)
Oldest(s) ==
    {t \in [1..NewestLength(s) -> Entries(s)] :
        /\ \A j, k \in DOMAIN t : j < k => LastAt(s, t[j]) < LastAt(s, t[k])
        /\ \A d \in Entries(s), k \in DOMAIN t :
              LastAt(s, d) < LastAt(s, t[k]) => d \in Entries(t)}

Newest(s) ==
    {t \in [1..NewestLength(s) -> Entries(s)] :
        /\ \A j, k \in DOMAIN t : j < k => LastAt(s, t[j]) < LastAt(s, t[k])
        /\ \A d \in Entries(s), k \in DOMAIN t :
              LastAt(s, d) > LastAt(s, t[k]) => d \in Entries(t)}

TrimRead(r) ==
    /\ run[r].pc = "trim"
    /\ run[r].fp \in present
    /\ \E t \in Newest(content[run[r].fp]) :
          run' = [run EXCEPT ![r].pc = "replace", ![r].newest = t]
    /\ UNCHANGED <<sources, retired, present, content, torn, newer, upkeep, worker>>

(* The file vanished, or cannot be read.                                   *)
TrimReadFails(r) ==
    /\ run[r].pc = "trim"
    /\ AddEnds(r)
    /\ UNCHANGED <<sources, retired, present, content, torn, newer, upkeep, worker>>

(* os.replace: whatever was appended since the read is lost.  Removing the *)
(* temporary file may still fail; then the lines are not counted anew.     *)
TrimReplace(r) ==
    /\ run[r].pc = "replace"
    /\ LET e == run[r].fp IN
          /\ content' = [content EXCEPT ![e] = run[r].newest]
          /\ present' = present \cup {e}
          /\ torn' = torn \ {e}
          /\ newer' = Touch(e)
          /\ \E n \in {Len(run[r].newest), run[r].lines} :
                run' = [run EXCEPT ![r].pc = NextHop(r), ![r].idx = @ + 1,
                                   ![r].lines = n, ![r].newest = <<>>]
    /\ UNCHANGED <<sources, retired, upkeep, worker>>

TrimReplaceFails(r) ==
    /\ run[r].pc = "replace"
    /\ run' = [run EXCEPT ![r].pc = NextHop(r), ![r].idx = @ + 1,
                          ![r].newest = <<>>]
    /\ UNCHANGED <<sources, retired, present, content, torn, newer, upkeep, worker>>

-------------------------------------------------------------------------------
(* The environment.                                                        *)

(* A process has imported the engine but not fingerprinted it yet.         *)
RunWindow == \E r \in Runs : run[r].pc = "open"
WorkerWindow ==
    \E r \in Runs, w \in Workers :
        worker[r][w].loaded # NoEngine /\ worker[r][w].fp = NoEngine

(* Somebody changes the engine's sources.                                  *)
Edit(e) ==
    /\ e # sources
    /\ RunWindow => "run" \in EditWindows
    /\ WorkerWindow => "worker" \in EditWindows
    /\ Reverts \/ e \notin retired
    /\ sources' = e
    /\ retired' = IF Reverts THEN retired ELSE retired \cup {sources}
    /\ UNCHANGED <<present, content, torn, newer, upkeep, run, worker>>

(* The process, or one of its workers, dies: a broken pool is an exception *)
(* that ends the run.                                                      *)
Kill(r) ==
    /\ Kills
    /\ run[r].pc \notin {"idle", "done", "killed"}
    /\ run' = [run EXCEPT ![r].pc = "killed"]
    /\ worker' = [worker EXCEPT ![r] = [w \in Workers |-> IdleWorker]]
    /\ upkeep' = IF run[r].pc \in {"glob", "stat", "unlink"} THEN Missed ELSE upkeep
    /\ UNCHANGED <<sources, retired, present, content, torn, newer>>

-------------------------------------------------------------------------------
Check(r) == HopHit(r) \/ HopCheck(r) \/ LookupAll(r) \/ LookupAllInline(r)
            \/ PoolDone(r) \/ RecordHop(r) \/ Finish(r)

Add(r) == AddReturns(r) \/ AddStale(r) \/ AddKnown(r)
          \/ AppendLine(r) \/ AppendFails(r) \/ AppendBreaks(r)

Prune(r) == PruneGlob(r) \/ PruneStatFails(r) \/ PruneFails(r) \/ PruneStat(r)
            \/ Unlink(r) \/ PruneEnds(r)

Trim(r) == TrimRead(r) \/ TrimReadFails(r) \/ TrimReplace(r) \/ TrimReplaceFails(r)

WorkerStep(r) == \E w \in Workers : WorkerTake(r, w) \/ WorkerReport(r, w)

RunStep(r) == Open(r) \/ Check(r) \/ Add(r) \/ Prune(r) \/ Trim(r) \/ WorkerStep(r)

Next ==
    \/ \E r \in Runs : Import(r) \/ RunStep(r) \/ Kill(r)
    \/ \E e \in Engines : Edit(e)

(* A started process keeps running; nobody has to edit, start or kill.     *)
Fairness == \A r \in Runs : WF_vars(RunStep(r))

Spec == Init /\ [][Next]_vars
FairSpec == Spec /\ Fairness

-------------------------------------------------------------------------------
(* Properties.                                                             *)

Verdicts == {"pending", "cached", "valid", "invalid"}
Stages == {"idle", "open", "hop", "lookup", "pool", "record", "add", "append",
           "glob", "stat", "unlink", "trim", "replace", "done", "killed"}
MaybeEngine == Engines \cup {NoEngine}

RunStates(r) ==
    [pc : Stages, mode : {"sequential", "parallel"}, quiet : BOOLEAN,
     loaded : MaybeEngine, fp : MaybeEngine,
     known : SUBSET Digests, lines : Nat, stale : BOOLEAN,
     idx : Nat \ {0},
     verdict : [HopIndices(r) -> Verdicts],
     by : [HopIndices(r) -> MaybeEngine],
     created : BOOLEAN, listed : SUBSET Engines, victims : SUBSET Engines,
     newest : Seq(Digests)]

WorkerStates(r) ==
    [loaded : MaybeEngine, fp : MaybeEngine, task : HopIndices(r) \cup {0}]

(* Every variable keeps its type; in particular no run reaches the middle  *)
(* of `add` without a fingerprint and a hop to record.                     *)
TypeOK ==
    /\ sources \in Engines
    /\ retired \subseteq Engines
    /\ present \subseteq Engines
    /\ content \in [Engines -> Seq(Lines)]
    /\ torn \subseteq present /\ \A e \in torn : content[e] # <<>>
    /\ upkeep \in {"whole", "missed", "settled"}
    /\ newer \subseteq Engines \X Engines
    /\ run = [r \in Runs |-> run[r]]
    /\ worker = [r \in Runs |-> worker[r]]
    /\ \A r \in Runs :
          /\ run[r] \in RunStates(r)
          /\ worker[r] \in [Workers -> WorkerStates(r)]

(* The environments in which the cache keeps its promise: no edit falls    *)
(* between a run's import and its fingerprint, nor between a spawned       *)
(* worker's, unless the sources never return to an earlier version.        *)
SoundEnvironment ==
    /\ "run" \notin EditWindows
    /\ StartMethod = "spawn" /\ "worker" \in EditWindows => ~Reverts

(* "The set of hop digests verified by this exact engine" (HopCache): what *)
(* a file lists was verified by the engine the file is named after.        *)
CacheSound == \A e \in Engines : SoundFile(e, content[e])

(* A hop reported verified from the cache is one that the code this very   *)
(* process runs would have verified (_check_equivalent_cached).            *)
CachedVerdictSound ==
    \A r \in Runs : \A i \in HopIndices(r) :
        run[r].verdict[i] = "cached" => Hop(r, i) \in Accepts[run[r].loaded]

(* HopCache._prune: when no run is creating, pruning or trimming a file,   *)
(* and no pruning was missed because a write, glob, stat or unlink failed  *)
(* or the pruning run was killed, the directory holds at most one file     *)
(* more than the limit for each other run, whatever the prunings of other  *)
(* runs took away in between (given that it was no fuller before, and that *)
(* its files can be told by age).                                          *)
AtRest == \A r \in Runs :
    run[r].pc \notin {"append", "glob", "stat", "unlink", "trim", "replace"}
MostFiles == MaxCacheFiles + Cardinality(Runs) - 1
DirBounded == AtRest /\ upkeep = "whole" => Cardinality(present) <= MostFiles

(* HopCache._prune: a single pruning that goes through, by a run that has  *)
(* its file when it ends, keeps the directory within that limit for good:  *)
(* in every state from then on, whatever fails or is killed before, at the *)
(* same time or later, and however many files earlier runs had left.       *)
PruneSettles == upkeep = "settled" => Cardinality(present) <= MostFiles

(* newer orders the files: the newest one, the next one, and so on.        *)
Ordered(files, after) ==
    /\ after \subseteq files \X files
    /\ \A e \in files : <<e, e>> \notin after
    /\ \A e, f \in files : e # f => <<e, f>> \in after \/ <<f, e>> \in after
    /\ \A e, f, g \in files :
          <<e, f>> \in after /\ <<f, g>> \in after => <<e, g>> \in after
OrderedStart ==
    /\ IsFiniteSet(Runs) /\ MaxCacheFiles > 0
    /\ \A d \in PriorDirs : IsFiniteSet(d.present) /\ Ordered(d.present, d.newer)
BoundedStart ==
    OrderedStart /\ \A d \in PriorDirs : Cardinality(d.present) <= MostFiles

(* With the cache a run reports what it would report without one: the      *)
(* verdict its own code gives, for every hop, whatever other runs and      *)
(* edits do to the cache directory.  (Not so when spawned workers import   *)
(* an edited engine: then the pool itself mixes two engines.)              *)
OneEngine == "run" \notin EditWindows /\ StartMethod = "fork"
Reported(r) == [i \in HopIndices(r) |->
    IF run[r].verdict[i] = "cached" THEN "valid" ELSE run[r].verdict[i]]
Uncached == INSTANCE HopVerdicts WITH
    engine <- [r \in Runs |-> run[r].loaded],
    verdict <- [r \in Runs |-> Reported(r)]
Transparent == Uncached!Spec

(* "Reading and writing are best-effort: an unreadable or unwritable cache *)
(* ... never fails a proof": a run that nobody kills reaches its end, with  *)
(* a verdict for every hop.                                                *)
Judged(r) == \A i \in HopIndices(r) : run[r].verdict[i] # "pending"
NeverFailsAProof ==
    \A r \in Runs : run[r].pc = "open" ~> run[r].pc = "done" /\ Judged(r)

(* HopCache._trim of a run that no other run races with, on whatever file  *)
(* earlier runs left: no hop is listed twice any more, and the hop just    *)
(* verified survives as the newest line, unless it was written behind a    *)
(* torn line and so was never readable.                                    *)
Alone(r) == \A q \in Runs \ {r} : run[q].pc = "idle"
TrimStep == \A r \in Runs : LET e == run[r].fp IN
    run[r].pc = "replace" /\ Alone(r) /\ content'[e] # content[e] =>
        LET old == content[e]
            new == content'[e] IN
        /\ old[Len(old)] # Garbled => new # <<>> /\ new[Len(new)] = AddKey(r)
        /\ \A i, j \in DOMAIN new : new[i] = new[j] => i = j
TrimKeepsNewest == [][TrimStep]_vars
=============================================================================
