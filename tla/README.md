# A verification development for ProofFrog

ProofFrog checks game-hopping proofs of cryptographic schemes. The user writes
primitives, schemes, games and a proof in FrogLang; the engine composes each
step of the proof into one game, canonicalizes it by rewriting, and accepts a
hop when neighbouring games become equal, differ by an assumed pair of games,
or are identical until a bad event.

What matters most is that "Proof Succeeded!" is only said of a proof whose games
are all linked, hop by hop. This development models the parts of the engine on
which that depends and which are hardest to test: the bookkeeping of the chain of
hops, sequentially and in a process pool; the fixed-point loop of the
canonicalization with its shortcut; the persistent cache of verified hops that
several runs of several versions of the engine share; the sorting of statements by
their dependencies; and the walk that finds two games identical until a flag is
raised. So are the advantage bound printed for a verified proof, and the web editor, where
texts, files and verdicts meet.

Contents: [inventory](#inventory), [modules](#modules), [runs](#runs-and-what-they-show),
[findings](#disagreements-found), [proofs](#proofs), [limits](#what-is-not-modelled),
[plan](#plan). All line numbers are of the commit in `src/`, paths are under
`src/proof_frog/` unless they say otherwise.

## Inventory

| Component | State | Operations | Hard behaviour | What makes it correct |
|---|---|---|---|---|
| Hop cache (`hop_cache.py`) | per run: fingerprint, known digests, line count, `_stale`; shared: one file per engine version | `open_hop_cache`, `lookup`, `add` (append, prune, trim), `key` | runs share a directory without locks; sources edited under a running engine; spawned workers import other code; failing writes; kills | a file lists only what its engine verified; a hit is what the running code would say; no file error changes a verdict |
| Proof engine (`proof_engine.py`) | `step_assumptions`, `proof_let_types`, `hop_results`, step counters, lemmas and effective assumptions | `prove`, `prove_steps`, `_prepare_hops`, `_prove_steps_sequential`, `_prove_steps_parallel`, `_count_hops`, reports | shared fields overwritten hop by hop; inductions nested in inductions; results of a pool in any order; a worker dies; lemmas that fail | success links all games of the unrolled list; each check under its own assumptions; reports in text order; a verdict is reached |
| Canonicalization loop (`transforms/_base.py`, `pipelines.py`) | `declined`, `pinned_fields`, the game between passes | `run_pipeline`, `run_standardization`, `run_pipeline_with_trace`, `run_pipeline_until` | a pass skipped although it would fire; context shared by the two games; passes that undo each other; two notions of equality | skipping changes nothing; a game's form is its own; the loop ends |
| About 90 passes (`transforms/*.py`) | none between calls, but `ctx.pinned_fields` and near-misses | `apply` | each is a claim about all games; capture of names, effects moved over draws | the distribution of a game's outputs is kept |
| Dependencies, sorting (`dependencies.py`, `sort_block`) | the graph's in-neighbours, taken out one by one; stack, queue | dependency graph of a block, search from what is observable, sorting | nodes compared as trees, so that copies are confused; returns inside branches; draws from empty domains | a sorted block computes what the block computes |
| Resolution of steps (`resolve_step_game`, `apply_reduction`, `instantiate`) | name counters | inline challenger, scheme and reduction | name capture, rounds that stop at a limit | the inlined game is the composition |
| Identical until bad (`upto.py`) | a stack of calls, each with its facts `phi` | flag discipline; walk over two games with pruning and facts | facts outdated by later writes, loops, raises after a return, calls that answer differently each time | same behaviour until the flag is up; the flag tells whether it was |
| Advantage bounds (`advantage.py`) | none | synthesis from hop results, inlining of lemmas' bounds, query counts of reductions, comparison with a claim | multiplicities; lemmas proved by lemmas; names that are unique in one file only; counts restated from game to game | the bound covers what the hops lose |
| Parser, syntax trees, semantic analysis | one parse cache | parse, visit, type check | loose tree equality | accepted files mean what they say |
| Web server (`web_server.py`) | files on disk, event broker with its subscribers, `sys.stdout` | verify, describe, inline, save, watch | threaded handlers redirect a process-wide stdout; write then read back; debouncing | a verdict is about the text that was posted, or a later one |
| Web page (`web/*.js`) | tabs with text and saved text, active tab, hop results, pending saves, bars | open, type, save, save all, run, reload, close | the page goes on being edited while requests are in flight; a tab is closed or another one activated before the answer | what counts as saved is on disk; no results wait for a closed tab; a verdict is about the text sent or a newer one |
| Language server (`lsp/`) | open documents, last proof results | did-open, did-change, did-save, code lens, verify | results outlive edits; steps and lines disagree | a lens sits at its own hop |
| MCP server, command line, scaffolding, diagnosis, LaTeX export, editor modes | none worth naming | render, print | none | not a matter of state |

Interactions. The command line opens the cache and hands it to the engine. The
engine prepares hops, asks the cache, and calls the canonicalization loop on both
games of a hop, in this process or in a pool worker, which gets a pickled context;
then it records valid hops in the cache. A lemma's proof file is verified by a new
engine. Canonicalization sorts the statements of each method with the dependency
graph. A hop that does not canonicalize alike is handed to `upto.py` if the user
declared a flag. The web, MCP and language servers each call the engine on a file
and capture what it prints; the web page sends texts and is told of changed files.

## Modules

| Module | What it models |
|---|---|
| `HopCache` | the cache of verified hops, its runs, pool workers, edits and kills |
| `HopVerdicts` | abstract: a run that checks every hop itself |
| `HopCacheProofs` | theorems about `HopCache` |
| `ProofEngine` | from the games list to the verdict |
| `HopReports` | abstract: hops reported in the text's order, then the verdict |
| `ProofChain` | the meaning of a verified proof and the other properties of `ProofEngine` |
| `ProofEngineProofs` | theorems about `ProofEngine`: types, assumptions, steps, reports and scopes |
| `RecursiveFunctions` | lemmas: recursive functions, folds, running sums and flattened sequences |
| `ChainProofs` | theorem about `ProofEngine`: a verified games list is linked |
| `AdvantageBound` | the bound synthesized from the hops of a proof that succeeds |
| `ChainLosses` | the losses of the hops in terms of executions, and `BoundCoversChain` |
| `PassLists` | trees, passes and pass lists, shared data of the pipeline modules |
| `Pipeline` | the check of one hop with `run_pipeline` |
| `NaivePipeline` | abstract: the same check with the loop that applies every pass |
| `PipelineProofs` | theorems about `Pipeline` |
| `Dependencies` | `generate_dependency_graph`, as operators on a block |
| `SortBlock` | `sort_block`, for any graph whose edges point upwards |
| `BlockMeaning` | what sorting must preserve, and the properties of `SortBlock` |
| `SortBlockProofs` | theorems about `SortBlock` and `Dependencies` |
| `UptoWalk` | the check that two games are identical until a flag is raised |
| `UptoMeaning` | abstract: executions of two games, and the properties of `UptoWalk` |
| `UptoProofs` | theorems about `UptoWalk`: accepted games are identical until the flag |
| `WebEditor` | page, server threads and file watcher |
| `WebEditorProofs` | theorems about `WebEditor` |
| `MCHopCache`, `MCProofEngine`, `MCPipeline`, `MCSortBlock`, `MCUpto`, `MCWebEditor` | small instances for TLC |

### HopCache

A run is a record with a program counter. Its steps are the points between which other
processes can act: `Import` (python loads the modules), `Open` (`HopCache.__init__`:
fingerprint, read the file), then per hop `HopHit` or `HopCheck` and the steps of `add`:
the early returns (`AddReturns`), hashing the sources again (`AddStale`, `AddKnown`),
appending the line, and, if the file was new, `_prune` (glob, stat of all, unlink one by
one) or, if the file got long, `_trim` (read, replace). Any file operation may fail,
which skips the rest of `add`, as its `try` does: `AppendFails` is a failure up to
`open`, `AppendBreaks` one of `write` or `close`, when the file exists already and may
hold some or all of the line, and nobody will prune for it; `PruneFails` is a failure of
`glob`, `stat` or `unlink` with some victims gone and others not, `PruneStatFails` the
`stat` of a file that vanished; `TrimReadFails` and `TrimReplaceFails` are those of the
trim. In parallel mode `LookupAll` splits hops into hits and pool tasks; workers take
tasks, report verdicts with their own fingerprint (`_check_equivalent_worker`), and
`RecordHop` adds the valid ones in order. `LookupAllInline` is the batch too small for a
pool.

An engine version is its fingerprint. `Accepts[e]` is the set of hops version `e`
verifies, an arbitrary constant: the cache must be right whatever engines decide. A
digest is the triple of fingerprint, context and games, that is, SHA-256 has no
collisions and `_feed` is injective on what it is given; `Uncacheable` are the hops with
a value `_feed` refuses. A file is a sequence of digests and lines that are none
(`Garbled`); `torn` are the files whose last line has no newline, left by an append that
broke off or by a kill in the middle of one (`AppendBreaks`, then `Kill`). Whatever is
appended next joins that line (`Extended`), and neither is read back. That two torn
pieces could make up 64 digits of a digest nobody computed is left out. `upkeep` is no
part of the program: it remembers whether a pruning was missed (`whole`, `missed`) and
whether one has gone through (`settled`). `newer` orders files by modification time;
equal times, where the sort order of `_prune` is by glob order, are left out.

The environment edits the sources (`Edit`) and kills runs (`Kill`). Three constants
say what it may do: `EditWindows` (whether an edit can fall between a process's
import and its fingerprint), `Reverts` (whether sources go back to an earlier
version) and `Kills`.

### ProofEngine and ProofChain

Blocks of the games list are numbered: block 1 is the list itself, every induction
has a body block. A game of the proof is named by block, index and `at`, the value
of the innermost induction variable: free, start, end, or `i + 1` in a rollover.
`PrepareHop` follows `_prepare_hops` case by case; `CountHops` is `_count_hops`.
`frames` is the stack of `prove_steps` calls: `EnterInduction` pushes,
`LeaveInduction` checks the rollover, takes the variable's type away and pops.
`TaskDone`, `PoolBroken`, `PoolDone`, `ReportPooled` are the pool. `UseLemma` and
its three callers are the loop over lemmas; a lemma's own proof is not expanded.
Whether two games canonicalize alike is open: `CheckHop` may find either, and
`alike` records the pairs found alike, the ground truth `ProofChain` uses.
A failed `assert` leads to the outcome `crashed`. `FilesAssumption` says what the grammar
says of a games list (`gameList`, `antlr/Proof.g4:52`): a list and a body start with a
step, and every block but the list is the body of exactly one induction. Blocks are
numbered from the outside in: a body has a greater number than the block its induction
stands in.

`ProofChain` states what the success of a proof means without looking at the
engine's steps: it unrolls the games list for concrete start and end values,
collects the pairs of games that a hop of the report licenses, and asks that each
neighbouring pair of the unrolled list is connected (`Linked`). A check with a free
variable licenses every value of it; the values from one below the start to the
end are enough for the instances used.

### AdvantageBound and ChainLosses

Both extend `ProofEngine` by operators on its `hop_results`; the bound is a value, not
state. A clause such as `count_Samp * count_Samp / |S|` is a set of products of counts:
`|S|` and the other parameters have no influence on which counts go where. `Subs` is
SymPy's `subs` with a dictionary, which replaces one symbol after the other in the
order of their names, not all at once; `ResolveStatistical` states a helper's clause in
the queries of the game the reduction is played in, `ExpandLemma` restates the terms of
a lemma for the reduction that plays it, `AddTerm` merges terms with equal keys as the
dictionary `symbol_by_key` does, and `LemmaBounds` are the bounds the lemmas' engines
computed, in order. `CountCalls` reads the calls of a reduction's method off its text.

`ChainLosses` knows nothing of keys and substitutions. A loss is a notion and the list
of reductions between it and the theorem's adversary (`Losses`, with lemmas inlined to
the bottom); the queries that reach a helper are those of executions (`MostCalls`,
`Counts`). `BoundCoversChain` asks that for every number of queries the declared bounds
in the sum are at least those of the losses, and that the remaining terms can be read as
one composition of reductions each, with every loss counted.

### Pipeline

Trees stand for games up to `same_structure`; `LooselyEqual` is `==`, an arbitrary
reflexive relation. A pass is an arbitrary function from a tree and a set of pinned
fields to a tree and a set of pinned fields. Games are objects with an identity,
because `declined` compares with `is`: an unchanged game keeps its identity, a
rewritten one gets one that no live object has. An identity is free again once
nothing refers to its object, so the model shows that the games `declined` holds
("Holding the game keeps the identity test valid") are what keeps the test sound:
without `Held` in `InUse` a new game may pass for one declined earlier. `Skip`, `LeaveUnchanged` and `Rewrite` are the three
ways through the loop's body, `Converged` and `NextSweep` the end of a sweep (the
former returns the game the sweep started from, as the code does). `StartGame`
clears the pinned fields for each side. `check_equivalent` and its copy for workers,
`_check_equivalent_task`, agree on all of this and are modelled once. The Z3 check
of what remains different may answer either way.

### Dependencies, SortBlock and BlockMeaning

A statement is what `_StatementAccess` collects of it: the names it mentions, in
order, those it may write, whether it is or contains a return, and whether it may
not complete. `InNeighbours` adds the neighbours of a statement in the code's order:
returns and effects first, then name by name, nearest first, each one once.

`SortBlock` is parameterised by the graph, so that its theorems hold for any.
Statement and node are both the place in the block. `phase` says which loop of
`sort_block` runs. `Seed`, `Visit` and `PopVisited` are `do_dfs` with its stack;
`NextSeek` goes from the first return to the statements that mention a field, to
those with a return inside, to the draws that may not complete, and reverses after
the first. `Source` is the loop that starts the queue; `Place` takes the next
statement off it; `TakeOut` and `LeaveNode` are the loop over all nodes with the
cursor `next`. The code removes a node from a list with `list.remove`, which compares
with `Node.__eq__`: statement trees and in-neighbours, not identity. `SameNode` says
this, and `TakeOut` removes the first node that looks like the one placed. All
nodes take part, also those that were not found: the docstring says that a dead
statement is left out (`proof_engine.py:2297`), but one whose in-neighbours have all
been placed enters the sorted block. It may: `SameBehaviour` holds.

`BlockMeaning` runs a block as a fold over its order. Each statement has a coin of its
own wherever it stands, so that moving a draw moves its outcome; what is observed
is whether the call completes, its value and the fields. What a statement does (`Does`)
is a parameter too, bound by `AccessAssumption` to what was collected of it: it changes
only the names it writes, as a function of the names it mentions; it returns only if it
contains a return, and fails to complete only if it holds such a draw.

### UptoWalk and UptoMeaning

`_blocks` calls itself for arms and loop bodies; `frames` is the stack of these
calls, each with what is left of the two sides and its facts. `PruneLeft` and
`PruneRight` are a round of `_prune_front` each; `Differ` is every way to return an
error; `Simple`, `EnterIf`, `NextArm`, `Join`, `EnterFor`, `LeaveFor` follow `_stmt` and
`_if`; `NextMethod` is the loop of `identical_until_bad`. The two sides are pruned
before they are compared, so the order of the two prunings does not matter and
TLC tries both. A fact is the names in it with the set of worlds where it holds; a
world is an interpretation that Z3 may choose, one equivalence class for each
maximal subterm, and `Entails` is inclusion of sets, of the queries that Z3 settles
within its limit (`Decides`); what it leaves open counts as not entailed.

`UptoMeaning` runs methods for every state and every choice of coins. An expression is
its text, and what it evaluates to is a constant (`Eval`, `Holds`), as is the state
that a write makes (`Write`); the named assumptions say what of it matters: a write
changes the target's variable only, a value without a call is a function of the names
free in it, and every state is like one of the worlds that Z3 considers
(`WorldAssumption`). A draw or a call is answered by the next coin; that is how calls may
answer differently each time. `Exec` runs a block, a declaration's scope ends with its
block (`Leave`), a loop goes through a fixed number of `Rounds`. With `stop`, a run ends
at a raise; this gives "identical until".

### WebEditor

Tabs, requests, files and the event stream. A request is a record that goes from
step to step: the page sends it, a server thread truncates, writes and reads, and
the page handles the answer, or never gets it (`Failed`). Between any two steps the
user types, changes tabs or closes them, and another program writes. A text is a
number, new whenever somebody types; `history` keeps the contents of each file and is
no part of the program. An answer knows the tab it was asked from only as far as
the code does: `open` tells a tab object from the one that replaced it, and
`RunAnswered` stores the results under the tab that is active when it runs, as
`editor.js:410` does, which is under `null` (`None`) when the last tab was closed meanwhile;
no panel looks there (`game-hops.js:98`). A bar's button removes the bar even if the
reload failed, because `reloadTab` catches its errors (`Failed`); several bars of one file
count as one. `Debounced`, `DebounceEnds`, `OnMessage` and `SuppressionEnds` are
the watcher and the suppression of a page's own changes.

## Runs and what they show

Bounds are those of the `.cfg` files; every one is named there.

* `shared` (`MCHopCache_shared.cfg`): two runs with a forked pool of one worker or
  sequential, two engines that accept different hops, two contexts with the same
  games, a directory that is empty or has a file with a duplicate line or a torn one,
  edits and reverts at any time but between a run's import and its fingerprint. Files are
  sound (`CacheSound`), hits are right (`CachedVerdictSound`), the trim keeps the
  newest entries and removes duplicates (`TrimKeepsNewest`), the verdicts are those
  of a run without a cache (`Transparent`, refinement of `HopVerdicts`), and no
  file error keeps a run from finishing with a verdict for every hop
  (`NeverFailsAProof`). `MaxEntries = 2` lets one append exceed the limit on a used
  file. Two runs are enough for every race on a file: the code has no step that
  looks at more than one other process's effect.
* `pool` (`MCHopCache_pool.cfg`): spawned workers that import whatever the sources
  are, three engines, kills, reverts, a limit of one file and a directory that starts with
  two. Only the fingerprint a worker sends keeps the file sound. At rest the directory
  holds at most one file more than the limit for each other run (`DirBounded`), for a
  pruning run spares its own file, and a pruning gives up when another run has just removed
  a listed file. This takes that no pruning was missed: one broken off by a kill, by a
  `glob` or `unlink` that raises or a `stat` that raises on a file that is there, or one
  never begun because the write that created the file raised, leaves the directory as full
  as it is, and the next run that finds its own file present never prunes. What holds
  whatever fails is `PruneSettles`: a single pruning that goes through brings the directory
  within that limit, and there it stays, at rest or not. Its run's own file must be
  there when it ends; two runs that removed each other's file promise nothing.
* `start` (violation): see below.
* `engine` (`MCProofEngine_engine.cfg`): eighteen files, each sequential and
  parallel, with lemmas verified or skipped, and a pool that may break. Besides
  `ChainLinked`: the step counter (`StepsCounted`), assumptions in force at each
  check (`OwnAssumptions`), types of induction variables (`VariablesScoped`),
  reports in text order (`ReportsFollowText`) and a verdict in the end
  (`EndsWithVerdict`). The shapes cover every case of `_prepare_hops` and nesting
  two deep; deeper nesting repeats the same two actions. Seven of the files are there for
  the bound (`BoundCoversChain`): a reduction used three times in a row, a helper game
  with a quadratic clause used by the proof and by its lemma, a cap on calls, a lemma
  proved by a lemma, with a declared bound at the bottom and without, an event lemma, and
  two lemmas played without reductions. The adversary makes up to two queries to each of
  two oracles (or one, under the cap), which tells apart all clauses that occur.
* `stray`, `ends`, `assertions`, `names` (violations): see below.
* `skips` (`MCPipeline_skips.cfg`): 18 468 combinations of games and rules. The
  skipping loop refines the plain one (`SkipsExact`), a canonical form is a function
  of the game alone (`OwnCanonicalForm`, against a recursive reference definition),
  and the check ends (`AlwaysAnswers`). Three sweeps are enough for a pass to
  decline, be overtaken by a pin, and fire, and for passes that never converge to
  reach the limit.
* `sort` (`MCSortBlock_sort.cfg`): every block of up to three of 15 statements
  (`MaxLength`) and of five of five statements (`LongLength`), with the graph of
  `Dependencies`. Every statement stands below what it depends on (`KeepsOrder`), all
  that was found is placed (`PlacesFound`), the sorted block does what the block does
  from every state with every outcome of its draws (`SameBehaviour`), and the sort ends
  (`SortEnds`). The 15 statements have one of each kind the graph tells apart: copies,
  accumulations, declarations, draws that may not complete and draws that also
  write the set they avoid, returns, returns and writes inside branches, calls that
  write nothing. Three statements make every pair of dependencies with something in
  between; the longer blocks hold several equal statements, which confuse nodes.
* `upto` (`MCUpto_upto.cfg`): pairs of games with a field, a map, two parameters and a
  flag, of four kinds: oracles with a raising arm, assignments and a differing test;
  branches that return or raise; loops; methods Initialize. What is accepted is
  identical until the flag (`IdenticalUntilBad`), the flag tells the truth
  (`FlagTellsBad`), and a game is accepted against itself (`AcceptsItself`, which rules
  out a walk that rejects everything). Two values are enough, because only equality
  is tested and the oracles compare at most two names with each other; two rounds of
  a loop are enough for a fact to hold in the first and be false in the second. Calls
  stand as values and as conditions; Z3 gives up on more than three facts (`MaxFacts`).
  TLC also evaluates the assumptions of `UptoMeaning` here, on which the proofs rest.
* `page` (`MCWebEditor_page.cfg`): two files, three texts, two requests at once and
  three in all. What a tab counts as saved has been in the file (`SavedReachedDisk`),
  a file without a tab has no results waiting for it to be opened again
  (`ResultsOfOpenTabs`), a verdict is never about an
  older text than the one sent (`VerdictNotStale`). Two requests at once are all a
  race on one file takes, the third is needed for a tab closed and opened again in
  between. `Paths` is a symmetry set.

Fairness. `HopCache`: weak fairness for each run's own steps, since a started
process keeps running; none for edits, kills or the start of a run. `ProofEngine`,
`Pipeline` and `SortBlock`: weak fairness for the whole next-state relation, since one
thread runs and waits for nothing but its pool, whose tasks are pure computation.
`WebEditor` has none: users, networks and other programs promise nothing.

`CHECK_DEADLOCK FALSE` stands in the configurations of systems that end: runs, proofs,
checks, sorts, and an editor whose bounds are used up. The `upto` run does check for
deadlock: the walk must come to a verdict in every case (`Halted`).

## Disagreements found

Each is a run that TLC finds violated, with the sentence of the repository it
contradicts quoted in `PROJECT.json`.

* `start`: a run fingerprints the files on disk, not the modules it imported. An edit
  in between puts the old engine's verdicts in the new engine's file.
* `stray`: `_is_by_indistinguishability` ignores the second step's reduction when the
  first has none, against its docstring.
* `ends`: that the list starts and ends with the theorem's game is only printed, and
  the proof still succeeds.
* `assertions`: an event proof that ends with a helper game fails an assertion in
  `prove`; so do two inductions in a row in `_prepare_hops`, which the grammar allows.
* `names`: a bound keeps terms apart by printed names (`advantage.py:557`). If the proofs
  of two lemmas both call a reduction `R1`, which is natural, and the parent plays both
  lemmas' games directly, their terms over the same helper are merged: the second's query
  counts are lost, and the bound may be too small.

Two more follow from the same modules and have no run of their own. With reverts and an
edit in a spawned worker's window, a worker may check with one engine and
fingerprint as another, against the docstring of `add` ("a hop checked by any other
engine is not recorded", `hop_cache.py:282`); this is the case that
`SoundEnvironment` excludes. And leaving an induction removes the type of a `let`
that has the variable's name (`proof_engine.py:1762`), although lets are "in scope
throughout the proof" (`claude_docs/FROGLANG_REFERENCE.md:549`);
`VariablesScoped` therefore speaks of the other names only. In the page, `RunAnswered`
stores the results of a proof under the tab that is active when they arrive
(`web/editor.js:410`), although the table maps a path to its own results
(`web/state.js:7`): with a change of tab in between, `hopResults[p].path = p` fails.

Observations that contradict no sentence of the repository: an unmodified tab is
reloaded after an await, so text typed in between is overwritten and counts as saved
(`web/live-reload.js:101`); the watcher's debouncing may drop the last change of a
file; `_returns_before_raise` is conservative, a return in an arm that a raise always
follows counts as one before it; and the language server's step numbers count the
steps inside an induction, the engine's do not (`lsp/proof_features.py:191`). In the
bounds: a lemma of a lemma keeps the outer reduction only, so that two terms of the inner
lemma over the same helper would get one key in the proof at the top; the substitution of
counts one after the other goes wrong if a reduction's own oracle has the name of a
later count of the helper, so the instances keep the names of the games' oracles apart;
and a `for` that runs from a larger to a smaller number would lower a count.

## Proofs

Proved with TLAPS, for all values of the constants that satisfy the named `ASSUME`s:

* `HopCacheProofs!TypeCorrect` (`TypeOK`). The type invariant alone is not inductive: the
  middle of `add` needs to know that there is a hop at `idx` and a fingerprint,
  which `StageOK` says stage by stage.
* `HopCacheProofs!CacheCorrect` (`CacheSound`) and `HopCacheProofs!VerdictCorrect`
  (`CachedVerdictSound`, a cached verdict is one the running engine gives), assuming
  `SoundEnvironment`: no edit between a run's import and its fingerprint, and none
  between a spawned worker's unless the sources never go back. The inductive invariant
  is `Sound`: every digest a run knows, is about to append or kept while trimming is
  sound (`RunSound`), and a worker whose code is not the run's engine does not claim the
  run's fingerprint, nor can it still come by it (`WorkerSound`). It is needed because a
  file's soundness is threatened by what is in memory two steps earlier: a digest enters
  `known` before the line is written, and a trim writes back lines read before other
  runs acted.
* `HopCacheProofs!CacheTransparent` (`Transparent`): with the cache a run gives the
  verdicts of a run without one, for any number of runs, workers, edits and kills. The
  hypothesis `OneEngine` is that the code which checks hops is the code the run
  fingerprinted: no edit between import and fingerprint, and forked workers. (Spawned
  workers import what is on disk, so without any cache the pool would mix engines.) Beyond
  soundness the refinement needs that each hop is judged once and keeps its verdict:
  `Fresh` says which hops are still pending at each stage, and that a worker has its
  parent's code.
* `HopCacheProofs!TrimCorrect` (`TrimKeepsNewest`). The lemma `NewestKeepsLast` is about
  `Newest` alone: what a trim keeps has no duplicates and ends with the last line that is
  a digest. The invariant `Trims` carries the last line from the append to the trim, past
  pruning, which spares the run's own file: it is the digest just written or, behind a
  torn line, garbled (`ClosedBy`); the theorem then says nothing of the digest, which was
  never readable.
* `HopCacheProofs!DirCorrect` (`DirBounded`), for any finite number of runs. Hypothesis
  `BoundedStart`: the limit is positive (it is 8), and the directory found is finite, no
  fuller than the bound, and ordered by age. No single run keeps the bound, since a
  pruning gives up when a file it listed has gone. While no pruning was missed `DirInv`
  has two cases. Either no file has been removed yet; then no pruning has given up, and if
  the directory is too full a pruning that will succeed is on its way (`Unsettled`). Or one
  has gone through or is unlinking, and leaves fewer than `MaxCacheFiles` files that
  belong to no run (`Settled`), which no later step can undo. The step between the two is
  `KeptNewest`: at most n files have fewer than n newer ones (`FewNewest`), the pruning
  run's own is among those or only files of other runs are.
* `HopCacheProofs!PruneCorrect` (`PruneSettles`), from `OrderedStart` alone: the directory
  may start as full as it likes, and anything may fail. The count is the same, but must
  hold in every state and with runs that were killed half-way, so the invariant `PruneInv`
  speaks of each pruning by itself (`Prunes`): what it has listed, or will leave, counts
  its run's own file unless that was removed or another run shares it (`Spared`). A file
  that was removed is rewritten only by a run of its version; two runs that share a file
  have one file fewer between them (`Shared`), which makes up for the one not counted.
* `PipelineProofs!TypeCorrect` (`TypeOK`).
* `PipelineProofs!SkipsCorrect` (`SkipsExact`): `run_pipeline` implements the plain loop,
  for any passes, any loose equality and any limit. The inductive invariant `IInv`
  says that a declined entry is a fixed point of its pass for the pins it holds and
  that equal identities mean equal trees. It holds only while a game is being
  canonicalized: between the sides the last pass of the list, the step assumptions,
  changes and `declined` is stale until `StartGame` replaces it.
  That a new game's identity differs from every declined one's needs a free identity
  to exist (`NewIdentityFree`): at most one game per pass and the two current ones
  are alive, so one of `Len(Steps) + 3` identities is free.

  The refinement is proved step by step: every action but `Skip` maps to its
  namesake, and `Skip` maps to applying the pass in vain.
* `PipelineProofs!OwnFormCorrect` (`OwnCanonicalForm`): what the loop returns is what a
  pure function of the game and the pins says. By the refinement it is enough to look at
  the plain loop's steps. The invariant `OwnInv` relates the loop's middle to that
  function: the passes before `index` made `new_game` of the sweep's game and pins
  (`InSweep`, by `RunOnceTrace`, one pass of the fold at a time), and the whole result
  is what the sweeps that remain make of the game this one began with (`Looped`).
  The games already finished keep the form they were given (`SidesDone`).
* `SortBlockProofs!TypeCorrect` (`TypeOK`) and `SortBlockProofs!OrderCorrect`
  (`KeepsOrder`), for every block and every graph whose edges point upwards
  (`GraphAssumption`). The danger is that a copy of the placed node is taken out of
  a list instead of it. The key lemma, `TakenOutIsQueued`, says that such a copy waits
  for nothing either and is therefore queued already, before the statement that
  now loses it can be. `IInv` has the parts this takes: the phases' own facts
  (`Staged`), no statement twice (`Counted`), a neighbour that was taken out is queued
  and a queued statement stands after all its neighbours (`OrderKept`), and everything
  found that waits for nothing is queued when the sort begins (`Sought`). The
  argument has one gap, closed by `CopiesAssumption`: a statement that mentions no
  field and depends on nothing may be a source that was never found. If something
  depends on it, then each later copy of it is assumed below it, which the graph of
  `Dependencies` gives for statements that write or return
  (`DependencyGraphTellsCopies`). Its limit: blocks with two copies of a call that
  writes nothing and mentions no field, before one of its names is written, are
  outside the theorem.
* `SortBlockProofs!FoundPlaced` (`PlacesFound`). The danger is the opposite one: a
  placed statement stays in a list because a copy was taken out for it, and what the list
  belongs to never becomes ready. The invariant `PlacedInv` counts, for each statement and
  each text: the neighbours still in its list that are queued or placed already are no
  more than its neighbours, of that text, that are still to be placed (`RoundsSuffice`).
  Each placement takes one copy out of every list that has one, so both numbers fall
  together. When the queue runs empty nothing is to be placed; since what a found
  statement depends on is found too (`Closed`) and edges point upwards, the first found
  statement left out would wait for nothing and be queued. This needs the graph's lists to
  name each neighbour once, which `Node.add_neighbour` sees to (`dependencies.py:378`). The
  proof builds on `IInv`, hence also on `CopiesAssumption`.
* `SortBlockProofs!BehaviourKept` (`SameBehaviour`), for blocks of any length, any values
  and any statements that keep to `AccessAssumption`. Three assumptions are about the
  graph: `GraphAssumption`, `CopiesAssumption` and `GraphConnects`, the invariant that the
  docstring of `dependencies.py` states (a chain of edges connects every conflicting
  pair). The proof is about two orders that are `Good`: no statement twice, none before
  what it depends on, everything observable in it. The original order is one
  (`OriginalGood`), and by `KeepsOrder`, `PlacesFound` and the search's invariant
  `ObservedFound` so is the sorted one (`SortedGood`), dead statements or not. Each order
  is given the states its statements would begin in if none of them stopped the run
  (`Traced`). By induction on the place in the block, every statement that is in both
  orders begins with the same values of what it mentions (`Alike`, `AllAlike`): the last
  writer of a name before it is the same in both (`WritersBefore`, `LastWriter`). So a
  statement stops the run in one order exactly if it does in the other (`StopsInBoth`).
  If the first to stop differ, both fail to complete, for a return keeps its place among
  all that can stop (`NoRace`); if it is the same one, it returns the same value, and
  the writers of fields before it are the same (`FieldWriters`).
* `SortBlockProofs!DependencyGraphConnects` and `DependencyGraphTellsCopies`: what is
  assumed of the graph holds of the graph that `generate_dependency_graph` builds, for
  every block of statements that mention what they write (`Collected`). The code adds a
  reader below the nearest earlier writer only, because the writer is itself below all
  who mentioned the name before; `Connects` asks for the chain. For the copies, equal
  trees must have equal names and every statement must write, return or mention a field
  (`Copies`), the limit named above.
* `ProofEngineProofs!TypeCorrect` (`TypeOK`) and `ProofEngineProofs!AssumptionsCorrect`
  (`OwnAssumptions`), for every set of files that satisfies `FilesAssumption`. The danger
  is that the engine keeps the step assumptions in one field, which each hop and each
  nested induction overwrites, while the results are reported and the pool's tasks are
  answered later. The parts of `IInv`: the list of the job, also after `prove` has added
  the halves of an event theorem, is one the grammar allows (`GamesList`); every
  prepared hop carries the conditions written before it in its own block (`Fits`, from
  `PrepareHopFits`, which rests on how the k-th step of a block is found, `CountReaches`);
  every frame but the first was called by the current hop of the frame below it
  (`Called`); and every result has the assumptions of its place (`Reported`).
* `ProofEngineProofs` further: `StepsCorrect` (`StepsCounted`), `ReportsCorrect` (`ReportsFollowText`,
  the refinement of `HopReports`) and `ScopesCorrect` (`VariablesScoped`), for every set of
  files, however deep inductions are nested, in sequence and from the pool. The text is
  flattened: the script of a block (`Scripts`) is its hops with the script of an induction's
  body in the place of the induction, and `Offsets(b)` says where the script of each hop of
  block b begins. The invariant `RInv` lays this along the stack of calls: the
  script of each call's block stands in the whole at a place computed from the call below
  it (`Standing`), the reports so far are the script up to the place the innermost call
  has come to (`Place`), and a prepared or pooled hop is the one its position says
  (`Prepared`). Entering, leaving and reporting move that place by what the flattening
  says. That `_count_hops` gives the length of the script is an induction over blocks from
  the last to the first (a body has a greater number), by `RankInduction`.

  `ScopesCorrect` has the hypothesis `NoShadowing`: no induction stands inside another one
  over a variable of the same name. Without it the property fails, for leaving the inner
  induction takes the type away from the rest of the outer one's body
  (`proof_engine.py:1762`); nothing rejects such a file.
* `ChainProofs!ChainCorrect` (`ChainLinked`): a proof that succeeds, with no lemma skipped,
  links its games list from the first game to the last, for every set of files, every
  nesting of inductions and every range of their variables, loops that do not run
  included. Ranges are those `RangesAssumption` allows: integers, in concrete numbers. The
  hypothesis `NoStrayReduction` is that no step without a reduction has a neighbour of the
  same assumed pair that has one. It is needed: the run `stray` shows the engine accepting
  such a hop as one by assumption, which it is not. The theorem says that nothing else
  leaves a game out.

  Half of the argument is about the text. What is found from the first game along the hops
  that may be taken is a set that holds both ends of such a hop or neither (`FoundAll`, for
  any finite graph). If every hop of the script may be taken, such a set holds all games
  of a block at given values of the variables around it, or none: by induction over
  blocks, innermost first (`BlocksSame`), and within a block along the values of an
  induction's variable (`TurnsSame`), where one turn is joined to the next by the roll-over
  hop, and the first and last turns to the neighbours outside by the boundary hops. The
  other half is about the engine. Why a hop may be taken is settled when it is prepared (it
  is written as a reduction to an assumption, or to a lemma whose proof was verified by
  then) or when the pool answers, but it is reported much later, after other hops and
  nested calls; `ChainInv` carries the reason through (`PreparedSound`, `PoolSound`,
  `ReportsSound`), and `ReportsCorrect`'s invariant says that at success every hop of the
  script was reported.
* `UptoProofs!AcceptedAreIdentical` (`IdenticalUntilBad`), with `WalkTyped` (`TypeOK`), for
  all games, however their arms and loops are nested, any expressions and states that
  satisfy the assumptions of `UptoMeaning`, and whatever Z3 leaves open. The danger is that
  a fact is used where it no longer holds: after a write, in a later round of a loop, or
  past an arm that may return before it raises.
  The invariant `WalkInv` is about the stack of calls. A frame `Covers` another one if
  equality of its two rests, from every state where its facts hold, makes the other's
  equal; and if its left rest never goes on to what follows, nor does the other's. The
  first frame covers the method, each other one what the frame below it has called
  for (`Linked`). A frame that waits at an if-statement knows of the arms walked already
  that they are equal, and of each candidate fact that its arm never falls through
  (`Waiting`), which is why the negation of that arm's path may be assumed after it.

  Three lemmas carry the steps. `PrunedStands`: what a pruned if-statement becomes does
  the same wherever the facts hold, for any set of arms Z3 rules out. `ExecChanges`: a
  statement changes only the names that the code says it assigns, so that the facts
  `Kill` leaves still hold, also from one round of a loop to the next. `IfSame`: if the
  conditions are alike and each arm is equal under its own path, the two statements are.
  What holds of all runs is proved by `BlockInduction` on the nesting of blocks, mostly in
  the form `ExecKeeps`: what every simple statement keeps, every block keeps.
* `UptoProofs!FlagTells` (`FlagTellsBad`): the discipline's syntax is enough for the flag
  to tell. In an oracle nothing takes the flag down (`ExecTells`). `Initialize` may reset
  it at the top, and what stands before the first reset neither writes the flag nor
  returns (`QuietGoesOn`), so that the reset does run and hides no raise (`InitTells`).
* `UptoProofs!SelfAccepted` (`AcceptsItself`): a game is never rejected against itself. The
  two sides are pruned one after the other, so they differ in between; the invariant says
  that each waiting frame has equal sides and that in the one on top pruning takes one
  side to the other (`Mirrored`, `Reaches`).

  Limits of the three: the loops of a run have the same fixed number of rounds, and every
  run terminates; draws and calls on the two sides are coupled in the order in which
  they occur; the flag discipline is the code's, but flag games and the placement of
  the challenger's own `Initialize` are not modelled.
* `WebEditorProofs`: `TypeCorrect` (`TypeOK`), `SavedCorrect` (`SavedReachedDisk`),
  `ResultsCorrect` (`ResultsOfOpenTabs`: no results wait for a file without a tab) and
  `VerdictFresh` (`VerdictNotStale`), for any number of files, texts, requests and
  events. None of the four is inductive: an answer acts on the page long after the
  request touched the file. `IInv` therefore says of each request in flight what its
  step guarantees (`Recorded`): one that has written knows where in its file's history
  its text stands, one that has read knows a text of the file, and a run that has read
  knows one no older than what it wrote. Since files are only ever appended to their
  history (`Grows`), no step of another request, of the user or of another program can
  take that away (`RecordedKept`).

Recursion. The library's induction theorems take an operator as a parameter, which no
backend instantiates. `RecursiveFunctions` gets by without: a set of naturals has a
least element (`LeastElement`), so sets closed under a step are everything
(`RangeInduction`, `RankInduction`), and a function defined by recursion on a rank
exists (`RecursiveFunction`), which makes CHOOSE, as `f[x \in S] == ...` is defined, say
what it should. Where the recursion is not on a number but along any dependency that goes down,
as from a block to its tail and to the blocks inside its head, it is `DependentFunction`;
`Exec` of `UptoMeaning` is unfolded with it (`ExecSolves`). `FlattenSeq` of the
community modules, itself such a function, is
unfolded this way (`Flattened`, `FlattenedPlaces`). `FoldLeft` recurses over the set of
places; `FoldSolution` and `FoldTrace` turn it into the sequence of its intermediate
values, for the fold of a sweep (`RunOnceTrace`), the run of a block (`RunTrace`) and
`add_neighbour` (`AmongTrace`). The loop of the pipeline is unfolded the same way
(`LoopExists`). RECURSIVE operators stay out of reach, and no module with a theorem uses
one.

Only model-checked: all liveness (`NeverFailsAProof`, `EndsWithVerdict`,
`AlwaysAnswers`, `SortEnds`), since neither fairness nor ENABLED is within the prover's
reach; and `BoundCoversChain`, which counts calls along executions with RECURSIVE
operators. In general it needs a hypothesis that printed names tell compositions of
reductions apart, as the run `names` shows.

## What is not modelled

* What most passes do to a game. The loop is proved for arbitrary passes, the chain for
  arbitrary answers of a check; that a rewriting preserves a game's behaviour is a
  statement about FrogLang's semantics. Statement sorting is the exception.
* How `_StatementAccess` finds the names of a syntax tree, and the passes that use the
  dependency graph without sorting. A declaration that shadows a field counts as a write
  of the field in `Effect`, not so in `mutates_field` (`dependencies.py:205-243`); the
  graph of the model has an edge more then, never one less.
* In `upto.py`: flag games (lines 759-834), and where a challenger may be initialized
  (lines 837-903). Loop headers are all alike (lines 619-622), declared types differ only
  in being there or not (line 659), and `unique` draws, which also write a set
  (lines 325-329), are no kind of draw of their own.
* Time. Z3 and `ApplyAssumptions` run with time limits, so on a slow machine a pass is
  not a function of its input, which the loop and the cache both assume.
* In the web server and page: the capture of the process-wide stdout, a run's own
  second reading of the file, two pages on one server, and the wizards, the file
  tree and the inline view, which only display.
* The parsers, the printers, LaTeX export, diagnosis, scaffolding, the MCP server:
  pure translation or input and output. Of the implementation's lines most are of this
  kind; the parsers alone, generated by ANTLR, are a third.
* In `advantage.py`: how the parameters of a lemma match those of the entry
  (`lemma_instantiation`), sizes in a bound and their renaming, the guard against clauses
  that decrease in a count (clauses here are sums of products), the comparison of a
  claimed bound by Z3, and the bound's rendering; and in `expand_lemma` the count of
  `__reveal` that stands in for an event's last oracle (line 1016): the oracle the engine
  appends calls nothing, so that a bound has this count only if a clause names it.
* The language server, reduction inlining and lemmas that use one another in a circle:
  see the plan below.

## Plan

In this order; done parts are marked.

1. (done) `HopCache` with `HopVerdicts`, and its safety theorems.
2. (done) `ProofEngine` with `HopReports` and `ProofChain`.
3. (done) `Pipeline` with `NaivePipeline`, and the refinement theorem.
4. (done) `SortBlock` with `Dependencies` and `BlockMeaning`, and its order theorem.
5. (done) `UptoWalk` with `UptoMeaning`.
6. (done) `WebEditor`.
7. (done) `AdvantageBound` with `ChainLosses`: advantage bounds from hop results.
8. (done) `ProofEngineProofs` and `WebEditorProofs`: types, assumptions,
   reports, steps and scopes of the engine, all safety properties of the editor.
9. `Lemmas`: verification of lemma files by nested engines, cycles included, and
   `StepGame`: rounds of inlining up to the limit.
10. `LanguageServer`: documents, saved text and results; a lens belongs to its hop.
11. (done) The rest of the cache: `Transparent`, `TrimKeepsNewest`, `DirBounded` and
    `PruneSettles`.
12. (done) `OwnCanonicalForm` and `PlacesFound`.
13. (done) A proof of `ChainLinked`.
14. (done) Proofs of `SameBehaviour` and of what it assumes of the dependency graph.
15. (done) Proofs of `IdenticalUntilBad`, `FlagTellsBad` and `AcceptsItself`.
16. A proof of `BoundCoversChain`: first its operators as recursive functions.
