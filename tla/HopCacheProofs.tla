--------------------------- MODULE HopCacheProofs ---------------------------
(***************************************************************************)
(* What HopCache.tla promises for every number of runs, workers, engine    *)
(* versions and hops: type correctness, that a cache file never lists a    *)
(* hop its engine does not verify, that the verdicts are those of a run    *)
(* without a cache, and what trimming and pruning leave in the directory.  *)
(***************************************************************************)
EXTENDS HopCache, RecursiveFunctions, SequenceTheorems, FiniteSetTheorems, TLAPS

-------------------------------------------------------------------------------
(* Hops and digests.                                                       *)

LEMMA HopType ==
    ASSUME NEW r \in Runs, NEW i \in HopIndices(r)
    PROVE  Hop(r, i) \in Hops
  BY ProofsAssumption DEF HopIndices, Hop

(* The digest of a hop determines the engine and the hop.                  *)
LEMMA DigestInjective ==
    ASSUME NEW e \in Engines, NEW h \in Hops
    PROVE  /\ Digest(e, h) \in Digests
           /\ Digest(e, h).engine = e
           /\ HopOf(Digest(e, h)) = h
  BY DEF Digest, Digests, HopOf, Hops

-------------------------------------------------------------------------------
(* Type correctness.  `add` uses the run's fingerprint and its current     *)
(* hop, so the induction also needs to know when a run has them.           *)

Started == Stages \ {"idle", "open", "killed"}

StageOK(r, s) ==
    /\ s.pc \in Started => s.fp \in Engines
    /\ s.pc \in {"add", "append"} => s.idx \in HopIndices(r)

TypeInv == TypeOK /\ \A r \in Runs : StageOK(r, run[r])

(* One run moves to a well-typed state and leaves a well-typed directory.  *)
DirectoryOK ==
    /\ present \subseteq Engines
    /\ content \in [Engines -> Seq(Lines)]
    /\ torn \subseteq present /\ \A e \in torn : content[e] # <<>>
    /\ upkeep \in {"whole", "missed", "settled"}
    /\ newer \subseteq Engines \X Engines

LEMMA RunMoves ==
    ASSUME TypeInv, NEW r \in Runs, NEW s \in RunStates(r), StageOK(r, s),
           run' = [run EXCEPT ![r] = s],
           DirectoryOK',
           UNCHANGED <<sources, retired, worker>>
    PROVE  TypeInv'
<1>1. \A q \in Runs : StageOK(q, run'[q])
  BY DEF TypeInv, TypeOK
<1>2. TypeOK'
  BY DEF TypeInv, TypeOK, DirectoryOK
<1>3. QED BY <1>1, <1>2 DEF TypeInv, StageOK, HopIndices

LEMMA RunMovesOnly ==
    ASSUME TypeInv, NEW r \in Runs, NEW s \in RunStates(r), StageOK(r, s),
           run' = [run EXCEPT ![r] = s],
           UNCHANGED <<sources, retired, present, content, torn, newer, worker>>,
           upkeep' \in {upkeep, Missed, "settled"}
    PROVE  TypeInv'
<1>1. upkeep' \in {"whole", "missed", "settled"}
  BY DEF Missed, TypeInv, TypeOK
<1>2. DirectoryOK'
  BY <1>1 DEF TypeInv, TypeOK, DirectoryOK
<1>3. QED BY <1>2, RunMoves

LEMMA WorkersMove ==
    ASSUME TypeInv, NEW r \in Runs, NEW s \in RunStates(r), StageOK(r, s),
           NEW ws \in [Workers -> WorkerStates(r)],
           run' = [run EXCEPT ![r] = s],
           worker' = [worker EXCEPT ![r] = ws],
           UNCHANGED <<sources, retired, present, content, torn, newer>>,
           upkeep' \in {upkeep, Missed}
    PROVE  TypeInv'
<1>1. \A q \in Runs : StageOK(q, run'[q])
  BY DEF TypeInv, TypeOK
<1>2. upkeep' \in {"whole", "missed", "settled"}
  BY DEF Missed, TypeInv, TypeOK
<1>3. TypeOK'
  BY <1>2 DEF TypeInv, TypeOK
<1>4. QED BY <1>1, <1>3 DEF TypeInv, StageOK, HopIndices

(* The entries and the number of lines of a file that are read back.       *)
LEMMA FileLines ==
    ASSUME NEW s \in Seq(Lines)
    PROVE  /\ Entries(s) \in SUBSET Digests
           /\ IsFiniteSet(Entries(s))
           /\ Cardinality(Readable(s)) \in Nat
<1>1. DOMAIN s = 1..Len(s) /\ Len(s) \in Nat
  OBVIOUS
<1>2. IsFiniteSet(DOMAIN s)
  BY <1>1, FS_Interval
<1>3. IsFiniteSet(Readable(s))
  BY <1>2, FS_Subset DEF Readable
<1> DEFINE all == {s[i] : i \in DOMAIN s}
<1>4. s \in Surjection(DOMAIN s, all)
  BY DEF Surjection
<1>5. IsFiniteSet(all)
  BY <1>2, <1>4, FS_Surjection
<1>6. Entries(s) \subseteq all
  BY DEF Entries
<1>7. Entries(s) \in SUBSET Digests
  BY DEF Entries, Lines
<1> HIDE DEF all
<1>8. QED BY <1>3, <1>5, <1>6, <1>7, FS_Subset, FS_CardinalityType

(* What is written after a torn line joins it; other lines stay.           *)
KeepsOrIs(s, c, i, line) ==
    s[i] \in {line, Garbled} \/ (i \in DOMAIN c /\ s[i] = c[i])

LEMMA ExtendedType ==
    ASSUME TypeInv, NEW e \in Engines, NEW line \in Lines,
           NEW c, c = content[e], NEW s, s = Extended(c, e, line)
    PROVE  /\ s \in Seq(Lines) /\ s # <<>>
           /\ s[Len(s)] \in {line, Garbled}
           /\ \A i \in DOMAIN s : KeepsOrIs(s, c, i, line)
<1>1. c \in Seq(Lines) /\ (e \in torn => c # <<>>) /\ Garbled \in Lines
  BY DEF TypeInv, TypeOK, Lines
<1>2. CASE e \in torn
  <2>1. s = [c EXCEPT ![Len(c)] = Garbled] /\ Len(c) \in DOMAIN c
    BY <1>1, <1>2 DEF Extended
  <2>2. s \in Seq(Lines) /\ DOMAIN s = DOMAIN c /\ Len(s) = Len(c)
    BY <1>1, <2>1
  <2>3. \A i \in DOMAIN s : s[i] = Garbled \/ s[i] = c[i]
    BY <1>1, <2>1, <2>2
  <2>4. s[Len(s)] = Garbled /\ s # <<>>
    BY <1>1, <2>1, <2>2
  <2>5. QED BY <2>2, <2>3, <2>4 DEF KeepsOrIs
<1>3. CASE e \notin torn
  <2>1. s = Append(c, line)
    BY <1>3 DEF Extended
  <2>2. s \in Seq(Lines) /\ s # <<>> /\ s[Len(s)] = line
    BY <1>1, <2>1
  <2>3. \A i \in DOMAIN s : s[i] = line \/ (i \in DOMAIN c /\ s[i] = c[i])
    BY <1>1, <2>1
  <2>4. QED BY <2>2, <2>3 DEF KeepsOrIs
<1>4. QED BY <1>2, <1>3

LEMMA WriteOK ==
    ASSUME TypeInv, NEW r \in Runs, run[r].fp \in Engines, NEW line \in Lines,
           Write(r, line), present' = present \cup {run[r].fp},
           torn' \in {torn \cup {run[r].fp}, torn \ {run[r].fp}},
           upkeep' \in {"whole", "missed", "settled"}
    PROVE  DirectoryOK'
<1> DEFINE e == run[r].fp
<1>0. PICK c, s : c = content[e] /\ s = Extended(c, e, line)
  OBVIOUS
<1>1. s \in Seq(Lines) /\ s # <<>>
  BY <1>0, ExtendedType
<1>2. content' = [content EXCEPT ![e] = s] /\ newer' = Touch(e)
  BY <1>0 DEF Write
<1>3. content' \in [Engines -> Seq(Lines)] /\ content'[e] = s
      /\ \A f \in Engines \ {e} : content'[f] = content[f]
  BY <1>1, <1>2 DEF TypeInv, TypeOK
<1>4. present' \subseteq Engines /\ newer' \subseteq Engines \X Engines
  BY <1>2 DEF TypeInv, TypeOK, Touch
<1>5. torn' \subseteq present' /\ \A f \in torn' : content'[f] # <<>>
  BY <1>1, <1>3 DEF TypeInv, TypeOK
<1>6. QED BY <1>3, <1>4, <1>5 DEF DirectoryOK

LEMMA RunTypes ==
    ASSUME TypeInv, NEW r \in Runs
    PROVE  /\ run[r] \in RunStates(r)
           /\ run[r].pc \in Stages
           /\ run[r].mode \in {"sequential", "parallel"}
           /\ run[r].loaded \in MaybeEngine
           /\ run[r].fp \in MaybeEngine
           /\ run[r].known \in SUBSET Digests
           /\ run[r].lines \in Nat
           /\ run[r].idx \in Nat \ {0}
           /\ run[r].verdict \in [HopIndices(r) -> Verdicts]
           /\ run[r].by \in [HopIndices(r) -> MaybeEngine]
           /\ run[r].listed \in SUBSET Engines
           /\ run[r].victims \in SUBSET Engines
           /\ run[r].newest \in Seq(Digests)
<1>1. run[r] \in RunStates(r)
  BY DEF TypeInv, TypeOK
<1>2. QED BY <1>1 DEF RunStates

LEMMA StageNames ==
    {"idle", "open", "hop", "lookup", "pool", "record", "add", "append",
     "glob", "stat", "unlink", "trim", "replace", "done", "killed"} \subseteq Stages
  BY DEF Stages

LEMMA NextHopType == ASSUME NEW r \in Runs PROVE NextHop(r) \in {"record", "hop"}
  BY DEF NextHop

LEMMA ImportTypes == ASSUME TypeInv, NEW r \in Runs, Import(r) PROVE TypeInv'
<1> DEFINE s == [run[r] EXCEPT !.pc = "open", !.loaded = sources]
<1>1. run' = [run EXCEPT ![r] = s]
  BY DEF Import, TypeInv, TypeOK
<1>2. sources \in MaybeEngine
  BY DEF TypeInv, TypeOK, MaybeEngine
<1>3. s \in RunStates(r)
  BY <1>2, RunTypes, StageNames, ZenonT(40) DEF RunStates
<1>4. StageOK(r, s)
  BY RunTypes DEF RunStates, StageOK, Started
<1>5. QED BY <1>1, <1>3, <1>4, RunMovesOnly DEF Import

LEMMA OpenTypes == ASSUME TypeInv, NEW r \in Runs, Open(r) PROVE TypeInv'
<1>1. PICK m \in Modes, q \in BOOLEAN, read \in FileRead(sources) :
        run' = [run EXCEPT ![r].pc = IF m = "parallel" THEN "lookup" ELSE "hop",
                           ![r].mode = m,
                           ![r].quiet = q,
                           ![r].fp = sources,
                           ![r].known = Entries(read),
                           ![r].lines = Cardinality(Readable(read))]
  BY DEF Open
<1> DEFINE p == IF m = "parallel" THEN "lookup" ELSE "hop"
           k == Entries(read)
           n == Cardinality(Readable(read))
           s == [run[r] EXCEPT !.pc = p, !.mode = m, !.quiet = q, !.fp = sources,
                               !.known = k, !.lines = n]
<1>2. run' = [run EXCEPT ![r] = s]
  BY <1>1 DEF TypeInv, TypeOK
<1>3. sources \in Engines /\ sources \in MaybeEngine
  BY DEF TypeInv, TypeOK, MaybeEngine
<1>4. read \in Seq(Lines)
  <2>1. read = content[sources] \/ read = <<>>
    BY DEF FileRead
  <2>2. content[sources] \in Seq(Lines)
    BY <1>3 DEF TypeInv, TypeOK
  <2>3. QED BY <2>1, <2>2, EmptySeq
<1>5. k \in SUBSET Digests /\ n \in Nat
  BY <1>4, FileLines
<1>6. p \in Stages /\ p \notin {"add", "append"} /\ m \in {"sequential", "parallel"}
  BY StageNames, ModesAssumption
<1> HIDE DEF p, k, n
<1>7. s \in RunStates(r)
  BY <1>3, <1>5, <1>6, RunTypes, ZenonT(40) DEF RunStates
<1>8. s.pc = p /\ s.fp = sources
  BY RunTypes DEF RunStates
<1>9. StageOK(r, s)
  BY <1>3, <1>6, <1>8 DEF StageOK
<1>10. QED BY <1>2, <1>7, <1>9, RunMovesOnly DEF Open

LEMMA HopHitTypes == ASSUME TypeInv, NEW r \in Runs, HopHit(r) PROVE TypeInv'
<1> DEFINE vd == [run[r].verdict EXCEPT ![run[r].idx] = "cached"]
           s == [run[r] EXCEPT !.verdict = vd, !.idx = @ + 1]
<1>1. run' = [run EXCEPT ![r] = s]
  BY DEF HopHit, TypeInv, TypeOK
<1>2. vd \in [HopIndices(r) -> Verdicts]
  BY RunTypes DEF Verdicts
<1>3. run[r].idx + 1 \in Nat \ {0}
  BY RunTypes
<1> HIDE DEF vd
<1>4. s \in RunStates(r)
  BY <1>2, <1>3, RunTypes, ZenonT(40) DEF RunStates
<1>5. s.pc = "hop" /\ s.fp = run[r].fp
  BY RunTypes DEF RunStates, HopHit
<1>6. StageOK(r, s)
  BY <1>5, RunTypes, StageNames DEF StageOK, Started, TypeInv, HopHit
<1>7. QED BY <1>1, <1>4, <1>6, RunMovesOnly DEF HopHit

LEMMA HopCheckTypes == ASSUME TypeInv, NEW r \in Runs, HopCheck(r) PROVE TypeInv'
<1> DEFINE v == Verdict(run[r].loaded, Hop(r, run[r].idx))
           vd == [run[r].verdict EXCEPT ![run[r].idx] = v]
           p == IF v = "valid" THEN "add" ELSE "hop"
           n == IF v = "valid" THEN run[r].idx ELSE run[r].idx + 1
           s == [run[r] EXCEPT !.verdict = vd, !.pc = p, !.idx = n]
<1>1. run' = [run EXCEPT ![r] = s]
  BY DEF HopCheck, TypeInv, TypeOK
<1>2. v \in Verdicts
  BY DEF Verdict, Verdicts
<1>3. vd \in [HopIndices(r) -> Verdicts]
  BY <1>2, RunTypes
<1>4. /\ p \in Stages /\ n \in Nat \ {0}
      /\ p = "add" => n \in HopIndices(r)
      /\ p # "append"
  BY RunTypes, StageNames DEF HopCheck
<1> HIDE DEF v, vd, p, n
<1>5. s \in RunStates(r)
  BY <1>3, <1>4, RunTypes, ZenonT(40) DEF RunStates
<1>6. s.pc = p /\ s.fp = run[r].fp /\ s.idx = n
  BY RunTypes DEF RunStates
<1>7. run[r].fp \in Engines
  BY RunTypes DEF TypeInv, StageOK, Started, HopCheck
<1>8. StageOK(r, s)
  BY <1>4, <1>6, <1>7 DEF StageOK
<1>9. QED BY <1>1, <1>5, <1>8, RunMovesOnly DEF HopCheck

LEMMA LookupAllTypes == ASSUME TypeInv, NEW r \in Runs, LookupAll(r) PROVE TypeInv'
<1> DEFINE vd == [i \in HopIndices(r) |-> IF i \in Tasks(r) THEN "pending" ELSE "cached"]
           s == [run[r] EXCEPT !.pc = "pool", !.verdict = vd]
<1>1. run' = [run EXCEPT ![r] = s]
  BY DEF LookupAll, TypeInv, TypeOK
<1>2. vd \in [HopIndices(r) -> Verdicts]
  BY DEF Verdicts
<1> HIDE DEF vd
<1>3. s \in RunStates(r)
  BY <1>2, RunTypes, StageNames, ZenonT(40) DEF RunStates
<1>4. s.pc = "pool" /\ s.fp = run[r].fp
  BY RunTypes DEF RunStates
<1>5. StageOK(r, s)
  BY <1>4, RunTypes DEF StageOK, Started, TypeInv, LookupAll
<1>6. QED BY <1>1, <1>3, <1>5, RunMovesOnly DEF LookupAll

LEMMA LookupAllInlineTypes ==
    ASSUME TypeInv, NEW r \in Runs, LookupAllInline(r) PROVE TypeInv'
<1> DEFINE vd == [i \in HopIndices(r) |->
                     IF i \in Tasks(r) THEN Verdict(run[r].loaded, Hop(r, i)) ELSE "cached"]
           bd == [i \in HopIndices(r) |-> IF i \in Tasks(r) THEN run[r].fp ELSE NoEngine]
           s == [run[r] EXCEPT !.pc = "record", !.verdict = vd, !.by = bd]
<1>1. run' = [run EXCEPT ![r] = s]
  BY DEF LookupAllInline, TypeInv, TypeOK
<1>2. vd \in [HopIndices(r) -> Verdicts]
  BY DEF Verdicts, Verdict
<1>3. bd \in [HopIndices(r) -> MaybeEngine]
  BY RunTypes DEF MaybeEngine
<1> HIDE DEF vd, bd
<1>4. s \in RunStates(r)
  BY <1>2, <1>3, RunTypes, StageNames, ZenonT(40) DEF RunStates
<1>5. s.pc = "record" /\ s.fp = run[r].fp
  BY RunTypes DEF RunStates
<1>6. StageOK(r, s)
  BY <1>5, RunTypes DEF StageOK, Started, TypeInv, LookupAllInline
<1>7. QED BY <1>1, <1>4, <1>6, RunMovesOnly DEF LookupAllInline

LEMMA RecordHopTypes == ASSUME TypeInv, NEW r \in Runs, RecordHop(r) PROVE TypeInv'
<1>1. run[r].fp \in Engines
  BY RunTypes DEF TypeInv, StageOK, Started, RecordHop
<1>2. CASE run[r].verdict[run[r].idx] = "valid"
  <2> DEFINE s == [run[r] EXCEPT !.pc = "add"]
  <2>1. run' = [run EXCEPT ![r] = s]
    BY <1>2 DEF RecordHop, TypeInv, TypeOK
  <2>2. s \in RunStates(r) /\ s.fp = run[r].fp /\ s.idx = run[r].idx
    BY RunTypes, StageNames DEF RunStates
  <2>3. StageOK(r, s)
    BY <1>1, <2>2 DEF StageOK, RecordHop
  <2>4. QED BY <2>1, <2>2, <2>3, RunMovesOnly DEF RecordHop
<1>3. CASE run[r].verdict[run[r].idx] # "valid"
  <2> DEFINE s == [run[r] EXCEPT !.idx = @ + 1]
  <2>1. run' = [run EXCEPT ![r] = s]
    BY <1>3 DEF RecordHop, TypeInv, TypeOK
  <2>2. s \in RunStates(r) /\ s.fp = run[r].fp /\ s.pc = "record"
    BY RunTypes, StageNames DEF RunStates, RecordHop
  <2>3. StageOK(r, s)
    BY <1>1, <2>2 DEF StageOK
  <2>4. QED BY <2>1, <2>2, <2>3, RunMovesOnly DEF RecordHop
<1>4. QED BY <1>2, <1>3

LEMMA FinishTypes == ASSUME TypeInv, NEW r \in Runs, Finish(r) PROVE TypeInv'
<1> DEFINE s == [run[r] EXCEPT !.pc = "done"]
<1>1. run' = [run EXCEPT ![r] = s]
  BY DEF Finish, TypeInv, TypeOK
<1>2. run[r].fp \in Engines
  BY RunTypes DEF TypeInv, StageOK, Started, Finish
<1>3. s \in RunStates(r) /\ s.pc = "done" /\ s.fp = run[r].fp
  BY RunTypes, StageNames DEF RunStates
<1>4. StageOK(r, s)
  BY <1>2, <1>3 DEF StageOK
<1>5. QED BY <1>1, <1>3, <1>4, RunMovesOnly DEF Finish

LEMMA AddReturnsTypes == ASSUME TypeInv, NEW r \in Runs, AddReturns(r) PROVE TypeInv'
<1> DEFINE p == NextHop(r)
           s == [run[r] EXCEPT !.pc = p, !.idx = @ + 1]
<1>1. run' = [run EXCEPT ![r] = s]
  BY DEF AddReturns, TypeInv, TypeOK
<1>2. run[r].fp \in Engines
  BY RunTypes DEF TypeInv, StageOK, Started, AddReturns
<1>3. /\ p \in Stages /\ p \notin {"add", "append"}
      /\ run[r].idx + 1 \in Nat \ {0}
  BY NextHopType, StageNames, RunTypes
<1> HIDE DEF p
<1>4. s \in RunStates(r) /\ s.pc = p /\ s.fp = run[r].fp
  BY <1>3, RunTypes, ZenonT(40) DEF RunStates
<1>5. StageOK(r, s)
  BY <1>2, <1>3, <1>4 DEF StageOK
<1>6. QED BY <1>1, <1>4, <1>5, RunMovesOnly DEF AddReturns

LEMMA AddStaleTypes == ASSUME TypeInv, NEW r \in Runs, AddStale(r) PROVE TypeInv'
<1> DEFINE p == NextHop(r)
           s == [run[r] EXCEPT !.pc = p, !.idx = @ + 1,
                               !.stale = TRUE]
<1>1. run' = [run EXCEPT ![r] = s]
  BY DEF AddStale, TypeInv, TypeOK
<1>2. run[r].fp \in Engines
  BY RunTypes DEF TypeInv, StageOK, Started, AddStale
<1>3. /\ p \in Stages /\ p \notin {"add", "append"}
      /\ run[r].idx + 1 \in Nat \ {0}
  BY NextHopType, StageNames, RunTypes
<1> HIDE DEF p
<1>4. s \in RunStates(r) /\ s.pc = p /\ s.fp = run[r].fp
  BY <1>3, RunTypes, ZenonT(40) DEF RunStates
<1>5. StageOK(r, s)
  BY <1>2, <1>3, <1>4 DEF StageOK
<1>6. QED BY <1>1, <1>4, <1>5, RunMovesOnly DEF AddStale

LEMMA AppendFailsTypes == ASSUME TypeInv, NEW r \in Runs, AppendFails(r) PROVE TypeInv'
<1> DEFINE p == NextHop(r)
           s == [run[r] EXCEPT !.pc = p, !.idx = @ + 1,
                               !.created = FALSE]
<1>1. run' = [run EXCEPT ![r] = s]
  BY DEF AppendFails, AddEnds, TypeInv, TypeOK
<1>2. run[r].fp \in Engines
  BY RunTypes DEF TypeInv, StageOK, Started, AppendFails
<1>3. /\ p \in Stages /\ p \notin {"add", "append"}
      /\ run[r].idx + 1 \in Nat \ {0}
  BY NextHopType, StageNames, RunTypes
<1> HIDE DEF p
<1>4. s \in RunStates(r) /\ s.pc = p /\ s.fp = run[r].fp
  BY <1>3, RunTypes, ZenonT(40) DEF RunStates
<1>5. StageOK(r, s)
  BY <1>2, <1>3, <1>4 DEF StageOK
<1>6. QED BY <1>1, <1>4, <1>5, RunMovesOnly DEF AppendFails

LEMMA AppendBreaksTypes == ASSUME TypeInv, NEW r \in Runs, AppendBreaks(r) PROVE TypeInv'
<1> DEFINE p == NextHop(r)
           s == [run[r] EXCEPT !.pc = p, !.idx = @ + 1,
                               !.created = FALSE]
<1>1. run' = [run EXCEPT ![r] = s]
  BY DEF AppendBreaks, AddEnds, TypeInv, TypeOK
<1>2. run[r].fp \in Engines /\ run[r].idx \in HopIndices(r)
  BY RunTypes DEF TypeInv, StageOK, Started, AppendBreaks
<1>3. /\ p \in Stages /\ p \notin {"add", "append"}
      /\ run[r].idx + 1 \in Nat \ {0}
  BY NextHopType, StageNames, RunTypes
<1> HIDE DEF p
<1>4. s \in RunStates(r) /\ s.pc = p /\ s.fp = run[r].fp
  BY <1>3, RunTypes, ZenonT(40) DEF RunStates
<1>5. StageOK(r, s)
  BY <1>2, <1>3, <1>4 DEF StageOK
<1>6. upkeep' \in {"whole", "missed", "settled"} /\ present' = present \cup {run[r].fp}
  BY DEF AppendBreaks, Missed, TypeInv, TypeOK
<1>7. AddKey(r) \in Lines /\ Garbled \in Lines
  BY <1>2, HopType, DigestInjective DEF AddKey, Lines
<1>8. DirectoryOK'
  <2>1. CASE WriteNothing(r)
    <3>1. newer' \subseteq Engines \X Engines
      BY <1>2, <2>1 DEF WriteNothing, Touch, TypeInv, TypeOK
    <3>2. QED BY <1>2, <1>6, <2>1, <3>1 DEF WriteNothing, DirectoryOK, TypeInv, TypeOK
  <2>2. CASE Write(r, Garbled) /\ torn' = torn \cup {run[r].fp}
    BY <1>2, <1>6, <1>7, <2>2, WriteOK
  <2>3. CASE Write(r, AddKey(r)) /\ torn' \in {torn \cup {run[r].fp}, torn \ {run[r].fp}}
    BY <1>2, <1>6, <1>7, <2>3, WriteOK
  <2>4. QED BY <2>1, <2>2, <2>3 DEF AppendBreaks
<1>9. QED BY <1>1, <1>4, <1>5, <1>8, RunMoves DEF AppendBreaks

LEMMA PruneGlobTypes == ASSUME TypeInv, NEW r \in Runs, PruneGlob(r) PROVE TypeInv'
<1> DEFINE s == [run[r] EXCEPT !.pc = "stat", !.listed = present]
<1>1. run' = [run EXCEPT ![r] = s]
  BY DEF PruneGlob, TypeInv, TypeOK
<1>2. run[r].fp \in Engines
  BY RunTypes DEF TypeInv, StageOK, Started, PruneGlob
<1>0. present \in SUBSET Engines
  BY DEF TypeInv, TypeOK
<1>3. s \in RunStates(r) /\ s.pc = "stat" /\ s.fp = run[r].fp
  BY RunTypes, StageNames, <1>0, ZenonT(40) DEF RunStates
<1>4. StageOK(r, s)
  BY <1>2, <1>3 DEF StageOK
<1>5. QED BY <1>1, <1>3, <1>4, RunMovesOnly DEF PruneGlob

LEMMA PruneStatFailsTypes == ASSUME TypeInv, NEW r \in Runs, PruneStatFails(r) PROVE TypeInv'
<1> DEFINE p == NextHop(r)
           s == [run[r] EXCEPT !.pc = p, !.idx = @ + 1,
                               !.listed = {}]
<1>1. run' = [run EXCEPT ![r] = s]
  BY DEF PruneStatFails, TypeInv, TypeOK
<1>2. run[r].fp \in Engines
  BY RunTypes DEF TypeInv, StageOK, Started, PruneStatFails
<1>3. /\ p \in Stages /\ p \notin {"add", "append"}
      /\ run[r].idx + 1 \in Nat \ {0}
  BY NextHopType, StageNames, RunTypes
<1> HIDE DEF p
<1>4. s \in RunStates(r) /\ s.pc = p /\ s.fp = run[r].fp
  BY <1>3, RunTypes, ZenonT(40) DEF RunStates
<1>5. StageOK(r, s)
  BY <1>2, <1>3, <1>4 DEF StageOK
<1>6. QED BY <1>1, <1>4, <1>5, RunMovesOnly DEF PruneStatFails

LEMMA PruneFailsTypes == ASSUME TypeInv, NEW r \in Runs, PruneFails(r) PROVE TypeInv'
<1> DEFINE p == NextHop(r)
           s == [run[r] EXCEPT !.pc = p, !.idx = @ + 1,
                               !.listed = {}, !.victims = {}]
<1>1. run' = [run EXCEPT ![r] = s]
  BY DEF PruneFails, TypeInv, TypeOK
<1>2. run[r].fp \in Engines
  BY RunTypes DEF TypeInv, StageOK, Started, PruneFails
<1>3. /\ p \in Stages /\ p \notin {"add", "append"}
      /\ run[r].idx + 1 \in Nat \ {0}
  BY NextHopType, StageNames, RunTypes
<1> HIDE DEF p
<1>4. s \in RunStates(r) /\ s.pc = p /\ s.fp = run[r].fp
  BY <1>3, RunTypes, ZenonT(40) DEF RunStates
<1>5. StageOK(r, s)
  BY <1>2, <1>3, <1>4 DEF StageOK
<1>6. QED BY <1>1, <1>4, <1>5, RunMovesOnly DEF PruneFails

LEMMA PruneStatTypes == ASSUME TypeInv, NEW r \in Runs, PruneStat(r) PROVE TypeInv'
<1> DEFINE s == [run[r] EXCEPT !.pc = "unlink", !.victims = Victims(r),
                               !.listed = {}]
<1>1. run' = [run EXCEPT ![r] = s]
  BY DEF PruneStat, TypeInv, TypeOK
<1>2. run[r].fp \in Engines
  BY RunTypes DEF TypeInv, StageOK, Started, PruneStat
<1>0. Victims(r) \in SUBSET Engines
  BY RunTypes DEF Victims
<1>3. s \in RunStates(r) /\ s.pc = "unlink" /\ s.fp = run[r].fp
  BY RunTypes, StageNames, <1>0, ZenonT(40) DEF RunStates
<1>4. StageOK(r, s)
  BY <1>2, <1>3 DEF StageOK
<1>5. QED BY <1>1, <1>3, <1>4, RunMovesOnly DEF PruneStat

LEMMA TrimReadFailsTypes == ASSUME TypeInv, NEW r \in Runs, TrimReadFails(r) PROVE TypeInv'
<1> DEFINE p == NextHop(r)
           s == [run[r] EXCEPT !.pc = p, !.idx = @ + 1,
                               !.created = FALSE]
<1>1. run' = [run EXCEPT ![r] = s]
  BY DEF TrimReadFails, AddEnds, TypeInv, TypeOK
<1>2. run[r].fp \in Engines
  BY RunTypes DEF TypeInv, StageOK, Started, TrimReadFails
<1>3. /\ p \in Stages /\ p \notin {"add", "append"}
      /\ run[r].idx + 1 \in Nat \ {0}
  BY NextHopType, StageNames, RunTypes
<1> HIDE DEF p
<1>4. s \in RunStates(r) /\ s.pc = p /\ s.fp = run[r].fp
  BY <1>3, RunTypes, ZenonT(40) DEF RunStates
<1>5. StageOK(r, s)
  BY <1>2, <1>3, <1>4 DEF StageOK
<1>6. QED BY <1>1, <1>4, <1>5, RunMovesOnly DEF TrimReadFails

LEMMA TrimReplaceFailsTypes == ASSUME TypeInv, NEW r \in Runs, TrimReplaceFails(r) PROVE TypeInv'
<1> DEFINE p == NextHop(r)
           s == [run[r] EXCEPT !.pc = p, !.idx = @ + 1,
                               !.newest = <<>>]
<1>1. run' = [run EXCEPT ![r] = s]
  BY DEF TrimReplaceFails, TypeInv, TypeOK
<1>2. run[r].fp \in Engines
  BY RunTypes DEF TypeInv, StageOK, Started, TrimReplaceFails
<1>3. /\ p \in Stages /\ p \notin {"add", "append"}
      /\ run[r].idx + 1 \in Nat \ {0}
  BY NextHopType, StageNames, RunTypes
<1> HIDE DEF p
<1>4. s \in RunStates(r) /\ s.pc = p /\ s.fp = run[r].fp
  BY <1>3, EmptySeq, RunTypes, ZenonT(40) DEF RunStates
<1>5. StageOK(r, s)
  BY <1>2, <1>3, <1>4 DEF StageOK
<1>6. QED BY <1>1, <1>4, <1>5, RunMovesOnly DEF TrimReplaceFails

LEMMA AddKnownTypes == ASSUME TypeInv, NEW r \in Runs, AddKnown(r) PROVE TypeInv'
<1> DEFINE k == run[r].known \cup {AddKey(r)}
           s == [run[r] EXCEPT !.pc = "append", !.known = k,
                               !.created = run[r].fp \notin present]
<1>1. run' = [run EXCEPT ![r] = s]
  BY DEF AddKnown, TypeInv, TypeOK
<1>2. run[r].fp \in Engines /\ run[r].idx \in HopIndices(r)
  BY RunTypes DEF TypeInv, StageOK, Started, AddKnown
<1>3. k \in SUBSET Digests
  BY <1>2, HopType, DigestInjective, RunTypes DEF AddKey
<1> HIDE DEF k
<1>4. s \in RunStates(r) /\ s.fp = run[r].fp /\ s.idx = run[r].idx
  BY <1>3, RunTypes, StageNames, ZenonT(40) DEF RunStates
<1>5. StageOK(r, s)
  BY <1>2, <1>4 DEF StageOK
<1>6. QED BY <1>1, <1>4, <1>5, RunMovesOnly DEF AddKnown

LEMMA TouchType ==
    ASSUME TypeInv, NEW e \in Engines PROVE Touch(e) \subseteq Engines \X Engines
  BY DEF TypeInv, TypeOK, Touch

LEMMA AfterAddType ==
    ASSUME TypeInv, NEW r \in Runs, NEW n \in Nat, run[r].fp \in Engines
    PROVE  AfterAdd(r, n) \in RunStates(r) /\ StageOK(r, AfterAdd(r, n))
<1>1. CASE n > MaxEntries
  <2> DEFINE s == [run[r] EXCEPT !.pc = "trim", !.lines = n]
  <2>1. s \in RunStates(r) /\ s.fp = run[r].fp /\ s.pc = "trim"
    BY RunTypes, StageNames, ZenonT(40) DEF RunStates
  <2>2. StageOK(r, s)
    BY <2>1 DEF StageOK
  <2>3. QED BY <1>1, <2>1, <2>2 DEF AfterAdd
<1>2. CASE ~(n > MaxEntries)
  <2> DEFINE p == NextHop(r)
             s == [run[r] EXCEPT !.pc = p, !.lines = n, !.idx = @ + 1]
  <2>1. AfterAdd(r, n) = s
    BY <1>2 DEF AfterAdd
  <2>2. /\ p \in Stages /\ p \notin {"add", "append"}
        /\ run[r].idx + 1 \in Nat \ {0}
    BY NextHopType, StageNames, RunTypes
  <2> HIDE DEF p
  <2>3. s \in RunStates(r) /\ s.fp = run[r].fp /\ s.pc = p
    BY <2>2, RunTypes, ZenonT(40) DEF RunStates
  <2>4. StageOK(r, s)
    BY <2>2, <2>3 DEF StageOK
  <2>5. QED BY <2>1, <2>3, <2>4
<1>3. QED BY <1>1, <1>2

LEMMA AppendLineTypes == ASSUME TypeInv, NEW r \in Runs, AppendLine(r) PROVE TypeInv'
<1> DEFINE e == run[r].fp
           g == [run[r] EXCEPT !.pc = "glob", !.lines = @ + 1, !.created = FALSE]
           s == AfterAppend(r)
<1>1. run' = [run EXCEPT ![r] = s]
  BY DEF AppendLine
<1>2. e \in Engines /\ run[r].idx \in HopIndices(r)
  BY RunTypes DEF TypeInv, StageOK, Started, AppendLine
<1>3. run[r].lines + 1 \in Nat
  BY RunTypes
<1>4. g \in RunStates(r) /\ g.fp = run[r].fp /\ g.pc = "glob"
  BY <1>3, RunTypes, StageNames, ZenonT(40) DEF RunStates
<1>5. StageOK(r, g)
  BY <1>2, <1>4 DEF StageOK
<1>6. s \in RunStates(r) /\ StageOK(r, s)
  BY <1>2, <1>3, <1>4, <1>5, AfterAddType DEF AfterAppend
<1>7. AddKey(r) \in Lines
  BY <1>2, HopType, DigestInjective DEF AddKey, Lines
<1>8. DirectoryOK'
  <2>1. upkeep' \in {"whole", "missed", "settled"}
    BY DEF AppendLine, TypeInv, TypeOK
  <2>2. QED BY <1>2, <1>7, <2>1, WriteOK DEF AppendLine
<1>9. UNCHANGED <<sources, retired, worker>>
  BY DEF AppendLine
<1> HIDE DEF s
<1>10. QED BY <1>1, <1>6, <1>8, <1>9, RunMoves

LEMMA UnlinkTypes == ASSUME TypeInv, NEW r \in Runs, Unlink(r) PROVE TypeInv'
<1>1. PICK e \in run[r].victims :
        /\ present' = present \ {e}
        /\ content' = [content EXCEPT ![e] = <<>>]
        /\ torn' = torn \ {e}
        /\ newer' = {p \in newer : e \notin {p[1], p[2]}}
        /\ run' = [run EXCEPT ![r].victims = @ \ {e}]
  BY DEF Unlink
<1> DEFINE s == [run[r] EXCEPT !.victims = @ \ {e}]
<1>2. run' = [run EXCEPT ![r] = s]
  BY <1>1 DEF TypeInv, TypeOK
<1> DEFINE v == run[r].victims \ {e}
<1>9. run[r].pc = "unlink" /\ v \in SUBSET Engines
  BY RunTypes DEF Unlink
<1> HIDE DEF v
<1>10. s = [run[r] EXCEPT !.victims = v]
  BY DEF v
<1>3. s \in RunStates(r) /\ s.fp = run[r].fp /\ s.pc = "unlink"
  BY <1>9, <1>10, RunTypes, ZenonT(40) DEF RunStates
<1>4. StageOK(r, s)
  BY <1>3, RunTypes DEF StageOK, Started, TypeInv, Unlink
<1>5. present' \subseteq Engines /\ newer' \subseteq Engines \X Engines
      /\ torn' \subseteq present'
  BY <1>1 DEF TypeInv, TypeOK
<1>6. /\ content' \in [Engines -> Seq(Lines)]
      /\ \A f \in torn' : content'[f] # <<>>
  BY <1>1, EmptySeq DEF TypeInv, TypeOK
<1>7. DirectoryOK'
  BY <1>5, <1>6 DEF DirectoryOK, Unlink, TypeInv, TypeOK
<1>8. QED BY <1>2, <1>3, <1>4, <1>7, RunMoves DEF Unlink

LEMMA PruneEndsTypes == ASSUME TypeInv, NEW r \in Runs, PruneEnds(r) PROVE TypeInv'
<1> DEFINE s == AfterAdd(r, run[r].lines)
<1>1. run' = [run EXCEPT ![r] = s]
  BY DEF PruneEnds, TypeInv, TypeOK
<1>2. run[r].fp \in Engines
  BY RunTypes DEF TypeInv, StageOK, Started, PruneEnds
<1>3. s \in RunStates(r) /\ StageOK(r, s)
  BY <1>2, AfterAddType, RunTypes
<1> HIDE DEF s
<1>4. QED BY <1>1, <1>3, RunMovesOnly DEF PruneEnds

(* Trimming chooses among the digests in the file.                         *)
LEMMA NewestLines ==
    ASSUME NEW s \in Seq(Lines), NEW t \in Newest(s)
    PROVE  /\ t \in Seq(Digests)
           /\ \A i \in DOMAIN t : \E j \in Readable(s) : t[i] = s[j]
<1>1. TrimTo \in Nat
  BY LimitsAssumption
<1>2. IsFiniteSet(Entries(s)) /\ Entries(s) \subseteq Digests
  BY FileLines
<1>3. NewestLength(s) \in Nat
  BY <1>1, <1>2, FS_CardinalityType DEF NewestLength
<1>4. t \in [1..NewestLength(s) -> Entries(s)]
  BY DEF Newest
<1>5. \A d \in Entries(s) : d \in Digests /\ \E j \in Readable(s) : d = s[j]
  BY <1>2 DEF Entries, Readable
<1>6. QED BY <1>3, <1>4, <1>5

LEMMA TrimReadTypes == ASSUME TypeInv, NEW r \in Runs, TrimRead(r) PROVE TypeInv'
<1> DEFINE e == run[r].fp
<1>1. PICK t \in Newest(content[e]) :
        run' = [run EXCEPT ![r].pc = "replace", ![r].newest = t]
  BY DEF TrimRead
<1> DEFINE s == [run[r] EXCEPT !.pc = "replace", !.newest = t]
<1>2. run' = [run EXCEPT ![r] = s]
  BY <1>1 DEF TypeInv, TypeOK
<1>3. e \in Engines
  BY RunTypes DEF TypeInv, StageOK, Started, TrimRead
<1>4. t \in Seq(Digests)
  BY <1>3, NewestLines DEF TypeInv, TypeOK
<1>5. s \in RunStates(r) /\ s.fp = run[r].fp /\ s.pc = "replace"
  BY <1>4, RunTypes, StageNames, ZenonT(40) DEF RunStates
<1>6. StageOK(r, s)
  BY <1>3, <1>5 DEF StageOK
<1>7. QED BY <1>2, <1>5, <1>6, RunMovesOnly DEF TrimRead

LEMMA TrimReplaceTypes == ASSUME TypeInv, NEW r \in Runs, TrimReplace(r) PROVE TypeInv'
<1> DEFINE e == run[r].fp
           p == NextHop(r)
<1>1. PICK n \in {Len(run[r].newest), run[r].lines} :
        run' = [run EXCEPT ![r].pc = p, ![r].idx = @ + 1, ![r].lines = n,
                           ![r].newest = <<>>]
  BY DEF TrimReplace
<1> DEFINE s == [run[r] EXCEPT !.pc = p, !.idx = @ + 1, !.lines = n, !.newest = <<>>]
<1>2. run' = [run EXCEPT ![r] = s]
  BY <1>1 DEF TypeInv, TypeOK
<1>3. e \in Engines
  BY RunTypes DEF TypeInv, StageOK, Started, TrimReplace
<1>4. /\ p \in Stages /\ p \notin {"add", "append"}
      /\ run[r].idx + 1 \in Nat \ {0}
      /\ n \in Nat
  BY NextHopType, StageNames, RunTypes
<1>5. run[r].newest \in Seq(Lines)
  BY RunTypes DEF Lines
<1>6. /\ content' \in [Engines -> Seq(Lines)]
      /\ \A f \in torn' : content'[f] # <<>>
  BY <1>3, <1>5 DEF TrimReplace, TypeInv, TypeOK
<1>7. /\ present' \subseteq Engines /\ newer' \subseteq Engines \X Engines
      /\ torn' \subseteq present'
  BY <1>3, TouchType DEF TrimReplace, TypeInv, TypeOK
<1>8. DirectoryOK'
  BY <1>6, <1>7 DEF DirectoryOK, TrimReplace, TypeInv, TypeOK
<1> HIDE DEF p
<1>9. s \in RunStates(r) /\ s.fp = run[r].fp /\ s.pc = p
  BY <1>4, EmptySeq, RunTypes, ZenonT(40) DEF RunStates
<1>10. StageOK(r, s)
  BY <1>3, <1>4, <1>9 DEF StageOK
<1>11. QED BY <1>2, <1>8, <1>9, <1>10, RunMoves DEF TrimReplace

LEMMA IdleWorkerType ==
    ASSUME NEW r \in Runs
    PROVE  [w \in Workers |-> IdleWorker] \in [Workers -> WorkerStates(r)]
  BY DEF IdleWorker, WorkerStates, MaybeEngine

LEMMA PoolDoneTypes == ASSUME TypeInv, NEW r \in Runs, PoolDone(r) PROVE TypeInv'
<1> DEFINE s == [run[r] EXCEPT !.pc = "record"]
<1>1. run' = [run EXCEPT ![r] = s]
  BY DEF PoolDone, TypeInv, TypeOK
<1>2. s \in RunStates(r) /\ s.fp = run[r].fp /\ s.pc = "record"
  BY RunTypes, StageNames DEF RunStates
<1>3. StageOK(r, s)
  BY <1>2, RunTypes DEF StageOK, Started, TypeInv, PoolDone
<1>4. QED BY <1>1, <1>2, <1>3, IdleWorkerType, WorkersMove DEF PoolDone

LEMMA KillTypes == ASSUME TypeInv, NEW r \in Runs, Kill(r) PROVE TypeInv'
<1> DEFINE s == [run[r] EXCEPT !.pc = "killed"]
<1>1. run' = [run EXCEPT ![r] = s]
  BY DEF Kill, TypeInv, TypeOK
<1>2. s \in RunStates(r) /\ s.pc = "killed"
  BY RunTypes, StageNames DEF RunStates
<1>3. StageOK(r, s)
  BY <1>2 DEF StageOK, Started
<1>4. QED BY <1>1, <1>2, <1>3, IdleWorkerType, WorkersMove DEF Kill

LEMMA WorkerTypes ==
    ASSUME TypeInv, NEW r \in Runs, NEW w \in Workers
    PROVE  /\ worker[r] \in [Workers -> WorkerStates(r)]
           /\ worker[r][w] \in WorkerStates(r)
           /\ worker[r][w].loaded \in MaybeEngine
           /\ worker[r][w].fp \in MaybeEngine
           /\ worker[r][w].task \in HopIndices(r) \cup {0}
<1>1. worker[r] \in [Workers -> WorkerStates(r)]
  BY DEF TypeInv, TypeOK
<1>2. worker[r][w] \in WorkerStates(r)
  BY <1>1
<1>3. QED BY <1>1, <1>2 DEF WorkerStates

LEMMA WorkerTakeTypes ==
    ASSUME TypeInv, NEW r \in Runs, NEW w \in Workers, WorkerTake(r, w) PROVE TypeInv'
<1>1. PICK i \in HopIndices(r) : worker' = [worker EXCEPT ![r][w] = BusyWorker(r, w, i)]
  BY DEF WorkerTake
<1> DEFINE b == BusyWorker(r, w, i)
           ws == [worker[r] EXCEPT ![w] = b]
<1>2. worker' = [worker EXCEPT ![r] = ws]
  BY <1>1 DEF TypeInv, TypeOK
<1>3. sources \in MaybeEngine /\ NoEngine \in MaybeEngine
  BY DEF TypeInv, TypeOK, MaybeEngine
<1>4. b \in WorkerStates(r)
  BY <1>3, WorkerTypes, RunTypes DEF WorkerStates, BusyWorker
<1> HIDE DEF b
<1>5. ws \in [Workers -> WorkerStates(r)]
  BY <1>4, WorkerTypes
<1>6. run' = [run EXCEPT ![r] = run[r]]
  BY DEF WorkerTake, TypeInv, TypeOK
<1>7. run[r] \in RunStates(r) /\ StageOK(r, run[r])
  BY RunTypes DEF TypeInv
<1> HIDE DEF ws
<1>8. QED BY <1>2, <1>5, <1>6, <1>7, WorkersMove DEF WorkerTake

LEMMA WorkerReportTypes ==
    ASSUME TypeInv, NEW r \in Runs, NEW w \in Workers, WorkerReport(r, w) PROVE TypeInv'
<1> DEFINE i == worker[r][w].task
           v == Verdict(worker[r][w].loaded, Hop(r, i))
           vd == [run[r].verdict EXCEPT ![i] = v]
<1>1. PICK f \in WorkerFp(r, w) :
        /\ run' = [run EXCEPT ![r].verdict[i] = v, ![r].by[i] = f]
        /\ worker' = [worker EXCEPT ![r][w].task = 0, ![r][w].fp = f]
  BY DEF WorkerReport
<1> DEFINE bd == [run[r].by EXCEPT ![i] = f]
           s == [run[r] EXCEPT !.verdict = vd, !.by = bd]
           b == [worker[r][w] EXCEPT !.task = 0, !.fp = f]
           ws == [worker[r] EXCEPT ![w] = b]
<1>2. run' = [run EXCEPT ![r] = s]
  BY <1>1 DEF TypeInv, TypeOK
<1>3. worker' = [worker EXCEPT ![r] = ws]
  BY <1>1, WorkerTypes DEF TypeInv, TypeOK
<1>4. f \in MaybeEngine
  BY WorkerTypes DEF WorkerFp, TypeInv, TypeOK, MaybeEngine
<1>5. vd \in [HopIndices(r) -> Verdicts] /\ bd \in [HopIndices(r) -> MaybeEngine]
  BY <1>4, RunTypes DEF Verdict, Verdicts
<1>6. b \in WorkerStates(r)
  BY <1>4, WorkerTypes DEF WorkerStates
<1> HIDE DEF vd, bd, b
<1>7. ws \in [Workers -> WorkerStates(r)]
  BY <1>6, WorkerTypes
<1>8. run[r].pc = "pool"
  BY DEF WorkerReport
<1>9. s \in RunStates(r) /\ s.fp = run[r].fp /\ s.pc = "pool"
  BY <1>5, <1>8, RunTypes DEF RunStates
<1>10. StageOK(r, s)
  BY <1>8, <1>9, RunTypes DEF StageOK, Started, TypeInv
<1> HIDE DEF ws, s
<1>11. QED BY <1>2, <1>3, <1>7, <1>9, <1>10, WorkersMove DEF WorkerReport

LEMMA EditTypes == ASSUME TypeInv, NEW e \in Engines, Edit(e) PROVE TypeInv'
  BY DEF Edit, TypeInv, TypeOK, StageOK, RunStates, WorkerStates, HopIndices

LEMMA InitTypes == Init => TypeInv
<1> SUFFICES ASSUME Init PROVE TypeInv
  OBVIOUS
<1>1. ASSUME NEW r \in Runs PROVE IdleRun(r) \in RunStates(r)
  <2> DEFINE vd == [i \in HopIndices(r) |-> "pending"]
             bd == [i \in HopIndices(r) |-> NoEngine]
  <2>1. vd \in [HopIndices(r) -> Verdicts] /\ bd \in [HopIndices(r) -> MaybeEngine]
    BY DEF Verdicts, MaybeEngine
  <2>2. NoEngine \in MaybeEngine /\ "idle" \in Stages
    BY DEF MaybeEngine, Stages
  <2> HIDE DEF vd, bd
  <2>3. IdleRun(r) =
          [pc |-> "idle", mode |-> "sequential", quiet |-> FALSE,
           loaded |-> NoEngine, fp |-> NoEngine,
           known |-> {}, lines |-> 0, stale |-> FALSE, idx |-> 1,
           verdict |-> vd, by |-> bd,
           created |-> FALSE, listed |-> {}, victims |-> {}, newest |-> <<>>]
    BY DEF IdleRun, vd, bd
  <2>4. QED BY <2>1, <2>2, <2>3, EmptySeq DEF RunStates
<1>2. \A r \in Runs : run[r] = IdleRun(r) /\ run[r].pc = "idle"
  BY DEF Init, IdleRun
<1>3. \A r \in Runs : StageOK(r, run[r])
  BY <1>2 DEF StageOK, Started
<1>4. \A r \in Runs : worker[r] \in [Workers -> WorkerStates(r)]
  BY IdleWorkerType DEF Init
<1>5. TypeOK
  BY <1>1, <1>2, <1>4, PriorAssumption DEF TypeOK, Init
<1>6. QED BY <1>3, <1>5 DEF TypeInv

LEMMA StepTypes == TypeInv /\ [Next]_vars => TypeInv'
<1> SUFFICES ASSUME TypeInv, [Next]_vars PROVE TypeInv'
  OBVIOUS
<1>1. CASE UNCHANGED vars
  BY <1>1 DEF vars, TypeInv, TypeOK, StageOK, RunStates, WorkerStates, HopIndices
<1>2. ASSUME NEW r \in Runs, Import(r) \/ Open(r) \/ Kill(r) PROVE TypeInv'
  BY <1>2, ImportTypes, OpenTypes, KillTypes
<1>3. ASSUME NEW r \in Runs, Check(r) PROVE TypeInv'
  BY <1>3, HopHitTypes, HopCheckTypes, LookupAllTypes, LookupAllInlineTypes,
     PoolDoneTypes, RecordHopTypes, FinishTypes DEF Check
<1>4. ASSUME NEW r \in Runs, Add(r) PROVE TypeInv'
  BY <1>4, AddReturnsTypes, AddStaleTypes, AddKnownTypes, AppendLineTypes,
     AppendFailsTypes, AppendBreaksTypes DEF Add
<1>5. ASSUME NEW r \in Runs, Prune(r) PROVE TypeInv'
  BY <1>5, PruneGlobTypes, PruneStatFailsTypes, PruneFailsTypes, PruneStatTypes, UnlinkTypes,
     PruneEndsTypes DEF Prune
<1>6. ASSUME NEW r \in Runs, Trim(r) PROVE TypeInv'
  BY <1>6, TrimReadTypes, TrimReadFailsTypes, TrimReplaceTypes,
     TrimReplaceFailsTypes DEF Trim
<1>7. ASSUME NEW r \in Runs, WorkerStep(r) PROVE TypeInv'
  BY <1>7, WorkerTakeTypes, WorkerReportTypes DEF WorkerStep
<1>8. ASSUME NEW e \in Engines, Edit(e) PROVE TypeInv'
  BY <1>8, EditTypes
<1>9. QED BY <1>1, <1>2, <1>3, <1>4, <1>5, <1>6, <1>7, <1>8 DEF Next, RunStep

(* Every reachable state is well typed, whatever the constants: runs,      *)
(* workers and the environment only ever store what belongs into a         *)
(* variable, and `add` is only entered with a fingerprint and a hop.       *)
THEOREM TypeCorrect == Spec => []TypeOK
<1>1. TypeInv => TypeOK
  BY DEF TypeInv
<1>2. QED BY <1>1, InitTypes, StepTypes, PTL DEF Spec

-------------------------------------------------------------------------------
(* Soundness of the cache.                                                 *)

SoundDigest(e, d) == d.engine = e /\ HopOf(d) \in Accepts[e]

(* A run in state s only holds sound digests in its hands: what it knows,  *)
(* what it is about to append and what it keeps when trimming.  It runs    *)
(* the engine it is fingerprinted as, and a fingerprint that is no longer  *)
(* that of the sources is retired (unless the sources can go back).        *)
RunSound(r, s) ==
    /\ s.pc = "open" => s.loaded = sources
    /\ s.pc \in {"idle", "open"} =>
          /\ s.newest = <<>>
          /\ \A i \in HopIndices(r) : s.verdict[i] = "pending"
    /\ \/ s.loaded = s.fp
       \/ s.pc \notin Started /\ \A i \in HopIndices(r) : s.verdict[i] = "pending"
    /\ ~Reverts /\ s.pc \in Started /\ s.fp # sources => s.fp \in retired
    /\ \A d \in s.known : SoundDigest(s.fp, d)
    /\ \A i \in DOMAIN s.newest : SoundDigest(s.fp, s.newest[i])
    /\ \A i \in HopIndices(r) : s.verdict[i] = "cached" => Hop(r, i) \in Accepts[s.fp]
    /\ \A i \in HopIndices(r) :
          s.verdict[i] = "valid" /\ (s.mode = "parallel" => s.by[i] = s.fp)
              => Hop(r, i) \in Accepts[s.fp]
    /\ s.pc \in {"lookup", "pool"} => s.mode = "parallel"
    /\ s.pc = "add" => s.verdict[s.idx] = "valid"
    /\ s.pc = "append" => Digest(s.fp, Hop(r, s.idx)) \in s.known

(* A worker whose code is not the run's engine does not claim the run's    *)
(* fingerprint, nor can it still come by it: either no edit can intervene, *)
(* or the run's version is retired for good.                               *)
WorkerSound(s, x) ==
    /\ s.pc # "pool" => x.loaded = NoEngine
    /\ x.task # 0 => x.loaded # NoEngine
    /\ x.loaded \notin {NoEngine, s.fp} =>
          /\ x.fp # s.fp
          /\ x.fp = NoEngine =>
                \/ "worker" \notin EditWindows /\ x.loaded = sources
                \/ ~Reverts /\ s.fp \in retired

Sound ==
    /\ CacheSound
    /\ ~Reverts => sources \notin retired
    /\ \A r \in Runs : RunSound(r, run[r])
    /\ \A r \in Runs : \A w \in Workers : WorkerSound(run[r], worker[r][w])

(* What RunSound looks at besides a run's position.                        *)
SameCore(s, t) ==
    /\ s.loaded = t.loaded /\ s.fp = t.fp /\ s.known = t.known
    /\ s.verdict = t.verdict /\ s.by = t.by /\ s.mode = t.mode

LEMMA RunMovesSound ==
    ASSUME TypeInv, Sound, NEW r \in Runs, run[r].pc # "pool",
           RunSound(r, run'[r]),
           \A q \in Runs \ {r} : run'[q] = run[q],
           \A e \in Engines : SoundFile(e, content'[e]),
           UNCHANGED <<sources, retired, worker>>
    PROVE  Sound'
<1>1. CacheSound'
  BY DEF CacheSound, SoundFile, Readable
<1>2. (~Reverts => sources \notin retired)'
  BY DEF Sound
<1>3. ASSUME NEW q \in Runs PROVE RunSound(q, run[q])'
  <2>1. RunSound(q, run'[q])
    BY DEF Sound
  <2>2. QED BY <2>1 DEF RunSound, HopIndices, Hop, SoundDigest, Digest, HopOf
<1>4. ASSUME NEW q \in Runs, NEW w \in Workers
      PROVE  WorkerSound(run[q], worker[q][w])'
  <2>1. CASE q = r
    BY <2>1, WorkerTypes DEF Sound, WorkerSound
  <2>2. CASE q # r
    BY <2>2 DEF Sound, WorkerSound
  <2>3. QED BY <2>1, <2>2
<1>5. QED BY <1>1, <1>2, <1>3, <1>4 DEF Sound

LEMMA CoreKept ==
    ASSUME TypeInv, Sound, NEW r \in Runs, run[r].pc \in Started \ {"pool"},
           SameCore(run'[r], run[r]),
           run'[r].newest \in {run[r].newest, <<>>},
           run'[r].pc \in Stages \ {"idle", "open", "lookup", "pool", "add", "append"},
           \A q \in Runs \ {r} : run'[q] = run[q],
           \A e \in Engines : SoundFile(e, content'[e]),
           UNCHANGED <<sources, retired, worker>>
    PROVE  Sound'
<1>1. RunSound(r, run'[r])
  BY DEF Sound, RunSound, SameCore, Started
<1>2. QED BY <1>1, RunMovesSound, StageNames

LEMMA FilesKept ==
    ASSUME Sound, UNCHANGED content
    PROVE  \A e \in Engines : SoundFile(e, content'[e])
  BY DEF Sound, CacheSound

LEMMA FinishSound ==
    ASSUME TypeInv, Sound, NEW r \in Runs, Finish(r) PROVE Sound'
<1>1. run[r].pc \in Started \ {"pool"} /\ run[r] \in RunStates(r)
  BY RunTypes, StageNames DEF Finish, Started
<1>2. SameCore(run'[r], run[r]) /\ run'[r].newest \in {run[r].newest, <<>>}
  BY <1>1 DEF Finish, SameCore, RunStates, TypeInv, TypeOK
<1>3. run'[r].pc \in Stages \ {"idle", "open", "lookup", "pool", "add", "append"}
  BY <1>1, NextHopType, StageNames DEF Finish, RunStates, TypeInv, TypeOK
<1>4. \A q \in Runs \ {r} : run'[q] = run[q]
  BY DEF Finish, TypeInv, TypeOK
<1>5. QED BY <1>1, <1>2, <1>3, <1>4, FilesKept, CoreKept DEF Finish

LEMMA AddReturnsSound ==
    ASSUME TypeInv, Sound, NEW r \in Runs, AddReturns(r) PROVE Sound'
<1>1. run[r].pc \in Started \ {"pool"} /\ run[r] \in RunStates(r)
  BY RunTypes, StageNames DEF AddReturns, Started
<1>2. SameCore(run'[r], run[r]) /\ run'[r].newest \in {run[r].newest, <<>>}
  BY <1>1 DEF AddReturns, SameCore, RunStates, TypeInv, TypeOK
<1>3. run'[r].pc \in Stages \ {"idle", "open", "lookup", "pool", "add", "append"}
  BY <1>1, NextHopType, StageNames DEF AddReturns, RunStates, TypeInv, TypeOK
<1>4. \A q \in Runs \ {r} : run'[q] = run[q]
  BY DEF AddReturns, TypeInv, TypeOK
<1>5. QED BY <1>1, <1>2, <1>3, <1>4, FilesKept, CoreKept DEF AddReturns

LEMMA AddStaleSound ==
    ASSUME TypeInv, Sound, NEW r \in Runs, AddStale(r) PROVE Sound'
<1>1. run[r].pc \in Started \ {"pool"} /\ run[r] \in RunStates(r)
  BY RunTypes, StageNames DEF AddStale, Started
<1>2. SameCore(run'[r], run[r]) /\ run'[r].newest \in {run[r].newest, <<>>}
  BY <1>1 DEF AddStale, SameCore, RunStates, TypeInv, TypeOK
<1>3. run'[r].pc \in Stages \ {"idle", "open", "lookup", "pool", "add", "append"}
  BY <1>1, NextHopType, StageNames DEF AddStale, RunStates, TypeInv, TypeOK
<1>4. \A q \in Runs \ {r} : run'[q] = run[q]
  BY DEF AddStale, TypeInv, TypeOK
<1>5. QED BY <1>1, <1>2, <1>3, <1>4, FilesKept, CoreKept DEF AddStale

LEMMA AppendFailsSound ==
    ASSUME TypeInv, Sound, NEW r \in Runs, AppendFails(r) PROVE Sound'
<1>1. run[r].pc \in Started \ {"pool"} /\ run[r] \in RunStates(r)
  BY RunTypes, StageNames DEF AppendFails, Started
<1>2. SameCore(run'[r], run[r]) /\ run'[r].newest \in {run[r].newest, <<>>}
  BY <1>1 DEF AppendFails, AddEnds, SameCore, RunStates, TypeInv, TypeOK
<1>3. run'[r].pc \in Stages \ {"idle", "open", "lookup", "pool", "add", "append"}
  BY <1>1, NextHopType, StageNames DEF AppendFails, AddEnds, RunStates, TypeInv, TypeOK
<1>4. \A q \in Runs \ {r} : run'[q] = run[q]
  BY DEF AppendFails, AddEnds, TypeInv, TypeOK
<1>5. QED BY <1>1, <1>2, <1>3, <1>4, FilesKept, CoreKept DEF AppendFails

LEMMA PruneGlobSound ==
    ASSUME TypeInv, Sound, NEW r \in Runs, PruneGlob(r) PROVE Sound'
<1>1. run[r].pc \in Started \ {"pool"} /\ run[r] \in RunStates(r)
  BY RunTypes, StageNames DEF PruneGlob, Started
<1>2. SameCore(run'[r], run[r]) /\ run'[r].newest \in {run[r].newest, <<>>}
  BY <1>1 DEF PruneGlob, SameCore, RunStates, TypeInv, TypeOK
<1>3. run'[r].pc \in Stages \ {"idle", "open", "lookup", "pool", "add", "append"}
  BY <1>1, NextHopType, StageNames DEF PruneGlob, RunStates, TypeInv, TypeOK
<1>4. \A q \in Runs \ {r} : run'[q] = run[q]
  BY DEF PruneGlob, TypeInv, TypeOK
<1>5. QED BY <1>1, <1>2, <1>3, <1>4, FilesKept, CoreKept DEF PruneGlob

LEMMA PruneStatFailsSound ==
    ASSUME TypeInv, Sound, NEW r \in Runs, PruneStatFails(r) PROVE Sound'
<1>1. run[r].pc \in Started \ {"pool"} /\ run[r] \in RunStates(r)
  BY RunTypes, StageNames DEF PruneStatFails, Started
<1>2. SameCore(run'[r], run[r]) /\ run'[r].newest \in {run[r].newest, <<>>}
  BY <1>1 DEF PruneStatFails, SameCore, RunStates, TypeInv, TypeOK
<1>3. run'[r].pc \in Stages \ {"idle", "open", "lookup", "pool", "add", "append"}
  BY <1>1, NextHopType, StageNames DEF PruneStatFails, RunStates, TypeInv, TypeOK
<1>4. \A q \in Runs \ {r} : run'[q] = run[q]
  BY DEF PruneStatFails, TypeInv, TypeOK
<1>5. QED BY <1>1, <1>2, <1>3, <1>4, FilesKept, CoreKept DEF PruneStatFails

LEMMA PruneFailsSound ==
    ASSUME TypeInv, Sound, NEW r \in Runs, PruneFails(r) PROVE Sound'
<1>1. run[r].pc \in Started \ {"pool"} /\ run[r] \in RunStates(r)
  BY RunTypes, StageNames DEF PruneFails, Started
<1>2. SameCore(run'[r], run[r]) /\ run'[r].newest \in {run[r].newest, <<>>}
  BY <1>1 DEF PruneFails, SameCore, RunStates, TypeInv, TypeOK
<1>3. run'[r].pc \in Stages \ {"idle", "open", "lookup", "pool", "add", "append"}
  BY <1>1, NextHopType, StageNames DEF PruneFails, RunStates, TypeInv, TypeOK
<1>4. \A q \in Runs \ {r} : run'[q] = run[q]
  BY DEF PruneFails, TypeInv, TypeOK
<1>5. QED BY <1>1, <1>2, <1>3, <1>4, FilesKept, CoreKept DEF PruneFails

LEMMA PruneStatSound ==
    ASSUME TypeInv, Sound, NEW r \in Runs, PruneStat(r) PROVE Sound'
<1>1. run[r].pc \in Started \ {"pool"} /\ run[r] \in RunStates(r)
  BY RunTypes, StageNames DEF PruneStat, Started
<1>2. SameCore(run'[r], run[r]) /\ run'[r].newest \in {run[r].newest, <<>>}
  BY <1>1 DEF PruneStat, SameCore, RunStates, TypeInv, TypeOK
<1>3. run'[r].pc \in Stages \ {"idle", "open", "lookup", "pool", "add", "append"}
  BY <1>1, NextHopType, StageNames DEF PruneStat, RunStates, TypeInv, TypeOK
<1>4. \A q \in Runs \ {r} : run'[q] = run[q]
  BY DEF PruneStat, TypeInv, TypeOK
<1>5. QED BY <1>1, <1>2, <1>3, <1>4, FilesKept, CoreKept DEF PruneStat

LEMMA PruneEndsSound ==
    ASSUME TypeInv, Sound, NEW r \in Runs, PruneEnds(r) PROVE Sound'
<1>1. run[r].pc \in Started \ {"pool"} /\ run[r] \in RunStates(r)
  BY RunTypes, StageNames DEF PruneEnds, Started
<1>2. SameCore(run'[r], run[r]) /\ run'[r].newest \in {run[r].newest, <<>>}
  BY <1>1 DEF PruneEnds, AfterAdd, SameCore, RunStates, TypeInv, TypeOK
<1>3. run'[r].pc \in Stages \ {"idle", "open", "lookup", "pool", "add", "append"}
  BY <1>1, NextHopType, StageNames DEF PruneEnds, AfterAdd, RunStates, TypeInv, TypeOK
<1>4. \A q \in Runs \ {r} : run'[q] = run[q]
  BY DEF PruneEnds, AfterAdd, TypeInv, TypeOK
<1>5. QED BY <1>1, <1>2, <1>3, <1>4, FilesKept, CoreKept DEF PruneEnds

LEMMA TrimReadFailsSound ==
    ASSUME TypeInv, Sound, NEW r \in Runs, TrimReadFails(r) PROVE Sound'
<1>1. run[r].pc \in Started \ {"pool"} /\ run[r] \in RunStates(r)
  BY RunTypes, StageNames DEF TrimReadFails, Started
<1>2. SameCore(run'[r], run[r]) /\ run'[r].newest \in {run[r].newest, <<>>}
  BY <1>1 DEF TrimReadFails, AddEnds, SameCore, RunStates, TypeInv, TypeOK
<1>3. run'[r].pc \in Stages \ {"idle", "open", "lookup", "pool", "add", "append"}
  BY <1>1, NextHopType, StageNames DEF TrimReadFails, AddEnds, RunStates, TypeInv, TypeOK
<1>4. \A q \in Runs \ {r} : run'[q] = run[q]
  BY DEF TrimReadFails, AddEnds, TypeInv, TypeOK
<1>5. QED BY <1>1, <1>2, <1>3, <1>4, FilesKept, CoreKept DEF TrimReadFails

LEMMA TrimReplaceFailsSound ==
    ASSUME TypeInv, Sound, NEW r \in Runs, TrimReplaceFails(r) PROVE Sound'
<1>1. run[r].pc \in Started \ {"pool"} /\ run[r] \in RunStates(r)
  BY RunTypes, StageNames DEF TrimReplaceFails, Started
<1>2. SameCore(run'[r], run[r]) /\ run'[r].newest \in {run[r].newest, <<>>}
  BY <1>1 DEF TrimReplaceFails, SameCore, RunStates, TypeInv, TypeOK
<1>3. run'[r].pc \in Stages \ {"idle", "open", "lookup", "pool", "add", "append"}
  BY <1>1, NextHopType, StageNames DEF TrimReplaceFails, RunStates, TypeInv, TypeOK
<1>4. \A q \in Runs \ {r} : run'[q] = run[q]
  BY DEF TrimReplaceFails, TypeInv, TypeOK
<1>5. QED BY <1>1, <1>2, <1>3, <1>4, FilesKept, CoreKept DEF TrimReplaceFails

LEMMA UnlinkSound ==
    ASSUME TypeInv, Sound, NEW r \in Runs, Unlink(r) PROVE Sound'
<1>1. run[r].pc \in Started \ {"pool"} /\ run[r] \in RunStates(r)
  BY RunTypes, StageNames DEF Unlink, Started
<1>2. PICK e \in run[r].victims :
        /\ content' = [content EXCEPT ![e] = <<>>]
        /\ run' = [run EXCEPT ![r].victims = @ \ {e}]
  BY DEF Unlink
<1>3. SameCore(run'[r], run[r]) /\ run'[r].newest = run[r].newest
  BY <1>1, <1>2 DEF SameCore, RunStates, TypeInv, TypeOK
<1>4. run'[r].pc \in Stages \ {"idle", "open", "lookup", "pool", "add", "append"}
  BY <1>1, <1>2, StageNames DEF Unlink, RunStates, TypeInv, TypeOK
<1>5. \A q \in Runs \ {r} : run'[q] = run[q]
  BY <1>2 DEF TypeInv, TypeOK
<1>6. \A f \in Engines : SoundFile(f, content'[f])
  <2>1. \A f \in Engines : content'[f] = content[f] \/ content'[f] = <<>>
    BY <1>2 DEF TypeInv, TypeOK
  <2>2. QED BY <2>1 DEF SoundFile, Readable, Sound, CacheSound
<1>7. QED BY <1>1, <1>3, <1>4, <1>5, <1>6, CoreKept DEF Unlink

LEMMA WriteSound ==
    ASSUME TypeInv, Sound, NEW r \in Runs, run[r].fp \in Engines,
           NEW line \in Lines, line # Garbled => SoundDigest(run[r].fp, line),
           Write(r, line)
    PROVE  \A f \in Engines : SoundFile(f, content'[f])
<1>1. PICK e \in Engines : e = run[r].fp
  OBVIOUS
<1>2. PICK c, s : c = content[e] /\ s = Extended(c, e, line)
  OBVIOUS
<1>3. SoundFile(e, c)
  BY <1>2 DEF Sound, CacheSound
<1>4. \A i \in DOMAIN s : KeepsOrIs(s, c, i, line)
  BY <1>2, ExtendedType
<1>5. SoundFile(e, s)
  BY <1>1, <1>3, <1>4 DEF SoundFile, Readable, SoundDigest, KeepsOrIs
<1>6. content' = [content EXCEPT ![e] = s]
  BY <1>1, <1>2 DEF Write
<1>7. QED BY <1>5, <1>6 DEF Sound, CacheSound, TypeInv, TypeOK

LEMMA AppendLineSound ==
    ASSUME TypeInv, Sound, NEW r \in Runs, AppendLine(r) PROVE Sound'
<1> DEFINE e == run[r].fp
<1>1. run[r].pc \in Started \ {"pool"} /\ run[r] \in RunStates(r) /\ e \in Engines
  BY RunTypes, StageNames DEF AppendLine, Started, TypeInv, StageOK
<1>2. SameCore(run'[r], run[r]) /\ run'[r].newest = run[r].newest
  BY <1>1 DEF AppendLine, AfterAppend, AfterAdd, SameCore, RunStates, TypeInv, TypeOK
<1>3. run'[r].pc \in Stages \ {"idle", "open", "lookup", "pool", "add", "append"}
  BY <1>1, NextHopType, StageNames, ZenonT(40)
     DEF AppendLine, AfterAppend, AfterAdd, RunStates, TypeInv, TypeOK
<1>4. \A q \in Runs \ {r} : run'[q] = run[q]
  BY DEF AppendLine, TypeInv, TypeOK
<1>5. SoundDigest(e, AddKey(r)) /\ AddKey(r) \in Lines
  <2>1. AddKey(r) \in run[r].known
    BY DEF Sound, RunSound, AppendLine, AddKey
  <2>2. QED BY <2>1, RunTypes DEF Sound, RunSound, Lines
<1>6. \A f \in Engines : SoundFile(f, content'[f])
  BY <1>1, <1>5, WriteSound DEF AppendLine
<1>7. UNCHANGED <<sources, retired, worker>>
  BY DEF AppendLine
<1>8. QED BY <1>1, <1>2, <1>3, <1>4, <1>6, <1>7, CoreKept

LEMMA AppendBreaksSound ==
    ASSUME TypeInv, Sound, NEW r \in Runs, AppendBreaks(r) PROVE Sound'
<1> DEFINE e == run[r].fp
<1>1. run[r].pc \in Started \ {"pool"} /\ run[r] \in RunStates(r) /\ e \in Engines
  BY RunTypes, StageNames DEF AppendBreaks, Started, TypeInv, StageOK
<1>2. SameCore(run'[r], run[r]) /\ run'[r].newest = run[r].newest
  BY <1>1 DEF AppendBreaks, AddEnds, SameCore, RunStates, TypeInv, TypeOK
<1>3. run'[r].pc \in Stages \ {"idle", "open", "lookup", "pool", "add", "append"}
  BY <1>1, NextHopType, StageNames DEF AppendBreaks, AddEnds, RunStates, TypeInv, TypeOK
<1>4. \A q \in Runs \ {r} : run'[q] = run[q]
  BY DEF AppendBreaks, AddEnds, TypeInv, TypeOK
<1>5. SoundDigest(e, AddKey(r)) /\ AddKey(r) \in Lines
  <2>1. AddKey(r) \in run[r].known
    BY DEF Sound, RunSound, AppendBreaks, AddKey
  <2>2. QED BY <2>1, RunTypes DEF Sound, RunSound, Lines
<1>6. \A f \in Engines : SoundFile(f, content'[f])
  <2>1. CASE WriteNothing(r)
    BY <2>1, FilesKept DEF WriteNothing
  <2>2. CASE Write(r, Garbled)
    <3>1. Garbled \in Lines
      BY DEF Lines
    <3>2. QED BY <1>1, <2>2, <3>1, WriteSound
  <2>3. CASE Write(r, AddKey(r))
    BY <1>1, <1>5, <2>3, WriteSound
  <2>4. QED BY <2>1, <2>2, <2>3 DEF AppendBreaks
<1>7. UNCHANGED <<sources, retired, worker>>
  BY DEF AppendBreaks
<1>8. QED BY <1>1, <1>2, <1>3, <1>4, <1>6, <1>7, CoreKept

LEMMA TrimReadSound ==
    ASSUME TypeInv, Sound, NEW r \in Runs, TrimRead(r) PROVE Sound'
<1> DEFINE e == run[r].fp
<1>1. run[r].pc \in Started \ {"pool"} /\ run[r] \in RunStates(r) /\ e \in Engines
  BY RunTypes, StageNames DEF TrimRead, Started, TypeInv, StageOK
<1>2. PICK t \in Newest(content[e]) :
        run' = [run EXCEPT ![r].pc = "replace", ![r].newest = t]
  BY DEF TrimRead
<1>3. \A i \in DOMAIN t : SoundDigest(e, t[i])
  <2>1. content[e] \in Seq(Lines) /\ SoundFile(e, content[e])
    BY <1>1 DEF TypeInv, TypeOK, Sound, CacheSound
  <2>2. \A i \in DOMAIN t : \E j \in Readable(content[e]) : t[i] = content[e][j]
    BY <2>1, NewestLines
  <2>3. QED BY <2>1, <2>2 DEF SoundFile, SoundDigest
<1>4. /\ SameCore(run'[r], run[r]) /\ run'[r].newest = t /\ run'[r].pc = "replace"
      /\ \A q \in Runs \ {r} : run'[q] = run[q]
  BY <1>1, <1>2 DEF SameCore, RunStates, TypeInv, TypeOK
<1>5. RunSound(r, run'[r])
  BY <1>1, <1>3, <1>4, StageNames DEF Sound, RunSound, SameCore, Started
<1>6. UNCHANGED <<sources, retired, worker, content>> /\ run[r].pc # "pool"
  BY DEF TrimRead
<1>7. QED BY <1>4, <1>5, <1>6, FilesKept, RunMovesSound

LEMMA TrimReplaceSound ==
    ASSUME TypeInv, Sound, NEW r \in Runs, TrimReplace(r) PROVE Sound'
<1> DEFINE e == run[r].fp
<1>1. run[r].pc \in Started \ {"pool"} /\ run[r] \in RunStates(r) /\ e \in Engines
  BY RunTypes, StageNames DEF TrimReplace, Started, TypeInv, StageOK
<1>0. PICK n : run' = [run EXCEPT ![r].pc = NextHop(r), ![r].idx = @ + 1,
                                  ![r].lines = n, ![r].newest = <<>>]
  BY DEF TrimReplace
<1>2. SameCore(run'[r], run[r]) /\ run'[r].newest = <<>>
  BY <1>0, <1>1 DEF SameCore, RunStates, TypeInv, TypeOK
<1>3. run'[r].pc \in Stages \ {"idle", "open", "lookup", "pool", "add", "append"}
  BY <1>0, <1>1, NextHopType, StageNames DEF RunStates, TypeInv, TypeOK
<1>4. \A q \in Runs \ {r} : run'[q] = run[q]
  BY <1>0 DEF TypeInv, TypeOK
<1>5. SoundFile(e, run[r].newest)
  BY DEF Sound, RunSound, SoundDigest, SoundFile, Readable
<1>6. \A f \in Engines : SoundFile(f, content'[f])
  BY <1>1, <1>5 DEF TrimReplace, Sound, CacheSound, TypeInv, TypeOK
<1>7. UNCHANGED <<sources, retired, worker>>
  BY DEF TrimReplace
<1>8. QED BY <1>1, <1>2, <1>3, <1>4, <1>6, <1>7, CoreKept

LEMMA RecordHopSound ==
    ASSUME TypeInv, Sound, NEW r \in Runs, RecordHop(r) PROVE Sound'
<1>1. run[r].pc = "record" /\ run[r] \in RunStates(r)
  BY RunTypes DEF RecordHop
<1>2. /\ SameCore(run'[r], run[r]) /\ run'[r].newest = run[r].newest
      /\ \A q \in Runs \ {r} : run'[q] = run[q]
  BY <1>1 DEF RecordHop, SameCore, RunStates, TypeInv, TypeOK
<1>3. \/ run'[r].pc = "record"
      \/ run'[r].pc = "add" /\ run'[r].idx = run[r].idx
         /\ run[r].verdict[run[r].idx] = "valid"
  BY <1>1 DEF RecordHop, RunStates, TypeInv, TypeOK
<1>4. RunSound(r, run'[r])
  BY <1>1, <1>2, <1>3, StageNames DEF Sound, RunSound, SameCore, Started
<1>5. QED BY <1>1, <1>2, <1>4, FilesKept, RunMovesSound DEF RecordHop

(* The heart of `add`: what is recorded was verified by the run's engine.  *)
LEMMA AddKnownSound ==
    ASSUME TypeInv, Sound, NEW r \in Runs, AddKnown(r) PROVE Sound'
<1> DEFINE e == run[r].fp
           i == run[r].idx
<1>1. /\ run[r].pc = "add" /\ run[r] \in RunStates(r)
      /\ e \in Engines /\ i \in HopIndices(r)
  BY RunTypes DEF AddKnown, TypeInv, StageOK, Started
<1>2. /\ run'[r].pc = "append" /\ run'[r].idx = i
      /\ run'[r].known = run[r].known \cup {AddKey(r)}
      /\ run'[r].loaded = run[r].loaded /\ run'[r].fp = e
      /\ run'[r].verdict = run[r].verdict /\ run'[r].by = run[r].by
      /\ run'[r].mode = run[r].mode /\ run'[r].newest = run[r].newest
      /\ \A q \in Runs \ {r} : run'[q] = run[q]
  BY <1>1 DEF AddKnown, RunStates, TypeInv, TypeOK
<1>3. Hop(r, i) \in Accepts[e]
  <2>1. run[r].verdict[i] = "valid"
    BY <1>1 DEF Sound, RunSound
  <2>2. run[r].mode = "parallel" => run[r].by[i] = e
    BY DEF AddKnown, AddRefused, VerifiedByOther
  <2>3. QED BY <1>1, <2>1, <2>2 DEF Sound, RunSound
<1>4. SoundDigest(e, AddKey(r))
  BY <1>1, <1>3, HopType, DigestInjective DEF SoundDigest, AddKey
<1>5. \A d \in run'[r].known : SoundDigest(e, d)
  BY <1>2, <1>4 DEF Sound, RunSound
<1>6. Digest(e, Hop(r, i)) \in run'[r].known
  BY <1>2 DEF AddKey
<1>7. RunSound(r, run'[r])
  BY <1>1, <1>2, <1>5, <1>6, StageNames DEF Sound, RunSound, Started
<1>8. QED BY <1>1, <1>2, <1>7, FilesKept, RunMovesSound DEF AddKnown

(* A hit is sound: the digest tells the engine and the hop.                *)
LEMMA HitSound ==
    ASSUME TypeInv, Sound, NEW r \in Runs, NEW i \in HopIndices(r), IsHit(r, i),
           run[r].fp \in Engines
    PROVE  Hop(r, i) \in Accepts[run[r].fp]
<1>1. SoundDigest(run[r].fp, Digest(run[r].fp, Hop(r, i)))
  BY DEF Sound, RunSound, IsHit
<1>2. QED BY <1>1, HopType, DigestInjective DEF SoundDigest

LEMMA HopHitSound ==
    ASSUME TypeInv, Sound, NEW r \in Runs, HopHit(r) PROVE Sound'
<1> DEFINE i == run[r].idx
<1>1. /\ run[r].pc = "hop" /\ run[r] \in RunStates(r)
      /\ run[r].fp \in Engines /\ i \in HopIndices(r)
      /\ run[r].verdict \in [HopIndices(r) -> Verdicts]
  BY RunTypes, StageNames DEF HopHit, TypeInv, StageOK, Started
<1>2. /\ run'[r].pc = "hop" /\ run'[r].known = run[r].known
      /\ run'[r].loaded = run[r].loaded /\ run'[r].fp = run[r].fp
      /\ run'[r].verdict = [run[r].verdict EXCEPT ![i] = "cached"]
      /\ run'[r].by = run[r].by
      /\ run'[r].mode = run[r].mode /\ run'[r].newest = run[r].newest
      /\ \A q \in Runs \ {r} : run'[q] = run[q]
  BY <1>1 DEF HopHit, RunStates, TypeInv, TypeOK
<1>3. Hop(r, i) \in Accepts[run[r].fp]
  BY <1>1, HitSound DEF HopHit
<1>4. RunSound(r, run'[r])
  BY <1>1, <1>2, <1>3, StageNames DEF Sound, RunSound, Started
<1>5. QED BY <1>1, <1>2, <1>4, FilesKept, RunMovesSound DEF HopHit

LEMMA VerdictSound ==
    ASSUME NEW e, NEW h
    PROVE  /\ Verdict(e, h) = "valid" => h \in Accepts[e]
           /\ Verdict(e, h) # "cached"
  BY DEF Verdict

LEMMA HopCheckSound ==
    ASSUME TypeInv, Sound, NEW r \in Runs, HopCheck(r) PROVE Sound'
<1> DEFINE i == run[r].idx
           v == Verdict(run[r].loaded, Hop(r, i))
<1>1. /\ run[r].pc = "hop" /\ run[r] \in RunStates(r) /\ i \in HopIndices(r)
      /\ run[r].verdict \in [HopIndices(r) -> Verdicts]
  BY RunTypes DEF HopCheck
<1>2. /\ run'[r].known = run[r].known
      /\ run'[r].loaded = run[r].loaded /\ run'[r].fp = run[r].fp
      /\ run'[r].verdict = [run[r].verdict EXCEPT ![i] = v]
      /\ run'[r].by = run[r].by
      /\ run'[r].mode = run[r].mode /\ run'[r].newest = run[r].newest
      /\ \A q \in Runs \ {r} : run'[q] = run[q]
  BY <1>1 DEF HopCheck, RunStates, TypeInv, TypeOK
<1>3. \/ run'[r].pc = "hop"
      \/ run'[r].pc = "add" /\ run'[r].idx = i /\ v = "valid"
  BY <1>1 DEF HopCheck, RunStates, TypeInv, TypeOK
<1>4. run[r].loaded = run[r].fp
  BY <1>1, StageNames DEF Sound, RunSound, Started
<1>5. /\ v = "valid" => Hop(r, i) \in Accepts[run[r].fp]
      /\ v # "cached"
  BY <1>4, VerdictSound
<1> HIDE DEF v
<1>6. RunSound(r, run'[r])
  BY <1>1, <1>2, <1>3, <1>5, StageNames DEF Sound, RunSound, Started
<1>7. QED BY <1>1, <1>2, <1>6, FilesKept, RunMovesSound DEF HopCheck

LEMMA LookupAllSound ==
    ASSUME TypeInv, Sound, NEW r \in Runs, LookupAll(r) PROVE Sound'
<1> DEFINE vd == [i \in HopIndices(r) |-> IF i \in Tasks(r) THEN "pending" ELSE "cached"]
<1>1. /\ run[r].pc = "lookup" /\ run[r] \in RunStates(r) /\ run[r].fp \in Engines
  BY RunTypes, StageNames DEF LookupAll, TypeInv, StageOK, Started
<1>2. /\ run'[r].pc = "pool" /\ run'[r].known = run[r].known
      /\ run'[r].loaded = run[r].loaded /\ run'[r].fp = run[r].fp
      /\ run'[r].verdict = vd /\ run'[r].mode = run[r].mode
      /\ run'[r].newest = run[r].newest
      /\ \A q \in Runs \ {r} : run'[q] = run[q]
  BY <1>1 DEF LookupAll, RunStates, TypeInv, TypeOK
<1>3. \A i \in HopIndices(r) :
        /\ vd[i] # "valid"
        /\ vd[i] = "cached" => Hop(r, i) \in Accepts[run[r].fp]
  BY <1>1, HitSound DEF Tasks
<1> HIDE DEF vd
<1>4. RunSound(r, run'[r])
  BY <1>1, <1>2, <1>3, StageNames DEF Sound, RunSound, Started
<1>5. QED BY <1>1, <1>2, <1>4, FilesKept, RunMovesSound DEF LookupAll

LEMMA LookupAllInlineSound ==
    ASSUME TypeInv, Sound, NEW r \in Runs, LookupAllInline(r) PROVE Sound'
<1> DEFINE vd == [i \in HopIndices(r) |->
                     IF i \in Tasks(r) THEN Verdict(run[r].loaded, Hop(r, i)) ELSE "cached"]
<1>1. /\ run[r].pc = "lookup" /\ run[r] \in RunStates(r) /\ run[r].fp \in Engines
  BY RunTypes, StageNames DEF LookupAllInline, TypeInv, StageOK, Started
<1>2. /\ run'[r].pc = "record" /\ run'[r].known = run[r].known
      /\ run'[r].loaded = run[r].loaded /\ run'[r].fp = run[r].fp
      /\ run'[r].verdict = vd /\ run'[r].mode = run[r].mode
      /\ run'[r].newest = run[r].newest
      /\ \A q \in Runs \ {r} : run'[q] = run[q]
  BY <1>1 DEF LookupAllInline, RunStates, TypeInv, TypeOK
<1>3. run[r].loaded = run[r].fp
  BY <1>1, StageNames DEF Sound, RunSound, Started
<1>4. \A i \in HopIndices(r) :
        /\ vd[i] = "valid" => Hop(r, i) \in Accepts[run[r].fp]
        /\ vd[i] = "cached" => Hop(r, i) \in Accepts[run[r].fp]
  BY <1>1, <1>3, HitSound, VerdictSound DEF Tasks
<1> HIDE DEF vd
<1>5. RunSound(r, run'[r])
  BY <1>1, <1>2, <1>4, StageNames DEF Sound, RunSound, Started
<1>6. QED BY <1>1, <1>2, <1>5, FilesKept, RunMovesSound DEF LookupAllInline

LEMMA ImportSound ==
    ASSUME TypeInv, Sound, NEW r \in Runs, Import(r) PROVE Sound'
<1>1. run[r].pc = "idle" /\ run[r] \in RunStates(r)
  BY RunTypes DEF Import
<1>2. /\ run'[r].pc = "open" /\ run'[r].loaded = sources
      /\ run'[r].fp = run[r].fp /\ run'[r].known = run[r].known
      /\ run'[r].verdict = run[r].verdict /\ run'[r].newest = run[r].newest
      /\ \A q \in Runs \ {r} : run'[q] = run[q]
  BY <1>1 DEF Import, RunStates, TypeInv, TypeOK
<1>3. RunSound(r, run'[r])
  BY <1>1, <1>2 DEF Sound, RunSound, Started
<1>4. QED BY <1>1, <1>2, <1>3, FilesKept, RunMovesSound DEF Import

LEMMA OpenSound ==
    ASSUME TypeInv, Sound, NEW r \in Runs, Open(r) PROVE Sound'
<1>1. run[r].pc = "open" /\ run[r] \in RunStates(r)
  BY RunTypes DEF Open
<1>2. PICK m \in Modes, q \in BOOLEAN, read \in FileRead(sources) :
        run' = [run EXCEPT ![r].pc = IF m = "parallel" THEN "lookup" ELSE "hop",
                           ![r].mode = m,
                           ![r].quiet = q,
                           ![r].fp = sources,
                           ![r].known = Entries(read),
                           ![r].lines = Cardinality(Readable(read))]
  BY DEF Open
<1>3. /\ run'[r].pc \in {"lookup", "hop"}
      /\ run'[r].pc = "lookup" => run'[r].mode = "parallel"
      /\ run'[r].loaded = run[r].loaded /\ run'[r].fp = sources
      /\ run'[r].known = Entries(read)
      /\ run'[r].verdict = run[r].verdict /\ run'[r].newest = run[r].newest
      /\ \A p \in Runs \ {r} : run'[p] = run[p]
  BY <1>1, <1>2 DEF RunStates, TypeInv, TypeOK
<1>4. \A d \in run'[r].known : SoundDigest(sources, d)
  <2>1. read = content[sources] \/ read = <<>>
    BY DEF FileRead
  <2>2. SoundFile(sources, content[sources]) /\ SoundFile(sources, <<>>)
    BY DEF Sound, CacheSound, SoundFile, Readable, TypeInv, TypeOK
  <2>3. \A d \in Entries(read) : \E i \in Readable(read) : d = read[i]
    BY DEF Entries, Readable
  <2>4. QED BY <1>3, <2>1, <2>2, <2>3 DEF SoundFile, SoundDigest
<1>5. run[r].newest = <<>>
  BY <1>1 DEF Sound, RunSound
<1>6. RunSound(r, run'[r])
  BY <1>1, <1>3, <1>4, <1>5 DEF Sound, RunSound, Started
<1>7. QED BY <1>1, <1>3, <1>6, FilesKept, RunMovesSound DEF Open

(* The pool is gone: every worker of r is idle again.                      *)
LEMMA WorkersGoneSound ==
    ASSUME TypeInv, Sound, NEW r \in Runs,
           RunSound(r, run'[r]),
           \A q \in Runs \ {r} : run'[q] = run[q],
           worker' = [worker EXCEPT ![r] = [w \in Workers |-> IdleWorker]],
           UNCHANGED <<sources, retired, content>>
    PROVE  Sound'
<1>1. CacheSound'
  BY DEF Sound, CacheSound, SoundFile, Readable
<1>2. (~Reverts => sources \notin retired)'
  BY DEF Sound
<1>3. ASSUME NEW q \in Runs PROVE RunSound(q, run[q])'
  <2>1. RunSound(q, run'[q])
    BY DEF Sound
  <2>2. QED BY <2>1 DEF RunSound, HopIndices, Hop, SoundDigest, Digest, HopOf
<1>4. ASSUME NEW q \in Runs, NEW w \in Workers
      PROVE  WorkerSound(run[q], worker[q][w])'
  <2>1. CASE q = r
    <3>1. worker'[r][w] = IdleWorker
      BY DEF TypeInv, TypeOK
    <3>2. QED BY <2>1, <3>1 DEF IdleWorker, WorkerSound
  <2>2. CASE q # r
    <3>1. worker'[q] = worker[q]
      BY <2>2 DEF TypeInv, TypeOK
    <3>2. QED BY <2>2, <3>1 DEF Sound, WorkerSound
  <2>3. QED BY <2>1, <2>2
<1>5. QED BY <1>1, <1>2, <1>3, <1>4 DEF Sound

LEMMA PoolDoneSound ==
    ASSUME TypeInv, Sound, NEW r \in Runs, PoolDone(r) PROVE Sound'
<1>1. run[r].pc = "pool" /\ run[r] \in RunStates(r)
  BY RunTypes DEF PoolDone
<1>2. /\ SameCore(run'[r], run[r]) /\ run'[r].newest = run[r].newest
      /\ run'[r].pc = "record"
      /\ \A q \in Runs \ {r} : run'[q] = run[q]
  BY <1>1 DEF PoolDone, SameCore, RunStates, TypeInv, TypeOK
<1>3. RunSound(r, run'[r])
  BY <1>1, <1>2, StageNames DEF Sound, RunSound, SameCore, Started
<1>4. QED BY <1>2, <1>3, WorkersGoneSound DEF PoolDone

LEMMA KillSound ==
    ASSUME TypeInv, Sound, NEW r \in Runs, Kill(r) PROVE Sound'
<1>1. run[r] \in RunStates(r)
  BY RunTypes
<1>2. /\ SameCore(run'[r], run[r]) /\ run'[r].newest = run[r].newest
      /\ run'[r].pc = "killed"
      /\ \A q \in Runs \ {r} : run'[q] = run[q]
  BY <1>1 DEF Kill, SameCore, RunStates, TypeInv, TypeOK
<1>3. RunSound(r, run'[r])
  BY <1>2, StageNames DEF Sound, RunSound, SameCore, Started
<1>4. QED BY <1>2, <1>3, WorkersGoneSound DEF Kill

LEMMA WorkersMoveSound ==
    ASSUME TypeInv, Sound, NEW r \in Runs, NEW w \in Workers,
           RunSound(r, run'[r]),
           run'[r].fp = run[r].fp, run'[r].pc = "pool", run[r].pc = "pool",
           WorkerSound(run[r], worker'[r][w]),
           \A q \in Runs \ {r} : run'[q] = run[q],
           \A q \in Runs, x \in Workers :
               <<q, x>> # <<r, w>> => worker'[q][x] = worker[q][x],
           UNCHANGED <<sources, retired, content>>
    PROVE  Sound'
<1>1. CacheSound'
  BY DEF Sound, CacheSound, SoundFile, Readable
<1>2. (~Reverts => sources \notin retired)'
  BY DEF Sound
<1>3. ASSUME NEW q \in Runs PROVE RunSound(q, run[q])'
  <2>1. RunSound(q, run'[q])
    BY DEF Sound
  <2>2. QED BY <2>1 DEF RunSound, HopIndices, Hop, SoundDigest, Digest, HopOf
<1>4. ASSUME NEW q \in Runs, NEW x \in Workers
      PROVE  WorkerSound(run[q], worker[q][x])'
  <2>1. CASE <<q, x>> = <<r, w>>
    BY <2>1 DEF WorkerSound
  <2>2. CASE <<q, x>> # <<r, w>>
    <3>1. worker'[q][x] = worker[q][x] /\ run'[q].pc = run[q].pc /\ run'[q].fp = run[q].fp
      BY <2>2
    <3>2. WorkerSound(run[q], worker[q][x])
      BY DEF Sound
    <3>3. QED BY <3>1, <3>2 DEF WorkerSound
  <2>3. QED BY <2>1, <2>2
<1>5. QED BY <1>1, <1>2, <1>3, <1>4 DEF Sound

LEMMA WorkerTakeSound ==
    ASSUME SoundEnvironment, TypeInv, Sound,
           NEW r \in Runs, NEW w \in Workers, WorkerTake(r, w)
    PROVE  Sound'
<1>1. PICK i \in HopIndices(r) : worker' = [worker EXCEPT ![r][w] = BusyWorker(r, w, i)]
  BY DEF WorkerTake
<1>2. /\ worker'[r][w] = BusyWorker(r, w, i)
      /\ \A q \in Runs, x \in Workers :
            <<q, x>> # <<r, w>> => worker'[q][x] = worker[q][x]
  BY <1>1, WorkerTypes DEF TypeInv, TypeOK
<1>3. run' = run /\ run[r].pc = "pool" /\ UNCHANGED <<sources, retired, content>>
  BY DEF WorkerTake
<1>4. RunSound(r, run[r]) /\ run[r].loaded = run[r].fp
  BY <1>3, StageNames DEF Sound, RunSound, Started
<1>5. run[r].fp \in Engines /\ run[r].fp # NoEngine /\ sources # NoEngine
  BY <1>3, RunTypes, EnginesAssumption DEF TypeInv, TypeOK, StageOK, Started
<1>6. WorkerSound(run[r], worker[r][w]) /\ worker[r][w] \in WorkerStates(r)
  BY WorkerTypes DEF Sound
<1>7. WorkerSound(run[r], BusyWorker(r, w, i))
  <2>1. CASE worker[r][w].loaded # NoEngine
    <3>1. BusyWorker(r, w, i) = [worker[r][w] EXCEPT !.task = i]
      BY <2>1 DEF BusyWorker
    <3>2. /\ BusyWorker(r, w, i).loaded = worker[r][w].loaded
          /\ BusyWorker(r, w, i).fp = worker[r][w].fp
      BY <1>6, <3>1 DEF WorkerStates
    <3>3. QED BY <1>3, <1>6, <2>1, <3>2 DEF WorkerSound
  <2>2. CASE worker[r][w].loaded = NoEngine /\ StartMethod = "fork"
    <3>1. BusyWorker(r, w, i) = [loaded |-> run[r].loaded, fp |-> run[r].fp, task |-> i]
      BY <2>2 DEF BusyWorker
    <3>2. QED BY <1>3, <1>4, <1>5, <3>1 DEF WorkerSound
  <2>3. CASE worker[r][w].loaded = NoEngine /\ StartMethod # "fork"
    <3>1. BusyWorker(r, w, i) = [loaded |-> sources, fp |-> NoEngine, task |-> i]
      BY <2>3 DEF BusyWorker
    <3>2. ~Reverts /\ sources # run[r].fp => run[r].fp \in retired
      BY <1>3, <1>4, StageNames DEF RunSound, Started
    <3>3. StartMethod = "spawn"
      BY <2>3, ModesAssumption
    <3>4. QED BY <1>3, <1>5, <3>1, <3>2, <3>3 DEF WorkerSound, SoundEnvironment
  <2>4. QED BY <2>1, <2>2, <2>3
<1>8. QED BY <1>2, <1>3, <1>4, <1>7, WorkersMoveSound

LEMMA WorkerReportSound ==
    ASSUME TypeInv, Sound, NEW r \in Runs, NEW w \in Workers, WorkerReport(r, w)
    PROVE  Sound'
<1> DEFINE i == worker[r][w].task
           l == worker[r][w].loaded
           v == Verdict(l, Hop(r, i))
<1>1. PICK f \in WorkerFp(r, w) :
        /\ run' = [run EXCEPT ![r].verdict[i] = v, ![r].by[i] = f]
        /\ worker' = [worker EXCEPT ![r][w].task = 0, ![r][w].fp = f]
  BY DEF WorkerReport
<1>2. /\ run[r].pc = "pool" /\ UNCHANGED <<sources, retired, content>>
      /\ run[r] \in RunStates(r) /\ worker[r][w] \in WorkerStates(r)
      /\ i \in HopIndices(r) /\ l # NoEngine
      /\ WorkerSound(run[r], worker[r][w])
  BY RunTypes, WorkerTypes DEF WorkerReport, Sound, WorkerSound
<1>3. /\ run'[r].verdict = [run[r].verdict EXCEPT ![i] = v]
      /\ run'[r].by = [run[r].by EXCEPT ![i] = f]
      /\ run'[r].pc = "pool" /\ run'[r].known = run[r].known
      /\ run'[r].loaded = run[r].loaded /\ run'[r].fp = run[r].fp
      /\ run'[r].mode = run[r].mode /\ run'[r].newest = run[r].newest
      /\ \A q \in Runs \ {r} : run'[q] = run[q]
  BY <1>1, <1>2 DEF RunStates, TypeInv, TypeOK
<1>4. /\ worker'[r][w].loaded = l /\ worker'[r][w].fp = f /\ worker'[r][w].task = 0
      /\ \A q \in Runs, x \in Workers :
            <<q, x>> # <<r, w>> => worker'[q][x] = worker[q][x]
  BY <1>1, <1>2, WorkerTypes DEF WorkerStates, TypeInv, TypeOK
<1>5. l # run[r].fp => f # run[r].fp
  <2>1. SUFFICES ASSUME l # run[r].fp PROVE f # run[r].fp
    OBVIOUS
  <2>2. CASE worker[r][w].fp # NoEngine
    BY <1>2, <2>1, <2>2 DEF WorkerFp, WorkerSound
  <2>3. CASE worker[r][w].fp = NoEngine
    <3>1. f \in {sources, NoEngine}
      BY <2>3 DEF WorkerFp
    <3>2. run[r].fp # NoEngine
      BY <1>2, RunTypes, StageNames, EnginesAssumption DEF TypeInv, StageOK, Started
    <3>3. sources # run[r].fp
      BY <1>2, <2>1, <2>3 DEF WorkerSound, Sound
    <3>4. QED BY <3>1, <3>2, <3>3
  <2>4. QED BY <2>2, <2>3
<1>6. WorkerSound(run[r], worker'[r][w])
  <2>1. f = NoEngine => worker[r][w].fp = NoEngine
    BY DEF WorkerFp
  <2>2. QED BY <1>2, <1>4, <1>5, <2>1 DEF WorkerSound
<1>7. RunSound(r, run'[r])
  <2>1. /\ run[r].verdict \in [HopIndices(r) -> Verdicts]
        /\ run[r].by \in [HopIndices(r) -> MaybeEngine]
    BY RunTypes
  <2>2. /\ v # "cached"
        /\ v = "valid" /\ f = run[r].fp => Hop(r, i) \in Accepts[run[r].fp]
    BY <1>5, VerdictSound
  <2>3. run[r].mode = "parallel"
    BY <1>2 DEF Sound, RunSound
  <2> HIDE DEF v
  <2>4. QED BY <1>2, <1>3, <2>1, <2>2, <2>3, StageNames DEF Sound, RunSound, Started
<1>8. QED BY <1>2, <1>3, <1>4, <1>6, <1>7, WorkersMoveSound

LEMMA EditSound ==
    ASSUME SoundEnvironment, TypeInv, Sound, NEW e \in Engines, Edit(e)
    PROVE  Sound'
<1>1. UNCHANGED <<content, run, worker>>
  BY DEF Edit
<1>2. /\ sources' = e /\ e # sources /\ retired \subseteq retired'
      /\ ~Reverts => retired' = retired \cup {sources} /\ e \notin retired
  BY DEF Edit
<1>3. CacheSound'
  BY <1>1 DEF Sound, CacheSound, SoundFile, Readable
<1>4. (~Reverts => sources \notin retired)'
  BY <1>2 DEF Edit, Sound
<1>5. ASSUME NEW r \in Runs PROVE RunSound(r, run[r])'
  <2>1. run[r].pc # "open"
    BY DEF Edit, RunWindow, SoundEnvironment
  <2>2. RunSound(r, run[r])
    BY DEF Sound
  <2>3. QED BY <1>1, <1>2, <2>1, <2>2 DEF RunSound, HopIndices, Hop, SoundDigest, Digest, HopOf
<1>6. ASSUME NEW r \in Runs, NEW w \in Workers
      PROVE  WorkerSound(run[r], worker[r][w])'
  <2>1. WorkerSound(run[r], worker[r][w])
    BY DEF Sound
  <2>2. "worker" \in EditWindows \/ worker[r][w].loaded = NoEngine \/ worker[r][w].fp # NoEngine
    BY DEF Edit, WorkerWindow
  <2>3. QED BY <1>1, <1>2, <2>1, <2>2 DEF WorkerSound
<1>7. QED BY <1>3, <1>4, <1>5, <1>6 DEF Sound

LEMMA InitSound == Init => Sound
<1> SUFFICES ASSUME Init PROVE Sound
  OBVIOUS
<1>1. CacheSound
  BY PriorAssumption DEF Init, CacheSound
<1>2. sources \notin retired
  BY DEF Init
<1>3. ASSUME NEW r \in Runs PROVE RunSound(r, run[r])
  <2>1. run[r] = IdleRun(r)
    BY DEF Init
  <2>2. /\ run[r].pc = "idle" /\ run[r].loaded = run[r].fp
        /\ run[r].known = {} /\ run[r].newest = <<>>
        /\ run[r].verdict = [i \in HopIndices(r) |-> "pending"]
    BY <2>1 DEF IdleRun
  <2>3. QED BY <2>2 DEF RunSound, Started
<1>4. ASSUME NEW r \in Runs, NEW w \in Workers PROVE WorkerSound(run[r], worker[r][w])
  <2>1. worker[r][w] = IdleWorker
    BY DEF Init
  <2>2. QED BY <2>1 DEF IdleWorker, WorkerSound
<1>5. QED BY <1>1, <1>2, <1>3, <1>4 DEF Sound

LEMMA StepSound ==
    ASSUME SoundEnvironment PROVE TypeInv /\ Sound /\ [Next]_vars => Sound'
<1> SUFFICES ASSUME TypeInv, Sound, [Next]_vars PROVE Sound'
  OBVIOUS
<1>1. CASE UNCHANGED vars
  <2>1. UNCHANGED <<sources, retired, content, run, worker>>
    BY <1>1 DEF vars
  <2>2. CacheSound'
    BY <2>1 DEF Sound, CacheSound, SoundFile, Readable
  <2>3. QED BY <2>1, <2>2 DEF Sound, RunSound, WorkerSound,
                              HopIndices, Hop, SoundDigest, Digest, HopOf
<1>2. ASSUME NEW r \in Runs, Import(r) \/ Open(r) \/ Kill(r) PROVE Sound'
  BY <1>2, ImportSound, OpenSound, KillSound
<1>3. ASSUME NEW r \in Runs, Check(r) PROVE Sound'
  BY <1>3, HopHitSound, HopCheckSound, LookupAllSound, LookupAllInlineSound,
     PoolDoneSound, RecordHopSound, FinishSound DEF Check
<1>4. ASSUME NEW r \in Runs, Add(r) PROVE Sound'
  BY <1>4, AddReturnsSound, AddStaleSound, AddKnownSound, AppendLineSound,
     AppendFailsSound, AppendBreaksSound DEF Add
<1>5. ASSUME NEW r \in Runs, Prune(r) PROVE Sound'
  BY <1>5, PruneGlobSound, PruneStatFailsSound, PruneFailsSound, PruneStatSound, UnlinkSound,
     PruneEndsSound DEF Prune
<1>6. ASSUME NEW r \in Runs, Trim(r) PROVE Sound'
  BY <1>6, TrimReadSound, TrimReadFailsSound, TrimReplaceSound,
     TrimReplaceFailsSound DEF Trim
<1>7. ASSUME NEW r \in Runs, WorkerStep(r) PROVE Sound'
  BY <1>7, WorkerTakeSound, WorkerReportSound DEF WorkerStep
<1>8. ASSUME NEW e \in Engines, Edit(e) PROVE Sound'
  BY <1>8, EditSound
<1>9. QED BY <1>1, <1>2, <1>3, <1>4, <1>5, <1>6, <1>7, <1>8 DEF Next, RunStep

(* Whatever runs, pool workers, edits, kills and file errors do to each    *)
(* other, and however small the limits, a cache file only lists hops that  *)
(* its engine verifies -- provided no edit falls between the import and    *)
(* the fingerprint of a run (the run "start" shows what happens else), nor *)
(* of a worker unless versions never return.                               *)
THEOREM CacheCorrect ==
    ASSUME SoundEnvironment
    PROVE  Spec => []CacheSound
<1>1. TypeInv /\ Sound => CacheSound
  BY DEF Sound
<1>2. Init => TypeInv /\ Sound
  BY InitTypes, InitSound
<1>3. TypeInv /\ Sound /\ [Next]_vars => TypeInv' /\ Sound'
  BY StepTypes, StepSound
<1>4. QED BY <1>1, <1>2, <1>3, PTL DEF Spec

(* In the same environment a verdict served from the cache is the one the  *)
(* run's own code would give (_hop_cache_hit).                             *)
THEOREM VerdictCorrect ==
    ASSUME SoundEnvironment
    PROVE  Spec => []CachedVerdictSound
<1>1. TypeInv /\ Sound => CachedVerdictSound
  <2> SUFFICES ASSUME Sound PROVE CachedVerdictSound
    OBVIOUS
  <2>1. ASSUME NEW r \in Runs, NEW i \in HopIndices(r), run[r].verdict[i] = "cached"
        PROVE  Hop(r, i) \in Accepts[run[r].loaded]
    BY <2>1 DEF Sound, RunSound
  <2>2. QED BY <2>1 DEF CachedVerdictSound
<1>2. Init => TypeInv /\ Sound
  BY InitTypes, InitSound
<1>3. TypeInv /\ Sound /\ [Next]_vars => TypeInv' /\ Sound'
  BY StepTypes, StepSound
<1>4. QED BY <1>1, <1>2, <1>3, PTL DEF Spec
-------------------------------------------------------------------------------
(* The cache is transparent.  A run judges each of its hops once: where it *)
(* stands tells which ones are still to be judged.                         *)

Adding == {"add", "append", "glob", "stat", "unlink", "trim", "replace"}

RunFresh(r, s) ==
    /\ s.pc = "idle" => s.loaded = NoEngine
    /\ s.pc = "lookup" => \A i \in HopIndices(r) : s.verdict[i] = "pending"
    /\ s.pc = "hop" => s.mode = "sequential"
    /\ s.pc = "record" => s.mode = "parallel"
    /\ s.pc \in {"hop"} \cup Adding /\ s.mode = "sequential" =>
          \A i \in HopIndices(r) :
              i > s.idx \/ (i = s.idx /\ s.pc = "hop") => s.verdict[i] = "pending"

(* Workers with the code of their run, each with a pending task of its own. *)
WorkersFresh(s, ws) ==
    \A w \in Workers :
        /\ ws[w].loaded \in {NoEngine, s.loaded}
        /\ ws[w].task # 0 =>
              /\ s.verdict[ws[w].task] = "pending"
              /\ \A x \in Workers \ {w} : ws[x].task # ws[w].task

Fresh == \A r \in Runs : RunFresh(r, run[r]) /\ WorkersFresh(run[r], worker[r])

LEMMA InitFresh == Init => Fresh
<1> SUFFICES ASSUME Init, NEW r \in Runs
             PROVE  RunFresh(r, run[r]) /\ WorkersFresh(run[r], worker[r])
  BY DEF Fresh
<1>1. run[r] = IdleRun(r)
  BY DEF Init
<1>2. run[r].pc = "idle" /\ run[r].loaded = NoEngine
  BY <1>1 DEF IdleRun
<1>3. \A w \in Workers : worker[r][w].task = 0 /\ worker[r][w].loaded = NoEngine
  BY DEF Init, IdleWorker
<1>4. QED BY <1>2, <1>3 DEF RunFresh, WorkersFresh, Adding

(* Other runs do not disturb a run's judging.                              *)
LEMMA OneRunFresh ==
    ASSUME Fresh, NEW r \in Runs,
           RunFresh(r, run'[r]), WorkersFresh(run'[r], worker'[r]),
           \A q \in Runs \ {r} : run'[q] = run[q] /\ worker'[q] = worker[q]
    PROVE  Fresh'
<1>1. ASSUME NEW q \in Runs
      PROVE  RunFresh(q, run'[q]) /\ WorkersFresh(run'[q], worker'[q])
  BY DEF Fresh
<1>2. QED BY <1>1 DEF Fresh, RunFresh, WorkersFresh, HopIndices

(* No worker is at work outside the pool.                                  *)
LEMMA IdleFresh ==
    ASSUME TypeInv, Sound, Fresh, NEW r \in Runs, run[r].pc # "pool",
           RunFresh(r, run'[r]),
           \A q \in Runs \ {r} : run'[q] = run[q],
           UNCHANGED worker
    PROVE  Fresh'
<1>1. \A w \in Workers : worker[r][w].task = 0 /\ worker[r][w].loaded = NoEngine
  <2> TAKE w \in Workers
  <2>1. WorkerSound(run[r], worker[r][w])
    BY DEF Sound
  <2>2. QED BY <2>1 DEF WorkerSound
<1>2. WorkersFresh(run'[r], worker'[r])
  BY <1>1 DEF WorkersFresh
<1>3. QED BY <1>2, OneRunFresh

(* What a step of `add` does to the run's judging: nothing, but that the   *)
(* last one goes on to the next hop.                                       *)
SameVerdicts(s, t) ==
    s.verdict = t.verdict /\ s.loaded = t.loaded /\ s.mode = t.mode

LEMMA AddMoves ==
    ASSUME TypeInv, NEW r \in Runs, Add(r) \/ Prune(r) \/ Trim(r)
    PROVE  /\ run[r].pc \in Adding
           /\ SameVerdicts(run'[r], run[r])
           /\ \/ run'[r].pc \in Adding /\ run'[r].idx = run[r].idx
              \/ run'[r].pc = NextHop(r) /\ run'[r].idx = run[r].idx + 1
           /\ \A q \in Runs \ {r} : run'[q] = run[q]
           /\ UNCHANGED worker
<1> DEFINE Moves ==
      /\ run[r].pc \in Adding
      /\ SameVerdicts(run'[r], run[r])
      /\ \/ run'[r].pc \in Adding /\ run'[r].idx = run[r].idx
         \/ run'[r].pc = NextHop(r) /\ run'[r].idx = run[r].idx + 1
      /\ \A q \in Runs \ {r} : run'[q] = run[q]
      /\ UNCHANGED worker
<1>1. run[r] \in RunStates(r)
  BY RunTypes
<1>2. \A q \in Runs : q \in DOMAIN run
  BY DEF TypeInv, TypeOK
<1>3. CASE AddReturns(r) \/ AddStale(r) \/ AppendFails(r)
  <2>1. Moves
    BY <1>1, <1>2, <1>3
    DEF AddReturns, AddStale, AppendFails, AddEnds, SameVerdicts, Adding, RunStates
  <2>2. QED BY <2>1
<1>4. CASE AddKnown(r)
  <2>1. Moves
    BY <1>1, <1>2, <1>4 DEF AddKnown, SameVerdicts, Adding, RunStates
  <2>2. QED BY <2>1
<1>5. CASE AppendLine(r)
  <2>1. Moves
    BY <1>1, <1>2, <1>5 DEF AppendLine, AfterAppend, AfterAdd, SameVerdicts, Adding, RunStates
  <2>2. QED BY <2>1
<1>6. CASE PruneGlob(r) \/ PruneStatFails(r) \/ PruneStat(r)
  <2>1. Moves
    BY <1>1, <1>2, <1>6 DEF PruneGlob, PruneStatFails, PruneStat, SameVerdicts, Adding, RunStates
  <2>2. QED BY <2>1
<1>7. CASE Unlink(r)
  <2>1. Moves
    BY <1>1, <1>2, <1>7 DEF Unlink, SameVerdicts, Adding, RunStates
  <2>2. QED BY <2>1
<1>8. CASE PruneEnds(r)
  <2>1. Moves
    BY <1>1, <1>2, <1>8 DEF PruneEnds, AfterAdd, SameVerdicts, Adding, RunStates
  <2>2. QED BY <2>1
<1>9. CASE TrimRead(r)
  <2>1. Moves
    BY <1>1, <1>2, <1>9 DEF TrimRead, SameVerdicts, Adding, RunStates
  <2>2. QED BY <2>1
<1>10. CASE TrimReadFails(r) \/ TrimReplaceFails(r)
  <2>1. Moves
    BY <1>1, <1>2, <1>10
    DEF TrimReadFails, AddEnds, TrimReplaceFails, SameVerdicts, Adding, RunStates
  <2>2. QED BY <2>1
<1>11. CASE TrimReplace(r)
  <2>1. PICK n : run' = [run EXCEPT ![r].pc = NextHop(r), ![r].idx = @ + 1,
                                    ![r].lines = n, ![r].newest = <<>>]
    BY <1>11 DEF TrimReplace
  <2>2. Moves
    BY <1>1, <1>2, <1>11, <2>1 DEF TrimReplace, SameVerdicts, Adding, RunStates
  <2>3. QED BY <2>2
<1>12. CASE AppendBreaks(r)
  <2>1. /\ run[r].pc = "append" /\ AddEnds(r) /\ UNCHANGED worker
    BY <1>12 DEF AppendBreaks
  <2>2. Moves
    BY <1>1, <1>2, <2>1 DEF AddEnds, SameVerdicts, Adding, RunStates
  <2>3. QED BY <2>2
<1>13. CASE PruneFails(r)
  <2>1. Moves
    BY <1>1, <1>2, <1>13 DEF PruneFails, SameVerdicts, Adding, RunStates
  <2>2. QED BY <2>1
<1>14. QED BY <1>3, <1>4, <1>5, <1>6, <1>7, <1>8, <1>9, <1>10, <1>11, <1>12, <1>13
           DEF Add, Prune, Trim

LEMMA AddFresh ==
    ASSUME TypeInv, Sound, Fresh, NEW r \in Runs, Add(r) \/ Prune(r) \/ Trim(r)
    PROVE  Fresh'
<1>1. RunFresh(r, run[r]) /\ run[r].idx \in Nat /\ HopIndices(r) \subseteq Nat
  BY RunTypes, ProofsAssumption DEF Fresh, HopIndices
<1>2. /\ run[r].pc \in Adding
      /\ SameVerdicts(run'[r], run[r])
      /\ \/ run'[r].pc \in Adding /\ run'[r].idx = run[r].idx
         \/ run'[r].pc = NextHop(r) /\ run'[r].idx = run[r].idx + 1
      /\ \A q \in Runs \ {r} : run'[q] = run[q]
      /\ UNCHANGED worker
  BY AddMoves
<1>3. run[r].mode \in {"sequential", "parallel"}
  BY RunTypes
<1>4. CASE run'[r].pc \in Adding /\ run'[r].idx = run[r].idx
  <2>1. RunFresh(r, run'[r])
    BY <1>1, <1>2, <1>4 DEF RunFresh, Adding, SameVerdicts
  <2>2. QED BY <1>2, <2>1, IdleFresh DEF Adding
<1>5. CASE run'[r].pc = NextHop(r) /\ run'[r].idx = run[r].idx + 1
  <2>1. /\ run'[r].pc \in {"hop", "record"}
        /\ run'[r].pc = "hop" => run[r].mode = "sequential"
        /\ run'[r].pc = "record" => run[r].mode = "parallel"
    BY <1>3, <1>5 DEF NextHop
  <2>2. RunFresh(r, run'[r])
    BY <1>1, <1>2, <1>5, <2>1 DEF RunFresh, Adding, SameVerdicts
  <2>3. QED BY <1>2, <2>2, IdleFresh DEF Adding
<1>6. QED BY <1>2, <1>4, <1>5
LEMMA CheckFresh ==
    ASSUME TypeInv, Sound, Fresh, NEW r \in Runs,
           HopHit(r) \/ HopCheck(r) \/ RecordHop(r) \/ Finish(r)
    PROVE  Fresh'
<1>1. /\ run[r] \in RunStates(r) /\ run[r].idx \in Nat /\ HopIndices(r) \subseteq Nat
      /\ run[r].verdict \in [HopIndices(r) -> Verdicts]
  BY RunTypes, ProofsAssumption DEF HopIndices
<1>2. RunFresh(r, run[r])
  BY DEF Fresh
<1>3. \A q \in Runs \ {r} : run'[q] = run[q]
  BY DEF HopHit, HopCheck, RecordHop, Finish, TypeInv, TypeOK
<1>4. UNCHANGED worker /\ run[r].pc \in {"hop", "record"}
  BY DEF HopHit, HopCheck, RecordHop, Finish
<1>5. CASE HopHit(r) \/ HopCheck(r)
  <2> DEFINE OneJudged(v) ==
               /\ run'[r].verdict = [run[r].verdict EXCEPT ![run[r].idx] = v]
               /\ run[r].pc = "hop" /\ run'[r].mode = run[r].mode
               /\ \/ run'[r].pc = "hop" /\ run'[r].idx = run[r].idx + 1
                  \/ run'[r].pc = "add" /\ run'[r].idx = run[r].idx
  <2>1. PICK v : OneJudged(v)
    <3>1. CASE HopHit(r)
      <4>1. OneJudged("cached")
        BY <1>1, <3>1 DEF HopHit, RunStates, TypeInv, TypeOK
      <4>2. QED BY <4>1
    <3>2. CASE HopCheck(r)
      <4>1. PICK v : v = Verdict(run[r].loaded, Hop(r, run[r].idx))
        OBVIOUS
      <4>2. run' = [run EXCEPT ![r].verdict[run[r].idx] = v,
                               ![r].pc = IF v = "valid" THEN "add" ELSE "hop",
                               ![r].idx = IF v = "valid" THEN @ ELSE @ + 1]
        BY <3>2, <4>1 DEF HopCheck
      <4>3. run[r].pc = "hop"
        BY <3>2 DEF HopCheck
      <4>4. OneJudged(v)
        BY <1>1, <4>2, <4>3 DEF RunStates, TypeInv, TypeOK
      <4>5. QED BY <4>4
    <3>3. QED BY <1>5, <3>1, <3>2
  <2>2. RunFresh(r, run'[r])
    BY <1>1, <1>2, <2>1 DEF RunFresh, Adding
  <2>3. QED BY <1>3, <1>4, <2>1, <2>2, IdleFresh
<1>6. CASE RecordHop(r)
  <2>1. /\ run[r].pc = "record" /\ run'[r].mode = run[r].mode
        /\ run'[r].pc \in {"record", "add"}
    BY <1>1, <1>6 DEF RecordHop, RunStates, TypeInv, TypeOK
  <2>2. RunFresh(r, run'[r])
    BY <1>2, <2>1 DEF RunFresh, Adding
  <2>3. QED BY <1>3, <1>4, <2>2, IdleFresh
<1>7. CASE Finish(r)
  <2>1. run'[r].pc = "done"
    BY <1>1, <1>7 DEF Finish, RunStates, TypeInv, TypeOK
  <2>2. RunFresh(r, run'[r])
    BY <2>1 DEF RunFresh, Adding
  <2>3. QED BY <1>3, <1>4, <2>2, IdleFresh
<1>8. QED BY <1>5, <1>6, <1>7

LEMMA StartFresh ==
    ASSUME TypeInv, Sound, Fresh, NEW r \in Runs,
           Import(r) \/ Open(r) \/ LookupAll(r) \/ LookupAllInline(r)
    PROVE  Fresh'
<1>1. run[r] \in RunStates(r)
  BY RunTypes
<1>2. RunFresh(r, run[r]) /\ RunSound(r, run[r])
  BY DEF Fresh, Sound
<1>3. \A q \in Runs \ {r} : run'[q] = run[q]
  <2>1. CASE Import(r)
    BY <2>1 DEF Import, TypeInv, TypeOK
  <2>2. CASE Open(r)
    <3>1. PICK m \in Modes, q \in BOOLEAN, read \in FileRead(sources) :
            run' = [run EXCEPT ![r].pc = IF m = "parallel" THEN "lookup" ELSE "hop",
                               ![r].mode = m,
                               ![r].quiet = q,
                               ![r].fp = sources,
                               ![r].known = Entries(read),
                               ![r].lines = Cardinality(Readable(read))]
      BY <2>2 DEF Open
    <3>2. QED BY <3>1 DEF TypeInv, TypeOK
  <2>3. CASE LookupAll(r)
    BY <2>3 DEF LookupAll, TypeInv, TypeOK
  <2>4. CASE LookupAllInline(r)
    BY <2>4 DEF LookupAllInline, TypeInv, TypeOK
  <2>5. QED BY <2>1, <2>2, <2>3, <2>4
<1>4. UNCHANGED worker /\ run[r].pc \in {"idle", "open", "lookup"}
  BY DEF Import, Open, LookupAll, LookupAllInline
<1>5. CASE Import(r)
  <2>1. run'[r].pc = "open"
    BY <1>1, <1>5 DEF Import, RunStates, TypeInv, TypeOK
  <2>2. RunFresh(r, run'[r])
    BY <2>1 DEF RunFresh, Adding
  <2>3. QED BY <1>3, <1>4, <2>2, IdleFresh
<1>6. CASE Open(r)
  <2>1. PICK m \in Modes, q \in BOOLEAN, read \in FileRead(sources) :
          run' = [run EXCEPT ![r].pc = IF m = "parallel" THEN "lookup" ELSE "hop",
                             ![r].mode = m,
                             ![r].quiet = q,
                             ![r].fp = sources,
                             ![r].known = Entries(read),
                             ![r].lines = Cardinality(Readable(read))]
    BY <1>6 DEF Open
  <2>2. /\ run'[r].pc = IF m = "parallel" THEN "lookup" ELSE "hop"
        /\ run'[r].mode = m /\ run'[r].verdict = run[r].verdict
    BY <1>1, <2>1 DEF RunStates, TypeInv, TypeOK
  <2>3. m \in {"sequential", "parallel"}
    BY ModesAssumption
  <2>4. run[r].pc = "open"
    BY <1>6 DEF Open
  <2>5. \A i \in HopIndices(r) : run[r].verdict[i] = "pending"
    BY <1>2, <2>4 DEF RunSound
  <2>6. RunFresh(r, run'[r])
    BY <2>2, <2>3, <2>5 DEF RunFresh, Adding
  <2>7. QED BY <1>3, <1>4, <2>6, IdleFresh
<1>7. CASE LookupAll(r) \/ LookupAllInline(r)
  <2>1. run[r].pc = "lookup"
    BY <1>7 DEF LookupAll, LookupAllInline
  <2>2. run'[r].pc \in {"pool", "record"} /\ run'[r].mode = run[r].mode
    BY <1>1, <1>7 DEF LookupAll, LookupAllInline, RunStates, TypeInv, TypeOK
  <2>3. run[r].mode = "parallel"
    BY <1>2, <2>1 DEF RunSound
  <2>4. RunFresh(r, run'[r])
    BY <2>2, <2>3 DEF RunFresh, Adding
  <2>5. QED BY <1>3, <1>4, <2>4, IdleFresh
<1>8. QED BY <1>5, <1>6, <1>7

LEMMA PoolEndsFresh ==
    ASSUME TypeInv, Sound, Fresh, NEW r \in Runs, PoolDone(r) \/ Kill(r)
    PROVE  Fresh'
<1>1. run[r] \in RunStates(r) /\ RunSound(r, run[r])
  BY RunTypes DEF Sound
<1>2. \A q \in Runs \ {r} : run'[q] = run[q] /\ worker'[q] = worker[q]
  BY DEF PoolDone, Kill, TypeInv, TypeOK
<1>3. /\ run'[r].mode = run[r].mode
      /\ \/ run'[r].pc = "killed"
         \/ run'[r].pc = "record" /\ run[r].pc = "pool"
  BY <1>1 DEF PoolDone, Kill, RunStates, TypeInv, TypeOK
<1>4. RunFresh(r, run'[r])
  BY <1>1, <1>3 DEF RunFresh, Adding, RunSound
<1>5. worker'[r] = [w \in Workers |-> IdleWorker]
  BY DEF PoolDone, Kill, TypeInv, TypeOK
<1>6. WorkersFresh(run'[r], worker'[r])
  BY <1>5 DEF WorkersFresh, IdleWorker
<1>7. QED BY <1>2, <1>4, <1>6, OneRunFresh

(* With one engine a forked worker runs its parent's code, on a hop that   *)
(* no other worker has taken.                                              *)
LEMMA TakeFresh ==
    ASSUME StartMethod = "fork", TypeInv, Sound, Fresh,
           NEW r \in Runs, NEW w \in Workers, WorkerTake(r, w)
    PROVE  Fresh'
<1>1. PICK i \in HopIndices(r) :
        /\ TaskFree(r, i)
        /\ worker' = [worker EXCEPT ![r][w] = BusyWorker(r, w, i)]
  BY DEF WorkerTake
<1>2. run' = run /\ worker[r] \in [Workers -> WorkerStates(r)]
  BY WorkerTypes DEF WorkerTake
<1>3. /\ worker'[r][w] = BusyWorker(r, w, i)
      /\ \A x \in Workers \ {w} : worker'[r][x] = worker[r][x]
      /\ \A q \in Runs \ {r} : worker'[q] = worker[q]
  BY <1>1, <1>2 DEF TypeInv, TypeOK
<1>4. worker[r][w].loaded \in {NoEngine, run[r].loaded}
  BY DEF Fresh, WorkersFresh
<1>5. BusyWorker(r, w, i).task = i /\ BusyWorker(r, w, i).loaded = run[r].loaded
  BY <1>2, <1>4 DEF BusyWorker, WorkerStates
<1>6. WorkersFresh(run[r], worker[r])
  BY DEF Fresh
<1>7. run[r].verdict[i] = "pending" /\ \A x \in Workers : worker[r][x].task # i
  BY <1>1 DEF TaskFree
<1>8. WorkersFresh(run'[r], worker'[r])
  BY <1>2, <1>3, <1>5, <1>6, <1>7 DEF WorkersFresh
<1>9. RunFresh(r, run'[r])
  BY <1>2 DEF Fresh
<1>10. QED BY <1>2, <1>3, <1>8, <1>9, OneRunFresh

LEMMA ReportFresh ==
    ASSUME TypeInv, Sound, Fresh, NEW r \in Runs, NEW w \in Workers, WorkerReport(r, w)
    PROVE  Fresh'
<1> DEFINE i == worker[r][w].task
           v == Verdict(worker[r][w].loaded, Hop(r, i))
<1>1. PICK f \in WorkerFp(r, w) :
        /\ run' = [run EXCEPT ![r].verdict[i] = v, ![r].by[i] = f]
        /\ worker' = [worker EXCEPT ![r][w].task = 0, ![r][w].fp = f]
  BY DEF WorkerReport
<1>2. /\ run[r].pc = "pool" /\ run[r] \in RunStates(r) /\ i # 0
      /\ run[r].verdict \in [HopIndices(r) -> Verdicts]
      /\ worker[r] \in [Workers -> WorkerStates(r)] /\ worker[r][w] \in WorkerStates(r)
  BY RunTypes, WorkerTypes DEF WorkerReport
<1>3. /\ run'[r].verdict = [run[r].verdict EXCEPT ![i] = v]
      /\ run'[r].pc = "pool" /\ run'[r].loaded = run[r].loaded
      /\ \A q \in Runs \ {r} : run'[q] = run[q]
  BY <1>1, <1>2 DEF RunStates, TypeInv, TypeOK
<1>4. /\ worker'[r][w].loaded = worker[r][w].loaded /\ worker'[r][w].task = 0
      /\ \A x \in Workers \ {w} : worker'[r][x] = worker[r][x]
      /\ \A q \in Runs \ {r} : worker'[q] = worker[q]
  BY <1>1, <1>2 DEF WorkerStates, TypeInv, TypeOK
<1>5. WorkersFresh(run[r], worker[r])
  BY DEF Fresh
<1> HIDE DEF v
<1>6. WorkersFresh(run'[r], worker'[r])
  <2> SUFFICES ASSUME NEW x \in Workers
               PROVE  /\ worker'[r][x].loaded \in {NoEngine, run'[r].loaded}
                      /\ worker'[r][x].task # 0 =>
                            /\ run'[r].verdict[worker'[r][x].task] = "pending"
                            /\ \A y \in Workers \ {x} : worker'[r][y].task # worker'[r][x].task
    BY DEF WorkersFresh
  <2>1. CASE x = w
    BY <1>3, <1>4, <1>5, <2>1 DEF WorkersFresh
  <2>2. CASE x # w
    <3>1. worker'[r][x] = worker[r][x] /\ (worker[r][x].task # 0 => worker[r][x].task # i)
      BY <1>4, <1>5, <2>2 DEF WorkersFresh
    <3>2. worker[r][x].task # 0 => run'[r].verdict[worker[r][x].task] = "pending"
      <4>1. worker[r][x].task # 0 => worker[r][x].task \in HopIndices(r)
        BY WorkerTypes
      <4>2. QED BY <1>2, <1>3, <1>5, <3>1, <4>1 DEF WorkersFresh
    <3>3. worker[r][x].task # 0 =>
            \A y \in Workers \ {x} : worker'[r][y].task # worker[r][x].task
      BY <1>4, <1>5 DEF WorkersFresh
    <3>4. worker'[r][x].loaded \in {NoEngine, run'[r].loaded}
      BY <1>3, <1>5, <3>1 DEF WorkersFresh
    <3>5. QED BY <3>1, <3>2, <3>3, <3>4
  <2>3. QED BY <2>1, <2>2
<1>7. RunFresh(r, run'[r])
  BY <1>3 DEF RunFresh, Adding
<1>8. QED BY <1>3, <1>4, <1>6, <1>7, OneRunFresh
LEMMA StepFresh ==
    ASSUME StartMethod = "fork" PROVE TypeInv /\ Sound /\ Fresh /\ [Next]_vars => Fresh'
<1> SUFFICES ASSUME TypeInv, Sound, Fresh, [Next]_vars PROVE Fresh'
  OBVIOUS
<1>1. ASSUME UNCHANGED <<run, worker>> PROVE Fresh'
  BY <1>1 DEF Fresh, RunFresh, WorkersFresh, HopIndices
<1>2. CASE UNCHANGED vars
  BY <1>1, <1>2 DEF vars
<1>3. ASSUME NEW e \in Engines, Edit(e) PROVE Fresh'
  BY <1>1, <1>3 DEF Edit
<1>4. ASSUME NEW r \in Runs, Import(r) \/ Open(r) \/ Check(r) \/ Kill(r) PROVE Fresh'
  BY <1>4, StartFresh, CheckFresh, PoolEndsFresh DEF Check
<1>5. ASSUME NEW r \in Runs, Add(r) \/ Prune(r) \/ Trim(r) PROVE Fresh'
  BY <1>5, AddFresh
<1>6. ASSUME NEW r \in Runs, WorkerStep(r) PROVE Fresh'
  BY <1>6, TakeFresh, ReportFresh DEF WorkerStep
<1>7. QED BY <1>2, <1>3, <1>4, <1>5, <1>6 DEF Next, RunStep

-------------------------------------------------------------------------------
(* The steps of HopVerdicts.                                               *)

LEMMA SameReports ==
    ASSUME \A q \in Runs : run'[q].loaded = run[q].loaded /\ run'[q].verdict = run[q].verdict
    PROVE  UNCHANGED Uncached!vars
<1>1. \A q \in Runs : Reported(q)' = Reported(q)
  BY DEF Reported, HopIndices
<1>2. QED BY <1>1 DEF Uncached!vars

(* Every verdict the run gives in this step is its engine's: a cached one  *)
(* on a hop the engine accepts, or one just found.                         *)
OwnVerdict(r, i, v) ==
    \/ v = "cached" /\ Hop(r, i) \in Accepts[run[r].loaded]
    \/ v = Verdict(run[r].loaded, Hop(r, i))

LEMMA JudgesOwn ==
    ASSUME NEW r \in Runs, NEW batch \in SUBSET HopIndices(r), run[r].loaded # NoEngine,
           run'[r].loaded = run[r].loaded,
           \A q \in Runs \ {r} : run'[q] = run[q],
           \A i \in batch : /\ run[r].verdict[i] = "pending"
                            /\ OwnVerdict(r, i, run'[r].verdict[i]),
           \A i \in HopIndices(r) \ batch : run'[r].verdict[i] = run[r].verdict[i]
    PROVE  [Uncached!Next]_(Uncached!vars)
<1>1. ASSUME NEW q \in Runs \ {r} PROVE Reported(q)' = Reported(q)
  <2>1. run'[q] = run[q]
    OBVIOUS
  <2>2. QED BY <2>1 DEF Reported, HopIndices
<1>2. [q \in Runs |-> run[q].loaded]' = [q \in Runs |-> run[q].loaded]
  OBVIOUS
<1>3. batch \subseteq Uncached!Unjudged(r)
  BY DEF Uncached!Unjudged, Reported, HopIndices
<1>4. Reported(r)' = [i \in DOMAIN ProofOf[r] |->
                        IF i \notin batch THEN Reported(r)[i]
                        ELSE IF ProofOf[r][i] \in Accepts[run[r].loaded]
                        THEN "valid" ELSE "invalid"]
  <2>1. ASSUME NEW i \in HopIndices(r)
        PROVE  (IF run'[r].verdict[i] = "cached" THEN "valid" ELSE run'[r].verdict[i]) =
               IF i \notin batch THEN Reported(r)[i]
               ELSE IF Hop(r, i) \in Accepts[run[r].loaded] THEN "valid" ELSE "invalid"
    <3>1. CASE i \in batch
      BY <3>1 DEF OwnVerdict, Verdict
    <3>2. CASE i \notin batch
      BY <3>2 DEF Reported
    <3>3. QED BY <3>1, <3>2
  <2>2. QED BY <2>1 DEF Reported, HopIndices, Hop
<1>5. CASE batch = {}
  <2>1. Reported(r)' = Reported(r)
    BY <1>4, <1>5 DEF Reported, HopIndices
  <2>2. QED BY <1>1, <1>2, <2>1 DEF Uncached!vars
<1>6. CASE batch # {}
  <2> DEFINE told == [q \in Runs |-> Reported(q)]
             code == [q \in Runs |-> run[q].loaded]
  <2>1. code[r] = run[r].loaded /\ told[r] = Reported(r)
    OBVIOUS
  <2>2. told' = [told EXCEPT ![r] =
                   [i \in DOMAIN ProofOf[r] |->
                      IF i \notin batch THEN told[r][i]
                      ELSE IF ProofOf[r][i] \in Accepts[code[r]] THEN "valid" ELSE "invalid"]]
    BY <1>1, <1>4, <2>1
  <2>3. batch \in (SUBSET Uncached!Unjudged(r)) \ {{}}
    BY <1>3, <1>6
  <2>4. Uncached!Judge(r)
    <3>1. code[r] # NoEngine /\ UNCHANGED code
      BY <1>2, <2>1
    <3> HIDE DEF told, code
    <3>2. \E b \in (SUBSET Uncached!Unjudged(r)) \ {{}} :
            told' = [told EXCEPT ![r] =
                       [i \in DOMAIN ProofOf[r] |->
                          IF i \notin b THEN told[r][i]
                          ELSE IF ProofOf[r][i] \in Accepts[code[r]] THEN "valid" ELSE "invalid"]]
      BY <2>2, <2>3
    <3>3. QED BY <3>1, <3>2 DEF Uncached!Judge, told, code
  <2>5. QED BY <2>4 DEF Uncached!Next
<1>7. QED BY <1>5, <1>6
(* A process has code from its start on, and it is what its fingerprint    *)
(* says.                                                                   *)
LEMMA StartedRun ==
    ASSUME TypeInv, Sound, NEW r \in Runs, run[r].pc \in Started
    PROVE  run[r].loaded = run[r].fp /\ run[r].fp \in Engines /\ run[r].loaded # NoEngine
  BY EnginesAssumption DEF Sound, RunSound, TypeInv, StageOK

LEMMA ImportLoads ==
    ASSUME TypeInv, Fresh, NEW r \in Runs, Import(r)
    PROVE  [Uncached!Next]_(Uncached!vars)
<1> DEFINE told == [q \in Runs |-> Reported(q)]
           code == [q \in Runs |-> run[q].loaded]
<1>1. run[r].pc = "idle" /\ run[r] \in RunStates(r) /\ sources \in Engines
  BY RunTypes DEF Import, TypeInv, TypeOK
<1>2. code[r] = NoEngine
  BY <1>1 DEF Fresh, RunFresh
<1>3. /\ run'[r].loaded = sources /\ run'[r].verdict = run[r].verdict
      /\ \A q \in Runs \ {r} : run'[q] = run[q]
  BY <1>1 DEF Import, RunStates, TypeInv, TypeOK
<1>4. code' = [code EXCEPT ![r] = sources]
  BY <1>3
<1>5. told' = told
  <2>1. \A q \in Runs : run'[q].verdict = run[q].verdict
    BY <1>3
  <2>2. \A q \in Runs : Reported(q)' = Reported(q)
    BY <2>1 DEF Reported, HopIndices
  <2>3. QED BY <2>2
<1>6. Uncached!Load(r)
  <2> HIDE DEF told, code
  <2>1. \E e \in Engines : code' = [code EXCEPT ![r] = e]
    BY <1>1, <1>4
  <2>2. QED BY <1>2, <1>5, <2>1 DEF Uncached!Load, told, code
<1>7. QED BY <1>6 DEF Uncached!Next

LEMMA HopJudges ==
    ASSUME TypeInv, Sound, Fresh, NEW r \in Runs, HopHit(r) \/ HopCheck(r)
    PROVE  [Uncached!Next]_(Uncached!vars)
<1> DEFINE i == run[r].idx
<1>1. /\ run[r].pc = "hop" /\ run[r] \in RunStates(r) /\ i \in HopIndices(r)
      /\ run[r].verdict \in [HopIndices(r) -> Verdicts]
  BY RunTypes DEF HopHit, HopCheck
<1>2. run[r].loaded = run[r].fp /\ run[r].fp \in Engines /\ run[r].loaded # NoEngine
  BY <1>1, StartedRun, StageNames DEF Started
<1>3. run[r].verdict[i] = "pending"
  BY <1>1 DEF Fresh, RunFresh
<1>4. PICK v : /\ run'[r].verdict = [run[r].verdict EXCEPT ![i] = v]
               /\ run'[r].loaded = run[r].loaded
               /\ OwnVerdict(r, i, v)
  <2>1. CASE HopHit(r)
    <3>1. /\ run'[r].verdict = [run[r].verdict EXCEPT ![i] = "cached"]
          /\ run'[r].loaded = run[r].loaded
      BY <1>1, <2>1 DEF HopHit, RunStates, TypeInv, TypeOK
    <3>2. OwnVerdict(r, i, "cached")
      BY <1>1, <1>2, <2>1, HitSound DEF HopHit, OwnVerdict
    <3>3. QED BY <3>1, <3>2
  <2>2. CASE HopCheck(r)
    <3>1. PICK v : v = Verdict(run[r].loaded, Hop(r, i))
      OBVIOUS
    <3>2. run' = [run EXCEPT ![r].verdict[i] = v,
                             ![r].pc = IF v = "valid" THEN "add" ELSE "hop",
                             ![r].idx = IF v = "valid" THEN @ ELSE @ + 1]
      BY <2>2, <3>1 DEF HopCheck
    <3>3. /\ run'[r].verdict = [run[r].verdict EXCEPT ![i] = v]
          /\ run'[r].loaded = run[r].loaded
      BY <1>1, <3>2 DEF RunStates, TypeInv, TypeOK
    <3>4. OwnVerdict(r, i, v)
      BY <3>1 DEF OwnVerdict
    <3>5. QED BY <3>3, <3>4
  <2>3. QED BY <2>1, <2>2
<1>5. \A q \in Runs \ {r} : run'[q] = run[q]
  BY DEF HopHit, HopCheck, TypeInv, TypeOK
<1>6. /\ \A j \in {i} : run[r].verdict[j] = "pending" /\ OwnVerdict(r, j, run'[r].verdict[j])
      /\ \A j \in HopIndices(r) \ {i} : run'[r].verdict[j] = run[r].verdict[j]
  BY <1>1, <1>3, <1>4
<1>7. {i} \in SUBSET HopIndices(r)
  BY <1>1
<1> HIDE DEF i
<1>8. QED BY <1>2, <1>4, <1>5, <1>6, <1>7, JudgesOwn

LEMMA LookupJudges ==
    ASSUME TypeInv, Sound, Fresh, NEW r \in Runs, LookupAll(r) \/ LookupAllInline(r)
    PROVE  [Uncached!Next]_(Uncached!vars)
<1>1. run[r].pc = "lookup" /\ run[r] \in RunStates(r)
  BY RunTypes DEF LookupAll, LookupAllInline
<1>2. run[r].loaded = run[r].fp /\ run[r].fp \in Engines /\ run[r].loaded # NoEngine
  BY <1>1, StartedRun, StageNames DEF Started
<1>3. \A i \in HopIndices(r) : run[r].verdict[i] = "pending"
  BY <1>1 DEF Fresh, RunFresh
<1>4. \A i \in HopIndices(r) \ Tasks(r) : OwnVerdict(r, i, "cached")
  BY <1>2, HitSound DEF OwnVerdict, Tasks
<1>5. CASE LookupAll(r)
  <2> DEFINE vd == [i \in HopIndices(r) |-> IF i \in Tasks(r) THEN "pending" ELSE "cached"]
  <2>1. /\ run'[r].verdict = vd /\ run'[r].loaded = run[r].loaded
        /\ \A q \in Runs \ {r} : run'[q] = run[q]
    BY <1>1, <1>5 DEF LookupAll, RunStates, TypeInv, TypeOK
  <2>2. PICK batch : batch = HopIndices(r) \ Tasks(r)
    OBVIOUS
  <2>3. /\ batch \in SUBSET HopIndices(r)
        /\ \A i \in batch : run[r].verdict[i] = "pending" /\ OwnVerdict(r, i, run'[r].verdict[i])
        /\ \A i \in HopIndices(r) \ batch : run'[r].verdict[i] = run[r].verdict[i]
    BY <1>3, <1>4, <2>1, <2>2
  <2>4. QED BY <1>2, <2>1, <2>3, JudgesOwn
<1>6. CASE LookupAllInline(r)
  <2> DEFINE vd == [i \in HopIndices(r) |->
                      IF i \in Tasks(r) THEN Verdict(run[r].loaded, Hop(r, i)) ELSE "cached"]
  <2>1. /\ run'[r].verdict = vd /\ run'[r].loaded = run[r].loaded
        /\ \A q \in Runs \ {r} : run'[q] = run[q]
    BY <1>1, <1>6 DEF LookupAllInline, RunStates, TypeInv, TypeOK
  <2>2. PICK batch : batch = HopIndices(r)
    OBVIOUS
  <2>3. \A i \in batch : run[r].verdict[i] = "pending" /\ OwnVerdict(r, i, run'[r].verdict[i])
    BY <1>3, <1>4, <2>1, <2>2 DEF OwnVerdict
  <2>4. QED BY <1>2, <2>1, <2>2, <2>3, JudgesOwn
<1>7. QED BY <1>5, <1>6

(* A worker answers for a pending hop, with its parent's code.             *)
LEMMA ReportJudges ==
    ASSUME TypeInv, Sound, Fresh, NEW r \in Runs, NEW w \in Workers, WorkerReport(r, w)
    PROVE  [Uncached!Next]_(Uncached!vars)
<1> DEFINE i == worker[r][w].task
           v == Verdict(worker[r][w].loaded, Hop(r, i))
<1>1. PICK f \in WorkerFp(r, w) :
        run' = [run EXCEPT ![r].verdict[i] = v, ![r].by[i] = f]
  BY DEF WorkerReport
<1>2. /\ run[r].pc = "pool" /\ run[r] \in RunStates(r) /\ i # 0
      /\ run[r].verdict \in [HopIndices(r) -> Verdicts]
  BY RunTypes DEF WorkerReport
<1>3. i \in HopIndices(r)
  BY <1>2, WorkerTypes
<1>4. run[r].loaded # NoEngine
  BY <1>2, StartedRun, StageNames DEF Started
<1>5. worker[r][w].loaded = run[r].loaded
  <2>1. WorkerSound(run[r], worker[r][w]) /\ WorkersFresh(run[r], worker[r])
    BY DEF Sound, Fresh
  <2>2. QED BY <1>2, <2>1 DEF WorkerSound, WorkersFresh
<1>6. run[r].verdict[i] = "pending"
  BY <1>2 DEF Fresh, WorkersFresh
<1>7. OwnVerdict(r, i, v)
  BY <1>5 DEF OwnVerdict
<1> HIDE DEF v
<1>8. /\ run'[r].verdict = [run[r].verdict EXCEPT ![i] = v]
      /\ run'[r].loaded = run[r].loaded
      /\ \A q \in Runs \ {r} : run'[q] = run[q]
  BY <1>1, <1>2 DEF RunStates, TypeInv, TypeOK
<1>9. /\ \A j \in {i} : run[r].verdict[j] = "pending" /\ OwnVerdict(r, j, run'[r].verdict[j])
      /\ \A j \in HopIndices(r) \ {i} : run'[r].verdict[j] = run[r].verdict[j]
  BY <1>2, <1>3, <1>6, <1>7, <1>8
<1>10. {i} \in SUBSET HopIndices(r)
  BY <1>3
<1> HIDE DEF i
<1>11. QED BY <1>4, <1>8, <1>9, <1>10, JudgesOwn

LEMMA QuietSteps ==
    ASSUME TypeInv, NEW r \in Runs,
           Open(r) \/ PoolDone(r) \/ RecordHop(r) \/ Finish(r) \/ Kill(r)
    PROVE  UNCHANGED Uncached!vars
<1>1. run[r] \in RunStates(r)
  BY RunTypes
<1>2. CASE Open(r)
  <2>1. PICK m \in Modes, q \in BOOLEAN, read \in FileRead(sources) :
          run' = [run EXCEPT ![r].pc = IF m = "parallel" THEN "lookup" ELSE "hop",
                             ![r].mode = m,
                             ![r].quiet = q,
                             ![r].fp = sources,
                             ![r].known = Entries(read),
                             ![r].lines = Cardinality(Readable(read))]
    BY <1>2 DEF Open
  <2>2. /\ run'[r].loaded = run[r].loaded /\ run'[r].verdict = run[r].verdict
        /\ \A p \in Runs \ {r} : run'[p] = run[p]
    BY <1>1, <2>1 DEF RunStates, TypeInv, TypeOK
  <2>3. QED BY <2>2, SameReports
<1>3. CASE PoolDone(r) \/ Kill(r) \/ Finish(r)
  <2>1. /\ run'[r].loaded = run[r].loaded /\ run'[r].verdict = run[r].verdict
        /\ \A p \in Runs \ {r} : run'[p] = run[p]
    BY <1>1, <1>3 DEF PoolDone, Kill, Finish, RunStates, TypeInv, TypeOK
  <2>2. QED BY <2>1, SameReports
<1>4. CASE RecordHop(r)
  <2>1. /\ run'[r].loaded = run[r].loaded /\ run'[r].verdict = run[r].verdict
        /\ \A p \in Runs \ {r} : run'[p] = run[p]
    BY <1>1, <1>4 DEF RecordHop, RunStates, TypeInv, TypeOK
  <2>2. QED BY <2>1, SameReports
<1>5. QED BY <1>2, <1>3, <1>4

LEMMA InitUncached == Init => Uncached!Init
<1> SUFFICES ASSUME Init PROVE Uncached!Init
  OBVIOUS
<1>1. \A r \in Runs : run[r] = IdleRun(r)
  BY DEF Init
<1>2. ASSUME NEW r \in Runs
      PROVE  /\ run[r].loaded = NoEngine
             /\ run[r].verdict = [i \in HopIndices(r) |-> "pending"]
  <2>1. run[r] = IdleRun(r)
    BY <1>1
  <2>2. QED BY <2>1 DEF IdleRun
<1>3. ASSUME NEW r \in Runs
      PROVE  Reported(r) = [i \in DOMAIN ProofOf[r] |-> "pending"]
  <2>1. \A i \in HopIndices(r) : run[r].verdict[i] = "pending"
    BY <1>2
  <2>2. QED BY <2>1 DEF Reported, HopIndices
<1>4. [r \in Runs |-> run[r].loaded] = [r \in Runs |-> NoEngine]
  <2>1. \A r \in Runs : run[r].loaded = NoEngine
    BY <1>2
  <2>2. QED BY <2>1
<1>5. [r \in Runs |-> Reported(r)] = [r \in Runs |-> [i \in DOMAIN ProofOf[r] |-> "pending"]]
  BY <1>3
<1>6. QED BY <1>4, <1>5 DEF Uncached!Init

LEMMA StepUncached == TypeInv /\ Sound /\ Fresh /\ [Next]_vars => [Uncached!Next]_(Uncached!vars)
<1> SUFFICES ASSUME TypeInv, Sound, Fresh, [Next]_vars PROVE [Uncached!Next]_(Uncached!vars)
  OBVIOUS
<1>1. ASSUME run' = run PROVE UNCHANGED Uncached!vars
  BY <1>1, SameReports
<1>2. CASE UNCHANGED vars
  BY <1>1, <1>2 DEF vars
<1>3. ASSUME NEW e \in Engines, Edit(e) PROVE UNCHANGED Uncached!vars
  BY <1>1, <1>3 DEF Edit
<1>4. ASSUME NEW r \in Runs, Import(r) \/ Open(r) \/ Check(r) \/ Kill(r)
      PROVE  [Uncached!Next]_(Uncached!vars)
  <2>1. CASE Import(r)
    BY <2>1, ImportLoads
  <2>2. CASE HopHit(r) \/ HopCheck(r)
    BY <2>2, HopJudges
  <2>3. CASE LookupAll(r) \/ LookupAllInline(r)
    BY <2>3, LookupJudges
  <2>4. CASE Open(r) \/ PoolDone(r) \/ RecordHop(r) \/ Finish(r) \/ Kill(r)
    <3>1. UNCHANGED Uncached!vars
      BY <2>4, QuietSteps
    <3>2. QED BY <3>1
  <2>5. QED BY <1>4, <2>1, <2>2, <2>3, <2>4 DEF Check
<1>5. ASSUME NEW r \in Runs, Add(r) \/ Prune(r) \/ Trim(r) PROVE UNCHANGED Uncached!vars
  <2>1. SameVerdicts(run'[r], run[r]) /\ \A q \in Runs \ {r} : run'[q] = run[q]
    BY <1>5, AddMoves
  <2>2. QED BY <2>1, SameReports DEF SameVerdicts
<1>6. ASSUME NEW r \in Runs, NEW w \in Workers, WorkerTake(r, w) PROVE UNCHANGED Uncached!vars
  BY <1>1, <1>6 DEF WorkerTake
<1>7. ASSUME NEW r \in Runs, WorkerStep(r) PROVE [Uncached!Next]_(Uncached!vars)
  BY <1>6, <1>7, ReportJudges DEF WorkerStep
<1>8. QED BY <1>2, <1>3, <1>4, <1>5, <1>7 DEF Next, RunStep

(* With the cache a run says of every hop what it would say without one,   *)
(* whatever other runs, kills, edits and file errors do to the directory:  *)
(* HopCache implements HopVerdicts.  Assumed is that a run and its workers *)
(* execute one engine: no edit falls between a run's import and its        *)
(* fingerprint, and workers are forked (a spawned worker may import an     *)
(* edited engine, and then the pool mixes two engines, with or without a   *)
(* cache).                                                                 *)
THEOREM CacheTransparent ==
    ASSUME OneEngine
    PROVE  Spec => Transparent
<1>1. StartMethod = "fork" /\ SoundEnvironment
  BY DEF OneEngine, SoundEnvironment
<1>2. Init => TypeInv /\ Sound /\ Fresh
  BY InitTypes, InitSound, InitFresh
<1>3. TypeInv /\ Sound /\ Fresh /\ [Next]_vars => TypeInv' /\ Sound' /\ Fresh'
  BY <1>1, StepTypes, StepSound, StepFresh
<1>4. QED BY <1>2, <1>3, InitUncached, StepUncached, PTL DEF Spec, Transparent, Uncached!Spec
-------------------------------------------------------------------------------
(* Trimming keeps what is newest.                                          *)

(* The last line of a file, if it can be read, is its newest entry, and an *)
(* entry kept is kept once.                                                *)
LEMMA NewestKeepsLast ==
    ASSUME NEW s \in Seq(Lines), s # <<>>, NEW t \in Newest(s)
    PROVE  /\ s[Len(s)] # Garbled => t # <<>> /\ t[Len(t)] = s[Len(s)]
           /\ \A i, j \in DOMAIN t : t[i] = t[j] => i = j
<1> DEFINE n == NewestLength(s)
           d == s[Len(s)]
<1>1. Len(s) \in Nat \ {0} /\ DOMAIN s = 1..Len(s) /\ Len(s) \in DOMAIN s
  OBVIOUS
<1>2. IsFiniteSet(Entries(s)) /\ Entries(s) \subseteq Digests
  BY FileLines
<1>3. n \in Nat /\ (Entries(s) # {} => n # 0)
  <2>1. Cardinality(Entries(s)) \in Nat /\ (Entries(s) # {} => Cardinality(Entries(s)) # 0)
    BY <1>2, FS_CardinalityType, FS_EmptySet
  <2>2. TrimTo \in Nat \ {0}
    BY LimitsAssumption
  <2>3. QED BY <2>1, <2>2 DEF NewestLength
<1>4. /\ t \in [1..n -> Entries(s)]
      /\ \A j, k \in DOMAIN t : j < k => LastAt(s, t[j]) < LastAt(s, t[k])
      /\ \A e \in Entries(s), k \in DOMAIN t :
            LastAt(s, e) > LastAt(s, t[k]) => e \in Entries(t)
  BY DEF Newest
<1> HIDE DEF n
<1>5. /\ t \in Seq(Entries(s)) /\ Len(t) = n /\ DOMAIN t = 1..n
      /\ Entries(t) = {t[i] : i \in 1..n}
  <2>1. t \in Seq(Entries(s)) /\ Len(t) = n /\ DOMAIN t = 1..n
    BY <1>3, <1>4
  <2>2. Garbled \notin Entries(s)
    BY DEF Entries
  <2>3. QED BY <1>4, <2>1, <2>2 DEF Entries
<1>6. ASSUME NEW e \in Entries(s)
      PROVE  /\ LastAt(s, e) \in 1..Len(s)
             /\ s[LastAt(s, e)] = e
             /\ \A j \in 1..Len(s) : s[j] = e => j <= LastAt(s, e)
  <2> DEFINE M == {i \in 1..Len(s) : s[i] = e}
  <2>1. M # {} /\ M \subseteq Nat /\ \A i \in M : i <= Len(s)
    BY <1>1 DEF Entries
  <2>2. \E i \in M : \A j \in M : j <= i
    <3>1. PICK i0 \in M : TRUE
      BY <2>1
    <3>2. PICK K : K = {k \in 0..Len(s) : Len(s) - k \in M}
      OBVIOUS
    <3>3. K \subseteq Nat /\ Len(s) - i0 \in K
      BY <1>1, <3>2
    <3>4. PICK k \in K : \A l \in K : k <= l
      BY <3>3, LeastElement
    <3>5. Len(s) - k \in M /\ k \in Nat
      BY <3>2, <3>3
    <3>6. ASSUME NEW j \in M PROVE j <= Len(s) - k
      <4>1. Len(s) - j \in K /\ j \in Nat
        BY <1>1, <3>2
      <4>2. k <= Len(s) - j
        BY <3>4, <4>1
      <4>3. QED BY <1>1, <3>5, <4>1, <4>2
    <3>7. QED BY <3>5, <3>6
  <2>3. \E i \in DOMAIN s : s[i] = e /\ \A j \in DOMAIN s : s[j] = e => j <= i
    BY <1>1, <2>2
  <2>4. QED BY <1>1, <2>3 DEF LastAt
<1>8. \A i, j \in DOMAIN t : t[i] = t[j] => i = j
  <2> SUFFICES ASSUME NEW i \in 1..n, NEW j \in 1..n, t[i] = t[j], i # j PROVE FALSE
    BY <1>5
  <2>1. i \in Nat /\ j \in Nat
    OBVIOUS
  <2>2. LastAt(s, t[i]) \in Nat
    BY <1>4, <1>6
  <2>3. LastAt(s, t[i]) < LastAt(s, t[j]) \/ LastAt(s, t[j]) < LastAt(s, t[i])
    BY <1>4, <1>5, <2>1
  <2>4. QED BY <2>2, <2>3
<1>9. ASSUME d # Garbled PROVE t # <<>> /\ t[n] = d
  <2>a. d \in Entries(s)
    BY <1>1, <1>9 DEF Entries
  <2>b. LastAt(s, d) = Len(s)
    BY <1>1, <1>6, <2>a
  <2>c. n \in Nat \ {0} /\ n \in DOMAIN t /\ t # <<>>
    BY <1>3, <1>5, <2>a
  <2> SUFFICES ASSUME t[n] # d PROVE FALSE
    BY <2>c
  <2>1. t[n] \in Entries(s)
    BY <1>4, <1>5, <2>c
  <2>2. LastAt(s, t[n]) \in 1..Len(s) /\ s[LastAt(s, t[n])] = t[n]
    BY <1>6, <2>1
  <2>3. LastAt(s, t[n]) # Len(s)
    BY <2>2
  <2>4. LastAt(s, d) > LastAt(s, t[n])
    BY <1>1, <2>b, <2>2, <2>3
  <2>5. d \in Entries(t)
    BY <1>4, <1>5, <2>a, <2>c, <2>4
  <2>6. PICK k \in 1..n : t[k] = d
    BY <1>5, <2>5
  <2>7. k < n
    BY <2>c, <2>6
  <2>8. LastAt(s, d) < LastAt(s, t[n])
    BY <1>4, <1>5, <2>c, <2>6, <2>7
  <2>9. QED BY <1>1, <2>b, <2>2, <2>8
<1>10. QED BY <1>5, <1>8, <1>9

(* From its append to its trim a run that no other run races with finds    *)
(* its line at the end of the file, or the torn line it was written behind: *)
(* it does not unlink its own file.                                        *)
ClosedBy(s, d) == s # <<>> /\ s[Len(s)] \in {d, Garbled}
EndsWith(s, d) == s # <<>> /\ s[Len(s)] = d
Distinct(s) == \A i, j \in DOMAIN s : s[i] = s[j] => i = j

RunTrims(r) ==
    /\ run[r].pc \in {"idle", "open"} => run[r].victims = {}
    /\ run[r].fp \notin run[r].victims
    /\ Alone(r) /\ run[r].pc \in {"glob", "stat", "unlink", "trim"} =>
          ClosedBy(content[run[r].fp], AddKey(r))
    /\ Alone(r) /\ run[r].pc = "replace" =>
          LET old == content[run[r].fp] IN
          /\ old[Len(old)] # Garbled => EndsWith(run[r].newest, AddKey(r))
          /\ Distinct(run[r].newest)

Trims == \A r \in Runs : RunTrims(r)

LEMMA InitTrims == Init => Trims
<1> SUFFICES ASSUME Init, NEW r \in Runs PROVE RunTrims(r)
  BY DEF Trims
<1>1. run[r] = IdleRun(r)
  BY DEF Init
<1>2. run[r].pc = "idle" /\ run[r].victims = {}
  BY <1>1 DEF IdleRun
<1>3. QED BY <1>2 DEF RunTrims

(* A step of r ends every other run's solitude.                            *)
LEMMA OneRunTrims ==
    ASSUME Trims, NEW r \in Runs, run'[r].pc # "idle", RunTrims(r)',
           \A q \in Runs \ {r} : run'[q] = run[q]
    PROVE  Trims'
<1> SUFFICES ASSUME NEW q \in Runs \ {r} PROVE RunTrims(q)'
  BY DEF Trims
<1>1. ~Alone(q)'
  BY DEF Alone
<1>2. run'[q] = run[q] /\ RunTrims(q)
  BY DEF Trims
<1>3. QED BY <1>1, <1>2 DEF RunTrims

(* Steps that do not come to pruning or trimming.                          *)
Besides(s, t) ==
    /\ s.pc \notin {"idle", "glob", "stat", "unlink", "trim", "replace"}
    /\ s.victims = t.victims
    /\ s.fp = t.fp \/ t.pc = "open"
    /\ s.pc = "open" => t.pc = "idle"

LEMMA BesidesTrims ==
    ASSUME Trims, NEW r \in Runs, Besides(run'[r], run[r]),
           \A q \in Runs \ {r} : run'[q] = run[q]
    PROVE  Trims'
<1>1. RunTrims(r)
  BY DEF Trims
<1>2. RunTrims(r)'
  BY <1>1 DEF RunTrims, Besides
<1>3. QED BY <1>2, OneRunTrims DEF Besides

LEMMA CheckBesides ==
    ASSUME TypeInv, NEW r \in Runs, Import(r) \/ Open(r) \/ Check(r) \/ Kill(r)
    PROVE  Besides(run'[r], run[r]) /\ \A q \in Runs \ {r} : run'[q] = run[q]
<1> DEFINE Goal == Besides(run'[r], run[r]) /\ \A q \in Runs \ {r} : run'[q] = run[q]
<1>1. run[r] \in RunStates(r)
  BY RunTypes
<1>2. \A q \in Runs : q \in DOMAIN run
  BY DEF TypeInv, TypeOK
<1>3. CASE Import(r)
  <2>1. QED BY <1>1, <1>2, <1>3 DEF Import, Besides, RunStates
<1>4. CASE Open(r)
  <2>1. PICK m \in Modes, q \in BOOLEAN, read \in FileRead(sources) :
          run' = [run EXCEPT ![r].pc = IF m = "parallel" THEN "lookup" ELSE "hop",
                             ![r].mode = m,
                             ![r].quiet = q,
                             ![r].fp = sources,
                             ![r].known = Entries(read),
                             ![r].lines = Cardinality(Readable(read))]
    BY <1>4 DEF Open
  <2>2. run[r].pc = "open"
    BY <1>4 DEF Open
  <2>3. run'[r].pc \in {"lookup", "hop"} /\ run'[r].victims = run[r].victims
    BY <1>1, <1>2, <2>1 DEF RunStates
  <2>4. \A p \in Runs \ {r} : run'[p] = run[p]
    BY <1>2, <2>1
  <2>5. QED BY <2>2, <2>3, <2>4 DEF Besides
<1>5. CASE HopHit(r)
  <2>1. QED BY <1>1, <1>2, <1>5 DEF HopHit, Besides, RunStates
<1>6. CASE HopCheck(r)
  <2>1. PICK v : v = Verdict(run[r].loaded, Hop(r, run[r].idx))
    OBVIOUS
  <2>2. run' = [run EXCEPT ![r].verdict[run[r].idx] = v,
                           ![r].pc = IF v = "valid" THEN "add" ELSE "hop",
                           ![r].idx = IF v = "valid" THEN @ ELSE @ + 1]
    BY <1>6, <2>1 DEF HopCheck
  <2>3. QED BY <1>1, <1>2, <2>2 DEF Besides, RunStates
<1>7. CASE RecordHop(r)
  <2>1. QED BY <1>1, <1>2, <1>7 DEF RecordHop, Besides, RunStates
<1>8. CASE LookupAll(r)
  <2>1. QED BY <1>1, <1>2, <1>8 DEF LookupAll, Besides, RunStates
<1>9. CASE LookupAllInline(r)
  <2>1. QED BY <1>1, <1>2, <1>9 DEF LookupAllInline, Besides, RunStates
<1>10. CASE PoolDone(r)
  <2>1. QED BY <1>1, <1>2, <1>10 DEF PoolDone, Besides, RunStates
<1>11. CASE Finish(r)
  <2>1. QED BY <1>1, <1>2, <1>11 DEF Finish, Besides, RunStates
<1>12. CASE Kill(r)
  <2>1. QED BY <1>1, <1>2, <1>12 DEF Kill, Besides, RunStates
<1>13. QED BY <1>3, <1>4, <1>5, <1>6, <1>7, <1>8, <1>9, <1>10, <1>11, <1>12 DEF Check

LEMMA ReportBesides ==
    ASSUME TypeInv, NEW r \in Runs, NEW w \in Workers, WorkerReport(r, w)
    PROVE  Besides(run'[r], run[r]) /\ \A q \in Runs \ {r} : run'[q] = run[q]
<1>1. PICK f, v, i : run' = [run EXCEPT ![r].verdict[i] = v, ![r].by[i] = f]
  BY DEF WorkerReport
<1>2. run[r] \in RunStates(r) /\ run[r].pc = "pool"
  BY RunTypes DEF WorkerReport
<1>3. QED BY <1>1, <1>2 DEF Besides, RunStates, TypeInv, TypeOK

LEMMA AddBesides ==
    ASSUME TypeInv, NEW r \in Runs,
           \/ AddReturns(r) \/ AddStale(r) \/ AddKnown(r) \/ AppendFails(r) \/ AppendBreaks(r)
           \/ PruneStatFails(r) \/ TrimReadFails(r) \/ TrimReplace(r) \/ TrimReplaceFails(r)
    PROVE  Besides(run'[r], run[r]) /\ \A q \in Runs \ {r} : run'[q] = run[q]
<1> DEFINE Goal == Besides(run'[r], run[r]) /\ \A q \in Runs \ {r} : run'[q] = run[q]
<1>1. run[r] \in RunStates(r) /\ NextHop(r) \in {"record", "hop"}
  BY RunTypes, NextHopType
<1>2. \A q \in Runs : q \in DOMAIN run
  BY DEF TypeInv, TypeOK
<1>3. CASE AddReturns(r) \/ AddStale(r) \/ AppendFails(r) \/ AppendBreaks(r)
  <2>1. Goal
    BY <1>1, <1>2, <1>3
    DEF AddReturns, AddStale, AppendFails, AppendBreaks, AddEnds, Besides, RunStates
  <2>2. QED BY <2>1
<1>4. CASE AddKnown(r)
  <2>1. Goal
    BY <1>1, <1>2, <1>4 DEF AddKnown, Besides, RunStates
  <2>2. QED BY <2>1
<1>5. CASE PruneStatFails(r) \/ TrimReadFails(r)
  <2>1. Goal
    BY <1>1, <1>2, <1>5 DEF PruneStatFails, TrimReadFails, AddEnds, Besides, RunStates
  <2>2. QED BY <2>1
<1>6. CASE TrimReplace(r) \/ TrimReplaceFails(r)
  <2>1. CASE TrimReplace(r)
    <3>1. PICK n : run' = [run EXCEPT ![r].pc = NextHop(r), ![r].idx = @ + 1,
                                     ![r].lines = n, ![r].newest = <<>>]
      BY <2>1 DEF TrimReplace
    <3>2. run[r].pc = "replace"
      BY <2>1 DEF TrimReplace
    <3>3. Goal
      BY <1>1, <1>2, <3>1, <3>2, SMTT(30) DEF Besides, RunStates
    <3>4. QED BY <3>3
  <2>2. CASE TrimReplaceFails(r)
    <3>1. Goal
      BY <1>1, <1>2, <2>2, SMTT(30) DEF TrimReplaceFails, Besides, RunStates
    <3>2. QED BY <3>1
  <2>3. QED BY <1>6, <2>1, <2>2
<1>7. QED BY <1>3, <1>4, <1>5, <1>6
(* The steps from the append to the trim.                                  *)
LEMMA LineTrims ==
    ASSUME Trims, NEW r \in Runs,
           run'[r].pc \in {"glob", "stat", "unlink", "trim"},
           run'[r].fp = run[r].fp, run'[r].idx = run[r].idx,
           run[r].fp \notin run'[r].victims,
           Alone(r) => ClosedBy(content'[run[r].fp], AddKey(r)),
           \A q \in Runs \ {r} : run'[q] = run[q]
    PROVE  Trims'
<1>1. Alone(r)' => Alone(r)
  BY DEF Alone
<1>2. AddKey(r)' = AddKey(r)
  BY DEF AddKey, Hop
<1>3. RunTrims(r)'
  BY <1>1, <1>2 DEF RunTrims
<1>4. QED BY <1>3, OneRunTrims

(* A pruning that fails has no victims left.                               *)
LEMMA PruneFailsTrims ==
    ASSUME TypeInv, Trims, NEW r \in Runs, PruneFails(r) PROVE Trims'
<1>1. run[r] \in RunStates(r) /\ NextHop(r) \in {"record", "hop"}
  BY RunTypes, NextHopType
<1>2. /\ run'[r].pc \in {"record", "hop"} /\ run'[r].victims = {}
      /\ \A q \in Runs \ {r} : run'[q] = run[q]
  BY <1>1 DEF PruneFails, RunStates, TypeInv, TypeOK
<1>3. RunTrims(r)'
  BY <1>2 DEF RunTrims
<1>4. QED BY <1>2, <1>3, OneRunTrims

(* Where AfterAdd leaves a run.                                            *)
LEMMA AfterAddKeeps ==
    ASSUME TypeInv, NEW r \in Runs, NEW n
    PROVE  /\ AfterAdd(r, n).pc \in {"trim", "record", "hop"}
           /\ AfterAdd(r, n).fp = run[r].fp
           /\ AfterAdd(r, n).victims = run[r].victims
           /\ AfterAdd(r, n).pc = "trim" => AfterAdd(r, n).idx = run[r].idx
<1>1. run[r] \in RunStates(r) /\ NextHop(r) \in {"record", "hop"}
  BY RunTypes, NextHopType
<1>2. QED BY <1>1 DEF AfterAdd, RunStates

LEMMA FileOf ==
    ASSUME TypeInv, NEW r \in Runs,
           run[r].pc \in {"append", "glob", "stat", "unlink", "trim", "replace"}
    PROVE  run[r].fp \in Engines /\ content[run[r].fp] \in Seq(Lines)
<1>1. run[r].pc \in Started
  BY DEF Started, Stages
<1>2. QED BY <1>1 DEF TypeInv, TypeOK, StageOK

LEMMA AppendTrims ==
    ASSUME TypeInv, Trims, NEW r \in Runs, AppendLine(r) PROVE Trims'
<1> DEFINE s == AfterAppend(r)
<1>1. run[r].fp \in Engines /\ run[r].pc = "append"
  BY FileOf DEF AppendLine
<1>2. run[r] \in RunStates(r)
  BY RunTypes
<1>3. /\ run'[r] = s
      /\ \A q \in Runs \ {r} : run'[q] = run[q]
  BY <1>1 DEF AppendLine, TypeInv, TypeOK
<1>4. /\ s.pc \in {"glob", "trim", "record", "hop"}
      /\ s.fp = run[r].fp
      /\ s.victims = run[r].victims
      /\ s.pc \in {"glob", "trim"} => s.idx = run[r].idx
  <2>1. CASE run[r].created
    BY <1>2, <2>1 DEF AfterAppend, RunStates
  <2>2. CASE ~run[r].created
    BY <2>2, AfterAddKeeps DEF AfterAppend
  <2>3. QED BY <2>1, <2>2
<1>5. ClosedBy(content'[run[r].fp], AddKey(r))
  <2>1. PICK c, f : c = content[run[r].fp] /\ f = Extended(c, run[r].fp, AddKey(r))
    OBVIOUS
  <2>2. run[r].idx \in HopIndices(r)
    BY <1>1 DEF TypeInv, StageOK
  <2>3. AddKey(r) \in Lines
    BY <1>1, <2>2, HopType, DigestInjective DEF AddKey, Lines
  <2>4. f # <<>> /\ f[Len(f)] \in {AddKey(r), Garbled}
    BY <1>1, <2>1, <2>3, ExtendedType
  <2>5. content' = [content EXCEPT ![run[r].fp] = f]
    BY <2>1 DEF AppendLine, Write
  <2>6. content'[run[r].fp] = f
    BY <1>1, <2>5 DEF TypeInv, TypeOK
  <2>7. QED BY <2>4, <2>6 DEF ClosedBy
<1>6. run[r].fp \notin run[r].victims
  BY DEF Trims, RunTrims
<1> HIDE DEF s
<1>7. CASE s.pc \in {"glob", "trim"}
  BY <1>3, <1>4, <1>5, <1>6, <1>7, LineTrims
<1>8. CASE s.pc \in {"record", "hop"}
  <2>1. Besides(run'[r], run[r])
    BY <1>3, <1>4, <1>8 DEF Besides
  <2>2. QED BY <1>3, <2>1, BesidesTrims
<1>9. QED BY <1>4, <1>7, <1>8

LEMMA PruneTrims ==
    ASSUME TypeInv, Trims, NEW r \in Runs, PruneGlob(r) \/ PruneStat(r) PROVE Trims'
<1> DEFINE Goal ==
      /\ run'[r].pc \in {"stat", "unlink"}
      /\ run'[r].fp = run[r].fp
      /\ run'[r].idx = run[r].idx
      /\ run'[r].victims \in {run[r].victims, Victims(r)}
      /\ \A q \in Runs \ {r} : run'[q] = run[q]
<1>1. run[r] \in RunStates(r)
  BY RunTypes
<1>2. Goal
  <2>1. CASE PruneGlob(r)
    BY <1>1, <2>1 DEF PruneGlob, RunStates, TypeInv, TypeOK
  <2>2. CASE PruneStat(r)
    <3>1. PICK v : v = Victims(r)
      OBVIOUS
    <3>2. run' = [run EXCEPT ![r].pc = "unlink", ![r].victims = v, ![r].listed = {}]
      BY <2>2, <3>1 DEF PruneStat
    <3>3. Goal
      BY <1>1, <3>1, <3>2 DEF RunStates, TypeInv, TypeOK
    <3>4. QED BY <3>3
  <2>3. QED BY <2>1, <2>2
<1>3. run[r].fp \notin run'[r].victims
  BY <1>2 DEF Trims, RunTrims, Victims
<1>4. Alone(r) => ClosedBy(content'[run[r].fp], AddKey(r))
  BY DEF Trims, RunTrims, PruneGlob, PruneStat
<1>5. QED BY <1>2, <1>3, <1>4, LineTrims

LEMMA UnlinkTrims ==
    ASSUME TypeInv, Trims, NEW r \in Runs, Unlink(r) PROVE Trims'
<1>1. PICK e \in run[r].victims :
        /\ content' = [content EXCEPT ![e] = <<>>]
        /\ run' = [run EXCEPT ![r].victims = @ \ {e}]
  BY DEF Unlink
<1>2. run[r] \in RunStates(r) /\ run[r].pc = "unlink"
  BY RunTypes DEF Unlink
<1>3. /\ run'[r].pc = "unlink"
      /\ run'[r].fp = run[r].fp
      /\ run'[r].idx = run[r].idx
      /\ run'[r].victims = run[r].victims \ {e}
      /\ \A q \in Runs \ {r} : run'[q] = run[q]
  BY <1>1, <1>2 DEF RunStates, TypeInv, TypeOK
<1>4. run[r].fp \notin run[r].victims
  BY DEF Trims, RunTrims
<1>5. content'[run[r].fp] = content[run[r].fp]
  BY <1>1, <1>2, <1>4, FileOf DEF TypeInv, TypeOK
<1>6. Alone(r) => ClosedBy(content'[run[r].fp], AddKey(r))
  BY <1>2, <1>5 DEF Trims, RunTrims
<1>7. QED BY <1>3, <1>4, <1>6, LineTrims

LEMMA PruneEndsTrims ==
    ASSUME TypeInv, Trims, NEW r \in Runs, PruneEnds(r) PROVE Trims'
<1> DEFINE s == AfterAdd(r, run[r].lines)
<1>1. /\ run'[r] = s
      /\ \A q \in Runs \ {r} : run'[q] = run[q]
      /\ content' = content
      /\ run[r].pc = "unlink"
  BY DEF PruneEnds, TypeInv, TypeOK
<1>2. /\ s.pc \in {"trim", "record", "hop"}
      /\ s.fp = run[r].fp
      /\ s.victims = run[r].victims
      /\ s.pc = "trim" => s.idx = run[r].idx
  BY AfterAddKeeps
<1>3. /\ run[r].fp \notin run[r].victims
      /\ Alone(r) => ClosedBy(content[run[r].fp], AddKey(r))
  BY <1>1 DEF Trims, RunTrims
<1> HIDE DEF s
<1>4. CASE s.pc = "trim"
  BY <1>1, <1>2, <1>3, <1>4, LineTrims
<1>5. CASE s.pc \in {"record", "hop"}
  <2>1. Besides(run'[r], run[r])
    BY <1>1, <1>2, <1>5 DEF Besides
  <2>2. QED BY <1>1, <2>1, BesidesTrims
<1>6. QED BY <1>2, <1>4, <1>5

LEMMA ReadTrims ==
    ASSUME TypeInv, Trims, NEW r \in Runs, TrimRead(r) PROVE Trims'
<1>1. PICK t \in Newest(content[run[r].fp]) :
        run' = [run EXCEPT ![r].pc = "replace", ![r].newest = t]
  BY DEF TrimRead
<1>2. run[r] \in RunStates(r) /\ run[r].pc = "trim"
  BY RunTypes DEF TrimRead
<1>3. /\ run'[r].pc = "replace"
      /\ run'[r].newest = t
      /\ run'[r].fp = run[r].fp
      /\ run'[r].idx = run[r].idx
      /\ run'[r].victims = run[r].victims
      /\ \A q \in Runs \ {r} : run'[q] = run[q]
  BY <1>1, <1>2 DEF RunStates, TypeInv, TypeOK
<1> DEFINE old == content[run[r].fp]
<1>4. ASSUME Alone(r)
      PROVE  (old[Len(old)] # Garbled => EndsWith(t, AddKey(r))) /\ Distinct(t)
  <2>1. content[run[r].fp] \in Seq(Lines) /\ ClosedBy(content[run[r].fp], AddKey(r))
    BY <1>2, <1>4, FileOf DEF Trims, RunTrims
  <2>2. PICK f : f = content[run[r].fp]
    OBVIOUS
  <2>3. f \in Seq(Lines) /\ f # <<>> /\ f[Len(f)] \in {AddKey(r), Garbled} /\ t \in Newest(f)
    BY <2>1, <2>2, <1>1 DEF ClosedBy
  <2>4. /\ f[Len(f)] # Garbled => t # <<>> /\ t[Len(t)] = f[Len(f)]
        /\ \A i, j \in DOMAIN t : t[i] = t[j] => i = j
    BY <2>3, NewestKeepsLast
  <2>5. QED BY <2>2, <2>3, <2>4 DEF EndsWith, Distinct
<1>5. Alone(r)' => Alone(r)
  BY <1>3 DEF Alone
<1>6. AddKey(r)' = AddKey(r)
  BY <1>3 DEF AddKey, Hop
<1>7. content' = content
  BY DEF TrimRead
<1>8. RunTrims(r)'
  BY <1>3, <1>4, <1>5, <1>6, <1>7 DEF Trims, RunTrims
<1>9. QED BY <1>3, <1>8, OneRunTrims

LEMMA StepTrims == TypeInv /\ Trims /\ [Next]_vars => Trims'
<1> SUFFICES ASSUME TypeInv, Trims, [Next]_vars PROVE Trims'
  OBVIOUS
<1>1. ASSUME UNCHANGED <<run, content>> PROVE Trims'
  BY <1>1 DEF Trims, RunTrims, Alone, AddKey, Hop
<1>2. CASE UNCHANGED vars
  BY <1>1, <1>2 DEF vars
<1>3. ASSUME NEW e \in Engines, Edit(e) PROVE Trims'
  BY <1>1, <1>3 DEF Edit
<1>4. ASSUME NEW r \in Runs, Import(r) \/ Open(r) \/ Check(r) \/ Kill(r) PROVE Trims'
  BY <1>4, CheckBesides, BesidesTrims
<1>5. ASSUME NEW r \in Runs, Add(r) \/ Prune(r) \/ Trim(r) PROVE Trims'
  BY <1>5, AddBesides, BesidesTrims, AppendTrims, PruneTrims, PruneFailsTrims, UnlinkTrims,
     PruneEndsTrims, ReadTrims DEF Add, Prune, Trim
<1>6. ASSUME NEW r \in Runs, WorkerStep(r) PROVE Trims'
  <2>1. PICK w \in Workers : WorkerTake(r, w) \/ WorkerReport(r, w)
    BY <1>6 DEF WorkerStep
  <2>2. CASE WorkerTake(r, w)
    BY <1>1, <2>2 DEF WorkerTake
  <2>3. CASE WorkerReport(r, w)
    BY <2>3, ReportBesides, BesidesTrims
  <2>4. QED BY <2>1, <2>2, <2>3
<1>7. QED BY <1>2, <1>3, <1>4, <1>5, <1>6 DEF Next, RunStep

(* The only steps that change a file.                                      *)
LEMMA FileStep ==
    ASSUME [Next]_vars, content' # content
    PROVE  \E q \in Runs : AppendLine(q) \/ AppendBreaks(q) \/ Unlink(q) \/ TrimReplace(q)
<1>1. Next
  BY DEF vars
<1>2. ~\E e \in Engines : Edit(e)
  BY DEF Edit
<1>3. PICK q \in Runs : Import(q) \/ RunStep(q) \/ Kill(q)
  BY <1>1, <1>2 DEF Next
<1>4. ~(Import(q) \/ Open(q) \/ Check(q) \/ Kill(q) \/ WorkerStep(q))
  BY DEF Import, Open, Check, HopHit, HopCheck, LookupAll, LookupAllInline, PoolDone, RecordHop,
     Finish, Kill, WorkerStep, WorkerTake, WorkerReport
<1>5. Add(q) \/ Prune(q) \/ Trim(q)
  BY <1>3, <1>4 DEF RunStep
<1>6. Add(q) => AppendLine(q) \/ AppendBreaks(q)
  BY DEF Add, AddReturns, AddStale, AddKnown, AppendFails
<1>7. Prune(q) => Unlink(q)
  BY DEF Prune, PruneGlob, PruneStatFails, PruneFails, PruneStat, PruneEnds
<1>8. Trim(q) => TrimReplace(q)
  BY DEF Trim, TrimRead, TrimReadFails, TrimReplaceFails
<1>9. QED BY <1>5, <1>6, <1>7, <1>8

LEMMA StepKeepsNewest == TypeInv /\ Trims /\ [Next]_vars => TrimStep
<1> SUFFICES ASSUME TypeInv, Trims, [Next]_vars, NEW r \in Runs,
                    run[r].pc = "replace", Alone(r),
                    content'[run[r].fp] # content[run[r].fp]
             PROVE  LET old == content[run[r].fp]
                        new == content'[run[r].fp] IN
                    /\ old[Len(old)] # Garbled => EndsWith(new, AddKey(r))
                    /\ Distinct(new)
  BY DEF TrimStep, EndsWith, Distinct
<1>1. PICK q \in Runs : AppendLine(q) \/ AppendBreaks(q) \/ Unlink(q) \/ TrimReplace(q)
  BY FileStep
<1>2. run[q].pc \in {"append", "unlink", "replace"}
  BY <1>1 DEF AppendLine, AppendBreaks, Unlink, TrimReplace
<1>3. q = r
  BY <1>2 DEF Alone
<1>4. TrimReplace(r)
  BY <1>1, <1>3 DEF AppendLine, AppendBreaks, Unlink
<1>5. content'[run[r].fp] = run[r].newest
  BY <1>4, FileOf DEF TrimReplace, TypeInv, TypeOK
<1>6. QED BY <1>5 DEF Trims, RunTrims

(* HopCache._trim: when a run that no other run races with trims its file, *)
(* no hop is listed twice any more, and the hop it has just verified stays, *)
(* as the newest line, unless it was written behind a torn line and never   *)
(* was readable, whatever earlier runs left in the file.                   *)
THEOREM TrimCorrect == Spec => TrimKeepsNewest
<1>1. Init => TypeInv /\ Trims
  BY InitTypes, InitTrims
<1>2. TypeInv /\ Trims /\ [Next]_vars => TypeInv' /\ Trims'
  BY StepTypes, StepTrims
<1>3. TypeInv /\ Trims /\ [Next]_vars => [TrimStep]_vars
  BY StepKeepsNewest
<1>4. QED BY <1>1, <1>2, <1>3, PTL DEF Spec, TrimKeepsNewest

-------------------------------------------------------------------------------
(* The size of the directory.                                              *)

Rank(files, e) == Cardinality({f \in files : <<f, e>> \in newer})

(* Whoever follows another file in the order has more files before it.     *)
LEMMA RankGrows ==
    ASSUME NEW files, IsFiniteSet(files), Ordered(present, newer), files \subseteq present,
           NEW e \in files, NEW f \in files, <<e, f>> \in newer
    PROVE  /\ Rank(files, e) \in Nat /\ Rank(files, f) \in Nat
           /\ Rank(files, e) < Rank(files, f)
<1> DEFINE E == {g \in files : <<g, e>> \in newer}
           F == {g \in files : <<g, f>> \in newer}
<1>1. E \subseteq F \ {e} /\ e \in F
  BY DEF Ordered
<1>2. IsFiniteSet(E) /\ IsFiniteSet(F)
  BY FS_Subset
<1>3. Rank(files, e) = Cardinality(E) /\ Rank(files, f) = Cardinality(F)
  BY DEF Rank
<1> HIDE DEF E, F
<1>4. IsFiniteSet(F \ {e}) /\ Cardinality(F \ {e}) = Cardinality(F) - 1
  BY <1>1, <1>2, FS_RemoveElement
<1>5. Cardinality(E) <= Cardinality(F \ {e})
  BY <1>1, <1>4, FS_Subset
<1>6. Cardinality(E) \in Nat /\ Cardinality(F) \in Nat
  BY <1>2, FS_CardinalityType
<1>7. QED BY <1>3, <1>4, <1>5, <1>6

(* At most n files have fewer than n files before them.                    *)
LEMMA FewNewest ==
    ASSUME NEW files, IsFiniteSet(files), Ordered(present, newer), files \subseteq present,
           NEW n \in Nat
    PROVE  /\ IsFiniteSet({e \in files : Rank(files, e) < n})
           /\ Cardinality({e \in files : Rank(files, e) < n}) <= n
<1> DEFINE S == {e \in files : Rank(files, e) < n}
           before(e) == {f \in files : <<f, e>> \in newer}
<1>1. IsFiniteSet(S)
  BY FS_Subset
<1>2. CASE S = {}
  BY <1>1, <1>2, FS_EmptySet
<1>3. CASE S # {}
  <2> DEFINE R == {n - Rank(files, e) : e \in S}
  <2>1. \A e \in files : Rank(files, e) \in Nat /\ IsFiniteSet(before(e))
    <3>1. ASSUME NEW e \in files PROVE IsFiniteSet(before(e))
      BY FS_Subset
    <3>2. QED BY <3>1, FS_CardinalityType DEF Rank
  <2>2. R \in SUBSET Nat /\ R # {}
    <3>1. ASSUME NEW e \in S PROVE n - Rank(files, e) \in Nat
      <4>1. Rank(files, e) \in Nat /\ Rank(files, e) < n
        BY <2>1
      <4> HIDE DEF S
      <4>2. QED BY <4>1
    <3>2. QED BY <1>3, <3>1
  <2>3. PICK e \in S : \A f \in S : n - Rank(files, e) <= n - Rank(files, f)
    <3>1. PICK m \in R : \A k \in R : m <= k
      <4> HIDE DEF R
      <4>1. QED BY <2>2, LeastElement
    <3>2. PICK e \in S : m = n - Rank(files, e)
      OBVIOUS
    <3>3. \A f \in S : n - Rank(files, f) \in R
      OBVIOUS
    <3>4. QED BY <3>1, <3>2, <3>3
  <2>4. S \subseteq before(e) \cup {e}
    <3>1. SUFFICES ASSUME NEW f \in S, f # e PROVE <<f, e>> \in newer
      OBVIOUS
    <3>2. ~(<<e, f>> \in newer)
      <4>1. SUFFICES ASSUME <<e, f>> \in newer PROVE FALSE
        OBVIOUS
      <4>2. Rank(files, e) < Rank(files, f)
        BY <4>1, RankGrows
      <4>3. Rank(files, e) \in Nat /\ Rank(files, f) \in Nat
        BY <2>1
      <4>4. n - Rank(files, e) <= n - Rank(files, f)
        BY <2>3
      <4>5. QED BY <4>2, <4>3, <4>4
    <3>3. e \in present /\ f \in present
      OBVIOUS
    <3>4. QED BY <3>1, <3>2, <3>3 DEF Ordered
  <2>5. Cardinality(before(e)) = Rank(files, e) /\ Rank(files, e) < n /\ Rank(files, e) \in Nat
        /\ IsFiniteSet(before(e)) /\ e \notin before(e)
    <3>1. e \notin before(e)
      BY DEF Ordered
    <3>2. QED BY <2>1, <3>1 DEF Rank
  <2> HIDE DEF S, before
  <2>6. IsFiniteSet(before(e) \cup {e}) /\ Cardinality(before(e) \cup {e}) = Rank(files, e) + 1
    BY <2>5, FS_AddElement
  <2>7. Cardinality(S) <= Rank(files, e) + 1 /\ Cardinality(S) \in Nat
    BY <1>1, <2>4, <2>6, FS_Subset, FS_CardinalityType
  <2>8. Cardinality(S) <= n
    BY <2>5, <2>7
  <2>9. QED BY <1>1, <2>8 DEF S
<1>4. QED BY <1>2, <1>3

(* The files no run of ours keeps, and those that will stay of them.       *)
OwnFiles == {run[q].fp : q \in Runs}
Foreign == present \ OwnFiles

(* Some pruning went through, or still will, unless one was missed.        *)
Settled ==
    \/ Cardinality(Foreign) < MaxCacheFiles
    \/ \E q \in Runs : /\ run[q].pc = "unlink"
                       /\ Cardinality(Foreign \ run[q].victims) < MaxCacheFiles
    \/ upkeep # "whole"

(* No pruning has removed a file: those under way are going to succeed.    *)
Waiting(s) ==
    /\ s.pc # "unlink"
    /\ s.pc \in {"glob", "trim", "replace"} => s.fp \in present
    /\ s.pc = "append" /\ ~s.created => s.fp \in present
    /\ s.pc = "stat" =>
          s.fp \in s.listed /\ Foreign \subseteq s.listed /\ s.listed \subseteq present
Unsettled ==
    /\ \A q \in Runs : Waiting(run[q])
    /\ (\E q \in Runs : run[q].pc \in {"glob", "stat"}) \/ Cardinality(present) <= MostFiles

(* Only files of our runs are newer than the file of a run that prunes.    *)
DirOrder ==
    /\ IsFiniteSet(present)
    /\ Ordered(present, newer)
    /\ \A q \in Runs :
          /\ run[q].pc \in {"idle", "open"} => run[q].fp = NoEngine
          /\ run[q].pc \in {"glob", "stat"} =>
                \A f \in present : <<f, run[q].fp>> \in newer => f \in OwnFiles

(* What a pruning under way lists, and will leave if it goes through: a    *)
(* run's own file is not among what it counts only if it was removed, and  *)
(* is written again only by a run of the same version of the engine.       *)
Shared(q) == run[q].fp # NoEngine /\ \E p \in Runs \ {q} : run[p].fp = run[q].fp
Spared(q) == run[q].fp \notin present \/ Shared(q)
RunPrunes(q) ==
    /\ run[q].pc = "stat" =>
          Foreign \subseteq run[q].listed /\ (run[q].fp \in run[q].listed \/ Spared(q))
    /\ run[q].pc = "unlink" =>
          LET left == Cardinality(Foreign \ run[q].victims) IN
          left <= MaxCacheFiles /\ (left < MaxCacheFiles \/ Spared(q))
Prunes ==
    /\ \A q \in Runs : RunPrunes(q)
    /\ upkeep = "settled" =>
          /\ Cardinality(Foreign) <= MaxCacheFiles
          /\ Cardinality(Foreign) < MaxCacheFiles \/ \E q \in Runs : Shared(q)

(* What every step keeps, and what it may change of upkeep.                *)
DirKept ==
    /\ DirOrder'
    /\ Settled \/ Unsettled => Settled' \/ Unsettled'
    /\ Prunes => Prunes'
UpkeepStep(r) ==
    /\ upkeep # "whole" => upkeep' # "whole"
    /\ upkeep' = "settled" => upkeep = "settled" \/ PruneEnds(r)

LEMMA UpkeepMoves ==
    ASSUME NEW r \in Runs, Import(r) \/ RunStep(r) \/ Kill(r)
    PROVE  UpkeepStep(r)
<1>1. CASE Import(r) \/ Open(r) \/ Check(r) \/ Trim(r) \/ WorkerStep(r)
  <2>1. upkeep' = upkeep
    BY <1>1 DEF Import, Open, Check, HopHit, HopCheck, LookupAll, LookupAllInline, PoolDone,
       RecordHop, Finish, Trim, TrimRead, TrimReadFails, TrimReplace, TrimReplaceFails,
       WorkerStep, WorkerTake, WorkerReport
  <2>2. QED BY <2>1 DEF UpkeepStep
<1>2. CASE Add(r) \/ Kill(r)
  <2>1. upkeep' \in {upkeep, Missed}
    BY <1>2 DEF Add, AddReturns, AddStale, AddKnown, AppendLine, AppendFails, AppendBreaks, Kill
  <2>2. QED BY <2>1 DEF UpkeepStep, Missed
<1>3. CASE Prune(r)
  <2>1. \/ upkeep' \in {upkeep, Missed}
        \/ PruneEnds(r) /\ upkeep' \in {upkeep, "settled"}
    BY <1>3 DEF Prune, PruneGlob, PruneStatFails, PruneFails, PruneStat, Unlink, PruneEnds
  <2>2. QED BY <2>1 DEF UpkeepStep, Missed
<1>4. QED BY <1>1, <1>2, <1>3 DEF RunStep

LEMMA KeptNewest ==
    ASSUME DirOrder, MaxCacheFiles > 0, NEW r \in Runs, run[r].pc = "stat",
           Foreign \subseteq run[r].listed, run[r].listed \subseteq present
    PROVE  /\ Cardinality(Foreign \ Victims(r)) <= MaxCacheFiles
           /\ run[r].fp \in run[r].listed => Cardinality(Foreign \ Victims(r)) < MaxCacheFiles
<1> DEFINE own == run[r].fp
           files == run[r].listed
           S == {e \in files : Rank(files, e) < MaxCacheFiles}
           T == Foreign \ Victims(r)
<1>1. Foreign \subseteq files /\ files \subseteq present /\ own \in OwnFiles
  BY DEF OwnFiles
<1>2. IsFiniteSet(files) /\ Ordered(present, newer) /\ MaxCacheFiles \in Nat
  BY <1>1, FS_Subset, LimitsAssumption DEF DirOrder
<1>3. \A e \in files : Rank(files, e) \in Nat
  <2>1. ASSUME NEW e \in files PROVE IsFiniteSet({f \in files : <<f, e>> \in newer})
    BY <1>2, FS_Subset
  <2>2. QED BY <2>1, FS_CardinalityType DEF Rank
<1>4. T \subseteq S \ {own}
  <2>1. SUFFICES ASSUME NEW e \in T PROVE Rank(files, e) < MaxCacheFiles
    BY <1>1 DEF Foreign
  <2>2. ~(Rank(files, e) >= MaxCacheFiles)
    BY <1>1 DEF Victims, Rank, Foreign
  <2>3. QED BY <1>1, <1>2, <1>3, <2>2
<1>5. IsFiniteSet(S) /\ Cardinality(S) <= MaxCacheFiles /\ Cardinality(S) \in Nat
  BY <1>1, <1>2, FewNewest, FS_CardinalityType
<1>6. IsFiniteSet(T) /\ Cardinality(T) <= MaxCacheFiles
  <2> HIDE DEF S, T, own
  <2>1. IsFiniteSet(T) /\ Cardinality(T) <= Cardinality(S) /\ Cardinality(T) \in Nat
    BY <1>4, <1>5, FS_Subset, FS_CardinalityType
  <2>2. QED BY <1>2, <1>5, <2>1
<1>7. CASE own \in S
  <2> HIDE DEF S, T, own
  <2>1. IsFiniteSet(S \ {own}) /\ Cardinality(S \ {own}) = Cardinality(S) - 1
    BY <1>5, <1>7, FS_RemoveElement
  <2>2. IsFiniteSet(T) /\ Cardinality(T) <= Cardinality(S \ {own}) /\ Cardinality(T) \in Nat
    BY <1>4, <2>1, FS_Subset, FS_CardinalityType
  <2>3. Cardinality(T) < MaxCacheFiles
    BY <1>2, <1>5, <2>1, <2>2
  <2>4. QED BY <1>6, <2>3 DEF T
<1>8. CASE own \in files \ S
  <2>1. T = {}
    <3>1. SUFFICES ASSUME NEW e \in T PROVE FALSE
      OBVIOUS
    <3>2. /\ e \in files /\ e # own /\ e \in present /\ own \in present /\ e \notin OwnFiles
          /\ Rank(files, e) < MaxCacheFiles
      BY <1>1, <1>4, <1>8 DEF Foreign
    <3>3. <<e, own>> \notin newer
      BY <3>2 DEF DirOrder
    <3>4. <<own, e>> \in newer
      BY <1>2, <3>2, <3>3 DEF Ordered
    <3>5. Rank(files, own) < Rank(files, e)
      BY <1>1, <1>2, <1>8, <3>2, <3>4, RankGrows
    <3>6. ~(Rank(files, own) < MaxCacheFiles)
      BY <1>1, <1>8
    <3>7. Rank(files, own) \in Nat /\ Rank(files, e) \in Nat
      BY <1>1, <1>3, <1>8, <3>2
    <3>8. QED BY <1>2, <3>2, <3>5, <3>6, <3>7
  <2>2. QED BY <1>2, <1>6, <2>1, FS_EmptySet
<1>9. QED BY <1>6, <1>7, <1>8

(* What a run's file becomes when it is written.                           *)
LEMMA TouchOrders ==
    ASSUME DirOrder, NEW e, present' = present \cup {e}, newer' = Touch(e)
    PROVE  IsFiniteSet(present)' /\ Ordered(present, newer)'
<1>1. IsFiniteSet(present')
  BY FS_AddElement DEF DirOrder
<1>2. Ordered(present, newer)
  BY DEF DirOrder
<1>3. \A f, g : <<f, g>> \in newer' <=> \/ <<f, g>> \in newer /\ f # e /\ g # e
                                        \/ f = e /\ g \in present /\ g # e
  BY <1>2 DEF Touch, Ordered
<1>4. newer' \subseteq present' \X present'
  BY <1>2 DEF Touch, Ordered
<1>5. QED BY <1>1, <1>2, <1>3, <1>4 DEF Ordered

LEMMA UnlinkOrders ==
    ASSUME DirOrder, NEW e, present' = present \ {e},
           newer' = {p \in newer : e \notin {p[1], p[2]}}
    PROVE  IsFiniteSet(present)' /\ Ordered(present, newer)'
<1>1. IsFiniteSet(present')
  BY FS_RemoveElement DEF DirOrder
<1>2. Ordered(present, newer)
  BY DEF DirOrder
<1>3. \A f, g : <<f, g>> \in newer' <=> <<f, g>> \in newer /\ f # e /\ g # e
  BY <1>2 DEF Ordered
<1>4. newer' \subseteq present' \X present'
  BY <1>2 DEF Ordered
<1>5. QED BY <1>1, <1>2, <1>3, <1>4 DEF Ordered

(* A run keeps its file once it has one, and only own files are added.     *)
OwnStep(r) ==
    /\ run'[r].fp = run[r].fp \/ run[r].pc = "open"
    /\ \A q \in Runs \ {r} : run'[q] = run[q]
    /\ present' \subseteq present \cup {run[r].fp}
    /\ present' \subseteq Engines

LEMMA OwnGrows ==
    ASSUME TypeInv, DirOrder, NEW r \in Runs, OwnStep(r)
    PROVE  /\ \A e \in Engines : e \in OwnFiles => e \in OwnFiles'
           /\ Foreign' \subseteq Foreign
<1>1. NoEngine \notin Engines
  BY EnginesAssumption
<1>2. \A e \in Engines : e \in OwnFiles => e \in OwnFiles'
  <2>1. SUFFICES ASSUME NEW e \in Engines, NEW q \in Runs, run[q].fp = e
                 PROVE  \E p \in Runs : run'[p].fp = e
    BY DEF OwnFiles
  <2>2. CASE q = r
    BY <1>1, <2>1, <2>2 DEF OwnStep, DirOrder
  <2>3. CASE q # r
    BY <2>1, <2>3 DEF OwnStep
  <2>4. QED BY <2>2, <2>3
<1>3. ASSUME NEW e \in Foreign' PROVE e \in Foreign
  <2>1. e \in present' /\ e \notin OwnFiles' /\ e \in Engines
    BY DEF Foreign, OwnStep
  <2>2. CASE e \in present
    BY <1>2, <2>1, <2>2 DEF Foreign
  <2>3. CASE e = run[r].fp
    BY <1>2, <2>1, <2>3 DEF OwnFiles
  <2>4. e \in present \/ e = run[r].fp
    BY <2>1 DEF OwnStep
  <2>5. QED BY <2>2, <2>3, <2>4
<1>4. QED BY <1>2, <1>3

LEMMA SettledStays ==
    ASSUME IsFiniteSet(present), MaxCacheFiles \in Nat, Foreign' \subseteq Foreign,
           NEW r \in Runs, \A q \in Runs \ {r} : run'[q] = run[q],
           UpkeepStep(r),
           run[r].pc = "unlink" =>
              \/ upkeep' # "whole"
              \/ /\ run'[r].pc = "unlink"
                 /\ Foreign' \ run'[r].victims \subseteq Foreign \ run[r].victims
              \/ run[r].victims = {},
           Settled
    PROVE  Settled'
<1>1. IsFiniteSet(Foreign)
  BY FS_Subset DEF Foreign
<1>2. ASSUME NEW S, NEW T, T \subseteq S, S \subseteq Foreign, Cardinality(S) < MaxCacheFiles
      PROVE  Cardinality(T) < MaxCacheFiles
  <2>1. IsFiniteSet(S)
    BY <1>1, <1>2, FS_Subset
  <2>2. IsFiniteSet(T) /\ Cardinality(T) <= Cardinality(S)
    BY <1>2, <2>1, FS_Subset
  <2>3. Cardinality(S) \in Nat /\ Cardinality(T) \in Nat
    BY <2>1, <2>2, FS_CardinalityType
  <2>4. QED BY <1>2, <2>2, <2>3
<1>3. CASE Cardinality(Foreign) < MaxCacheFiles
  <2>1. Cardinality(Foreign') < MaxCacheFiles
    BY <1>2, <1>3
  <2>2. QED BY <2>1 DEF Settled
<1>4. ASSUME NEW q \in Runs, run[q].pc = "unlink",
             Cardinality(Foreign \ run[q].victims) < MaxCacheFiles
      PROVE  Settled'
  <2>1. CASE run'[q].pc = "unlink" /\ Foreign' \ run'[q].victims \subseteq Foreign \ run[q].victims
    <3>1. Cardinality(Foreign' \ run'[q].victims) < MaxCacheFiles
      BY <1>2, <1>4, <2>1
    <3>2. QED BY <2>1, <3>1 DEF Settled
  <2>2. CASE upkeep' # "whole"
    BY <2>2 DEF Settled
  <2>3. CASE run[q].victims = {}
    <3>1. Cardinality(Foreign) < MaxCacheFiles
      <4>1. Foreign \ {} = Foreign
        OBVIOUS
      <4>2. QED BY <1>4, <2>3, <4>1
    <3>2. QED BY <1>3, <3>1
  <2>4. q # r => run'[q] = run[q]
    OBVIOUS
  <2>5. QED BY <1>4, <2>1, <2>2, <2>3, <2>4
<1>5. ASSUME upkeep # "whole" PROVE Settled'
  BY <1>5 DEF Settled, UpkeepStep
<1>6. QED BY <1>3, <1>4, <1>5 DEF Settled

(* A file that was removed comes back only from a run of its version.      *)
LEMMA SharedStays ==
    ASSUME DirOrder, NEW r \in Runs, OwnStep(r), NEW q \in Runs, Shared(q)
    PROVE  Shared(q)'
<1>1. PICK p \in Runs \ {q} : run[p].fp = run[q].fp /\ run[q].fp # NoEngine
  BY DEF Shared
<1>2. run'[p].fp = run[p].fp /\ run'[q].fp = run[q].fp
  BY <1>1 DEF DirOrder, OwnStep
<1>3. QED BY <1>1, <1>2 DEF Shared

LEMMA SparedStays ==
    ASSUME TypeInv, DirOrder, NEW r \in Runs, OwnStep(r), NEW q \in Runs,
           run[q].pc \in {"stat", "unlink"}, Spared(q),
           q = r => present' \subseteq present /\ run'[q].fp = run[q].fp
    PROVE  Spared(q)'
<1>1. run[q].fp \in Engines /\ run[q].fp # NoEngine
  BY FileOf, EnginesAssumption
<1>2. run'[q].fp = run[q].fp
  BY DEF OwnStep
<1>3. CASE Shared(q)
  BY <1>3, SharedStays DEF Spared
<1>4. CASE run[q].fp \notin present /\ run[q].fp \in present'
  <2>1. q # r /\ run[r].fp = run[q].fp
    BY <1>4 DEF OwnStep
  <2>2. Shared(q)
    BY <1>1, <2>1 DEF Shared
  <2>3. QED BY <1>3, <2>2
<1>5. QED BY <1>2, <1>3, <1>4 DEF Spared

LEMMA PrunesStay ==
    ASSUME TypeInv, DirOrder, NEW r \in Runs, OwnStep(r), UpkeepStep(r),
           Foreign' \subseteq Foreign, Prunes, RunPrunes(r)'
    PROVE  Prunes'
<1>1. IsFiniteSet(Foreign) /\ MaxCacheFiles \in Nat
  BY FS_Subset, LimitsAssumption DEF Foreign, DirOrder
<1>2. ASSUME NEW S, NEW T, T \subseteq S, S \subseteq Foreign
      PROVE  Cardinality(T) \in Nat /\ Cardinality(S) \in Nat /\ Cardinality(T) <= Cardinality(S)
  <2>1. IsFiniteSet(S)
    BY <1>1, <1>2, FS_Subset
  <2>2. QED BY <1>2, <2>1, FS_Subset, FS_CardinalityType
<1>3. ASSUME NEW q \in Runs \ {r} PROVE RunPrunes(q)'
  <2>1. run'[q] = run[q] /\ RunPrunes(q)
    BY DEF OwnStep, Prunes
  <2>2. CASE run[q].pc = "stat"
    <3>1. Spared(q) => Spared(q)'
      BY <2>2, SparedStays
    <3>2. QED BY <2>1, <2>2, <3>1 DEF RunPrunes
  <2>3. CASE run[q].pc = "unlink"
    <3>1. Spared(q) => Spared(q)'
      BY <2>3, SparedStays
    <3>2. PICK S, T : S = Foreign \ run[q].victims /\ T = Foreign' \ run[q].victims
      OBVIOUS
    <3>3. Cardinality(T) \in Nat /\ Cardinality(S) \in Nat /\ Cardinality(T) <= Cardinality(S)
      BY <1>2, <3>2
    <3>4. Cardinality(S) <= MaxCacheFiles /\ (Cardinality(S) < MaxCacheFiles \/ Spared(q))
      BY <2>1, <2>3, <3>2 DEF RunPrunes
    <3>5. /\ Cardinality(T) <= MaxCacheFiles
          /\ Cardinality(T) < MaxCacheFiles \/ Spared(q)'
      BY <1>1, <3>1, <3>3, <3>4
    <3>6. T = Foreign' \ run'[q].victims /\ run'[q].pc = "unlink"
      BY <2>1, <2>3, <3>2
    <3>7. QED BY <3>5, <3>6 DEF RunPrunes
  <2>4. CASE run[q].pc \notin {"stat", "unlink"}
    BY <2>1, <2>4 DEF RunPrunes
  <2>5. QED BY <2>2, <2>3, <2>4
<1>4. ASSUME upkeep' = "settled"
      PROVE  /\ Cardinality(Foreign') <= MaxCacheFiles
             /\ Cardinality(Foreign') < MaxCacheFiles \/ \E q \in Runs : Shared(q)'
  <2>1. PICK F, G : F = Foreign /\ G = Foreign'
    OBVIOUS
  <2>2. Cardinality(G) \in Nat /\ Cardinality(F) \in Nat /\ Cardinality(G) <= Cardinality(F)
    BY <1>2, <2>1
  <2>3. /\ Cardinality(F) <= MaxCacheFiles
        /\ Cardinality(F) < MaxCacheFiles \/ \E q \in Runs : Shared(q)
    <3>1. CASE upkeep = "settled"
      BY <2>1, <3>1 DEF Prunes
    <3>2. CASE PruneEnds(r) /\ upkeep # "settled"
      <4>1. run[r].pc = "unlink" /\ run[r].victims = {} /\ run[r].fp \in present
        BY <1>4, <3>2 DEF PruneEnds
      <4>2. RunPrunes(r) /\ Foreign \ {} = Foreign
        BY DEF Prunes
      <4>3. QED BY <2>1, <4>1, <4>2 DEF RunPrunes, Spared
    <3>3. QED BY <1>4, <3>1, <3>2 DEF UpkeepStep
  <2>4. (\E q \in Runs : Shared(q)) => \E q \in Runs : Shared(q)'
    BY SharedStays
  <2>5. /\ Cardinality(G) <= MaxCacheFiles
        /\ Cardinality(F) < MaxCacheFiles => Cardinality(G) < MaxCacheFiles
    BY <1>1, <2>2, <2>3
  <2>6. QED BY <2>1, <2>3, <2>4, <2>5
<1>5. QED BY <1>3, <1>4 DEF Prunes

(* Steps of a run that leave the directory alone.                          *)
Aside(s, t) ==
    /\ s.pc \notin {"idle", "glob", "stat", "unlink", "trim", "replace"}
    /\ s.fp = t.fp \/ t.pc = "open"
    /\ s.pc = "open" => t.pc = "idle" /\ s.fp = t.fp
    /\ s.pc = "append" => s.created \/ s.fp \in present
    /\ t.pc \in {"glob", "unlink"} => upkeep' # "whole"
    /\ t.pc = "stat" => upkeep' # "whole" \/ ~(t.listed \subseteq present)

LEMMA AsideKeeps ==
    ASSUME TypeInv, TypeInv', DirOrder, MaxCacheFiles \in Nat,
           NEW r \in Runs, UpkeepStep(r), Aside(run'[r], run[r]),
           \A q \in Runs \ {r} : run'[q] = run[q],
           UNCHANGED <<present, newer>>
    PROVE  DirKept
<1>1. OwnStep(r)
  BY DEF OwnStep, Aside, TypeInv, TypeOK
<1>2. /\ \A e \in Engines : e \in OwnFiles => e \in OwnFiles'
      /\ Foreign' \subseteq Foreign
  BY <1>1, OwnGrows
<1>3. IsFiniteSet(present)' /\ Ordered(present, newer)'
  BY DEF DirOrder, Ordered
<1>4. \A q \in Runs : run'[q].pc \in {"idle", "open"} => run'[q].fp = NoEngine
  BY DEF DirOrder, Aside
<1>5. ASSUME NEW q \in Runs, run'[q].pc \in {"glob", "stat"},
             NEW f \in present', <<f, run'[q].fp>> \in newer'
      PROVE  f \in OwnFiles'
  <2>1. q # r
    BY <1>5 DEF Aside
  <2>2. f \in OwnFiles
    BY <1>5, <2>1 DEF DirOrder
  <2>3. f \in Engines
    BY DEF TypeInv, TypeOK
  <2>4. QED BY <1>2, <2>2, <2>3
<1>6. Settled => Settled'
  BY <1>2, SettledStays DEF DirOrder, Aside
<1>7. Unsettled => Settled' \/ Unsettled'
  <2>1. SUFFICES ASSUME Unsettled, ~Settled' PROVE Unsettled'
    OBVIOUS
  <2>2. Waiting(run[r])
    BY <2>1 DEF Unsettled
  <2>3. upkeep' = "whole"
    BY <2>1 DEF Settled
  <2>4. run[r].pc \notin {"glob", "stat"}
    BY <2>2, <2>3 DEF Aside, Waiting
  <2>5. Waiting(run[r])'
    BY DEF Aside, Waiting
  <2>6. ASSUME NEW q \in Runs \ {r} PROVE Waiting(run[q])'
    <3>1. Waiting(run[q]) /\ run'[q] = run[q]
      BY <2>1 DEF Unsettled
    <3>2. QED BY <1>2, <3>1 DEF Waiting
  <2>7. (\E q \in Runs : run'[q].pc \in {"glob", "stat"}) \/ Cardinality(present') <= MostFiles
    BY <2>1, <2>4 DEF Unsettled
  <2>8. QED BY <2>5, <2>6, <2>7 DEF Unsettled, MostFiles
<1>8. Prunes => Prunes'
  <2>1. RunPrunes(r)'
    BY DEF Aside, RunPrunes
  <2>2. QED BY <1>1, <1>2, <2>1, PrunesStay
<1>9. DirOrder'
  BY <1>3, <1>4, <1>5 DEF DirOrder
<1>10. QED BY <1>6, <1>7, <1>8, <1>9 DEF DirKept

(* What the other steps have in common.                                    *)
LEMMA DirStep ==
    ASSUME TypeInv, DirOrder, MaxCacheFiles \in Nat, NEW r \in Runs, OwnStep(r), UpkeepStep(r),
           run'[r].fp = run[r].fp, run'[r].pc \notin {"idle", "open"},
           IsFiniteSet(present)', Ordered(present, newer)',
           run'[r].pc \in {"glob", "stat"} =>
              \A f \in present' : <<f, run[r].fp>> \in newer' => f \in OwnFiles',
           \A f, g : <<f, g>> \in newer' => <<f, g>> \in newer \/ f = run[r].fp,
           run[r].pc = "unlink" =>
              \/ /\ run'[r].pc = "unlink"
                 /\ Foreign' \ run'[r].victims \subseteq Foreign \ run[r].victims
              \/ run[r].victims = {},
           Unsettled => Settled' \/ Unsettled',
           Prunes => RunPrunes(r)'
    PROVE  DirKept
<1>1. /\ \A e \in Engines : e \in OwnFiles => e \in OwnFiles'
      /\ Foreign' \subseteq Foreign
  BY OwnGrows
<1>2. \A q \in Runs : run'[q].pc \in {"idle", "open"} => run'[q].fp = NoEngine
  BY DEF DirOrder, OwnStep
<1>3. ASSUME NEW q \in Runs, run'[q].pc \in {"glob", "stat"},
             NEW f \in present', <<f, run'[q].fp>> \in newer'
      PROVE  f \in OwnFiles'
  <2>1. CASE q = r
    BY <1>3, <2>1
  <2>2. CASE q # r /\ f = run[r].fp
    BY <2>2 DEF OwnFiles
  <2>3. CASE q # r /\ <<f, run'[q].fp>> \in newer
    <3>1. run'[q] = run[q] /\ f \in present
      BY <2>3 DEF OwnStep, DirOrder, Ordered
    <3>2. f \in OwnFiles /\ f \in Engines
      BY <1>3, <2>3, <3>1 DEF DirOrder, TypeInv, TypeOK
    <3>3. QED BY <1>1, <3>2
  <2>4. QED BY <1>3, <2>1, <2>2, <2>3
<1>4. Settled => Settled'
  <2>1. \A q \in Runs \ {r} : run'[q] = run[q]
    BY DEF OwnStep
  <2>2. IsFiniteSet(present)
    BY DEF DirOrder
  <2>3. QED BY <1>1, <2>1, <2>2, SettledStays
<1>5. DirOrder'
  BY <1>2, <1>3 DEF DirOrder
<1>6. QED BY <1>1, <1>4, <1>5, PrunesStay DEF DirKept

LEMMA CheckAside ==
    ASSUME TypeInv, NEW r \in Runs, Import(r) \/ Open(r) \/ Check(r) \/ Kill(r)
    PROVE  /\ Aside(run'[r], run[r])
           /\ \A q \in Runs \ {r} : run'[q] = run[q]
           /\ UNCHANGED <<present, newer>>
<1> DEFINE Far == /\ run'[r].pc # "append"
                  /\ run[r].pc \in {"glob", "unlink", "stat"} => upkeep' # "whole"
                  /\ run'[r].pc = "open" => run'[r].fp = run[r].fp
<1>1. run[r] \in RunStates(r)
  BY RunTypes
<1>2. r \in DOMAIN run
  BY DEF TypeInv, TypeOK
<1>3. ASSUME Import(r) PROVE Far
  <2>1. QED BY <1>1, <1>2, <1>3 DEF Import, RunStates
<1>4. ASSUME Open(r) PROVE Far
  <2>1. run[r].pc = "open" /\ run'[r].pc \in {"lookup", "hop"}
    <3>1. PICK m \in Modes, q \in BOOLEAN, read \in FileRead(sources) :
            run' = [run EXCEPT ![r].pc = IF m = "parallel" THEN "lookup" ELSE "hop",
                               ![r].mode = m,
                               ![r].quiet = q,
                               ![r].fp = sources,
                               ![r].known = Entries(read),
                               ![r].lines = Cardinality(Readable(read))]
      BY <1>4 DEF Open
    <3>2. run'[r].pc \in {"lookup", "hop"}
      BY <1>1, <1>2, <3>1 DEF RunStates
    <3>3. QED BY <1>4, <3>2 DEF Open
  <2>2. QED BY <2>1
<1>5. ASSUME HopHit(r) PROVE Far
  <2>1. QED BY <1>1, <1>2, <1>5 DEF HopHit, RunStates
<1>6. ASSUME HopCheck(r) PROVE Far
  <2>1. run[r].pc = "hop" /\ run'[r].pc \in {"add", "hop"}
    <3>1. PICK v : v = Verdict(run[r].loaded, Hop(r, run[r].idx))
      OBVIOUS
    <3>2. run' = [run EXCEPT ![r].verdict[run[r].idx] = v,
                             ![r].pc = IF v = "valid" THEN "add" ELSE "hop",
                             ![r].idx = IF v = "valid" THEN @ ELSE @ + 1]
      BY <1>6, <3>1 DEF HopCheck
    <3>3. QED BY <1>1, <1>2, <1>6, <3>2 DEF HopCheck, RunStates
  <2>2. QED BY <2>1
<1>7. ASSUME LookupAll(r) PROVE Far
  <2>1. QED BY <1>1, <1>2, <1>7 DEF LookupAll, RunStates
<1>8. ASSUME LookupAllInline(r) PROVE Far
  <2>1. QED BY <1>1, <1>2, <1>8 DEF LookupAllInline, RunStates
<1>9. ASSUME PoolDone(r) \/ RecordHop(r) \/ Finish(r) PROVE Far
  <2>1. QED BY <1>1, <1>2, <1>9 DEF PoolDone, RecordHop, Finish, RunStates
<1>10. ASSUME Kill(r) PROVE Far
  <2>1. QED BY <1>1, <1>2, <1>10 DEF Kill, Missed, RunStates
<1>11. Far
  BY <1>3, <1>4, <1>5, <1>6, <1>7, <1>8, <1>9, <1>10 DEF Check
<1>12. UNCHANGED <<present, newer>>
  BY DEF Import, Open, Check, HopHit, HopCheck, LookupAll, LookupAllInline, PoolDone, RecordHop,
     Finish, Kill
<1>13. QED BY <1>11, <1>12, CheckBesides DEF Aside, Besides

LEMMA ReportAside ==
    ASSUME TypeInv, NEW r \in Runs, NEW w \in Workers, WorkerReport(r, w)
    PROVE  /\ Aside(run'[r], run[r])
           /\ \A q \in Runs \ {r} : run'[q] = run[q]
           /\ UNCHANGED <<present, newer>>
<1>1. PICK f, v, i : run' = [run EXCEPT ![r].verdict[i] = v, ![r].by[i] = f]
  BY DEF WorkerReport
<1>2. run[r] \in RunStates(r) /\ run[r].pc = "pool"
  BY RunTypes DEF WorkerReport
<1>3. run'[r].pc = "pool"
  BY <1>1, <1>2 DEF RunStates, TypeInv, TypeOK
<1>4. QED BY <1>2, <1>3, ReportBesides DEF Aside, Besides, WorkerReport

LEMMA AddAside ==
    ASSUME TypeInv, NEW r \in Runs,
           \/ AddReturns(r) \/ AddStale(r) \/ AddKnown(r) \/ AppendFails(r)
           \/ PruneStatFails(r) \/ TrimReadFails(r) \/ TrimReplaceFails(r)
    PROVE  /\ Aside(run'[r], run[r])
           /\ \A q \in Runs \ {r} : run'[q] = run[q]
           /\ UNCHANGED <<present, newer>>
<1> DEFINE Far == /\ run'[r].pc = "append" => run'[r].created \/ run'[r].fp \in present
                  /\ run[r].pc \notin {"glob", "unlink"}
                  /\ run[r].pc = "stat" => ~(run[r].listed \subseteq present)
                  /\ run'[r].pc # "open"
<1>1. run[r] \in RunStates(r) /\ NextHop(r) \in {"record", "hop"}
  BY RunTypes, NextHopType
<1>2. r \in DOMAIN run
  BY DEF TypeInv, TypeOK
<1>3. ASSUME AddReturns(r) \/ AddStale(r) \/ AppendFails(r) PROVE Far
  <2>1. Far
    BY <1>1, <1>2, <1>3 DEF AddReturns, AddStale, AppendFails, AddEnds, RunStates
  <2>2. QED BY <2>1
<1>4. ASSUME AddKnown(r) PROVE Far
  <2>1. Far
    BY <1>1, <1>2, <1>4 DEF AddKnown, RunStates
  <2>2. QED BY <2>1
<1>5. ASSUME PruneStatFails(r) PROVE Far
  <2>1. Far
    BY <1>1, <1>2, <1>5 DEF PruneStatFails, RunStates
  <2>2. QED BY <2>1
<1>6. ASSUME TrimReadFails(r) \/ TrimReplaceFails(r) PROVE Far
  <2>1. Far
    BY <1>1, <1>2, <1>6 DEF TrimReadFails, TrimReplaceFails, AddEnds, RunStates
  <2>2. QED BY <2>1
<1>7. Far
  BY <1>3, <1>4, <1>5, <1>6
<1>8. UNCHANGED <<present, newer>>
  BY DEF AddReturns, AddStale, AddKnown, AppendFails, PruneStatFails, TrimReadFails,
     TrimReplaceFails
<1> HIDE DEF Far
<1>9. Besides(run'[r], run[r]) /\ \A q \in Runs \ {r} : run'[q] = run[q]
  BY AddBesides
<1>10. QED BY <1>7, <1>8, <1>9 DEF Aside, Besides, Far

(* A pruning that fails changes no file.                                   *)
LEMMA PruneFailsAside ==
    ASSUME TypeInv, NEW r \in Runs, PruneFails(r)
    PROVE  /\ Aside(run'[r], run[r])
           /\ \A q \in Runs \ {r} : run'[q] = run[q]
           /\ UNCHANGED <<present, newer>>
<1>1. run[r] \in RunStates(r) /\ NextHop(r) \in {"record", "hop"}
  BY RunTypes, NextHopType
<1>2. /\ run'[r].pc \in {"record", "hop"} /\ run'[r].fp = run[r].fp
      /\ \A q \in Runs \ {r} : run'[q] = run[q]
  BY <1>1 DEF PruneFails, RunStates, TypeInv, TypeOK
<1>3. upkeep' # "whole" /\ UNCHANGED <<present, newer>>
  BY DEF PruneFails, Missed
<1>4. QED BY <1>2, <1>3 DEF Aside

(* The file a run writes is the newest then.                               *)
LEMMA NewestOwn ==
    ASSUME DirOrder, NEW e, newer' = Touch(e)
    PROVE  /\ \A f : <<f, e>> \notin newer'
           /\ \A f, g : <<f, g>> \in newer' => <<f, g>> \in newer \/ f = e
<1>1. \A f, g : <<f, g>> \in newer' <=> \/ <<f, g>> \in newer /\ f # e /\ g # e
                                        \/ f = e /\ g \in present /\ g # e
  BY DEF Touch, DirOrder, Ordered
<1>2. QED BY <1>1

LEMMA WriteDir ==
    ASSUME TypeInv, TypeInv', DirOrder, MaxCacheFiles \in Nat, NEW r \in Runs, UpkeepStep(r),
           run[r].pc = "append", NEW e, e = run[r].fp, run'[r].fp = e,
           present' = present \cup {e},
           newer' = Touch(e) \/ (newer' = newer /\ e \in present),
           run'[r].pc \in {"glob", "trim", "record", "hop"},
           run'[r].pc = "glob" => newer' = Touch(e),
           run[r].created => run'[r].pc = "glob" \/ upkeep' # "whole",
           \A q \in Runs \ {r} : run'[q] = run[q]
    PROVE  DirKept
<1>1. OwnStep(r)
  BY DEF OwnStep, TypeInv, TypeOK
<1>2. IsFiniteSet(present)' /\ Ordered(present, newer)'
  <2>1. CASE newer' = Touch(e)
    BY <2>1, TouchOrders
  <2>2. CASE newer' = newer /\ e \in present
    <3>1. present' = present
      BY <2>2
    <3>2. QED BY <2>2, <3>1 DEF DirOrder, Ordered
  <2>3. QED BY <2>1, <2>2
<1>3. /\ newer' = Touch(e) => \A f : <<f, e>> \notin newer'
      /\ \A f, g : <<f, g>> \in newer' => <<f, g>> \in newer \/ f = e
  BY NewestOwn
<1>4. Foreign' \subseteq Foreign
  BY <1>1, OwnGrows
<1>5. ASSUME Unsettled, ~Settled' PROVE Unsettled'
  <2>1. ASSUME NEW q \in Runs PROVE Waiting(run[q])'
    <3>1. CASE q = r
      BY <3>1 DEF Waiting
    <3>2. CASE q # r
      <4>1. run'[q] = run[q] /\ Waiting(run[q])
        BY <1>5, <3>2 DEF Unsettled
      <4>2. QED BY <1>4, <4>1 DEF Waiting
    <3>3. QED BY <3>1, <3>2
  <2>2. CASE run[r].created
    <3>1. run'[r].pc = "glob"
      BY <1>5, <2>2 DEF Settled
    <3>2. QED BY <2>1, <3>1 DEF Unsettled
  <2>3. CASE ~run[r].created
    <3>1. e \in present
      BY <1>5, <2>3 DEF Unsettled, Waiting
    <3>2. present' = present
      BY <3>1
    <3>3. ASSUME NEW q \in Runs, run[q].pc \in {"glob", "stat"}
          PROVE  run'[q].pc \in {"glob", "stat"}
      BY <3>3
    <3>4. QED BY <1>5, <2>1, <3>2, <3>3 DEF Unsettled, MostFiles
  <2>4. QED BY <2>2, <2>3
<1>6. RunPrunes(r)'
  BY DEF RunPrunes
<1>7. QED BY <1>1, <1>2, <1>3, <1>5, <1>6, DirStep

LEMMA AppendDir ==
    ASSUME TypeInv, TypeInv', DirOrder, MaxCacheFiles \in Nat, NEW r \in Runs, UpkeepStep(r),
           AppendLine(r)
    PROVE  DirKept
<1> DEFINE s == AfterAppend(r)
<1>1. PICK e : e = run[r].fp
  OBVIOUS
<1>2. /\ run[r] \in RunStates(r) /\ run[r].pc = "append"
      /\ present' = present \cup {e} /\ newer' = Touch(e)
      /\ run'[r] = s
      /\ \A q \in Runs \ {r} : run'[q] = run[q]
  BY <1>1, RunTypes DEF AppendLine, Write, TypeInv, TypeOK
<1>3. /\ s.pc \in {"glob", "trim", "record", "hop"}
      /\ s.fp = e
      /\ run[r].created => s.pc = "glob"
  <2>1. CASE run[r].created
    BY <1>1, <1>2, <2>1 DEF AfterAppend, RunStates
  <2>2. CASE ~run[r].created
    <3>1. s = AfterAdd(r, run[r].lines + 1)
      BY <2>2 DEF AfterAppend
    <3>2. QED BY <1>1, <2>2, <3>1, AfterAddKeeps
  <2>3. QED BY <2>1, <2>2
<1> HIDE DEF s
<1>4. QED BY <1>1, <1>2, <1>3, WriteDir

LEMMA AppendBreaksDir ==
    ASSUME TypeInv, TypeInv', DirOrder, MaxCacheFiles \in Nat, NEW r \in Runs, UpkeepStep(r),
           AppendBreaks(r)
    PROVE  DirKept
<1>1. PICK e : e = run[r].fp
  OBVIOUS
<1>2. run[r] \in RunStates(r) /\ NextHop(r) \in {"record", "hop"}
  BY RunTypes, NextHopType
<1>3. /\ run'[r].pc \in {"record", "hop"} /\ run'[r].fp = e
      /\ \A q \in Runs \ {r} : run'[q] = run[q]
  BY <1>1, <1>2 DEF AppendBreaks, AddEnds, RunStates, TypeInv, TypeOK
<1>4. /\ run[r].pc = "append" /\ present' = present \cup {e}
      /\ newer' = Touch(e) \/ (newer' = newer /\ e \in present)
  BY <1>1 DEF AppendBreaks, WriteNothing, Write
<1>5. run[r].created => upkeep' # "whole"
  BY DEF AppendBreaks, Missed
<1>6. QED BY <1>1, <1>3, <1>4, <1>5, WriteDir

LEMMA PruneGlobDir ==
    ASSUME TypeInv, TypeInv', DirOrder, MaxCacheFiles \in Nat, NEW r \in Runs,
           UpkeepStep(r), PruneGlob(r)
    PROVE  DirKept
<1>1. /\ run[r] \in RunStates(r) /\ run[r].pc = "glob"
      /\ run'[r].pc = "stat" /\ run'[r].fp = run[r].fp /\ run'[r].listed = present
      /\ \A q \in Runs \ {r} : run'[q] = run[q]
      /\ present' = present /\ newer' = newer
  <2>1. run[r] \in RunStates(r)
    BY RunTypes
  <2>2. QED BY <2>1 DEF PruneGlob, RunStates, TypeInv, TypeOK
<1>2. OwnStep(r)
  BY <1>1 DEF OwnStep, TypeInv, TypeOK
<1>3. IsFiniteSet(present)' /\ Ordered(present, newer)'
  BY <1>1 DEF DirOrder, Ordered
<1>4. /\ \A f \in Engines : f \in OwnFiles => f \in OwnFiles'
      /\ Foreign' \subseteq Foreign
  BY <1>2, OwnGrows
<1>5. \A f \in present' : <<f, run[r].fp>> \in newer' => f \in OwnFiles'
  BY <1>1, <1>4 DEF DirOrder, TypeInv, TypeOK
<1>6. ASSUME Unsettled PROVE Unsettled'
  <2>1. Waiting(run[r])
    BY <1>6 DEF Unsettled
  <2>2. Waiting(run[r])'
    BY <1>1, <1>4, <2>1 DEF Waiting, Foreign
  <2>3. ASSUME NEW q \in Runs \ {r} PROVE Waiting(run[q])'
    <3>1. run'[q] = run[q] /\ Waiting(run[q])
      BY <1>1, <1>6 DEF Unsettled
    <3>2. QED BY <1>1, <1>4, <3>1 DEF Waiting
  <2>4. QED BY <1>1, <2>2, <2>3 DEF Unsettled
<1>7. RunPrunes(r)'
  BY <1>1, <1>4 DEF RunPrunes, Spared, Foreign
<1>8. QED BY <1>1, <1>2, <1>3, <1>5, <1>6, <1>7, DirStep

LEMMA PruneStatDir ==
    ASSUME TypeInv, TypeInv', DirOrder, MaxCacheFiles \in Nat \ {0}, NEW r \in Runs,
           UpkeepStep(r), PruneStat(r)
    PROVE  DirKept
<1>1. /\ run[r].pc = "stat" /\ run[r].listed \subseteq present
      /\ run'[r].pc = "unlink" /\ run'[r].fp = run[r].fp /\ run'[r].victims = Victims(r)
      /\ \A q \in Runs \ {r} : run'[q] = run[q]
      /\ present' = present /\ newer' = newer
  <2>1. run[r] \in RunStates(r)
    BY RunTypes
  <2>2. PICK v : v = Victims(r)
    OBVIOUS
  <2>3. run' = [run EXCEPT ![r].pc = "unlink", ![r].victims = v, ![r].listed = {}]
    BY <2>2 DEF PruneStat
  <2>4. QED BY <2>1, <2>2, <2>3 DEF PruneStat, RunStates, TypeInv, TypeOK
<1>2. OwnStep(r)
  BY <1>1 DEF OwnStep, TypeInv, TypeOK
<1>3. IsFiniteSet(present)' /\ Ordered(present, newer)'
  BY <1>1 DEF DirOrder, Ordered
<1>4. Foreign' = Foreign
  <2>1. \A q \in Runs : run'[q].fp = run[q].fp
    BY <1>1
  <2>2. OwnFiles' = OwnFiles
    BY <2>1 DEF OwnFiles
  <2>3. QED BY <1>1, <2>2 DEF Foreign
<1>5. ASSUME Unsettled PROVE Settled'
  <2>1. Waiting(run[r]) /\ MaxCacheFiles > 0
    BY <1>5 DEF Unsettled
  <2>2. Cardinality(Foreign \ Victims(r)) < MaxCacheFiles
    BY <1>1, <2>1, KeptNewest DEF Waiting
  <2>3. QED BY <1>1, <1>4, <2>2 DEF Settled
<1>6. ASSUME Prunes PROVE RunPrunes(r)'
  <2>1. Foreign \subseteq run[r].listed /\ (run[r].fp \in run[r].listed \/ Spared(r))
    BY <1>1, <1>6 DEF Prunes, RunPrunes
  <2>2. PICK n : n = Cardinality(Foreign \ Victims(r))
    OBVIOUS
  <2>3. n <= MaxCacheFiles /\ (run[r].fp \in run[r].listed => n < MaxCacheFiles)
    BY <1>1, <2>1, <2>2, KeptNewest
  <2>4. Spared(r) => Spared(r)'
    BY <1>1, <1>2, SparedStays
  <2>5. n = Cardinality(Foreign' \ run'[r].victims) /\ run'[r].pc = "unlink"
    BY <1>1, <1>4, <2>2
  <2>6. QED BY <2>1, <2>3, <2>4, <2>5 DEF RunPrunes
<1>7. QED BY <1>1, <1>2, <1>3, <1>5, <1>6, DirStep

LEMMA UnlinkDir ==
    ASSUME TypeInv, TypeInv', DirOrder, MaxCacheFiles \in Nat, NEW r \in Runs,
           UpkeepStep(r), Unlink(r)
    PROVE  DirKept
<1>1. PICK e \in run[r].victims :
        /\ present' = present \ {e}
        /\ newer' = {p \in newer : e \notin {p[1], p[2]}}
        /\ run' = [run EXCEPT ![r].victims = @ \ {e}]
  BY DEF Unlink
<1>2. /\ run[r].pc = "unlink"
      /\ run'[r].pc = "unlink" /\ run'[r].fp = run[r].fp
      /\ run'[r].victims = run[r].victims \ {e}
      /\ \A q \in Runs \ {r} : run'[q] = run[q]
  <2>1. run[r] \in RunStates(r) /\ run[r].pc = "unlink"
    BY RunTypes DEF Unlink
  <2>2. QED BY <1>1, <2>1 DEF RunStates, TypeInv, TypeOK
<1>3. OwnStep(r)
  BY <1>1, <1>2 DEF OwnStep, TypeInv, TypeOK
<1>4. IsFiniteSet(present)' /\ Ordered(present, newer)'
  BY <1>1, UnlinkOrders
<1>5. Foreign' \ run'[r].victims \subseteq Foreign \ run[r].victims
  <2>1. Foreign' \subseteq Foreign
    BY <1>3, OwnGrows
  <2>2. e \notin Foreign'
    BY <1>1 DEF Foreign
  <2>3. QED BY <1>2, <2>1, <2>2
<1>6. ~Unsettled
  BY <1>2 DEF Unsettled, Waiting
<1>7. \A f, g : <<f, g>> \in newer' => <<f, g>> \in newer
  BY <1>1
<1>8. ASSUME Prunes PROVE RunPrunes(r)'
  <2>1. PICK S, T : S = Foreign \ run[r].victims /\ T = Foreign' \ run'[r].victims
    OBVIOUS
  <2>2. IsFiniteSet(S) /\ T \subseteq S
    BY <1>5, <2>1, FS_Subset DEF Foreign, DirOrder
  <2>3. Cardinality(T) \in Nat /\ Cardinality(S) \in Nat /\ Cardinality(T) <= Cardinality(S)
    BY <2>2, FS_Subset, FS_CardinalityType
  <2>4. Cardinality(S) <= MaxCacheFiles /\ (Cardinality(S) < MaxCacheFiles \/ Spared(r))
    BY <1>2, <1>8, <2>1 DEF Prunes, RunPrunes
  <2>5. Spared(r) => Spared(r)'
    BY <1>1, <1>2, <1>3, SparedStays
  <2>6. /\ Cardinality(T) <= MaxCacheFiles
        /\ Cardinality(T) < MaxCacheFiles \/ Spared(r)'
    BY <2>3, <2>4, <2>5
  <2>7. QED BY <1>2, <2>1, <2>6 DEF RunPrunes
<1>9. QED BY <1>2, <1>3, <1>4, <1>5, <1>6, <1>7, <1>8, DirStep

LEMMA PruneEndsDir ==
    ASSUME TypeInv, TypeInv', DirOrder, MaxCacheFiles \in Nat, NEW r \in Runs,
           UpkeepStep(r), PruneEnds(r)
    PROVE  DirKept
<1> DEFINE s == AfterAdd(r, run[r].lines)
<1>1. /\ run[r].pc = "unlink" /\ run[r].victims = {}
      /\ run'[r] = s
      /\ \A q \in Runs \ {r} : run'[q] = run[q]
      /\ present' = present /\ newer' = newer
  BY DEF PruneEnds, TypeInv, TypeOK
<1>2. s.pc \in {"trim", "record", "hop"} /\ s.fp = run[r].fp
  BY AfterAddKeeps
<1> HIDE DEF s
<1>3. OwnStep(r)
  BY <1>1, <1>2 DEF OwnStep, TypeInv, TypeOK
<1>4. IsFiniteSet(present)' /\ Ordered(present, newer)'
  BY <1>1 DEF DirOrder, Ordered
<1>5. ~Unsettled
  BY <1>1 DEF Unsettled, Waiting
<1>6. RunPrunes(r)'
  BY <1>1, <1>2 DEF RunPrunes
<1>7. QED BY <1>1, <1>2, <1>3, <1>4, <1>5, <1>6, DirStep

LEMMA TrimReadDir ==
    ASSUME TypeInv, TypeInv', DirOrder, MaxCacheFiles \in Nat, NEW r \in Runs,
           UpkeepStep(r), TrimRead(r)
    PROVE  DirKept
<1>1. PICK t : run' = [run EXCEPT ![r].pc = "replace", ![r].newest = t]
  BY DEF TrimRead
<1>2. /\ run[r].pc = "trim"
      /\ run'[r].pc = "replace" /\ run'[r].fp = run[r].fp
      /\ \A q \in Runs \ {r} : run'[q] = run[q]
      /\ present' = present /\ newer' = newer
  <2>1. run[r] \in RunStates(r)
    BY RunTypes
  <2>2. QED BY <1>1, <2>1 DEF TrimRead, RunStates, TypeInv, TypeOK
<1>3. OwnStep(r)
  BY <1>2 DEF OwnStep, TypeInv, TypeOK
<1>4. IsFiniteSet(present)' /\ Ordered(present, newer)'
  BY <1>2 DEF DirOrder, Ordered
<1>5. Foreign' \subseteq Foreign
  BY <1>3, OwnGrows
<1>6. ASSUME Unsettled PROVE Unsettled'
  <2>1. ASSUME NEW q \in Runs PROVE Waiting(run[q])'
    <3>1. Waiting(run[q])
      BY <1>6 DEF Unsettled
    <3>2. CASE q = r
      BY <1>2, <3>1, <3>2 DEF Waiting
    <3>3. CASE q # r
      <4>1. run'[q] = run[q]
        BY <1>2, <3>3
      <4>2. QED BY <1>2, <1>5, <3>1, <4>1 DEF Waiting
    <3>4. QED BY <3>2, <3>3
  <2>2. ASSUME NEW q \in Runs, run[q].pc \in {"glob", "stat"}
        PROVE  run'[q].pc \in {"glob", "stat"}
    BY <1>2, <2>2
  <2>3. QED BY <1>2, <1>6, <2>1, <2>2 DEF Unsettled, MostFiles
<1>7. RunPrunes(r)'
  BY <1>2 DEF RunPrunes
<1>8. QED BY <1>2, <1>3, <1>4, <1>6, <1>7, DirStep

LEMMA TrimReplaceDir ==
    ASSUME TypeInv, TypeInv', DirOrder, MaxCacheFiles \in Nat, NEW r \in Runs,
           UpkeepStep(r), TrimReplace(r)
    PROVE  DirKept
<1> DEFINE e == run[r].fp
<1>1. /\ run[r].pc = "replace"
      /\ run'[r].pc \in {"record", "hop"} /\ run'[r].fp = run[r].fp
      /\ \A q \in Runs \ {r} : run'[q] = run[q]
      /\ present' = present \cup {e} /\ newer' = Touch(e)
  <2>1. run[r] \in RunStates(r) /\ NextHop(r) \in {"record", "hop"}
    BY RunTypes, NextHopType
  <2>2. QED BY <2>1 DEF TrimReplace, RunStates, TypeInv, TypeOK
<1> HIDE DEF e
<1>2. OwnStep(r)
  BY <1>1 DEF OwnStep, e, TypeInv, TypeOK
<1>3. IsFiniteSet(present)' /\ Ordered(present, newer)'
  BY <1>1, TouchOrders
<1>4. \A f, g : <<f, g>> \in newer' => <<f, g>> \in newer \/ f = e
  BY <1>1, NewestOwn
<1>5. Foreign' \subseteq Foreign
  BY <1>2, OwnGrows
<1>6. ASSUME Unsettled PROVE Unsettled'
  <2>1. present' = present
    BY <1>1, <1>6 DEF Unsettled, Waiting, e
  <2>2. ASSUME NEW q \in Runs PROVE Waiting(run[q])'
    <3>1. Waiting(run[q])
      BY <1>6 DEF Unsettled
    <3>2. CASE q = r
      BY <1>1, <3>2 DEF Waiting
    <3>3. CASE q # r
      <4>1. run'[q] = run[q]
        BY <1>1, <3>3
      <4>2. QED BY <1>5, <2>1, <3>1, <4>1 DEF Waiting
    <3>4. QED BY <3>2, <3>3
  <2>3. ASSUME NEW q \in Runs, run[q].pc \in {"glob", "stat"}
        PROVE  run'[q].pc \in {"glob", "stat"}
    BY <1>1, <2>3
  <2>4. QED BY <1>6, <2>1, <2>2, <2>3 DEF Unsettled, MostFiles
<1>7. RunPrunes(r)'
  BY <1>1 DEF RunPrunes
<1>8. QED BY <1>1, <1>2, <1>3, <1>4, <1>6, <1>7, DirStep DEF e

LEMMA StepDir ==
    ASSUME MaxCacheFiles \in Nat \ {0}
    PROVE  TypeInv /\ DirOrder /\ [Next]_vars => DirKept
<1> SUFFICES ASSUME TypeInv, DirOrder, [Next]_vars PROVE DirKept
  OBVIOUS
<1>1. TypeInv'
  BY StepTypes
<1>2. ASSUME UNCHANGED <<run, present, newer, upkeep>> PROVE DirKept
  <2>1. Foreign' = Foreign /\ OwnFiles' = OwnFiles
    BY <1>2 DEF Foreign, OwnFiles
  <2>2. DirOrder'
    BY <1>2, <2>1 DEF DirOrder, Ordered
  <2>3. Settled \/ Unsettled => Settled' \/ Unsettled'
    BY <1>2, <2>1 DEF Settled, Unsettled, Waiting, MostFiles
  <2>4. \A q \in Runs : Shared(q)' = Shared(q) /\ Spared(q)' = Spared(q)
    BY <1>2 DEF Spared, Shared
  <2>5. Prunes => Prunes'
    BY <1>2, <2>1, <2>4 DEF Prunes, RunPrunes
  <2>6. QED BY <2>2, <2>3, <2>5 DEF DirKept
<1>3. CASE UNCHANGED vars
  BY <1>2, <1>3 DEF vars
<1>4. ASSUME NEW e \in Engines, Edit(e) PROVE DirKept
  BY <1>2, <1>4 DEF Edit
<1>5. ASSUME NEW r \in Runs, Import(r) \/ Open(r) \/ Check(r) \/ Kill(r) PROVE DirKept
  <2>1. UpkeepStep(r)
    BY <1>5, UpkeepMoves DEF RunStep
  <2>2. QED BY <1>1, <1>5, <2>1, CheckAside, AsideKeeps
<1>6. ASSUME NEW r \in Runs, Add(r) \/ Prune(r) \/ Trim(r) PROVE DirKept
  <2>0. UpkeepStep(r)
    BY <1>6, UpkeepMoves DEF RunStep
  <2>1. CASE \/ AddReturns(r) \/ AddStale(r) \/ AddKnown(r) \/ AppendFails(r)
             \/ PruneStatFails(r) \/ TrimReadFails(r) \/ TrimReplaceFails(r)
    BY <1>1, <2>0, <2>1, AddAside, AsideKeeps
  <2>2. CASE AppendLine(r) \/ AppendBreaks(r)
    BY <1>1, <2>0, <2>2, AppendDir, AppendBreaksDir
  <2>3. CASE PruneFails(r)
    BY <1>1, <2>0, <2>3, PruneFailsAside, AsideKeeps
  <2>4. CASE PruneGlob(r) \/ PruneStat(r) \/ Unlink(r)
    BY <1>1, <2>0, <2>4, PruneGlobDir, PruneStatDir, UnlinkDir
  <2>5. CASE PruneEnds(r) \/ TrimRead(r) \/ TrimReplace(r)
    BY <1>1, <2>0, <2>5, PruneEndsDir, TrimReadDir, TrimReplaceDir
  <2>6. QED BY <1>6, <2>1, <2>2, <2>3, <2>4, <2>5 DEF Add, Prune, Trim
<1>7. ASSUME NEW r \in Runs, WorkerStep(r) PROVE DirKept
  <2>1. PICK w \in Workers : WorkerTake(r, w) \/ WorkerReport(r, w)
    BY <1>7 DEF WorkerStep
  <2>0. UpkeepStep(r)
    BY <1>7, UpkeepMoves DEF RunStep
  <2>2. CASE WorkerTake(r, w)
    BY <1>2, <2>2 DEF WorkerTake
  <2>3. CASE WorkerReport(r, w)
    BY <1>1, <2>0, <2>3, ReportAside, AsideKeeps
  <2>4. QED BY <2>1, <2>2, <2>3
<1>8. QED BY <1>3, <1>4, <1>5, <1>6, <1>7 DEF Next, RunStep

DirInv == DirOrder /\ (Settled \/ Unsettled)
PruneInv == DirOrder /\ Prunes

LEMMA InitDir ==
    /\ OrderedStart /\ Init => PruneInv
    /\ BoundedStart /\ Init => DirInv
<1> SUFFICES ASSUME OrderedStart, Init
             PROVE  PruneInv /\ (BoundedStart => DirInv)
  BY DEF BoundedStart
<1>1. PICK d \in PriorDirs : present = d.present /\ newer = d.newer
  BY DEF Init
<1>2. IsFiniteSet(present) /\ Ordered(present, newer)
  BY <1>1 DEF OrderedStart
<1>3. \A q \in Runs : run[q].pc = "idle" /\ run[q].fp = NoEngine
  <2> TAKE q \in Runs
  <2>1. run[q] = IdleRun(q)
    BY DEF Init
  <2>2. QED BY <2>1 DEF IdleRun
<1>4. DirOrder
  BY <1>2, <1>3 DEF DirOrder
<1>5. Prunes
  BY <1>3 DEF Prunes, RunPrunes, Init
<1>6. ASSUME BoundedStart PROVE Unsettled
  <2>1. Cardinality(present) <= MostFiles
    BY <1>1, <1>6 DEF BoundedStart
  <2>2. QED BY <1>3, <2>1 DEF Unsettled, Waiting
<1>7. QED BY <1>4, <1>5, <1>6 DEF DirInv, PruneInv

(* A file is foreign or some run's; runs that share one have fewer.        *)
LEMMA FewFiles ==
    ASSUME OrderedStart, DirOrder,
           Cardinality(Foreign) <= MaxCacheFiles,
           Cardinality(Foreign) < MaxCacheFiles \/ \E q \in Runs : Shared(q)
    PROVE  Cardinality(present) <= MostFiles
<1>1. MaxCacheFiles \in Nat \ {0} /\ IsFiniteSet(Runs) /\ Cardinality(Runs) \in Nat
  BY LimitsAssumption, FS_CardinalityType DEF OrderedStart
<1>2. ASSUME NEW S \in SUBSET Runs, OwnFiles = {run[q].fp : q \in S}
      PROVE  /\ IsFiniteSet(OwnFiles) /\ Cardinality(OwnFiles) \in Nat
             /\ Cardinality(OwnFiles) <= Cardinality(S)
  <2> DEFINE file == [q \in S |-> run[q].fp]
  <2>1. IsFiniteSet(S)
    BY <1>1, FS_Subset
  <2>2. file \in Surjection(S, OwnFiles)
    BY <1>2 DEF Surjection
  <2>3. IsFiniteSet(OwnFiles) /\ Cardinality(OwnFiles) <= Cardinality(S)
    BY <2>1, <2>2, FS_Surjection
  <2>4. QED BY <2>3, FS_CardinalityType
<1>3. /\ IsFiniteSet(OwnFiles) /\ Cardinality(OwnFiles) \in Nat
      /\ Cardinality(OwnFiles) <= Cardinality(Runs)
  BY <1>2 DEF OwnFiles
<1>4. ASSUME NEW q \in Runs, Shared(q) PROVE Cardinality(OwnFiles) <= Cardinality(Runs) - 1
  <2>1. PICK p \in Runs \ {q} : run[p].fp = run[q].fp
    BY <1>4 DEF Shared
  <2>2. OwnFiles = {run[x].fp : x \in Runs \ {q}}
    BY <2>1 DEF OwnFiles
  <2>3. Cardinality(Runs \ {q}) = Cardinality(Runs) - 1
    BY <1>1, FS_RemoveElement
  <2>4. Cardinality(OwnFiles) <= Cardinality(Runs \ {q})
    BY <1>2, <2>2
  <2>5. QED BY <2>3, <2>4
<1>5. IsFiniteSet(present) /\ IsFiniteSet(Foreign)
  BY FS_Subset DEF DirOrder, Foreign
<1>6. /\ Cardinality(Foreign) \in Nat
      /\ Cardinality(Foreign \cap OwnFiles) \in Nat
      /\ Cardinality(present) \in Nat
  <2>1. IsFiniteSet(Foreign \cap OwnFiles)
    BY <1>5, FS_Intersection
  <2>2. QED BY <1>5, <2>1, FS_CardinalityType
<1>7. /\ IsFiniteSet(Foreign \cup OwnFiles)
      /\ Cardinality(Foreign \cup OwnFiles) =
            Cardinality(Foreign) + Cardinality(OwnFiles) - Cardinality(Foreign \cap OwnFiles)
  BY <1>3, <1>5, FS_Union
<1>8. Cardinality(present) <= Cardinality(Foreign \cup OwnFiles)
  <2>1. present \subseteq Foreign \cup OwnFiles
    BY DEF Foreign
  <2>2. QED BY <1>7, <2>1, FS_Subset
<1>9. CASE Cardinality(Foreign) < MaxCacheFiles
  BY <1>1, <1>3, <1>6, <1>7, <1>8, <1>9 DEF MostFiles
<1>10. CASE \E q \in Runs : Shared(q)
  <2>1. Cardinality(OwnFiles) <= Cardinality(Runs) - 1
    BY <1>4, <1>10
  <2>2. QED BY <1>1, <1>3, <1>6, <1>7, <1>8, <2>1 DEF MostFiles
<1>11. QED BY <1>9, <1>10

LEMMA DirAtRest ==
    ASSUME BoundedStart, DirInv PROVE DirBounded
<1> SUFFICES ASSUME AtRest, upkeep = "whole" PROVE Cardinality(present) <= MostFiles
  BY DEF DirBounded
<1>1. CASE Unsettled
  BY <1>1 DEF Unsettled, AtRest
<1>2. CASE Settled
  <2>1. Cardinality(Foreign) < MaxCacheFiles
    BY <1>2 DEF Settled, AtRest
  <2>2. IsFiniteSet(Foreign) /\ MaxCacheFiles \in Nat
    BY FS_Subset, LimitsAssumption DEF DirInv, DirOrder, Foreign
  <2>3. Cardinality(Foreign) <= MaxCacheFiles
    BY <2>1, <2>2, FS_CardinalityType
  <2>4. QED BY <2>1, <2>3, FewFiles DEF DirInv, BoundedStart
<1>3. QED BY <1>1, <1>2 DEF DirInv

(* HopCache._prune keeps the directory small: when no run is adding or     *)
(* pruning, it holds no more than MAX_CACHE_FILES and one for each other   *)
(* run, however their appends, prunings and trims overlap, and whatever    *)
(* failed, unless a pruning was missed: by a run that was killed on its    *)
(* way to the end of it, or by an append of a new file, a glob, a stat of  *)
(* a file that is there or an unlink that raised.                          *)
THEOREM DirCorrect ==
    ASSUME BoundedStart
    PROVE  Spec => []DirBounded
<1>1. MaxCacheFiles \in Nat \ {0}
  BY LimitsAssumption DEF BoundedStart, OrderedStart
<1>2. Init => TypeInv /\ DirInv
  BY InitTypes, InitDir
<1>3. TypeInv /\ DirInv /\ [Next]_vars => TypeInv' /\ DirInv'
  BY <1>1, StepTypes, StepDir DEF DirInv, DirKept
<1>4. TypeInv /\ DirInv => DirBounded
  BY DirAtRest
<1>5. QED BY <1>2, <1>3, <1>4, PTL DEF Spec

(* HopCache._prune makes up for all of that: once one pruning has gone     *)
(* through, by a run whose file is there when it ends, the directory stays *)
(* within that limit in every state, whatever fails or is killed before or *)
(* after, and however many files there were.                               *)
THEOREM PruneCorrect ==
    ASSUME OrderedStart
    PROVE  Spec => []PruneSettles
<1>1. MaxCacheFiles \in Nat \ {0}
  BY LimitsAssumption DEF OrderedStart
<1>2. Init => TypeInv /\ PruneInv
  BY InitTypes, InitDir
<1>3. TypeInv /\ PruneInv /\ [Next]_vars => TypeInv' /\ PruneInv'
  BY <1>1, StepTypes, StepDir DEF PruneInv, DirKept
<1>4. TypeInv /\ PruneInv => PruneSettles
  BY FewFiles DEF PruneInv, Prunes, PruneSettles
<1>5. QED BY <1>2, <1>3, <1>4, PTL DEF Spec
=============================================================================
