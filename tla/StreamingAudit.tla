--------------------------- MODULE StreamingAudit ---------------------------
(***************************************************************************)
(* A dataset read in chunks.  The chunks go to the streaming engine, which *)
(* merges what a processor finds in each (geometry checks, or the rules of *)
(* the rule engine), or to the GeoParquet writer.  The automatic engine    *)
(* profiles the dataset first and may audit it in memory instead.          *)
(*                                                                         *)
(* A job is [rows, features, crs, counted, requireCrs, consumer, bytes,    *)
(* memory, rules, policy, existing, overwrite]: rows are the features of   *)
(* the file, features those that its reader yields, fewer when the source  *)
(* has a scan whose predicates the reader pushes down; counted when the    *)
(* metadata gives the number of rows, bytes and memory the size of the     *)
(* file and the free memory or None.  Chunks may have any size up to the   *)
(* limit, and reading may fail before any of them.                         *)
(***************************************************************************)
EXTENDS Publication, Integers, Sequences, FiniteSets, FiniteSetsExt, SequencesExt

CONSTANTS
    Jobs,               \* the jobs
    Issues(_),          \* the issue types of a feature, <<>> when it is valid
    Unparsable(_),      \* whether its WKB is refused by the parser
    Vertices(_),        \* vertices the profiler counts for a feature
    Bytes(_),           \* bytes of its WKB
    ChunkSize,          \* features in a chunk at most
    SampleSize,         \* features in the profiler's sample at most
    MaximumFindings,    \* findings that are kept
    Rule,               \* the registered rules: id -> [finds, raises, silent, answers]
    Limits,             \* EngineSelectionConfig: [bytes, features, memory, percent, vertices, projected]
    Expansion,          \* memory per byte of the file's format
    FeatureBytes        \* memory of a feature at least

ASSUME JobAssumption ==
    \A j \in Jobs :
        /\ j.existing \in {"absent", "old"}
        /\ j.overwrite \in BOOLEAN
        /\ j.features \in Seq(ToSet(j.features)) /\ j.rules \in Seq(ToSet(j.rules))
        /\ \A f \in ToSet(j.features) : Issues(f) \in Seq(ToSet(Issues(f)))

ASSUME LimitAssumption == ChunkSize \in Nat /\ MaximumFindings \in Nat

VARIABLES
    job,            \* the job
    phase,          \* where it stands
    offset,         \* features read so far
    chunks,         \* whether a chunk was read
    collected       \* what the collector holds, or the rows the writer has written

streamVars == <<job, phase, offset, chunks, collected>>

Features == job.features

\* A source without scan predicates, or of a reader that does not know them.
Unfiltered == job.rows = Features

(***************************************************************************)
(* Geometry checks                                                         *)
(***************************************************************************)
IssueTypes == UNION {ToSet(Issues(f)) : f \in ToSet(job.rows)}

NothingFound == [features |-> 0, invalid |-> 0, counts |-> [t \in IssueTypes |-> 0], findings |-> <<>>]

\* Places in their order.
Listed(places) ==
    CHOOSE s \in [1..Cardinality(places) -> places] : \A i, j \in DOMAIN s : i < j => s[i] < s[j]

Flawed(s) == {k \in DOMAIN s : Issues(s[k]) # <<>>}

\* Where the issues of type t are: <<place, position in its list of issues>>.
Occurrences(s, t) ==
    UNION {{<<k, i>> : i \in {i \in DOMAIN Issues(s[k]) : Issues(s[k])[i] = t}} : k \in Flawed(s)}

\* What a loop over s reports at some places; s begins at an offset in the dataset.
FindingsAt(s, places, first) ==
    [n \in 1..Cardinality(places) |->
        LET k == Listed(places)[n] IN [index |-> first + k - 1, issues |-> Issues(s[k])]]

\* GeometryChunkProcessor.process: indices are those of the dataset.
ChunkResult(batch, first) ==
    [features |-> Len(batch), invalid |-> Cardinality(Flawed(batch)),
     counts |-> [t \in IssueTypes |-> Cardinality(Occurrences(batch, t))],
     findings |-> FindingsAt(batch, Flawed(batch), first)]

Prefix(s, n) == SubSeq(s, 1, Min({n, Len(s)}))

MergedPerChunk(have, result) ==
    [features |-> have.features + result.features, invalid |-> have.invalid + result.invalid,
     counts |-> [t \in IssueTypes |-> have.counts[t] + result.counts[t]],
     findings |-> have.findings \o Prefix(result.findings, MaximumFindings)]

\* GeometryResultCollector.add: counts are exact, findings a bounded prefix.
Merged(have, result) ==
    [features |-> have.features + result.features, invalid |-> have.invalid + result.invalid,
     counts |-> [t \in IssueTypes |-> have.counts[t] + result.counts[t]],
     findings |-> have.findings \o Prefix(result.findings, MaximumFindings - Len(have.findings))]

\* GeoPandasGeometryEngine.run: one loop over a whole frame.
AuditOf(frame) ==
    LET flawed == Flawed(frame)
        kept == {k \in flawed : Cardinality({j \in flawed : j < k}) < MaximumFindings}
    IN [features |-> Len(frame), invalid |-> Cardinality(flawed),
        counts |-> [t \in IssueTypes |-> Cardinality(Occurrences(frame, t))],
        findings |-> FindingsAt(frame, kept, 0)]

(***************************************************************************)
(* Rules                                                                   *)
(***************************************************************************)
\* RuleEngine._execute_rule raises under the policy "raise", for an exception
\* without a message, which the result of a rule refuses, and for an answer in
\* another rule's name.
RuleRaises(id, batch) ==
    IF ToSet(batch) \cap Rule[id].raises # {}
    THEN job.policy = "raise" \/ Rule[id].silent
    ELSE Rule[id].answers # id

RuleResult(id, batch, first) ==
    LET found == {k \in DOMAIN batch : batch[k] \in Rule[id].finds}
        places == [n \in 1..Cardinality(found) |-> first + Listed(found)[n] - 1]
    IN IF ToSet(batch) \cap Rule[id].raises # {}
       THEN [rule |-> id, status |-> "error", findings |-> <<>>]
       ELSE [rule |-> id, status |-> IF found = {} THEN "passed" ELSE "failed", findings |-> places]

\* RuleEngine.execute: every requested rule in the order of the request; an
\* unknown rule raises before any is executed.
Raises(batch) ==
    \/ ~(ToSet(job.rules) \subseteq DOMAIN Rule)
    \/ \E id \in ToSet(job.rules) : RuleRaises(id, batch)

Execute(batch, first) == [n \in DOMAIN job.rules |-> RuleResult(job.rules[n], batch, first)]

\* The findings of the partial results of a rule, in the order they came.
Gathered(id, results) ==
    LET upTo[n \in 0..Len(results)] ==
            IF n = 0 THEN <<>>
            ELSE IF results[n].rule = id THEN upTo[n - 1] \o results[n].findings
            ELSE upTo[n - 1]
    IN upTo[Len(results)]

\* RuleResultCollector._merge: an error in one chunk hides the findings of the
\* others.
Merge(id, results) ==
    IF \E n \in DOMAIN results : results[n].rule = id /\ results[n].status = "error"
    THEN [rule |-> id, status |-> "error", findings |-> <<>>]
    ELSE LET places == Gathered(id, results)
         IN  [rule |-> id, status |-> IF places = <<>> THEN "passed" ELSE "failed", findings |-> places]

\* RuleResultCollector.finish: rules in the order they were first seen.
Finished(results) ==
    LET firsts == {n \in DOMAIN results : \A m \in 1..(n - 1) : results[m].rule # results[n].rule}
    IN [n \in 1..Cardinality(firsts) |-> Merge(results[Listed(firsts)[n]].rule, results)]

(***************************************************************************)
(* Choice of the engine                                                    *)
(***************************************************************************)
\* EngineDecisionService.select over the profile of a sample.
TooLarge(sample) ==
    LET sum(measure(_)) == FoldSeq(LAMBDA f, n : n + measure(f), 0, sample)
        perFeature == IF sample = <<>> THEN 0 ELSE sum(Bytes) \div Len(sample)
        counted(n) == IF job.counted THEN n * Len(job.rows) ELSE 0
        estimated == Max({job.bytes * Expansion, counted(Max({FeatureBytes, 3 * perFeature}))})
        available == IF job.memory = None THEN Limits.memory
                     ELSE Min({Limits.memory, (job.memory * Limits.percent) \div 100})
    IN \/ estimated > available
       \/ counted(1) > Limits.features
       \/ job.bytes > Limits.bytes
       \/ /\ sample # <<>>
          /\ sum(Vertices) >= Limits.vertices * Len(sample)
          /\ counted(sum(Vertices)) \div Len(sample) >= Limits.projected

(***************************************************************************)
(* The program                                                             *)
(***************************************************************************)
Rest == SubSeq(Features, offset + 1, Len(Features))
Empty == IF job.consumer \in {"geometry", "automatic"} THEN NothingFound
         ELSE IF job.consumer = "rules" THEN <<>> ELSE 0

StreamIdle ==
    /\ phase = CASE job.consumer = "writer" -> "open"
                 [] job.consumer = "automatic" -> "profile"
                 [] OTHER -> "inspect"
    /\ offset = 0
    /\ chunks = FALSE
    /\ collected = Empty

StreamInit == job \in Jobs /\ StreamIdle

In(p) == Running /\ phase = p

\* AutomaticGeometryEngine.run: the metadata and one small chunk decide.
Profile ==
    /\ In("profile")
    /\ \E n \in {Min({m, Len(Features)}) : m \in 1..SampleSize} :
           phase' = IF TooLarge(SubSeq(Features, 1, n)) THEN "inspect" ELSE "memory"
    /\ UNCHANGED <<job, offset, chunks, collected, fileVars>>

\* The frame is read without the scan of the source; its reader refuses a
\* geometry that cannot be parsed.
AuditInMemory ==
    /\ In("memory")
    /\ IF \E k \in DOMAIN job.rows : Unparsable(job.rows[k])
       THEN Leave("error") /\ UNCHANGED streamVars
       ELSE /\ collected' = AuditOf(job.rows)
            /\ End
            /\ UNCHANGED <<job, phase, offset, chunks>>

\* StreamingEngine.run: a missing reference system and an empty layer are
\* refused.
Inspect ==
    /\ In("inspect")
    /\ IF (job.requireCrs /\ ~job.crs) \/ (job.counted /\ job.rows = <<>>)
       THEN Leave("error") /\ UNCHANGED phase
       ELSE phase' = "stream" /\ UNCHANGED fileVars
    /\ UNCHANGED <<job, offset, chunks, collected>>

\* The dataset is corrupt, cannot be decoded or does not fit into memory.
ReadFails ==
    /\ Running
    /\ phase \in {"profile", "memory", "inspect", "stream"}
    /\ Leave("error")
    /\ UNCHANGED streamVars

\* A chunk: the readers drop empty batches and move the offset by the size.
Chunk(n) ==
    /\ n \in 1..Min({ChunkSize, Len(Rest)})
    /\ offset' = offset + n
    /\ chunks' = TRUE

AuditChunk ==
    /\ In("stream")
    /\ job.consumer # "rules"
    /\ \E n \in 1..ChunkSize :
           /\ Chunk(n)
           /\ collected' = Merged(collected, ChunkResult(SubSeq(Rest, 1, n), offset))
    /\ UNCHANGED <<job, phase, fileVars>>

\* RuleEngineChunkProcessor.process and RuleResultCollector.add.
RuleChunk ==
    /\ In("stream")
    /\ job.consumer = "rules"
    /\ \E n \in 1..ChunkSize :
           /\ Chunk(n)
           /\ IF Raises(SubSeq(Rest, 1, n))
              THEN phase' = "rule raised" /\ Leave("error") /\ UNCHANGED collected
              ELSE /\ collected' = collected \o Execute(SubSeq(Rest, 1, n), offset)
                   /\ UNCHANGED <<phase, fileVars>>
    /\ UNCHANGED job

\* The end of the stream; a layer without a chunk is empty.
Finish ==
    /\ In("stream")
    /\ Rest = <<>>
    /\ IF chunks
       THEN /\ collected' = IF job.consumer = "rules" THEN Finished(collected) ELSE collected
            /\ End
       ELSE Leave("error") /\ UNCHANGED collected
    /\ UNCHANGED <<job, phase, offset, chunks>>

(***************************************************************************)
(* GeoParquetStreamWriter.write                                            *)
(***************************************************************************)
OpenOutput ==
    /\ In("open")
    /\ IF MayWrite THEN phase' = "copy" /\ UNCHANGED fileVars ELSE Refuse /\ UNCHANGED phase
    /\ UNCHANGED <<job, offset, chunks, collected>>

\* The first chunk with rows opens the temporary file.
WriteChunk ==
    /\ In("copy")
    /\ \E n \in 1..ChunkSize :
           /\ Chunk(n)
           /\ collected' = collected + n
    /\ WriteTo("partial")
    /\ UNCHANGED <<job, phase>>

\* A table of the caller's without rows is skipped.
SkipChunk ==
    /\ In("copy")
    /\ chunks' = TRUE
    /\ UNCHANGED <<job, phase, offset, collected, fileVars>>

\* Any error, of the stream, the schema or the disk, before or after the rename:
\* the handler closes the writer, if that was opened and not closed, which may
\* fail as well, and removes the temporary file.
WriterFails ==
    /\ Running
    /\ phase \in {"copy", "replace", "stat"}
    /\ \/ Abandon
       \/ phase = "copy" /\ temporary # "none" /\ Leave("error")
    /\ UNCHANGED streamVars

\* The end of the stream: the writer is closed.
CloseWriter ==
    /\ In("copy")
    /\ Rest = <<>>
    /\ temporary # "none"
    /\ WriteTo("whole")
    /\ phase' = "replace"
    /\ UNCHANGED <<job, offset, chunks, collected>>

\* A stream without rows has no schema to write.
NothingToWrite ==
    /\ In("copy")
    /\ Rest = <<>>
    /\ temporary = "none"
    /\ Abandon
    /\ UNCHANGED streamVars

PublishParquet ==
    /\ In("replace")
    /\ Replace
    /\ phase' = "stat"
    /\ UNCHANGED <<job, offset, chunks, collected>>

ReturnResult ==
    /\ In("stat")
    /\ End
    /\ UNCHANGED streamVars

\* A signal or the interrupt key: the handler catches exceptions only.
WriterKilled ==
    /\ Running
    /\ phase \in {"copy", "replace", "stat"}
    /\ Leave("killed")
    /\ UNCHANGED streamVars

StreamNext ==
    \/ Profile \/ AuditInMemory \/ Inspect \/ ReadFails \/ AuditChunk \/ RuleChunk \/ Finish
    \/ OpenOutput \/ WriteChunk \/ SkipChunk \/ WriterFails \/ CloseWriter \/ NothingToWrite
    \/ PublishParquet \/ ReturnResult \/ WriterKilled

StreamSpec == StreamInit /\ FileInit(job) /\ [][StreamNext]_<<streamVars, fileVars>>

(***************************************************************************)
(* Properties                                                              *)
(***************************************************************************)
\* A rule that raises for a feature and answers in another's name for the rest.
Masked == \E id \in ToSet(job.rules) : Rule[id].answers # id /\ ToSet(Features) \cap Rule[id].raises # {}

\* However the dataset is cut, a geometry audit that ends counts every feature it
\* was to read and keeps the first findings, at their places among these, whichever
\* engine is chosen unless the reader filters; and a rule audit answers what the rules, each requested once,
\* say of the dataset as one chunk.  Where a rule raises in some chunk, it raises
\* there too, unless an exception of that rule elsewhere masks its wrong name.
ChunksAgree ==
    /\ exit = "ok" /\ job.consumer \in {"geometry", "automatic"} /\ (phase = "memory" => Unfiltered) =>
           collected = AuditOf(Features)
    /\ exit = "ok" /\ job.consumer = "rules" =>
           ~Raises(Features) /\ (IsInjective(job.rules) => collected = Execute(Features, 0))
    /\ phase = "rule raised" => Raises(Features) \/ Masked
=============================================================================
