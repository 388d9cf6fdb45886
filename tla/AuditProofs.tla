----------------------------- MODULE AuditProofs -----------------------------
(***************************************************************************)
(* Proofs about AuditCommand and the batch executor it runs, for any set   *)
(* of datasets and requests, any number of workers, and however workers    *)
(* interleave, die or are interrupted: what the batch returns, what it     *)
(* leaves behind, and what the exit code says.                             *)
(*                                                                         *)
(* The invariant has three parts.  BatchInv ties the recorded outcomes to  *)
(* the futures and the result to the outcomes; FilesInv says what check    *)
(* can have written and that it took nothing of the user's away;           *)
(* CommandInv remembers why the command exited as it did.                  *)
(***************************************************************************)
EXTENDS AuditCommand, FiniteSetTheorems, SequenceTheorems, WellFoundedInduction, TLAPS

-----------------------------------------------------------------------------
(* The batch *)

\* Where run() may be, and what holds of its books.
BatchTypeOK ==
    /\ total \in Nat
    /\ phase \in {"planning", "serial", "submitting", "collecting", "closing", "returned", "raised"}
    /\ future \in [Tasks -> {"none", "cancelled"} \cup Unfinished \cup Resolved]
    /\ outcomes \in [Tasks -> {"none"} \cup Values]
    /\ processes \in Nat

\* An outcome is that of its own future, which has it for good; the observer was
\* told of each, and a run that ends well has them all.
BooksInv ==
    /\ \A t \in Tasks : outcomes[t] # "none" => future[t] \in Resolved /\ outcomes[t] = FromFuture(t)
    /\ \A t \in Tasks : future[t] = "broken" => broken
    /\ phase # "planning" => reported = Cardinality(Recorded)
    /\ phase = "closing" /\ leaving = "result" => Recorded = Tasks
    /\ phase = "returned" => Recorded = Tasks /\ result = [i \in 1..total |-> <<i - 1, outcomes[i - 1]>>]

\* The parent alone starts nothing, and leaves a pool only when it is drained or
\* when Ctrl-C has cancelled what was queued.
PoolInv ==
    /\ phase = "planning" => total = 0 /\ processes = 0 /\ result = <<>>
    /\ phase = "serial" => processes = 0 /\ \A t \in Tasks : future[t] \in {"none"} \cup Values
    /\ phase = "raised" /\ leaving # "cancelled" => processes = 0 \/ InState(Unfinished) = {}
    /\ leaving = "cancelled" => phase \in {"closing", "raised"} /\ \A t \in Tasks : future[t] # "queued"

BatchInv == BatchTypeOK /\ BooksInv /\ PoolInv

\* Every task is below some number.
LEMMA TasksCounted ==
  ASSUME NEW n \in Nat
  PROVE  IsFiniteSet(0..(n - 1)) /\ Cardinality(0..(n - 1)) = n
<1>1. IsFiniteSet(0..(n - 1)) /\ Cardinality(0..(n - 1)) = IF 0 > n - 1 THEN 0 ELSE (n - 1) - 0 + 1
  BY FS_Interval
<1>. QED
  BY <1>1

\* The outcomes of a complete run, in the order of the tasks.
LEMMA OrderedComplete ==
  ASSUME total \in Nat, NEW f, \A t \in Tasks : f[t] # "none"
  PROVE  Ordered(f) = [i \in 1..total |-> <<i - 1, f[i - 1]>>]
<1>. DEFINE keys == {t \in Tasks : f[t] # "none"}
            nth(i) == CHOOSE t \in keys : Cardinality({k \in keys : k < t}) = i - 1
<1>1. keys = Tasks /\ keys = 0..(total - 1) /\ Cardinality(keys) = total
  BY TasksCounted DEF Tasks
<1>2. ASSUME NEW t \in keys PROVE Cardinality({k \in keys : k < t}) = t
  <2>1. t \in Nat /\ {k \in keys : k < t} = 0..(t - 1)
    BY <1>1
  <2>. QED
    BY <2>1, TasksCounted
<1>3. ASSUME NEW i \in 1..total PROVE nth(i) = i - 1
  <2>1. i - 1 \in keys
    BY <1>1
  <2>2. Cardinality({k \in keys : k < i - 1}) = i - 1
    BY <1>2, <2>1
  <2>3. nth(i) \in keys /\ Cardinality({k \in keys : k < nth(i)}) = i - 1
    <3>. HIDE DEF keys
    <3>. QED
      BY <2>1, <2>2
  <2>. HIDE DEF keys, nth
  <2>. QED
    BY <1>2, <2>3
<1>4. Ordered(f) = [i \in 1..Cardinality(keys) |-> <<nth(i), f[nth(i)]>>]
  BY DEF Ordered
<1>. HIDE DEF keys, nth
<1>. QED
  BY <1>1, <1>3, <1>4

LEMMA SmallestIsMember ==
  ASSUME NEW S \in SUBSET Nat, S # {}
  PROVE  Smallest(S) \in S
<1>1. PICK n \in S : \A m \in S : ~(<<m, n>> \in OpToRel(<, Nat))
  BY WFMin, NatLessThanWellFounded
<1>2. \A m \in S : ~(m < n)
  BY <1>1 DEF OpToRel
<1>3. \A m \in S : n <= m
  BY <1>2
<1>. QED
  BY <1>3 DEF Smallest

\* The steps of the parent, the pool and the user, one task each.
LEMMA RecordedGrows ==
  ASSUME BatchTypeOK, NEW t \in Tasks, outcomes[t] = "none", NEW value \in Values,
         Record(t, value), total' = total, reported = Cardinality(Recorded)
  PROVE  reported' = Cardinality(Recorded')
<1>1. Recorded' = Recorded \cup {t}
  BY DEF BatchTypeOK, Record, Recorded, Tasks, Values
<1>2. t \notin Recorded
  BY DEF Recorded
<1>3. IsFiniteSet(Recorded)
  <2>1. IsFiniteSet(Tasks) /\ Recorded \subseteq Tasks
    BY TasksCounted DEF BatchTypeOK, Tasks, Recorded
  <2>. QED
    BY <2>1, FS_Subset
<1>. QED
  BY <1>1, <1>2, <1>3, FS_AddElement DEF Record

LEMMA BatchInvNext ==
  ASSUME BatchInv, [BatchNext]_batchVars
  PROVE  BatchInv'
<1>. USE DEF BatchInv, BatchTypeOK, Values, Resolved, Unfinished, parentVars, poolVars
<1>0. \A states : InState(states) \subseteq Tasks /\ Tasks \subseteq Nat
  BY DEF InState, Tasks
<1>1. ASSUME NEW value \in Values, SerialTask(value) PROVE BatchInv'
  <2>. DEFINE t == Smallest(Tasks \ Recorded)
  <2>1. phase = "serial" /\ phase' = "serial" /\ total' = total /\ processes' = processes
        /\ Record(t, value) /\ future' = [future EXCEPT ![t] = value] /\ Tasks' = Tasks /\ broken' = broken
        /\ leaving' = leaving
    BY <1>1 DEF SerialTask, Tasks
  <2>2. t \in Tasks /\ outcomes[t] = "none"
    <3>1. t \in Tasks \ Recorded
      <4>1. Tasks \ Recorded \in SUBSET Nat /\ Tasks \ Recorded # {}
        BY <1>0, <1>1 DEF SerialTask, Recorded
      <4>. QED
        BY <4>1, SmallestIsMember
    <3>. QED
      BY <3>1 DEF Recorded
  <2>. HIDE DEF t
  <2>3. reported' = Cardinality(Recorded')
    BY <2>1, <2>2, RecordedGrows DEF BooksInv
  <2>4. BatchTypeOK'
    BY <2>1, <2>2 DEF Record
  <2>5. BooksInv'
    BY <2>1, <2>2, <2>3 DEF BooksInv, Record, FromFuture, PoolInv
  <2>. QED
    BY <2>1, <2>2, <2>4, <2>5 DEF PoolInv
<1>2. CASE SerialReturns
  <2>1. \A t \in Tasks : outcomes[t] # "none"
    BY <1>2 DEF SerialReturns, Recorded
  <2>2. result' = [i \in 1..total |-> <<i - 1, outcomes[i - 1]>>]
    BY <1>2, <2>1, OrderedComplete DEF SerialReturns
  <2>. QED
    BY <1>2, <2>2 DEF SerialReturns, BooksInv, PoolInv, Recorded, Tasks, FromFuture
<1>3. CASE SerialRaises
  BY <1>3 DEF SerialRaises, Raise, BooksInv, PoolInv, Recorded, Tasks, FromFuture, InState
<1>4. CASE Submit
  <2>. DEFINE t == Smallest(InState({"none"}))
  <2>1. t \in Tasks /\ future[t] = "none"
    <3>1. t \in InState({"none"})
      BY <1>0, <1>4, SmallestIsMember DEF Submit
    <3>. QED
      BY <3>1 DEF InState
  <2>2. /\ future' = [future EXCEPT ![t] = "queued"] /\ phase' = phase /\ phase = "submitting"
        /\ total' = total /\ Tasks' = Tasks /\ outcomes' = outcomes /\ reported' = reported
        /\ broken' = broken /\ processes' \in Nat /\ leaving' = leaving
    BY <1>4 DEF Submit, Tasks
  <2>. HIDE DEF t
  <2>3. BooksInv'
    BY <2>1, <2>2 DEF BooksInv, FromFuture, Recorded
  <2>. QED
    BY <2>1, <2>2, <2>3 DEF PoolInv
<1>5. CASE SubmitRaises
  <2>. DEFINE t == Smallest(InState({"none"}))
  <2>1. t \in Tasks /\ future[t] = "none"
    <3>1. t \in InState({"none"})
      BY <1>0, <1>5, SmallestIsMember DEF SubmitRaises
    <3>. QED
      BY <3>1 DEF InState
  <2>2. /\ future' = [future EXCEPT ![t] = "queued"] \/ future' = future
        /\ phase' = "closing" /\ phase = "submitting" /\ leaving' \in {"error", "startup"}
        /\ total' = total /\ Tasks' = Tasks /\ outcomes' = outcomes /\ reported' = reported
        /\ broken' = broken /\ processes' = processes
    BY <1>5 DEF SubmitRaises, Tasks
  <2>. HIDE DEF t
  <2>3. BooksInv'
    BY <2>1, <2>2 DEF BooksInv, FromFuture, Recorded
  <2>. QED
    BY <2>1, <2>2, <2>3 DEF PoolInv
<1>6. CASE AllSubmitted
  BY <1>6 DEF AllSubmitted, BooksInv, PoolInv, Recorded, Tasks, FromFuture
<1>7. CASE AllCollected
  BY <1>7 DEF AllCollected, BooksInv, PoolInv, Recorded, Tasks, FromFuture
<1>8. CASE Interrupt
  <2>1. /\ total' = total /\ Tasks' = Tasks /\ outcomes' = outcomes /\ reported' = reported
        /\ broken' = broken /\ processes' = processes /\ phase' = "closing" /\ leaving' # "result"
        /\ phase # "planning"
    BY <1>8 DEF Interrupt, Tasks
  <2>2. \A t \in Tasks : future'[t] = future[t] \/ (future[t] = "queued" /\ future'[t] = "cancelled")
    BY <1>8 DEF Interrupt
  <2>3. future' \in [Tasks -> {"none", "cancelled"} \cup Unfinished \cup Resolved]
    BY <1>8 DEF Interrupt
  <2>4. BooksInv'
    BY <2>1, <2>2 DEF BooksInv, FromFuture, Recorded
  <2>5. leaving' = "cancelled" => \A t \in Tasks : future'[t] # "queued"
    BY <1>8 DEF Interrupt
  <2>. QED
    BY <2>1, <2>3, <2>4, <2>5 DEF PoolInv
<1>9. CASE LeavePool
  <2>1. /\ total' = total /\ Tasks' = Tasks /\ outcomes' = outcomes /\ reported' = reported
        /\ broken' = broken /\ processes' = processes /\ future' = future /\ leaving' = leaving
        /\ phase = "closing"
    BY <1>9 DEF LeavePool, Tasks
  <2>2. CASE leaving = "result"
    <3>1. phase' = "returned" /\ result' = Ordered(outcomes)
      BY <1>9, <2>2 DEF LeavePool
    <3>2. Recorded = Tasks
      BY <2>1, <2>2 DEF BooksInv
    <3>3. result' = [i \in 1..total |-> <<i - 1, outcomes[i - 1]>>]
      BY <3>1, <3>2, OrderedComplete DEF Recorded
    <3>. QED
      BY <2>1, <2>2, <3>1, <3>2, <3>3 DEF BooksInv, PoolInv, Recorded, FromFuture
  <2>3. CASE leaving # "result"
    <3>1. phase' = "raised" /\ (leaving = "cancelled" \/ processes = 0 \/ InState(Unfinished) = {})
      BY <1>9, <2>3 DEF LeavePool, Drained
    <3>. QED
      BY <2>1, <2>3, <3>1 DEF BooksInv, PoolInv, Recorded, FromFuture, InState
  <2>. QED
    BY <2>2, <2>3
<1>10. CASE WorkerDies
  <2>1. /\ total' = total /\ Tasks' = Tasks /\ outcomes' = outcomes /\ reported' = reported
        /\ broken' /\ processes' = 0 /\ leaving' = leaving /\ phase' = phase /\ result' = result
        /\ phase # "planning" /\ phase # "serial"
    BY <1>10 DEF WorkerDies, Break, Tasks, PoolInv
  <2>2. \A t \in Tasks : future'[t] = IF future[t] \in Unfinished THEN "broken" ELSE future[t]
    BY <1>10 DEF WorkerDies, Break
  <2>3. future' \in [Tasks -> {"none", "cancelled"} \cup Unfinished \cup Resolved]
    BY <1>10 DEF WorkerDies, Break
  <2>4. BooksInv'
    BY <2>1, <2>2 DEF BooksInv, FromFuture, Recorded
  <2>. QED
    BY <2>1, <2>2, <2>3, <2>4 DEF PoolInv
<1>11. ASSUME NEW t \in Tasks, Collect(t) \/ ObserverRaises(t) PROVE BatchInv'
  <2>1. /\ phase = "collecting" /\ future[t] \in Resolved /\ outcomes[t] = "none"
        /\ Record(t, FromFuture(t)) /\ total' = total /\ Tasks' = Tasks /\ future' = future
        /\ broken' = broken /\ processes' = processes
        /\ (phase' = "collecting" /\ leaving' = leaving) \/ (phase' = "closing" /\ leaving' = "error")
    BY <1>11 DEF Collect, ObserverRaises, Yielded, Tasks
  <2>2. FromFuture(t) \in Values
    BY <2>1 DEF FromFuture
  <2>3. reported' = Cardinality(Recorded')
    BY <2>1, <2>2, RecordedGrows DEF BooksInv
  <2>4. BooksInv'
    BY <2>1, <2>2, <2>3 DEF BooksInv, Record, FromFuture
  <2>. QED
    BY <2>1, <2>2, <2>4 DEF PoolInv, Record
<1>12. ASSUME NEW t \in Tasks, Start(t) \/ \E value \in Values : Finish(t, value) PROVE BatchInv'
  <2>1. /\ total' = total /\ Tasks' = Tasks /\ outcomes' = outcomes /\ reported' = reported /\ result' = result
        /\ broken' = broken /\ processes' = processes /\ leaving' = leaving /\ phase' = phase
        /\ future[t] \in Unfinished /\ (future[t] = "queued" => processes > 0)
    BY <1>12 DEF Start, Finish, Tasks
  <2>2. \E state \in {"running"} \cup Values : future' = [future EXCEPT ![t] = state]
                                           /\ (state = "running" => processes > 0)
    BY <1>12 DEF Start, Finish
  <2>3. BooksInv'
    BY <2>1, <2>2 DEF BooksInv, FromFuture, Recorded
  <2>4. t \in InState(Unfinished) /\ phase # "serial"
    BY <2>1 DEF InState, PoolInv
  <2>5. InState(Unfinished)' \subseteq InState(Unfinished)
    BY <2>1, <2>2 DEF InState
  <2>. QED
    BY <2>1, <2>2, <2>3, <2>4, <2>5 DEF PoolInv
<1>13. CASE UNCHANGED batchVars
  BY <1>13 DEF batchVars, BooksInv, PoolInv, Recorded, Tasks, FromFuture, InState
<1>. QED
  BY <1>1, <1>2, <1>3, <1>4, <1>5, <1>6, <1>7, <1>8, <1>9, <1>10, <1>11, <1>12, <1>13 DEF BatchNext

LEMMA BatchInvInit == BatchInit => BatchInv
<1>. SUFFICES ASSUME BatchInit PROVE BatchInv
  OBVIOUS
<1>1. Tasks = {}
  BY DEF BatchInit, Tasks
<1>2. BatchTypeOK
  <2>1. <<>> \in [{} -> {"none", "cancelled"} \cup Unfinished \cup Resolved] /\ <<>> \in [{} -> {"none"} \cup Values]
    OBVIOUS
  <2>. QED
    BY <1>1, <2>1 DEF BatchInit, BatchTypeOK
<1>. QED
  BY <1>1, <1>2 DEF BatchInit, BatchInv, BooksInv, PoolInv

LEMMA PlanKeeps ==
  ASSUME BatchInv, NEW n \in Nat, Plan(n)
  PROVE  BatchInv'
<1>1. /\ total' = n /\ Tasks' = 0..(n - 1) /\ processes' = 0
      /\ future' = [t \in Tasks' |-> "none"] /\ outcomes' = [t \in Tasks' |-> "none"]
      /\ reported' = 0 /\ leaving' = leaving /\ result' = result /\ phase = "planning"
      /\ phase' \in {"returned", "serial", "submitting"} /\ (phase' = "returned" <=> n = 0)
  BY DEF Plan, BatchInv, PoolInv, Tasks
<1>2. BatchTypeOK'
  BY <1>1 DEF BatchTypeOK
<1>3. Recorded' = {} /\ Cardinality(Recorded') = 0
  BY <1>1, FS_EmptySet DEF Recorded
<1>4. phase' = "returned" => result' = [i \in 1..total' |-> <<i - 1, outcomes'[i - 1]>>] /\ Tasks' = {}
  <2>1. result' = <<>>
    BY <1>1 DEF Plan, BatchInv, PoolInv
  <2>2. ASSUME n = 0 PROVE 1..n = {} /\ 0..(n - 1) = {}
    BY <2>2
  <2>. QED
    BY <1>1, <2>1, <2>2
<1>. QED
  BY <1>1, <1>2, <1>3, <1>4 DEF BatchInv, BatchTypeOK, BooksInv, PoolInv

-----------------------------------------------------------------------------
(* The files *)

\* What check writes is a report or has the name of issue layers.
Output(f) == f.suffix = "html" \/ NamedLikeIssues(f)

\* No dataset of the user stands in an output folder.
OutputsApart == \A f \in Datasets : OutputDir \notin Range(f.dir)

FilesInv ==
    /\ IsFiniteSet(files)
    /\ \A f \in files : IsFile(f) /\ (f.written => Output(f))
    /\ OutputsApart => Datasets \subseteq files

LEMMA ExtendedPath ==
  ASSUME NEW p, IsPath(p), NEW x
  PROVE  /\ IsPath(Append(p, x)) /\ IsPath(p \o <<x>>) /\ p \o <<x>> # <<>> /\ Append(p, x) # <<>>
         /\ x \in Range(Append(p, x))
         /\ Len(p \o <<x>>) = Len(p) + 1 /\ Last(p \o <<x>>) = x
<1>. DEFINE S == Range(p) \cup {x}
            a == Append(p, x)
            c == p \o <<x>>
<1>1. p \in Seq(S) /\ <<x>> \in Seq(S) /\ Len(<<x>>) = 1 /\ <<x>>[1] = x /\ Len(p) \in Nat
  BY DEF IsPath
<1>2. a \in Seq(S) /\ Len(a) = Len(p) + 1 /\ a[Len(p) + 1] = x
  BY <1>1, AppendProperties
<1>3. c \in Seq(S) /\ Len(c) = Len(p) + 1 /\ c[Len(p) + 1] = x
  BY <1>1, ConcatProperties
<1>. HIDE DEF a, c, S
<1>4. IsPath(a) /\ IsPath(c)
  BY <1>2, <1>3, SeqOfRange DEF IsPath
<1>5. a # <<>> /\ c # <<>>
  BY <1>1, <1>2, <1>3
<1>6. x \in Range(a)
  <2>1. Len(p) + 1 \in DOMAIN a
    BY <1>1, <1>2
  <2>. QED
    BY <1>2, <2>1 DEF Range
<1>7. Last(c) = x
  BY <1>3 DEF Last
<1>. QED
  BY <1>3, <1>4, <1>5, <1>6, <1>7 DEF a, c

LEMMA OutputFine ==
  ASSUME NEW f, IsFile(f), NEW layer, NEW what, NEW names, IsFiniteSet(names),
         NEW suffix, suffix = "html" \/ (suffix = "gpkg" /\ what = "issues")
  PROVE  LET o == DefaultOutput(f, layer, what, suffix, names)
         IN  IsFile(o) /\ Output(o) /\ OutputDir \in Range(o.dir)
<1>. DEFINE o == DefaultOutput(f, layer, what, suffix, names)
            base == IF layer = None THEN f.stem ELSE Append(f.stem, layer)
<1>1. IsPath(base) /\ base # <<>>
  BY ExtendedPath DEF IsFile
<1>2. o = [dir |-> Append(f.dir, OutputDir), suffix |-> suffix, link |-> FALSE, layers |-> names,
           written |-> TRUE, stem |-> base \o <<what>>]
  BY DEF DefaultOutput
<1>. HIDE DEF base, o
<1>3. Len(base) \in Nat \ {0}
  BY <1>1, EmptySeq DEF IsPath
<1>4. /\ IsPath(base \o <<what>>) /\ base \o <<what>> # <<>>
      /\ Len(base \o <<what>>) > 1 /\ Last(base \o <<what>>) = what
  BY <1>1, <1>3, ExtendedPath
<1>5. IsPath(Append(f.dir, OutputDir)) /\ OutputDir \in Range(Append(f.dir, OutputDir))
  BY ExtendedPath DEF IsFile
<1>. QED
  BY <1>2, <1>4, <1>5 DEF o, IsFile, Output, NamedLikeIssues

LEMMA OutputsFine ==
  ASSUME NEW f, IsFile(f), NEW names, IsFiniteSet(names)
  PROVE  /\ IsFiniteSet(CheckOutputs(f, names))
         /\ \A o \in CheckOutputs(f, names) : IsFile(o) /\ Output(o) /\ OutputDir \in Range(o.dir)
<1>. DEFINE L == IF f.suffix = "gpkg" /\ Cardinality(f.layers) > 1 THEN f.layers ELSE {None}
            outs(layer) == {DefaultOutput(f, layer, "issues", "gpkg", names),
                            DefaultOutput(f, layer, "report", "html", {})}
            map == [layer \in L |-> outs(layer)]
<1>1. CheckOutputs(f, names) = UNION {outs(layer) : layer \in L}
  BY DEF CheckOutputs
<1>2. IsFiniteSet(L)
  BY FS_Singleton DEF IsFile
<1>3. \A layer \in L : IsFiniteSet(outs(layer))
  <2>1. \A x, y : IsFiniteSet({x, y})
    <3>. SUFFICES ASSUME NEW x, NEW y PROVE IsFiniteSet({x, y})
      OBVIOUS
    <3>1. IsFiniteSet({x})
      BY FS_Singleton
    <3>2. IsFiniteSet({x} \cup {y})
      BY <3>1, FS_AddElement
    <3>3. {x, y} = {x} \cup {y}
      OBVIOUS
    <3>. QED
      BY <3>2, <3>3
  <2>. QED
    BY <2>1
<1>. HIDE DEF L, outs
<1>4. IsFiniteSet({outs(layer) : layer \in L})
  <2>1. map \in Surjection(L, {outs(layer) : layer \in L})
    BY DEF Surjection
  <2>. QED
    BY <1>2, <2>1, FS_Surjection
<1>5. IsFiniteSet(CheckOutputs(f, names))
  BY <1>1, <1>3, <1>4, FS_UNION
<1>6. ASSUME NEW o \in CheckOutputs(f, names)
      PROVE  IsFile(o) /\ Output(o) /\ OutputDir \in Range(o.dir)
  <2>1. PICK layer \in L : o \in outs(layer)
    BY <1>1
  <2>2. IsFiniteSet({})
    BY FS_EmptySet
  <2>3. CASE o = DefaultOutput(f, layer, "issues", "gpkg", names)
    BY <2>2, <2>3, OutputFine
  <2>4. CASE o = DefaultOutput(f, layer, "report", "html", {})
    BY <2>2, <2>4, OutputFine
  <2>. QED
    BY <2>1, <2>3, <2>4 DEF outs
<1>. QED
  BY <1>5, <1>6

LEMMA CheckKeepsFiles ==
  ASSUME FilesInv, NEW f \in files, CheckDataset(f)
  PROVE  FilesInv'
<1>. DEFINE outputs == CheckOutputs(f, {"lines", "points"})
<1>1. files' = {g \in files : \A o \in outputs : PathOf(g) # PathOf(o)} \cup outputs
  BY DEF CheckDataset
<1>2. IsFiniteSet({"lines", "points"})
  <2>1. IsFiniteSet({"lines"}) /\ {"lines", "points"} = {"lines"} \cup {"points"}
    BY FS_Singleton
  <2>2. IsFiniteSet({"lines"} \cup {"points"})
    BY <2>1, FS_AddElement
  <2>. QED
    BY <2>1, <2>2
<1>3. /\ IsFiniteSet(outputs)
      /\ \A o \in outputs : IsFile(o) /\ Output(o) /\ OutputDir \in Range(o.dir)
  <2>1. IsFile(f)
    BY DEF FilesInv
  <2>. QED
    BY <1>2, <2>1, OutputsFine
<1>. HIDE DEF outputs
<1>4. IsFiniteSet(files')
  <2>1. IsFiniteSet({g \in files : \A o \in outputs : PathOf(g) # PathOf(o)})
    BY FS_Subset DEF FilesInv
  <2>. QED
    BY <1>1, <1>3, <2>1, FS_Union
<1>5. ASSUME OutputsApart, NEW g \in Datasets PROVE g \in files'
  <2>1. g \in files /\ OutputDir \notin Range(g.dir)
    BY <1>5 DEF FilesInv, OutputsApart
  <2>2. \A o \in outputs : PathOf(g) # PathOf(o)
    BY <1>3, <2>1 DEF PathOf
  <2>. QED
    BY <1>1, <2>1, <2>2
<1>. QED
  BY <1>1, <1>3, <1>4, <1>5 DEF FilesInv

-----------------------------------------------------------------------------
(* The command *)

AuditExit ==
    /\ exitCode \in {Running, 0, 1, 2}
    /\ exitCode = 0 => phase = "returned" /\ Len(layers) = layerTotal /\ Verdicts \subseteq {"clean"}
    /\ exitCode = 1 => \/ phase = "raised" \/ Len(layers) < layerTotal
                       \/ phase = "returned" /\ ~(Verdicts \subseteq {"clean"})
    /\ exitCode = 2 => InputsRefused(files, asked)

BatchExited ==
    /\ exitCode = Running => Sources(files, asked) # {}
    /\ exitCode = 0 => audited = Cardinality(Sources(files, asked)) /\ codes = {0}

CommandInv ==
    /\ asked \in Requests \cup {None}
    /\ asked = None => phase = "planning" /\ exitCode = Running /\ audited = 0 /\ codes = {} /\ layers = <<>>
    /\ phase # "planning" => asked # None /\ asked.command = "audit" /\ ~InputsRefused(files, asked)
    /\ layers \in Seq(Values)
    /\ audited \in Nat /\ codes \subseteq 0..3 /\ (audited > 0 => codes # {})
    /\ asked # None /\ asked.command = "audit" => AuditExit
    /\ asked # None /\ asked.command = "batch" => BatchExited

Inv == BatchInv /\ FilesInv /\ CommandInv

\* The books of the batch, and the verdicts that come from them, are closed when
\* run() is over.
LEMMA BatchOver ==
  ASSUME [BatchNext]_batchVars
  PROVE  /\ phase = "planning" <=> phase' = "planning"
         /\ phase \in {"returned", "raised"} => phase' = phase /\ result' = result
BY DEF BatchNext, batchVars, parentVars, poolVars, SerialReturns, SerialRaises, Raise, SerialTask, Submit, SubmitRaises,
       AllSubmitted, AllCollected, Interrupt, LeavePool, WorkerDies, Collect, ObserverRaises, Yielded,
       Start, Finish, Record, Break

LEMMA MaxOfCodes ==
  ASSUME NEW S \in SUBSET (0..3), S # {}
  PROVE  Max(S) \in S /\ \A y \in S : Max(S) >= y
<1>1. \E x \in S : \A y \in S : x >= y
  <2>1. \A x \in S : x = 0 \/ x = 1 \/ x = 2 \/ x = 3
    OBVIOUS
  <2>2. CASE 3 \in S
    <3>1. \A y \in S : 3 >= y
      BY <2>1
    <3>. QED
      BY <2>2, <3>1
  <2>3. CASE 3 \notin S /\ 2 \in S
    <3>1. \A y \in S : 2 >= y
      BY <2>1, <2>3
    <3>. QED
      BY <2>3, <3>1
  <2>4. CASE 3 \notin S /\ 2 \notin S /\ 1 \in S
    <3>1. \A y \in S : 1 >= y
      BY <2>1, <2>4
    <3>. QED
      BY <2>4, <3>1
  <2>5. CASE 3 \notin S /\ 2 \notin S /\ 1 \notin S
    <3>1. \A y \in S : y = 0
      BY <2>1, <2>5
    <3>2. PICK y \in S : TRUE
      OBVIOUS
    <3>3. 0 \in S /\ \A z \in S : 0 >= z
      BY <3>1, <3>2
    <3>. QED
      BY <3>3
  <2>. QED
    BY <2>2, <2>3, <2>4, <2>5
<1>. QED
  BY <1>1, Zenon DEF Max

LEMMA MaxZero ==
  ASSUME NEW S \in SUBSET (0..3), S # {}, Max(S) = 0
  PROVE  S = {0}
<1>1. \A y \in S : 0 >= y /\ y \in 0..3
  BY MaxOfCodes
<1>2. \A y \in S : y = 0
  BY <1>1
<1>. QED
  BY <1>2

LEMMA SourcesFinite ==
  ASSUME NEW S, IsFiniteSet(S), NEW request, NEW T \in SUBSET Sources(S, request)
  PROVE  Sources(S, request) \subseteq S /\ IsFiniteSet(T) /\ Cardinality(T) \in Nat
<1>1. Discovered(S, request) \subseteq S
  BY DEF Discovered, Candidates, At
<1>2. Sources(S, request) \subseteq S
  BY <1>1 DEF Sources, Kept
<1>3. IsFiniteSet(T)
  BY <1>2, FS_Subset
<1>. QED
  BY <1>2, <1>3, FS_CardinalityType

LEMMA InvInit == Init => Inv
<1>. SUFFICES ASSUME Init PROVE Inv
  OBVIOUS
<1>1. BatchInv
  BY BatchInvInit DEF Init
<1>2. FilesInv
  BY DatasetsAssumption DEF Init, FilesInv
<1>3. CommandInv
  BY DEF Init, BatchInit, CommandInv
<1>. QED
  BY <1>1, <1>2, <1>3 DEF Inv

LEMMA InvNext == Inv /\ [Next]_vars => Inv'
<1>. SUFFICES ASSUME Inv, [Next]_vars PROVE Inv'
  OBVIOUS
<1>. USE DEF Inv
<1>1. ASSUME NEW f \in files, CheckDataset(f) PROVE Inv'
  <2>1. FilesInv'
    BY <1>1, CheckKeepsFiles
  <2>2. BatchInv'
    <3>1. UNCHANGED batchVars
      BY <1>1 DEF CheckDataset
    <3>. QED
      BY <3>1, BatchInvNext
  <2>3. CommandInv'
    BY <1>1 DEF CheckDataset, CommandInv, batchVars, parentVars
  <2>. QED
    BY <2>1, <2>2, <2>3
<1>2. ASSUME UNCHANGED batchVars PROVE BatchInv'
  BY <1>2, BatchInvNext
<1>3. ASSUME files' = files PROVE FilesInv'
  BY <1>3 DEF FilesInv
<1>4. ASSUME NEW request \in Requests, RefuseInputs(request) PROVE Inv'
  <2>1. CommandInv'
    BY <1>4, RequestsAssumption DEF RefuseInputs, CommandInv, AuditExit, BatchExited, Running, batchVars, parentVars
  <2>. QED
    BY <1>2, <1>3, <1>4, <2>1 DEF RefuseInputs
<1>5. ASSUME NEW request \in Requests, Begin(request) PROVE Inv'
  <2>1. PICK layered \in {Layered(Sources(files, request))} : Plan(Cardinality(Sources(files, request) \ layered))
    BY <1>5 DEF Begin
  <2>2. Cardinality(Sources(files, request) \ layered) \in Nat
    BY SourcesFinite DEF FilesInv
  <2>3. BatchInv'
    BY <2>1, <2>2, PlanKeeps
  <2>4. CommandInv'
    BY <1>5, RequestsAssumption DEF Begin, CommandInv, AuditExit, Running
  <2>. QED
    BY <1>3, <1>5, <2>3, <2>4 DEF Begin
<1>6. ASSUME NEW request \in Requests, BeginBatch(request) PROVE Inv'
  <2>1. CommandInv'
    BY <1>6, RequestsAssumption DEF BeginBatch, CommandInv, BatchExited, Running, batchVars, parentVars
  <2>. QED
    BY <1>2, <1>3, <1>6, <2>1 DEF BeginBatch
<1>7. CASE Command(BatchNext)
  <2>1. BatchInv' /\ UNCHANGED commandVars
    BY <1>7, BatchInvNext DEF Command
  <2>2. /\ phase = "planning" <=> phase' = "planning"
        /\ phase \in {"returned", "raised"} => phase' = phase /\ result' = result
    BY <1>7, BatchOver DEF Command
  <2>3. UNCHANGED <<files, asked, layers, layerTotal, audited, codes, exitCode>>
    BY <2>1 DEF commandVars
  <2>4. AuditExit => AuditExit'
    BY <2>2, <2>3 DEF AuditExit, Verdicts
  <2>5. BatchExited => BatchExited'
    BY <2>3 DEF BatchExited
  <2>6. CommandInv'
    BY <2>2, <2>3, <2>4, <2>5 DEF CommandInv
  <2>. QED
    BY <1>3, <2>1, <2>3, <2>6
<1>8. CASE LayerCrashes
  <2>1. CommandInv'
    BY <1>8 DEF LayerCrashes, AuditingLayers, CommandInv, AuditExit, Running, batchVars, parentVars
  <2>. QED
    BY <1>2, <1>3, <1>8, <2>1 DEF LayerCrashes
<1>9. CASE Exit
  <2>1. UNCHANGED <<batchVars, files, asked, layers, layerTotal, audited, codes>>
    BY <1>9 DEF Exit
  <2>2. phase' = phase /\ Verdicts' = Verdicts
    BY <2>1 DEF batchVars, parentVars, Verdicts
  <2>3. asked # None /\ asked.command = "audit" /\ AuditExit'
    BY <1>9, <2>1, <2>2 DEF Exit, ExitOf, AuditExit, CommandInv, Running
  <2>4. CommandInv'
    BY <2>1, <2>2, <2>3 DEF CommandInv
  <2>. QED
    BY <1>2, <1>3, <2>1, <2>4
<1>10. ASSUME NEW verdict \in Values, AuditLayer(verdict) PROVE Inv'
  <2>1. layers' \in Seq(Values)
    BY <1>10, AppendProperties DEF AuditLayer, CommandInv
  <2>2. CommandInv'
    BY <1>10, <2>1 DEF AuditLayer, AuditingLayers, CommandInv, AuditExit, Running, batchVars, parentVars
  <2>. QED
    BY <1>2, <1>3, <1>10, <2>2 DEF AuditLayer
<1>11. CASE BatchExit
  <2>1. audited = Cardinality(Sources(files, asked)) /\ asked # None /\ asked.command = "batch"
        /\ exitCode' = Max(codes) /\ Sources(files, asked) # {}
    BY <1>11 DEF BatchExit, Batching, CommandInv, BatchExited
  <2>2. codes # {} /\ codes \subseteq 0..3
    <3>1. audited # 0
      <4>1. IsFiniteSet(Sources(files, asked))
        BY SourcesFinite DEF FilesInv
      <4>. QED
        BY <2>1, <4>1, FS_EmptySet
    <3>. QED
      BY <3>1 DEF CommandInv
  <2>3. exitCode' # Running
    <3>2. Max(codes) \in codes
      BY <2>2, MaxOfCodes
    <3>. QED
      BY <2>1, <2>2, <3>2 DEF Running
  <2>4. exitCode' = 0 => codes = {0}
    BY <2>1, <2>2, MaxZero
  <2>5. UNCHANGED <<batchVars, files, asked, layers, layerTotal, audited, codes>>
    BY <1>11 DEF BatchExit
  <2>6. BatchExited'
    BY <2>1, <2>3, <2>4, <2>5 DEF BatchExited
  <2>7. phase' = phase
    BY <2>5 DEF batchVars, parentVars
  <2>8. CommandInv'
    BY <2>1, <2>5, <2>6, <2>7 DEF CommandInv
  <2>. QED
    BY <1>2, <1>3, <2>5, <2>8
<1>12. ASSUME NEW code \in 0..3, BatchItem(code) PROVE Inv'
  <2>1. CommandInv'
    BY <1>12 DEF BatchItem, Batching, CommandInv, BatchExited, Running, batchVars, parentVars
  <2>. QED
    BY <1>2, <1>3, <1>12, <2>1 DEF BatchItem
<1>13. CASE UNCHANGED vars
  <2>1. CommandInv'
    BY <1>13 DEF vars, commandVars, batchVars, parentVars, CommandInv, AuditExit, BatchExited, Verdicts
  <2>. QED
    BY <1>2, <1>3, <1>13, <2>1 DEF vars, commandVars
<1>. QED
  BY <1>1, <1>4, <1>5, <1>6, <1>7, <1>8, <1>9, <1>10, <1>11, <1>12, <1>13 DEF Next

-----------------------------------------------------------------------------
(* What follows *)

LEMMA InOrder == BatchInv => ResultInOrder
<1>. SUFFICES ASSUME BatchInv, phase = "returned" PROVE ResultInOrder
  BY DEF ResultInOrder
<1>. USE DEF BatchInv, BatchTypeOK
<1>1. Recorded = Tasks /\ result = [i \in 1..total |-> <<i - 1, outcomes[i - 1]>>] /\ total \in Nat
  BY DEF BooksInv
<1>2. reported = total
  BY <1>1, TasksCounted DEF BooksInv, Tasks
<1>3. ASSUME NEW i \in 1..total
      PROVE  /\ result[i][1] = i - 1
             /\ future[i - 1] \in Values => result[i][2] = future[i - 1]
             /\ future[i - 1] \notin Values => broken /\ result[i][2] = "failed"
  <2>1. i - 1 \in Tasks
    BY <1>1 DEF Tasks
  <2>2. outcomes[i - 1] # "none"
    BY <1>1, <2>1 DEF Recorded
  <2>3. future[i - 1] \in Resolved /\ outcomes[i - 1] = FromFuture(i - 1)
    BY <2>1, <2>2 DEF BooksInv
  <2>4. future[i - 1] = "broken" => broken
    BY <2>1 DEF BooksInv
  <2>. QED
    BY <1>1, <2>3, <2>4 DEF FromFuture, Resolved, Values
<1>4. Len(result) = total /\ DOMAIN result = 1..total
  BY <1>1
<1>. QED
  BY <1>2, <1>3, <1>4 DEF ResultInOrder

\* When run() is over, what is still queued has no process to begin it.
LEMMA QueueIsDead ==
  ASSUME BatchInv, phase \in {"returned", "raised"}, NEW t \in Tasks, future[t] = "queued"
  PROVE  processes = 0
<1>1. t \in InState(Unfinished)
  BY DEF InState, Unfinished
<1>2. phase # "returned"
  BY DEF BatchInv, BooksInv, Recorded, Resolved, Values
<1>. QED
  BY <1>1, <1>2 DEF BatchInv, PoolInv

LEMMA OverIsOver ==
  ASSUME BatchInv, [Next]_vars, phase \in {"returned", "raised"}, NEW t \in Tasks,
         future[t] = "queued"
  PROVE  future'[t] # "running"
<1>1. processes = 0
  BY QueueIsDead
<1>2. ASSUME BatchNext PROVE future'[t] # "running"
  <2>1. ASSUME NEW i \in Tasks, Start(i) \/ \E value \in Values : Finish(i, value)
        PROVE  future'[t] # "running"
    <3>1. ~Start(i)
      BY <1>1 DEF Start, BatchInv, BatchTypeOK
    <3>2. PICK value \in Values : future' = [future EXCEPT ![i] = value]
      BY <2>1, <3>1 DEF Finish
    <3>. QED
      BY <3>2 DEF BatchInv, BatchTypeOK, Values
  <2>2. ASSUME NEW i \in Tasks, Collect(i) \/ ObserverRaises(i) PROVE FALSE
    BY <2>2 DEF Collect, ObserverRaises, Yielded
  <2>3. ~WorkerDies
    BY <1>1 DEF WorkerDies
  <2>4. ASSUME NEW value \in Values, SerialTask(value) PROVE FALSE
    BY <2>4 DEF SerialTask
  <2>. QED
    BY <1>2, <2>1, <2>2, <2>3, <2>4
       DEF BatchNext, SerialReturns, SerialRaises, Submit, SubmitRaises, AllSubmitted,
           AllCollected, Interrupt, LeavePool
<1>3. ASSUME NEW request \in Requests, Begin(request) PROVE FALSE
  BY <1>3 DEF Begin, Plan
<1>. QED
  BY <1>2, <1>3 DEF Next, Command, vars, batchVars, poolVars, CheckDataset, RefuseInputs,
                    BeginBatch, LayerCrashes, Exit, AuditLayer, BatchExit, BatchItem

\* Verdicts are what the futures and the layers say, once run() has returned.
LEMMA VerdictsOfAll ==
  ASSUME BatchInv, phase = "returned", layers \in Seq(Values)
  PROVE  Verdicts \subseteq {"clean"} <=>
             /\ \A t \in Tasks : future[t] = "clean"
             /\ \A i \in DOMAIN layers : layers[i] = "clean"
<1>1. DOMAIN result = 1..total /\ total \in Nat
  BY DEF BatchInv, BatchTypeOK, BooksInv
<1>2. ASSUME NEW t \in Tasks PROVE result[t + 1][2] = "clean" <=> future[t] = "clean"
  <2>1. t + 1 \in DOMAIN result /\ t = (t + 1) - 1
    BY <1>1 DEF Tasks
  <2>2. /\ future[(t + 1) - 1] \in Values => result[t + 1][2] = future[(t + 1) - 1]
        /\ future[(t + 1) - 1] \notin Values => result[t + 1][2] = "failed"
    BY <2>1, InOrder DEF ResultInOrder
  <2>. QED
    BY <2>1, <2>2 DEF Values
<1>3. (\A i \in DOMAIN result : result[i][2] = "clean") <=> \A t \in Tasks : future[t] = "clean"
  <2>1. ASSUME \A i \in DOMAIN result : result[i][2] = "clean", NEW t \in Tasks PROVE future[t] = "clean"
    <3>1. t + 1 \in DOMAIN result
      BY <1>1 DEF Tasks
    <3>. QED
      BY <1>2, <2>1, <3>1
  <2>2. ASSUME \A t \in Tasks : future[t] = "clean", NEW i \in DOMAIN result PROVE result[i][2] = "clean"
    <3>1. i - 1 \in Tasks /\ (i - 1) + 1 = i
      BY <1>1 DEF Tasks
    <3>2. result[(i - 1) + 1][2] = "clean" <=> future[i - 1] = "clean"
      BY <1>2, <3>1
    <3>. QED
      BY <2>2, <3>1, <3>2
  <2>. QED
    BY <2>1, <2>2
<1>. QED
  BY <1>3 DEF Verdicts, Range

LEMMA PartOfPath ==
  ASSUME NEW p, IsPath(p), NEW q, IsPath(q)
  PROVE  Range(SubSeq(p, Len(q) + 1, Len(p))) \subseteq Range(p)
<1>. DEFINE m == Len(q) + 1
            s == SubSeq(p, m, Len(p))
<1>1. p \in Seq(Range(p)) /\ Len(p) \in Nat /\ m \in Nat /\ m >= 1
  BY DEF IsPath
<1>2. s = [i \in 1..(Len(p) - m + 1) |-> p[m + i - 1]]
  BY <1>1
<1>. HIDE DEF m
<1>3. \A i \in DOMAIN s : s[i] \in Range(p)
  <2>. SUFFICES ASSUME NEW i \in DOMAIN s PROVE s[i] \in Range(p)
    OBVIOUS
  <2>1. s[i] = p[m + i - 1] /\ i \in 1..(Len(p) - m + 1)
    BY <1>2
  <2>2. m + i - 1 \in 1..Len(p)
    BY <1>1, <2>1
  <2>. QED
    BY <1>1, <2>1, <2>2
<1>. HIDE DEF s
<1>4. Range(s) \subseteq Range(p)
  BY <1>3 DEF Range
<1>. QED
  BY <1>4 DEF s, m

\* What the user asked for is found, whatever check wrote there, and what is left
\* out has its reason.
LEMMA NothingHidden ==
  ASSUME FilesInv, OutputsApart, NEW request \in Requests, request.command = "audit"
  PROVE  \A sources \in {Sources(files, request)} :
            /\ \A f \in sources : f.written => PathOf(f) \in request.named
            /\ At(Datasets, request.named) \subseteq sources
            /\ \A d \in request.folders : \A f \in Candidates(Datasets, request, d) \ sources :
                   \/ f \in Skipped(files, request) /\ (f.link \/ f.suffix \notin AuditSuffixes)
                   \/ \E g \in sources : g.suffix = "shp" /\ <<f.dir, f.stem>> = <<g.dir, g.stem>>
                   \/ NamedLikeIssues(f)
<1>. DEFINE kept == Kept(files, request)
<1>1. Sources(files, request) = kept /\ Supported(request) = AuditSuffixes
  BY DEF Sources, Supported
<1>2. ASSUME NEW f, NEW d \in request.folders, f \in Candidates(files, request, d)
      PROVE  IsPrefix(d, f.dir)
  BY <1>2 DEF Candidates, IsPrefix
<1>3. ASSUME NEW f \in Datasets, ~NamedLikeIssues(f), NEW d \in request.folders
      PROVE  ~IsCheckOutput(f, d)
  <2>1. IsPath(f.dir) /\ IsPath(d)
    BY RequestsAssumption, DatasetsAssumption DEF IsFile
  <2>2. Range(SubSeq(f.dir, Len(d) + 1, Len(f.dir))) \subseteq Range(f.dir)
    BY <2>1, PartOfPath
  <2>. QED
    BY <1>3, <2>2 DEF OutputsApart, IsCheckOutput
<1>4. ASSUME NEW f \in kept, f.written PROVE PathOf(f) \in request.named
  <2>1. SUFFICES ASSUME PathOf(f) \notin request.named PROVE FALSE
    OBVIOUS
  <2>2. f \in Discovered(files, request) /\ \A d \in request.folders : IsPrefix(d, f.dir) => ~IsCheckOutput(f, d)
    BY <2>1 DEF Kept
  <2>3. PICK d \in request.folders : f \in Candidates(files, request, d) /\ f.suffix \in AuditSuffixes
    BY <1>1, <2>1, <2>2 DEF Discovered, At
  <2>4. Output(f)
    BY <1>4, <2>3 DEF FilesInv, Candidates
  <2>. QED
    BY <1>2, <2>2, <2>3, <2>4 DEF Output, AuditSuffixes, IsCheckOutput
<1>5. ASSUME NEW f \in At(Datasets, request.named) PROVE f \in kept
  BY DEF FilesInv, At, Kept, Discovered
<1>6. ASSUME NEW d \in request.folders, NEW f \in Candidates(Datasets, request, d) \ kept,
             ~NamedLikeIssues(f)
      PROVE  \/ f \in Skipped(files, request) /\ (f.link \/ f.suffix \notin AuditSuffixes)
             \/ \E g \in kept : g.suffix = "shp" /\ <<f.dir, f.stem>> = <<g.dir, g.stem>>
  <2>1. f \in Datasets /\ f \in files
    BY DEF Candidates, FilesInv
  <2>2. \A e \in request.folders : ~IsCheckOutput(f, e)
    BY <1>3, <1>6, <2>1
  <2>3. f \in Candidates(files, request, d)
    BY <2>1 DEF Candidates
  <2>4. f.link \/ f.suffix \notin AuditSuffixes
    BY <1>1, <2>2, <2>3 DEF Kept, Discovered
  <2>5. CASE <<f.dir, f.stem>> \in {<<g.dir, g.stem>> : g \in {s \in kept : s.suffix = "shp"}}
    BY <2>5
  <2>6. CASE <<f.dir, f.stem>> \notin {<<g.dir, g.stem>> : g \in {s \in kept : s.suffix = "shp"}}
    BY <1>1, <2>2, <2>3, <2>4, <2>6 DEF Skipped
  <2>. QED
    BY <2>5, <2>6
<1>. HIDE DEF kept
<1>. QED
  BY <1>1, <1>4, <1>5, <1>6

LEMMA HonestExit == OutputsApart /\ Inv => ExitCodeHonest
<1>. SUFFICES ASSUME OutputsApart, Inv, exitCode # Running PROVE ExitCodeHonest
  BY DEF ExitCodeHonest, Running
<1>1. asked \in Requests /\ asked # None
  BY DEF Inv, CommandInv
<1>2. asked.command = "batch" => BatchExited
  BY <1>1 DEF Inv, CommandInv
<1>3. ASSUME asked.command = "audit", ~InputsRefused(files, asked)
      PROVE  /\ exitCode = 0 => /\ phase = "returned"
                                /\ \A t \in Tasks : future[t] = "clean"
                                /\ Len(layers) = layerTotal
                                /\ \A i \in DOMAIN layers : layers[i] = "clean"
             /\ exitCode = 1 => \/ phase = "raised"
                                \/ \E t \in Tasks : future[t] # "clean"
                                \/ \E i \in DOMAIN layers : layers[i] # "clean"
                                \/ Len(layers) < layerTotal
  <2>1. AuditExit /\ layers \in Seq(Values) /\ BatchInv
    BY <1>1, <1>3 DEF Inv, CommandInv
  <2>2. phase = "returned" =>
            (Verdicts \subseteq {"clean"} <=>
                 /\ \A t \in Tasks : future[t] = "clean"
                 /\ \A i \in DOMAIN layers : layers[i] = "clean")
    BY <2>1, VerdictsOfAll
  <2>. QED
    BY <2>1, <2>2 DEF AuditExit
<1>4. ASSUME asked.command = "audit"
      PROVE  \A sources \in {Sources(files, asked)} :
               /\ \A f \in sources : f.written => PathOf(f) \in asked.named
               /\ At(Datasets, asked.named) \subseteq sources
               /\ \A d \in asked.folders :
                      \A f \in Candidates(Datasets, asked, d) \ sources : LeftOutRightly(f, sources)
  BY <1>1, <1>4, NothingHidden DEF Inv, LeftOutRightly
<1>. QED
  BY <1>2, <1>3, <1>4 DEF ExitCodeHonest, BatchExited

\* The invariant of the command and of the batch it runs.
LEMMA Always == Spec => []Inv
<1>1. Init => Inv
  BY InvInit
<1>2. Inv /\ [Next]_vars => Inv'
  BY InvNext
<1>. QED
  BY <1>1, <1>2, PTL DEF Spec

\* The batch a caller gets back is in source order and says of each dataset what
\* its audit said, however the workers interleave, die or are interrupted
\* (ParallelBatchExecutor.run, _ordered and _from_future).
THEOREM ResultsInOrder == Spec => []ResultInOrder
<1>1. Inv => ResultInOrder
  BY InOrder DEF Inv
<1>. QED
  BY <1>1, Always, PTL

\* Once run() has returned or raised, no worker begins a dataset that was still
\* queued, whether Ctrl-C, a raising observer, a broken pool or the end of the batch
\* made the parent leave (the with-block and the KeyboardInterrupt handler of
\* ParallelBatchExecutor._run_pool).
THEOREM NothingBeginsLater == Spec => NothingBegunLater
<1>1. ASSUME Inv, [Next]_vars
      PROVE  [\A t \in Tasks :
                phase \in {"returned", "raised"} => ~(future[t] = "queued" /\ future'[t] = "running")]_vars
  BY <1>1, OverIsOver DEF Inv
<1>. QED
  BY <1>1, Always, PTL DEF Spec, NothingBegunLater

\* The exit code of geoqc audit and geoqc batch is honest about every dataset that
\* was chosen, and what was left out was named as skipped, belongs to an audited
\* Shapefile or has the name of issue layers, as long as no dataset of the user's
\* stands in a folder called geoqc_output, where check replaces and audit drops
\* what it finds (_drop_check_outputs and _skipped_files, the exit code of audit in
\* cli/main.py and of batch in cli/delivery.py).
THEOREM ExitCodesHonest ==
  ASSUME OutputsApart
  PROVE  Spec => []ExitCodeHonest
<1>1. Inv => ExitCodeHonest
  BY HonestExit
<1>. QED
  BY <1>1, Always, PTL
=============================================================================
