----------------------------- MODULE CheckProofs ----------------------------
(***************************************************************************)
(* What geoqc check tells its caller, for every command, dataset and       *)
(* profile: the files it leaves agree with its exit code (OutputsHonest),  *)
(* exit 0 means layers without a defect that counts (PassedMeansSound),    *)
(* and each unconnected end is reported once (EndpointsReportedOnce).      *)
(*                                                                         *)
(* Inv is about the files and exit codes, AuditInv about what was audited. *)
(* Between them and the findings stand lemmas that follow a finding        *)
(* through the stages of the audit: the checks (RawParts, RawSourced), the *)
(* merging of reports (MergeParts, MergedReports), the ids (AttachParts),  *)
(* the grading and the last finding of each key (ReportedParts).           *)
(***************************************************************************)
EXTENDS CheckCommand, SequenceTheorems, FiniteSetTheorems, WellFoundedInduction, TLAPS

Steps == {"setup", "audit", "issues", "replace issues", "report", "replace report", "verdict",
          "done", "traceback", "killed"}

Kept(n, kind) == files[<<n, kind>>] = before[<<n, kind>>]

Written(n, kind) ==
    Requested(kind) =>
        files[<<n, kind>>] = "new" \/ (kind = "report" /\ n \in hinted /\ Kept(n, kind))

Complete(n) == Written(n, "issues") /\ Written(n, "report")

Allowed(slot) == Requested(slot[2]) /\ (before[slot] = "absent" \/ MayReplace(slot[2]))

TypeInv ==
    /\ command \in Scenarios
    /\ step \in Steps
    /\ current \in DOMAIN Targets
    /\ worst \in 0..2
    /\ files \in [Slots -> {"absent", "old", "new"}]
    /\ before \in [Slots -> {"absent", "old"}]

\* Layers that are done, layers to come, and what replaced what.
LayersInv ==
    /\ worst # 2 => \A n \in DOMAIN Targets : n < current => Complete(n)
    /\ \A n \in DOMAIN Targets : n > current => Kept(n, "issues") /\ Kept(n, "report")
    /\ \A n \in DOMAIN Targets :
           files[<<n, "report">>] = "new" /\ Requested("issues") => files[<<n, "issues">>] = "new"
    /\ \A slot \in Slots : files[slot] # before[slot] => Allowed(slot)
    /\ step = "done" /\ exit \in {0, 1} => \A n \in DOMAIN Targets : Complete(n)

\* The layer that is being worked on.
CurrentInv ==
    /\ step \in {"setup", "audit", "issues", "replace issues"} => Kept(current, "issues") /\ Kept(current, "report")
    /\ step \in {"report", "replace report"} => Written(current, "issues") /\ Kept(current, "report")
    /\ step = "verdict" => Complete(current)
    /\ \A kind \in Kinds : Replacing(kind) => Allowed(<<current, kind>>) /\ temporary = {<<current, kind>>}
    /\ step \notin {"replace issues", "replace report", "killed"} => temporary = {}

Inv == TypeInv /\ LayersInv /\ CurrentInv

(***************************************************************************)
(* Lemmas                                                                  *)
(***************************************************************************)
LEMMA TargetsFinite ==
    ASSUME command \in Scenarios
    PROVE  \E k \in Nat \ {0} : Len(Targets) = k /\ DOMAIN Targets = 1..k
<1>1. CASE command.layer = None
  <2>1. PICK k \in Nat : Len(Source) = k /\ DOMAIN Source = 1..k
    BY ScenarioAssumption DEF Source, IsSequence
  <2>2. k # 0
    BY <2>1, ScenarioAssumption, EmptySeq DEF Source
  <2>3. Targets = [n \in 1..k |-> n]
    BY <1>1, <2>1 DEF Targets
  <2> QED BY <2>1, <2>2, <2>3
<1>2. CASE command.layer # None
  BY <1>2 DEF Targets
<1> QED BY <1>1, <1>2

LEMMA Worse == ASSUME NEW w \in 0..2 PROVE Max({w, 1}) \in 1..2 /\ (Max({w, 1}) # 2 <=> w # 2)
<1>1. w = 0 => Max({w, 1}) = 1
  BY DEF Max
<1>2. w = 1 => Max({w, 1}) = 1
  BY DEF Max
<1>3. w = 2 => Max({w, 1}) = 2
  BY DEF Max
<1> QED BY <1>1, <1>2, <1>3

Unwritten == <<command, files, before, hinted>>

\* An exit with code 2 or with a traceback says nothing about the files.
LEMMA StopKeeps ==
    ASSUME Inv, UNCHANGED Unwritten, UNCHANGED <<current, worst>>, temporary' = {},
           (step' = "done" /\ exit' = 2) \/ step' = "traceback"
    PROVE  Inv'
<1> USE DEF Unwritten
<1>1. TypeInv'
  BY DEF Inv, TypeInv, Steps, Slots, Targets, Source
<1>2. LayersInv'
  BY DEF Inv, LayersInv, Complete, Written, Kept, Allowed, Requested, MayReplace, Slots, Targets, Source
<1>3. CurrentInv'
  BY DEF CurrentInv, Replacing, Kinds
<1> QED BY <1>1, <1>2, <1>3 DEF Inv

\* The next layer, or the end: the layer that is left is complete, or the exit
\* code is 2.
LEMMA ProceedKeeps ==
    ASSUME Inv, UNCHANGED Unwritten, temporary' = {},
           NEW code \in 0..2, code # 2 => worst # 2 /\ Complete(current), Proceed(code)
    PROVE  Inv'
<1> USE DEF Unwritten
<1>0. PICK k \in Nat \ {0} : Len(Targets) = k /\ DOMAIN Targets = 1..k
  BY TargetsFinite DEF Inv, TypeInv
<1>1. worst' = code /\ current \in 1..k
  BY <1>0 DEF Proceed, Inv, TypeInv
<1>2. Targets' = Targets /\ Slots' = Slots
  BY DEF Targets, Source, Slots
<1>3. \A n \in DOMAIN Targets : Complete(n)' = Complete(n)
  BY DEF Complete, Written, Kept, Requested
<1>4. code # 2 => \A n \in DOMAIN Targets : n <= current => Complete(n)
  BY <1>0, <1>1 DEF Inv, LayersInv
<1>5. \/ current < k /\ current' = current + 1 /\ step' = "audit"
      \/ current = k /\ current' = current /\ step' = "done" /\ exit' = code
  BY <1>0, <1>1 DEF Proceed, Exit
<1>6. TypeInv'
  <2>1. current' \in DOMAIN Targets'
    BY <1>0, <1>1, <1>2, <1>5
  <2>2. step' \in Steps
    BY <1>5 DEF Steps
  <2> QED BY <1>1, <1>2, <2>1, <2>2 DEF Inv, TypeInv
<1>7. LayersInv'
  <2>1. (worst # 2 => \A n \in DOMAIN Targets : n < current => Complete(n))'
    BY <1>0, <1>1, <1>2, <1>3, <1>4, <1>5
  <2>2. (\A n \in DOMAIN Targets : n > current => Kept(n, "issues") /\ Kept(n, "report"))'
    BY <1>0, <1>1, <1>2, <1>5 DEF Inv, LayersInv, Kept
  <2>3. (step = "done" /\ exit \in {0, 1} => \A n \in DOMAIN Targets : Complete(n))'
    BY <1>0, <1>1, <1>2, <1>3, <1>4, <1>5
  <2>4. (\A n \in DOMAIN Targets :
           files[<<n, "report">>] = "new" /\ Requested("issues") => files[<<n, "issues">>] = "new")'
    BY <1>2 DEF Inv, LayersInv, Requested
  <2>5. (\A slot \in Slots : files[slot] # before[slot] => Allowed(slot))'
    BY <1>2 DEF Inv, LayersInv, Allowed, Requested, MayReplace
  <2> QED BY <2>1, <2>2, <2>3, <2>4, <2>5 DEF LayersInv
<1>8. CurrentInv'
  <2>1. step' = "audit" => (Kept(current, "issues") /\ Kept(current, "report"))'
    BY <1>0, <1>1, <1>5 DEF Inv, LayersInv, Kept
  <2> QED BY <2>1, <1>5 DEF CurrentInv, Replacing, Kinds
<1> QED BY <1>6, <1>7, <1>8 DEF Inv

LEMMA FailureKeeps ==
    ASSUME Inv, UNCHANGED Unwritten, temporary' = {}, Fails \/ Escapes
    PROVE  Inv'
<1>1. CASE Escapes
  BY <1>1, StopKeeps DEF Escapes
<1>2. CASE Fails /\ Multi
  BY <1>2, ProceedKeeps DEF Fails
<1>3. CASE Fails /\ ~Multi
  BY <1>3, StopKeeps DEF Fails, Exit
<1> QED BY <1>1, <1>2, <1>3

\* A step that stays with the layer and leaves the published files alone.
LEMMA StayKeeps ==
    ASSUME Inv, UNCHANGED <<command, files, before, current, worst>>,
           hinted' = hinted \/ hinted' = hinted \cup {current},
           step' \in Steps \ {"done"}, CurrentInv'
    PROVE  Inv'
<1>1. TypeInv'
  BY DEF Inv, TypeInv, Slots, Targets, Source
<1>2. \A n \in DOMAIN Targets : Complete(n) => Complete(n)'
  BY DEF Complete, Written, Kept, Requested
<1>3. LayersInv'
  BY <1>2 DEF Inv, LayersInv, Kept, Allowed, Requested, MayReplace, Slots, Targets, Source
<1> QED BY <1>1, <1>3 DEF Inv

(***************************************************************************)
(* The steps                                                               *)
(***************************************************************************)
LEMMA InitHolds == Init => Inv
<1> SUFFICES ASSUME Init PROVE Inv
  OBVIOUS
<1> USE DEF Init
<1>0. PICK k \in Nat \ {0} : Len(Targets) = k /\ DOMAIN Targets = 1..k
  BY TargetsFinite
<1>1. TypeInv
  BY <1>0 DEF TypeInv, Steps
<1>2. LayersInv
  BY <1>0 DEF LayersInv, Kept, Slots, Kinds
<1>3. CurrentInv
  BY <1>0 DEF CurrentInv, Kept, Replacing, Kinds
<1> QED BY <1>1, <1>2, <1>3 DEF Inv

LEMMA AuditingKeeps == ASSUME Inv, Setup \/ Unreadable \/ Audit \/ AuditFails PROVE Inv'
<1>1. CASE Setup
  <2>1. UNCHANGED Unwritten /\ UNCHANGED <<current, worst>> /\ temporary' = {}
    BY <1>1 DEF Setup, Unwritten, Inv, CurrentInv
  <2>2. CASE Exit(2)
    BY <2>1, <2>2, StopKeeps DEF Exit
  <2>3. CASE step' = "audit"
    <3>1. CurrentInv'
      BY <1>1, <2>1, <2>3 DEF Setup, Inv, CurrentInv, Kept, Replacing, Unwritten, Kinds
    <3> QED BY <2>1, <2>3, <3>1, StayKeeps DEF Unwritten, Steps
  <2> QED BY <1>1, <2>2, <2>3 DEF Setup
<1>2. CASE Unreadable
  BY <1>2, StopKeeps DEF Unreadable, Exit, Unwritten, Inv, CurrentInv
<1>3. CASE Audit
  <2>1. UNCHANGED Unwritten /\ temporary' = {}
    BY <1>3 DEF Audit, Unwritten, Inv, CurrentInv
  <2>2. \/ Escapes \/ Fails
        \/ step' = "issues" /\ UNCHANGED <<current, worst>>
    BY <1>3 DEF Audit
  <2>3. CASE Escapes \/ Fails
    BY <2>1, <2>3, FailureKeeps
  <2>4. CASE step' = "issues" /\ UNCHANGED <<current, worst>>
    <3>1. CurrentInv'
      BY <1>3, <2>1, <2>4 DEF Audit, Inv, CurrentInv, Kept, Replacing, Unwritten, Kinds
    <3> QED BY <2>1, <2>4, <3>1, StayKeeps DEF Unwritten, Steps
  <2> QED BY <2>2, <2>3, <2>4
<1>4. CASE AuditFails
  BY <1>4, FailureKeeps DEF AuditFails, Unwritten, Inv, CurrentInv
<1> QED BY <1>1, <1>2, <1>3, <1>4

LEMMA VerdictKeeps == ASSUME Inv, Verdict PROVE Inv'
<1> DEFINE code == IF Passes(result, Policy) THEN worst ELSE Max({worst, 1})
<1>1. Proceed(code) /\ UNCHANGED Unwritten /\ temporary' = {} /\ Complete(current)
  BY DEF Verdict, Unwritten, Inv, CurrentInv
<1>2. code \in 0..2 /\ (code # 2 => worst # 2)
  BY Worse DEF Inv, TypeInv
<1> HIDE DEF code
<1> QED BY <1>1, <1>2, ProceedKeeps

LEMMA HintKeeps == ASSUME Inv, Hint PROVE Inv'
<1>1. Written(current, "issues") /\ Kept(current, "report") /\ temporary = {<<current, "report">>}
  BY DEF Hint, Inv, CurrentInv, Replacing, Kinds
<1>2. CurrentInv'
  BY <1>1 DEF Hint, CurrentInv, Complete, Written, Kept, Requested, Replacing, Kinds
<1> QED BY <1>2, StayKeeps DEF Hint, Steps

LEMMA KilledKeeps == ASSUME Inv, Killed PROVE Inv'
<1>1. CurrentInv'
  BY DEF Killed, CurrentInv, Replacing, Kinds
<1> QED BY <1>1, StayKeeps DEF Killed, Steps

LEMMA SkipKeeps == ASSUME Inv, NEW kind \in Kinds, Skip(kind) PROVE Inv'
<1>1. CurrentInv'
  BY DEF Skip, After, Inv, CurrentInv, Complete, Written, Kept, Requested, Replacing, Kinds
<1> QED BY <1>1, StayKeeps DEF Skip, After, Steps, Kinds

LEMMA OpenKeeps == ASSUME Inv, NEW kind \in Kinds, Open(kind) PROVE Inv'
<1>1. temporary = {} /\ UNCHANGED Unwritten
  BY DEF Open, Inv, CurrentInv, Unwritten, Kinds
<1>2. CASE files[<<current, kind>>] # "absent" /\ ~MayReplace(kind)
  BY <1>1, <1>2, FailureKeeps DEF Open
<1>3. CASE files[<<current, kind>>] = "absent" \/ MayReplace(kind)
  <2>1. /\ UNCHANGED <<current, worst>> /\ temporary' = {<<current, kind>>}
        /\ step = kind /\ step' = IF kind = "issues" THEN "replace issues" ELSE "replace report"
    BY <1>1, <1>3 DEF Open
  <2>2. Kept(current, kind) /\ Allowed(<<current, kind>>)
    BY <1>3, <2>1 DEF Open, Inv, CurrentInv, Kept, Allowed, Kinds
  <2>3. CurrentInv'
    BY <1>1, <2>1, <2>2 DEF Inv, CurrentInv, Unwritten, Written, Kept, Allowed, Requested, MayReplace, Replacing, Kinds
  <2> QED BY <1>1, <2>1, <2>3, StayKeeps DEF Unwritten, Steps, Kinds
<1> QED BY <1>2, <1>3

LEMMA WriteFailsKeeps == ASSUME Inv, NEW kind \in Kinds, WriteFails(kind) PROVE Inv'
<1>1. temporary' = {} /\ UNCHANGED Unwritten /\ Fails
  BY DEF WriteFails, Inv, CurrentInv, Unwritten
<1> QED BY <1>1, FailureKeeps

LEMMA PublishKeeps == ASSUME Inv, NEW kind \in Kinds, Publish(kind) PROVE Inv'
<1> DEFINE slot == <<current, kind>>
<1>0. UNCHANGED <<command, before, hinted, current, worst>> /\ step' = After(kind)
  BY DEF Publish
<1>1. Allowed(slot) /\ temporary' = {}
  BY DEF Publish, Inv, CurrentInv
<1>2. slot \in Slots /\ \A n \in DOMAIN Targets, k \in Kinds : <<n, k>> \in Slots
  BY DEF Inv, TypeInv, Slots
<1>3. /\ files'[slot] = "new"
      /\ \A s \in Slots : s # slot => files'[s] = files[s]
      /\ files' \in [Slots -> {"absent", "old", "new"}]
  BY <1>2 DEF Publish, Inv, TypeInv
<1>4. Targets' = Targets /\ Slots' = Slots
  BY <1>0 DEF Targets, Source, Slots
<1>5. \A n \in DOMAIN Targets, k \in Kinds : Written(n, k) => Written(n, k)'
  BY <1>0, <1>2, <1>3 DEF Written, Kept, Requested
<1>6. TypeInv'
  BY <1>0, <1>3, <1>4 DEF Inv, TypeInv, Steps, After
<1>7. LayersInv'
  <2>1. (worst # 2 => \A n \in DOMAIN Targets : n < current => Complete(n))'
    BY <1>0, <1>4, <1>5 DEF Inv, LayersInv, Complete, Kinds
  <2>2. (\A n \in DOMAIN Targets : n > current => Kept(n, "issues") /\ Kept(n, "report"))'
    <3> SUFFICES ASSUME NEW n \in DOMAIN Targets, n > current PROVE (Kept(n, "issues") /\ Kept(n, "report"))'
      BY <1>0, <1>4
    <3>1. n # current
      BY TargetsFinite DEF Inv, TypeInv
    <3> QED BY <1>0, <1>2, <1>3, <3>1 DEF Inv, LayersInv, Kept, Kinds
  <2>3. (\A n \in DOMAIN Targets :
           files[<<n, "report">>] = "new" /\ Requested("issues") => files[<<n, "issues">>] = "new")'
    <3> SUFFICES ASSUME NEW n \in DOMAIN Targets, files'[<<n, "report">>] = "new", Requested("issues")
                 PROVE  files'[<<n, "issues">>] = "new"
      BY <1>0, <1>4 DEF Requested
    <3>1. CASE files[<<n, "report">>] = "new"
      BY <1>2, <1>3, <3>1 DEF Inv, LayersInv, Kinds
    <3>2. CASE files[<<n, "report">>] # "new"
      <4>1. kind = "report" /\ n = current
        BY <1>2, <1>3, <3>2 DEF Kinds
      <4>2. Written(current, "issues")
        BY <4>1 DEF Publish, Replacing, Inv, CurrentInv
      <4> QED BY <1>2, <1>3, <4>1, <4>2 DEF Written, Kinds
    <3> QED BY <3>1, <3>2
  <2>4. (\A s \in Slots : files[s] # before[s] => Allowed(s))'
    BY <1>0, <1>1, <1>3, <1>4 DEF Inv, LayersInv, Allowed, Requested, MayReplace
  <2>5. (step = "done" /\ exit \in {0, 1} => \A n \in DOMAIN Targets : Complete(n))'
    BY <1>0 DEF After
  <2> QED BY <2>1, <2>2, <2>3, <2>4, <2>5 DEF LayersInv
<1>8. CurrentInv'
  <2>1. CASE kind = "issues"
    <3>1. Kept(current, "report")
      BY <2>1 DEF Publish, Replacing, Inv, CurrentInv
    <3>2. (Written(current, "issues") /\ Kept(current, "report"))'
      BY <1>0, <1>2, <1>3, <2>1, <3>1 DEF Written, Kept, Kinds, Inv, TypeInv
    <3> QED BY <1>0, <1>1, <2>1, <3>2 DEF CurrentInv, After, Replacing, Kinds
  <2>2. CASE kind = "report"
    <3>1. Written(current, "issues")
      BY <2>2 DEF Publish, Replacing, Inv, CurrentInv
    <3>2. Complete(current)'
      BY <1>0, <1>3, <1>5, <2>2, <3>1 DEF Complete, Written, Kinds, Inv, TypeInv
    <3> QED BY <1>0, <1>1, <2>2, <3>2 DEF CurrentInv, After, Replacing, Kinds
  <2> QED BY <2>1, <2>2 DEF Kinds
<1> QED BY <1>6, <1>7, <1>8 DEF Inv

LEMMA StepKeeps == Inv /\ [Next]_vars => Inv'
<1> SUFFICES ASSUME Inv, [Next]_vars PROVE Inv'
  OBVIOUS
<1>1. CASE UNCHANGED vars
  <2>1. TypeInv'
    BY <1>1 DEF vars, Inv, TypeInv, Slots, Targets, Source
  <2>2. LayersInv'
    BY <1>1 DEF vars, Inv, LayersInv, Complete, Written, Kept, Allowed, Requested, MayReplace, Slots, Targets, Source
  <2>3. CurrentInv'
    BY <1>1 DEF vars, Inv, CurrentInv, Complete, Written, Kept, Allowed, Requested, MayReplace, Replacing
  <2> QED BY <2>1, <2>2, <2>3 DEF Inv
<1>2. CASE Next
  BY <1>2, AuditingKeeps, VerdictKeeps, HintKeeps, KilledKeeps, SkipKeeps, OpenKeeps, PublishKeeps,
     WriteFailsKeeps DEF Next
<1> QED BY <1>1, <1>2

LEMMA InvImplies == Inv => OutputsHonest
<1> SUFFICES ASSUME Inv PROVE OutputsHonest
  OBVIOUS
<1>1. step = "done" /\ exit \in {0, 1} =>
          \A slot \in Slots : Requested(slot[2]) =>
              files[slot] = "new" \/ (slot[2] = "report" /\ slot[1] \in hinted /\ files[slot] = before[slot])
  <2> SUFFICES ASSUME step = "done", exit \in {0, 1},
                      NEW n \in DOMAIN Targets, NEW kind \in Kinds, Requested(kind)
               PROVE  files[<<n, kind>>] = "new"
                          \/ (kind = "report" /\ n \in hinted /\ files[<<n, kind>>] = before[<<n, kind>>])
    BY DEF Slots
  <2> QED BY DEF Inv, LayersInv, Complete, Written, Kept, Kinds
<1>2. \A slot \in Slots : files[slot] # before[slot] =>
          Requested(slot[2]) /\ (before[slot] = "absent" \/ MayReplace(slot[2]))
  BY DEF Inv, LayersInv, Allowed
<1> QED BY <1>1, <1>2 DEF OutputsHonest, Inv, LayersInv, CurrentInv

\* The files geoqc check leaves tell what its exit code says, for every command
\* on every dataset: a verdict means that all requested outputs are new, no new
\* report stands beside old issue layers, and what may not be replaced is kept.
THEOREM CheckOutputsHonest == Spec => []OutputsHonest
<1>1. Init => Inv
  BY InitHolds
<1>2. Inv /\ [Next]_vars => Inv'
  BY StepKeeps
<1>3. Inv => OutputsHonest
  BY InvImplies
<1> QED BY <1>1, <1>2, <1>3, PTL DEF Spec

(***************************************************************************)
(* Batches                                                                 *)
(***************************************************************************)
\* The findings of all batches.
All(batches) == UNION Range(batches)

\* A function on 1..n is a sequence.
LEMMA Spelled ==
    ASSUME NEW n \in Nat, NEW s, DOMAIN s = 1..n, s = [k \in 1..n |-> s[k]]
    PROVE  IsSequence(s) /\ Len(s) = n
<1>1. s \in [1..n -> Range(s)]
  BY DEF Range
<1>2. s \in Seq(Range(s))
  BY <1>1, SeqDef
<1> QED BY <1>1, <1>2 DEF IsSequence

\* What a concatenation holds is what its parts hold.
LEMMA Joined ==
    ASSUME NEW a, NEW b, IsSequence(a), IsSequence(b)
    PROVE  IsSequence(a \o b) /\ All(a \o b) = All(a) \cup All(b) /\ Range(a \o b) = Range(a) \cup Range(b)
<1> DEFINE S == Range(a) \cup Range(b)
           c == a \o b
<1>1. a \in Seq(S) /\ b \in Seq(S)
  <2>1. a \in [1..Len(a) -> Range(a)] /\ b \in [1..Len(b) -> Range(b)] /\ Len(a) \in Nat /\ Len(b) \in Nat
    BY DEF IsSequence
  <2>2. a \in [1..Len(a) -> S] /\ b \in [1..Len(b) -> S]
    BY <2>1
  <2> QED BY <2>1, <2>2, SeqDef
<1>2. /\ c \in Seq(S) /\ Len(c) = Len(a) + Len(b)
      /\ \A k \in 1..Len(a) + Len(b) : c[k] = IF k <= Len(a) THEN a[k] ELSE b[k - Len(a)]
  BY <1>1, ConcatProperties
<1>3. /\ DOMAIN a = 1..Len(a) /\ Len(a) \in Nat /\ DOMAIN b = 1..Len(b) /\ Len(b) \in Nat
  BY <1>1
<1> HIDE DEF c
<1>7. DOMAIN c = 1..Len(c) /\ c = [k \in 1..Len(c) |-> c[k]]
  BY <1>2
<1>4. Range(c) = Range(a) \cup Range(b)
  <2>1. ASSUME NEW k \in DOMAIN a PROVE a[k] \in Range(c)
    BY <1>2, <1>3, <1>7, <2>1 DEF Range
  <2>2. ASSUME NEW k \in DOMAIN b PROVE b[k] \in Range(c)
    <3>1. k + Len(a) \in DOMAIN c /\ c[k + Len(a)] = b[k]
      BY <1>2, <1>3, <1>7, <2>2
    <3> QED BY <3>1 DEF Range
  <2>3. ASSUME NEW k \in DOMAIN c PROVE c[k] \in Range(a) \cup Range(b)
    <3>1. k <= Len(a) => k \in DOMAIN a
      BY <1>2, <1>3, <1>7
    <3>2. ~(k <= Len(a)) => k - Len(a) \in DOMAIN b
      BY <1>2, <1>3, <1>7
    <3> QED BY <1>2, <1>3, <1>7, <3>1, <3>2 DEF Range
  <2> QED BY <2>1, <2>2, <2>3 DEF Range
<1>5. IsSequence(c)
  BY <1>2, <1>3, <1>7, Spelled
<1>6. All(c) = All(a) \cup All(b)
  BY <1>4 DEF All
<1> QED BY <1>4, <1>5, <1>6 DEF c

\* A finite set in some order.
LEMMA Ordered ==
    ASSUME NEW S, IsFiniteSet(S)
    PROVE  IsSequence(SetToSeq(S)) /\ \A k \in DOMAIN SetToSeq(S) : SetToSeq(S)[k] \in S
<1>1. Cardinality(S) \in Nat /\ ExistsBijection(1..Cardinality(S), S)
  BY FS_CardinalityType
<1>2. PICK f \in [1..Cardinality(S) -> S] : IsInjective(f)
  BY <1>1 DEF ExistsBijection, Bijection, Injection, IsInjective
<1>3. SetToSeq(S) \in [1..Cardinality(S) -> S]
  BY <1>2 DEF SetToSeq
<1> QED BY <1>1, <1>3, Spelled

\* A set of numbers has a least one.
LEMMA Least ==
    ASSUME NEW S, S \subseteq Nat, S # {}
    PROVE  \E d \in S : \A e \in S : d <= e
<1>1. PICK d \in S : \A e \in S : ~(<<e, d>> \in OpToRel(<, Nat))
  BY WFMin, NatLessThanWellFounded
<1>2. \A e \in S : ~(e < d)
  BY <1>1 DEF OpToRel
<1> QED BY <1>2

\* Of the findings with one key the last one is left.
LEMMA Latest ==
    ASSUME NEW batches, IsSequence(batches), NEW n \in DOMAIN batches, NEW i \in batches[n]
    PROVE  \E j \in LastByKey(batches) : Key(j) = Key(i)
<1> DEFINE ahead == {Len(batches) - m : m \in {k \in DOMAIN batches : \E j \in batches[k] : Key(j) = Key(i)}}
<1>1. Len(batches) \in Nat /\ DOMAIN batches = 1..Len(batches)
  BY DEF IsSequence
<1>2. ahead \subseteq Nat /\ ahead # {}
  BY <1>1
<1>3. PICK d \in ahead : \A e \in ahead : d <= e
  BY <1>2, Least
<1>4. PICK m \in DOMAIN batches : d = Len(batches) - m /\ \E j \in batches[m] : Key(j) = Key(i)
  OBVIOUS
<1>5. PICK j \in batches[m] : Key(j) = Key(i)
  BY <1>4
<1>6. ASSUME NEW k \in DOMAIN batches, k > m, NEW h \in batches[k] PROVE Key(h) # Key(j)
  <2>1. CASE Key(h) = Key(j)
    <3>1. Len(batches) - k \in ahead
      BY <1>5, <1>6, <2>1
    <3>2. Len(batches) - m <= Len(batches) - k
      BY <1>3, <1>4, <3>1
    <3> QED BY <1>1, <1>6, <3>2
  <2> QED BY <2>1
<1> QED BY <1>5, <1>6 DEF LastByKey

\* What the checks of the preset find.
PresetIssues(frame, p) ==
    LET tolerance == IF MetricUnsafe(frame, p) THEN 0 ELSE p.tolerance
        minimum == IF MetricUnsafe(frame, p) THEN 0 ELSE p.minimumArea
        preset == RunPreset(frame, p)
    IN IF preset \in {"parcel", "admin_boundary"}
       THEN OverlapIssues(frame, tolerance, "error") \cup GapIssues(frame, tolerance, "warning")
                \cup MinimumAreaIssues(frame, minimum, "warning")
       ELSE IF preset = "road" THEN RoadIssues(frame, tolerance)
       ELSE IF preset = "point_survey" /\ tolerance > 0 THEN DuplicateIssues(frame, tolerance, "warning")
       ELSE {}

LEMMA OneBatch == ASSUME NEW x PROVE IsSequence(<<x>>) /\ All(<<x>>) = x
  BY DEF IsSequence, All, Range

LEMMA NoBatch == IsSequence(<<>>) /\ All(<<>>) = {}
  BY DEF IsSequence, All, Range

LEMMA ThreeBatches == ASSUME NEW x, NEW y, NEW z PROVE IsSequence(<<x, y, z>>) /\ All(<<x, y, z>>) = x \cup y \cup z
<1>1. Range(<<x, y, z>>) = {x, y, z}
  BY DEF Range
<1>2. <<x, y, z>> \in Seq({x, y, z})
  OBVIOUS
<1> QED BY <1>1, <1>2 DEF IsSequence, All

LEMMA BaseParts ==
    ASSUME NEW frame, NEW p
    PROVE  /\ IsSequence(BaseIssues(frame, p))
           /\ All(BaseIssues(frame, p)) =
                  GeometryIssues(frame) \cup DuplicateIssues(frame, 0, "error") \cup PresetIssues(frame, p)
<1> DEFINE tolerance == IF MetricUnsafe(frame, p) THEN 0 ELSE p.tolerance
           minimum == IF MetricUnsafe(frame, p) THEN 0 ELSE p.minimumArea
           preset == RunPreset(frame, p)
           G == GeometryIssues(frame)
           D == DuplicateIssues(frame, 0, "error")
           O == OverlapIssues(frame, tolerance, "error")
           H == GapIssues(frame, tolerance, "warning")
           M == MinimumAreaIssues(frame, minimum, "warning")
           R == RoadIssues(frame, tolerance)
           S == DuplicateIssues(frame, tolerance, "warning")
           a == <<G, D>>
           b == IF preset \in {"parcel", "admin_boundary"} THEN <<O, H, M>>
                ELSE IF preset = "road" THEN <<R>>
                ELSE IF preset = "point_survey" /\ tolerance > 0 THEN <<S>> ELSE <<>>
<1>1. BaseIssues(frame, p) = a \o b
  BY DEF BaseIssues
<1>2. PresetIssues(frame, p) = IF preset \in {"parcel", "admin_boundary"} THEN O \cup H \cup M
                               ELSE IF preset = "road" THEN R
                               ELSE IF preset = "point_survey" /\ tolerance > 0 THEN S ELSE {}
  BY DEF PresetIssues
<1> HIDE DEF tolerance, minimum, preset, G, D, O, H, M, R, S
<1>3. IsSequence(a) /\ All(a) = G \cup D
  BY DEF IsSequence, All, Range
<1>4. /\ IsSequence(<<O, H, M>>) /\ All(<<O, H, M>>) = O \cup H \cup M
      /\ IsSequence(<<R>>) /\ All(<<R>>) = R
      /\ IsSequence(<<S>>) /\ All(<<S>>) = S
      /\ IsSequence(<<>>) /\ All(<<>>) = {}
  BY OneBatch, NoBatch, ThreeBatches
<1>5. /\ IsSequence(b)
      /\ All(b) = IF preset \in {"parcel", "admin_boundary"} THEN O \cup H \cup M
                  ELSE IF preset = "road" THEN R
                  ELSE IF preset = "point_survey" /\ tolerance > 0 THEN S ELSE {}
  BY <1>4
<1> HIDE DEF a, b
<1>6. IsSequence(a \o b) /\ All(a \o b) = All(a) \cup All(b)
  BY <1>3, <1>5, Joined
<1> QED BY <1>1, <1>2, <1>3, <1>5, <1>6 DEF G, D

(***************************************************************************)
(* The findings of the checks, as the union of their batches               *)
(***************************************************************************)
\* What the proofs need of a profile: its rules are in sequences.
Sequences(p) == IsSequence(p.topology) /\ IsSequence(p.attributes)

\* The rules that RuleBatches runs.
Runs(frame, r) == Local(frame, r) /\ ~MissingColumn(frame, r)

\* A batch of missing columns or of one rule.
RuleBatch(frame, p, B) ==
    \/ \A i \in B : \E c : i = AttributeIssue(Required(c), None, "nowhere")
    \/ \E r \in Range(p.topology) : B = TopologyIssues(frame, r)

LEMMA RuleParts ==
    ASSUME NEW frame, NEW p, Sequences(p), NEW earlier
    PROVE  /\ IsSequence(RuleBatches(frame, p, earlier))
           /\ MetricUnsafe(frame, p) => All(RuleBatches(frame, p, earlier)) = {}
           /\ \A i \in All(RuleBatches(frame, p, earlier)) :
                  \/ \E c : i = AttributeIssue(Required(c), None, "nowhere")
                  \/ \E r \in Range(p.topology) : Runs(frame, r) /\ i \in TopologyIssues(frame, r)
           /\ \A B \in Range(RuleBatches(frame, p, earlier)) : RuleBatch(frame, p, B)
           /\ ~MetricUnsafe(frame, p) =>
                  \A r \in Range(p.topology) : Runs(frame, r) =>
                      TopologyIssues(frame, r) \subseteq All(RuleBatches(frame, p, earlier))
<1> DEFINE reported == {i.column : i \in {j \in UNION Range(earlier) : j.type = "required"}}
           missing == {r.column : r \in {q \in LocalRules(frame, p) : MissingColumn(frame, q)}}
           columns == SetToSeq(missing \ reported)
           a == [k \in DOMAIN columns |-> {AttributeIssue(Required(columns[k]), None, "nowhere")}]
           b == [k \in DOMAIN p.topology |->
                    IF Runs(frame, p.topology[k]) THEN TopologyIssues(frame, p.topology[k]) ELSE {}]
<1>1. RuleBatches(frame, p, earlier) = IF MetricUnsafe(frame, p) THEN <<>> ELSE a \o b
  BY DEF RuleBatches, Runs
<1>2. Len(p.topology) \in Nat /\ DOMAIN p.topology = 1..Len(p.topology)
  BY DEF Sequences, IsSequence
<1>3. IsFiniteSet(missing \ reported)
  <2>1. IsFiniteSet(DOMAIN p.topology)
    BY <1>2, FS_Interval
  <2> DEFINE mine == {k \in DOMAIN p.topology : Local(frame, p.topology[k]) /\ MissingColumn(frame, p.topology[k])}
             found == {p.topology[k].column : k \in mine}
  <2>2. IsFiniteSet(mine)
    BY <2>1, FS_Subset
  <2>3. missing = found
    BY DEF LocalRules, Range
  <2> HIDE DEF mine
  <2>4. IsFiniteSet(found)
    <3> DEFINE f == [k \in mine |-> p.topology[k].column]
    <3>1. f \in Surjection(mine, found)
      BY DEF Surjection
    <3> HIDE DEF f, found
    <3> QED BY <2>2, <3>1, FS_Surjection
  <2> QED BY <2>3, <2>4, FS_Difference
<1>4. IsSequence(columns)
  BY <1>3, Ordered
<1>5. IsSequence(a)
  <2>1. Len(columns) \in Nat /\ DOMAIN columns = 1..Len(columns)
    BY <1>4 DEF IsSequence
  <2>2. DOMAIN a = 1..Len(columns) /\ a = [k \in 1..Len(columns) |-> a[k]]
    BY <2>1
  <2> HIDE DEF a
  <2> QED BY <2>1, <2>2, Spelled
<1>6. IsSequence(b)
  <2>1. DOMAIN b = 1..Len(p.topology) /\ b = [k \in 1..Len(p.topology) |-> b[k]]
    BY <1>2
  <2> HIDE DEF b
  <2> QED BY <1>2, <2>1, Spelled
<1>7. \A i \in All(a) : \E c : i = AttributeIssue(Required(c), None, "nowhere")
  BY DEF All, Range
<1>8. All(b) = UNION {TopologyIssues(frame, r) : r \in {q \in Range(p.topology) : Runs(frame, q)}}
  <2>1. ASSUME NEW k \in DOMAIN p.topology, Runs(frame, p.topology[k])
        PROVE  b[k] = TopologyIssues(frame, p.topology[k]) /\ b[k] \in Range(b)
    BY <2>1 DEF Range
  <2>2. ASSUME NEW B \in Range(b), NEW i \in B
        PROVE  \E k \in DOMAIN p.topology : Runs(frame, p.topology[k]) /\ i \in TopologyIssues(frame, p.topology[k])
    BY <2>2 DEF Range
  <2> HIDE DEF b
  <2> QED BY <2>1, <2>2 DEF All, Range
<1>9. \A B \in Range(a) : \A i \in B : \E c : i = AttributeIssue(Required(c), None, "nowhere")
  BY DEF Range
<1>10. \A B \in Range(b) : B = {} \/ \E r \in Range(p.topology) : B = TopologyIssues(frame, r)
  BY DEF Range
<1> HIDE DEF a, b
<1>11. IsSequence(a \o b) /\ All(a \o b) = All(a) \cup All(b) /\ Range(a \o b) = Range(a) \cup Range(b)
  BY <1>5, <1>6, Joined
<1>12. \A B \in Range(a \o b) : RuleBatch(frame, p, B)
  BY <1>9, <1>10, <1>11 DEF RuleBatch
<1>13. CASE MetricUnsafe(frame, p)
  <2>1. RuleBatches(frame, p, earlier) = <<>> /\ Range(<<>>) = {}
    BY <1>1, <1>13 DEF Range
  <2> QED BY <1>13, <2>1, NoBatch
<1>14. CASE ~MetricUnsafe(frame, p)
  <2>1. RuleBatches(frame, p, earlier) = a \o b
    BY <1>1, <1>14
  <2>2. \A i \in All(a \o b) : \/ \E c : i = AttributeIssue(Required(c), None, "nowhere")
                               \/ \E r \in Range(p.topology) : Runs(frame, r) /\ i \in TopologyIssues(frame, r)
    BY <1>7, <1>8, <1>11
  <2>3. \A r \in Range(p.topology) : Runs(frame, r) => TopologyIssues(frame, r) \subseteq All(a \o b)
    BY <1>8, <1>11
  <2> QED BY <1>11, <1>12, <1>14, <2>1, <2>2, <2>3
<1> QED BY <1>13, <1>14

\* The batches before those of the rules, and what they hold.
Profiled(frame, p) ==
    BaseIssues(frame, p) \o <<GeometryTypeIssues(frame, p)>>
        \o [k \in DOMAIN p.attributes |-> AttributeIssues(frame, p.attributes[k])]
        \o <<CrsIssues(frame, p)>>
        \o (IF p.name = "generic-polygon" THEN <<SliverIssues(frame)>> ELSE <<>>)

ProfiledIssues(frame, p) ==
    GeometryIssues(frame) \cup DuplicateIssues(frame, 0, "error") \cup PresetIssues(frame, p)
        \cup GeometryTypeIssues(frame, p) \cup (UNION {AttributeIssues(frame, r) : r \in Range(p.attributes)})
        \cup CrsIssues(frame, p) \cup (IF p.name = "generic-polygon" THEN SliverIssues(frame) ELSE {})

LEMMA ProfiledParts ==
    ASSUME NEW frame, NEW p, Sequences(p)
    PROVE  IsSequence(Profiled(frame, p)) /\ All(Profiled(frame, p)) = ProfiledIssues(frame, p)
<1> DEFINE a == BaseIssues(frame, p)
           b == <<GeometryTypeIssues(frame, p)>>
           c == [k \in DOMAIN p.attributes |-> AttributeIssues(frame, p.attributes[k])]
           d == <<CrsIssues(frame, p)>>
           e == IF p.name = "generic-polygon" THEN <<SliverIssues(frame)>> ELSE <<>>
<1>1. Profiled(frame, p) = a \o b \o c \o d \o e
  BY DEF Profiled
<1>2. IsSequence(a) /\ IsSequence(b) /\ IsSequence(d) /\ IsSequence(e)
  BY BaseParts, OneBatch, NoBatch
<1>3. IsSequence(c)
  <2>1. Len(p.attributes) \in Nat /\ DOMAIN p.attributes = 1..Len(p.attributes)
    BY DEF Sequences, IsSequence
  <2>2. DOMAIN c = 1..Len(p.attributes) /\ c = [k \in 1..Len(p.attributes) |-> c[k]]
    BY <2>1
  <2> HIDE DEF c
  <2> QED BY <2>1, <2>2, Spelled
<1>4. /\ All(a) = GeometryIssues(frame) \cup DuplicateIssues(frame, 0, "error") \cup PresetIssues(frame, p)
      /\ All(b) = GeometryTypeIssues(frame, p)
      /\ All(d) = CrsIssues(frame, p)
      /\ All(e) = IF p.name = "generic-polygon" THEN SliverIssues(frame) ELSE {}
  BY BaseParts, OneBatch, NoBatch
<1>5. All(c) = UNION {AttributeIssues(frame, r) : r \in Range(p.attributes)}
  BY DEF All, Range
<1> HIDE DEF a, b, c, d, e
<1>6. IsSequence(a \o b) /\ All(a \o b) = All(a) \cup All(b)
  BY <1>2, Joined
<1>7. IsSequence(a \o b \o c) /\ All(a \o b \o c) = All(a \o b) \cup All(c)
  BY <1>3, <1>6, Joined
<1>8. IsSequence(a \o b \o c \o d) /\ All(a \o b \o c \o d) = All(a \o b \o c) \cup All(d)
  BY <1>2, <1>7, Joined
<1>9. IsSequence(a \o b \o c \o d \o e) /\ All(a \o b \o c \o d \o e) = All(a \o b \o c \o d) \cup All(e)
  BY <1>2, <1>8, Joined
<1>10. All(a \o b \o c \o d \o e) = All(a) \cup All(b) \cup All(c) \cup All(d) \cup All(e)
  BY <1>6, <1>7, <1>8, <1>9
<1>11. ProfiledIssues(frame, p) = All(a) \cup All(b) \cup All(c) \cup All(d) \cup All(e)
  BY <1>4, <1>5 DEF ProfiledIssues
<1> QED BY <1>1, <1>9, <1>10, <1>11, Zenon

LEMMA RawParts ==
    ASSUME NEW frame, NEW p, Sequences(p)
    PROVE  /\ IsSequence(RawIssues(frame, p))
           /\ All(RawIssues(frame, p)) =
                  ProfiledIssues(frame, p) \cup All(RuleBatches(frame, p, Profiled(frame, p)))
           /\ Range(RawIssues(frame, p)) =
                  Range(Profiled(frame, p)) \cup Range(RuleBatches(frame, p, Profiled(frame, p)))
<1>1. RawIssues(frame, p) = Profiled(frame, p) \o RuleBatches(frame, p, Profiled(frame, p))
  BY DEF RawIssues, Profiled
<1> DEFINE a == Profiled(frame, p)
           b == RuleBatches(frame, p, Profiled(frame, p))
<1>2. IsSequence(a) /\ All(a) = ProfiledIssues(frame, p) /\ IsSequence(b)
  BY RuleParts, ProfiledParts
<1> HIDE DEF a, b
<1>3. IsSequence(a \o b) /\ All(a \o b) = All(a) \cup All(b) /\ Range(a \o b) = Range(a) \cup Range(b)
  BY <1>2, Joined
<1> QED BY <1>1, <1>2, <1>3 DEF a, b

(***************************************************************************)
(* What a finding comes from                                               *)
(***************************************************************************)
\* The geometry defects that are errors wherever they are found.
Flawed == {"empty_geometry", "invalid_geometry", "ring_error", "self_intersection", "unexpected_type"}

\* A finding as the checks make it; only attribute checks name a column.
WellMade(i) ==
    /\ i = [code |-> i.code, type |-> i.type, category |-> i.category, severity |-> i.severity,
            index |-> i.index, related |-> i.related, place |-> i.place, column |-> i.column,
            id |-> i.id, relatedId |-> i.relatedId]
    /\ i.column # None => i.code = <<"ATTR", i.type>>

DeadEndIssue(frame, e) ==
    Issue(<<"ROAD", "dead_end">>, "dead_end", "network", "warning", e[1], None, End(frame, e))

\* The finding is about a cell that breaks a rule on attributes.
Breaks(frame, p, i) ==
    \E q \in Range(p.attributes) :
        /\ q.type = i.code[2] /\ q.severity = i.severity
        /\ i.index \in Rows(frame) /\ q.column \in frame.rows[i.index].bad \cap frame.columns

\* What a finding with one of these codes comes from.
Traced(frame, p, i) ==
    /\ \A d \in Flawed : i.code = <<"GEO", d>> => i.severity = "error" /\ i.category = "geometry"
    /\ i.code = <<"META", "geographic_crs">> => i.severity = "error" /\ i.category = "metadata"
    /\ i.code = <<"TOP", "no_duplicate">> =>
           i.severity \in DuplicateSeverities(frame, p) /\ i.category = "topology"
    /\ i.code = <<"TOP", "no_overlap">> =>
           i.severity \in OverlapSeverities(frame, p) /\ i.category = "topology"
    /\ i.code[1] = "ATTR" /\ i.code # <<"ATTR", "required">> => i.category = "attribute" /\ Breaks(frame, p, i)
    /\ i.code = <<"ROAD", "dead_end">> =>
           RunPreset(frame, p) = "road" /\ \E e \in DeadEnds(frame) : i = DeadEndIssue(frame, e)
    /\ i.code = <<"TOP", "no_dangles">> =>
           ~MetricUnsafe(frame, p)
           /\ \E r \in LocalRules(frame, p) : r.type = "no_dangles" /\ i \in EndpointIssues(frame, r)
    /\ i.code = <<"TOP", "no_overshoot_undershoot">> =>
           ~MetricUnsafe(frame, p)
           /\ \E r \in LocalRules(frame, p) : r.type = "no_overshoot_undershoot" /\ i \in OvershootUndershoot(frame, r)

Sourced(frame, p, i) == WellMade(i) /\ Traced(frame, p, i)

\* The code of a dangling end, and a finding that no rule on them made.
Dangling == <<"TOP", "no_dangles">>
Settled(frame, p, i) == Sourced(frame, p, i) /\ i.code # Dangling

LEMMA GeometrySourced == ASSUME NEW frame, NEW p, NEW i \in GeometryIssues(frame) PROVE Settled(frame, p, i)
<1>1. PICK k \in Rows(frame) : \E d \in Detected(frame, k) :
          i = Issue(<<"GEO", d>>, d, "geometry", IF d = "duplicate_vertex" THEN "warning" ELSE "error",
                    k, None, At(frame, k))
  BY DEF GeometryIssues
<1>4. PICK d \in Detected(frame, k) :
          i = Issue(<<"GEO", d>>, d, "geometry", IF d = "duplicate_vertex" THEN "warning" ELSE "error",
                    k, None, At(frame, k))
  BY <1>1
<1>2. WellMade(i) /\ i.code = <<"GEO", d>> /\ i.category = "geometry" /\ (d # "duplicate_vertex" => i.severity = "error")
  BY <1>4 DEF Issue, WellMade
<1>3. Traced(frame, p, i)
  BY <1>2 DEF Traced, Flawed
<1> QED BY <1>2, <1>3 DEF Sourced, Settled, Dangling

LEMMA DuplicateSourced ==
    ASSUME NEW frame, NEW p, NEW tolerance, NEW severity \in DuplicateSeverities(frame, p),
           NEW i \in DuplicateIssues(frame, tolerance, severity)
    PROVE  Settled(frame, p, i)
<1>0. PICK q \in Pairs(frame) :
          i = Issue(<<"TOP", "no_duplicate">>, "duplicate_feature", "topology", severity, q[1], q[2], At(frame, q[1]))
  BY DEF DuplicateIssues
<1>1. WellMade(i) /\ i.code = <<"TOP", "no_duplicate">> /\ i.category = "topology" /\ i.severity = severity
  BY <1>0 DEF Issue, WellMade
<1>2. Traced(frame, p, i)
  BY <1>1 DEF Traced, Flawed
<1> QED BY <1>1, <1>2 DEF Sourced, Settled, Dangling

LEMMA OverlapSourced ==
    ASSUME NEW frame, NEW p, NEW tolerance, NEW severity \in OverlapSeverities(frame, p),
           NEW i \in OverlapIssues(frame, tolerance, severity)
    PROVE  Settled(frame, p, i)
<1>1. WellMade(i) /\ i.code = <<"TOP", "no_overlap">> /\ i.category = "topology" /\ i.severity = severity
  BY DEF OverlapIssues, Issue, WellMade
<1>2. Traced(frame, p, i)
  BY <1>1 DEF Traced, Flawed
<1> QED BY <1>1, <1>2 DEF Sourced, Settled, Dangling

\* Codes that nothing is said of.
Plain(code) ==
    /\ code[1] \in {"TOP", "ROAD", "META"}
    /\ code[2] \notin {"no_duplicate", "no_overlap", "no_dangles", "no_overshoot_undershoot", "dead_end", "geographic_crs"}

LEMMA PlainSourced ==
    ASSUME NEW frame, NEW p, NEW i, WellMade(i), Plain(i.code)
    PROVE  Settled(frame, p, i)
<1>1. Traced(frame, p, i)
  BY DEF Traced, Flawed, Plain
<1> QED BY <1>1 DEF Sourced, Settled, Dangling, Plain

LEMMA AreaSourced ==
    ASSUME NEW frame, NEW p, NEW tolerance, NEW severity,
           NEW i \in GapIssues(frame, tolerance, severity) \cup MinimumAreaIssues(frame, tolerance, severity)
                         \cup SliverIssues(frame)
    PROVE  Settled(frame, p, i)
<1>1. WellMade(i) /\ i.code \in {<<"TOP", "no_gap">>, <<"TOP", "minimum_area">>, <<"TOP", "sliver">>}
  <2>1. CASE i \in GapIssues(frame, tolerance, severity)
    <3>1. PICK h : i = Issue(<<"TOP", "no_gap">>, "gap", "topology", severity, None, None, h.place)
      BY <2>1 DEF GapIssues
    <3> QED BY <3>1 DEF Issue, WellMade
  <2>2. CASE i \in MinimumAreaIssues(frame, tolerance, severity)
    <3>1. PICK k : i = Issue(<<"TOP", "minimum_area">>, "below_minimum_area", "topology", severity, k, None, At(frame, k))
      BY <2>2 DEF MinimumAreaIssues
    <3> QED BY <3>1 DEF Issue, WellMade
  <2>3. CASE i \in SliverIssues(frame)
    <3>1. PICK k : i = Issue(<<"TOP", "sliver">>, "sliver_polygon", "topology", "warning", k, None, At(frame, k))
      BY <2>3 DEF SliverIssues
    <3> QED BY <3>1 DEF Issue, WellMade
  <2> QED BY <2>1, <2>2, <2>3
<1> QED BY <1>1, PlainSourced DEF Plain

LEMMA RoadSourced ==
    ASSUME NEW frame, NEW p, RunPreset(frame, p) = "road", NEW tolerance, NEW i \in RoadIssues(frame, tolerance)
    PROVE  Settled(frame, p, i)
<1> DEFINE nearest(e) == NearestLine(frame, e, tolerance, Lines(frame))
           junction(q) == Junction[At(frame, q[1]), At(frame, q[2])]
<1>1. \/ \E k : i = Issue(<<"GEO", "unexpected_type">>, "unexpected_geometry_type", "geometry", "error", k, None, At(frame, k))
      \/ \E e \in DeadEnds(frame) : i = DeadEndIssue(frame, e)
      \/ \E e : i = Issue(<<"ROAD", "broken_connection">>, "broken_connection", "network", "warning",
                        Min({e[1], nearest(e)}), Max({e[1], nearest(e)}), End(frame, e))
      \/ \E q : i = Issue(<<"ROAD", "unnoded_intersection">>, "unnoded_intersection", "network", "warning",
                        q[1], q[2], junction(q))
  BY DEF RoadIssues, DeadEndIssue
<1> HIDE DEF nearest, junction
<1>2. CASE \E k : i = Issue(<<"GEO", "unexpected_type">>, "unexpected_geometry_type", "geometry", "error", k, None, At(frame, k))
  <2>1. WellMade(i) /\ i.code = <<"GEO", "unexpected_type">> /\ i.category = "geometry" /\ i.severity = "error"
    BY <1>2 DEF Issue, WellMade
  <2>2. Traced(frame, p, i)
    BY <2>1 DEF Traced, Flawed
  <2> QED BY <2>1, <2>2 DEF Sourced, Settled, Dangling
<1>3. CASE \E e \in DeadEnds(frame) : i = DeadEndIssue(frame, e)
  <2>1. WellMade(i) /\ i.code = <<"ROAD", "dead_end">>
    BY <1>3 DEF Issue, WellMade, DeadEndIssue
  <2>2. Traced(frame, p, i)
    BY <1>3, <2>1 DEF Traced, Flawed
  <2> QED BY <2>1, <2>2 DEF Sourced, Settled, Dangling
<1>4. CASE \E e : i = Issue(<<"ROAD", "broken_connection">>, "broken_connection", "network", "warning",
                         Min({e[1], nearest(e)}), Max({e[1], nearest(e)}), End(frame, e))
  <2>1. WellMade(i) /\ i.code = <<"ROAD", "broken_connection">>
    BY <1>4 DEF Issue, WellMade
  <2> QED BY <2>1, PlainSourced DEF Plain
<1>5. CASE \E q : i = Issue(<<"ROAD", "unnoded_intersection">>, "unnoded_intersection", "network", "warning",
                         q[1], q[2], junction(q))
  <2>1. WellMade(i) /\ i.code = <<"ROAD", "unnoded_intersection">>
    BY <1>5 DEF Issue, WellMade
  <2> QED BY <2>1, PlainSourced DEF Plain
<1> QED BY <1>1, <1>2, <1>3, <1>4, <1>5

\* The checks before the rules.
LEMMA PresetSourced == ASSUME NEW frame, NEW p, NEW i \in PresetIssues(frame, p) PROVE Settled(frame, p, i)
<1> DEFINE tolerance == IF MetricUnsafe(frame, p) THEN 0 ELSE p.tolerance
           minimum == IF MetricUnsafe(frame, p) THEN 0 ELSE p.minimumArea
           preset == RunPreset(frame, p)
<1>1. \/ preset \in {"parcel", "admin_boundary"} /\ i \in OverlapIssues(frame, tolerance, "error")
      \/ i \in GapIssues(frame, tolerance, "warning")
      \/ i \in MinimumAreaIssues(frame, minimum, "warning")
      \/ preset = "road" /\ i \in RoadIssues(frame, tolerance)
      \/ preset = "point_survey" /\ tolerance > 0 /\ i \in DuplicateIssues(frame, tolerance, "warning")
  BY DEF PresetIssues
<1>2. preset \in {"parcel", "admin_boundary"} => "error" \in OverlapSeverities(frame, p)
  BY DEF OverlapSeverities
<1>3. preset = "point_survey" /\ tolerance > 0 => "warning" \in DuplicateSeverities(frame, p)
  BY DEF DuplicateSeverities
<1> HIDE DEF tolerance, minimum
<1> QED BY <1>1, <1>2, <1>3, OverlapSourced, AreaSourced, RoadSourced, DuplicateSourced

LEMMA TypeSourced == ASSUME NEW frame, NEW p, NEW i \in GeometryTypeIssues(frame, p) PROVE Settled(frame, p, i)
<1>1. PICK k : i = Issue(<<"GEO", "unexpected_type">>, "unexpected_geometry_type", "geometry", "error", k, None, At(frame, k))
  BY DEF GeometryTypeIssues
<1>2. WellMade(i) /\ i.code = <<"GEO", "unexpected_type">> /\ i.category = "geometry" /\ i.severity = "error"
  BY <1>1 DEF Issue, WellMade
<1>3. Traced(frame, p, i)
  BY <1>2 DEF Traced, Flawed
<1> QED BY <1>2, <1>3 DEF Sourced, Settled, Dangling

\* A finding of an attribute check, field by field.
LEMMA AttributeMade ==
    ASSUME NEW rule, NEW index, NEW place, NEW i, i = AttributeIssue(rule, index, place)
    PROVE  WellMade(i) /\ i.code = <<"ATTR", rule.type>> /\ i.category = "attribute"
           /\ i.severity = rule.severity /\ i.index = index /\ i.type = rule.type
           /\ i.related = None /\ i.place = place /\ i.column = rule.column
  BY DEF AttributeIssue, Issue, WellMade

LEMMA MissingSourced ==
    ASSUME NEW frame, NEW p, NEW column, NEW i, i = AttributeIssue(Required(column), None, "nowhere")
    PROVE  Settled(frame, p, i)
<1>1. WellMade(i) /\ i.code = <<"ATTR", "required">>
  BY AttributeMade DEF Required
<1>2. Traced(frame, p, i)
  BY <1>1 DEF Traced, Flawed
<1> QED BY <1>1, <1>2 DEF Sourced, Settled, Dangling

LEMMA AttributeSourced ==
    ASSUME NEW frame, NEW p, NEW rule \in Range(p.attributes), NEW i \in AttributeIssues(frame, rule)
    PROVE  Settled(frame, p, i)
<1>1. CASE rule.type = "required"
  <2>1. PICK index, place : i = AttributeIssue(rule, index, place)
    BY DEF AttributeIssues
  <2>2. WellMade(i) /\ i.code = <<"ATTR", "required">>
    BY <1>1, <2>1, AttributeMade
  <2>3. Traced(frame, p, i)
    BY <2>2 DEF Traced, Flawed
  <2> QED BY <2>2, <2>3 DEF Sourced, Settled, Dangling
<1>2. CASE rule.type # "required"
  <2>1. PICK k \in Rows(frame) : rule.column \in frame.rows[k].bad \cap frame.columns /\ i = AttributeIssue(rule, k, At(frame, k))
    BY <1>2 DEF AttributeIssues
  <2>2. WellMade(i) /\ i.code = <<"ATTR", rule.type>> /\ i.category = "attribute" /\ i.severity = rule.severity /\ i.index = k
    BY <2>1, AttributeMade
  <2>3. Breaks(frame, p, i)
    BY <2>1, <2>2 DEF Breaks
  <2>4. Traced(frame, p, i)
    BY <2>2, <2>3 DEF Traced, Flawed
  <2> QED BY <2>2, <2>4 DEF Sourced, Settled, Dangling
<1> QED BY <1>1, <1>2

LEMMA CrsSourced == ASSUME NEW frame, NEW p, NEW i \in CrsIssues(frame, p) PROVE Settled(frame, p, i)
<1>1. PICK type, severity :
          /\ i = Issue(<<"META", type>>, type, "metadata", severity, None, None, "nowhere")
          /\ type \in {"missing_crs", "geographic_crs", "disallowed_crs"}
          /\ type = "geographic_crs" => severity = "error"
  BY DEF CrsIssues
<1>2. WellMade(i) /\ i.code = <<"META", type>> /\ i.category = "metadata" /\ i.severity = severity
  BY <1>1 DEF Issue, WellMade
<1>3. Traced(frame, p, i)
  BY <1>1, <1>2 DEF Traced, Flawed
<1> QED BY <1>2, <1>3 DEF Sourced, Settled, Dangling

\* A finding of a topology rule, field by field.
LEMMA RuleMade ==
    ASSUME NEW rule, NEW index, NEW related, NEW place, NEW i, i = RuleIssue(rule, index, related, place)
    PROVE  WellMade(i) /\ i.code = <<"TOP", rule.type>> /\ i.category = "topology" /\ i.type = rule.type
           /\ i.severity = rule.severity /\ i.index = index /\ i.related = related /\ i.place = place
  BY DEF RuleIssue, Issue, WellMade

LEMMA RuleSourced ==
    ASSUME NEW frame, NEW p, ~MetricUnsafe(frame, p), NEW rule \in LocalRules(frame, p),
           NEW i \in TopologyIssues(frame, rule)
    PROVE  Sourced(frame, p, i)
<1> DEFINE others == {"no_overlap", "no_gap", "no_duplicate", "minimum_area"}
<1>1. CASE rule.type = "no_overlap"
  <2>1. i \in OverlapIssues(frame, rule.tolerance, rule.severity)
    BY <1>1 DEF TopologyIssues
  <2>2. rule.severity \in OverlapSeverities(frame, p)
    BY <1>1 DEF OverlapSeverities, LocalSeverities
  <2> QED BY <2>1, <2>2, OverlapSourced DEF Settled
<1>2. CASE rule.type = "no_gap"
  <2>1. i \in GapIssues(frame, rule.tolerance, rule.severity)
    BY <1>2 DEF TopologyIssues
  <2> QED BY <2>1, AreaSourced DEF Settled
<1>3. CASE rule.type = "no_duplicate"
  <2>1. i \in DuplicateIssues(frame, rule.tolerance, rule.severity)
    BY <1>3 DEF TopologyIssues
  <2>2. rule.severity \in DuplicateSeverities(frame, p)
    BY <1>3 DEF DuplicateSeverities, LocalSeverities
  <2> QED BY <2>1, <2>2, DuplicateSourced DEF Settled
<1>4. CASE rule.type = "minimum_area"
  <2>1. i \in MinimumAreaIssues(frame, rule.minimum, rule.severity)
    BY <1>4 DEF TopologyIssues
  <2> QED BY <2>1, AreaSourced DEF Settled
<1>5. CASE rule.type \notin others
  <2>1. \/ rule.type \in {"no_dangles", "endpoint_must_connect"} /\ i \in EndpointIssues(frame, rule)
        \/ rule.type = "no_overshoot_undershoot" /\ i \in OvershootUndershoot(frame, rule)
        \/ rule.type = "attribute_overlap" /\ i \in AttributeOverlapIssues(frame, rule)
        \/ rule.type \notin {"no_dangles", "no_overshoot_undershoot"} /\ i \in FeatureRuleIssues(frame, rule)
    BY <1>5 DEF TopologyIssues
  <2>2. \E index, related, place : i = RuleIssue(rule, index, related, place)
    <3>1. i \in EndpointIssues(frame, rule) => \E index, related, place : i = RuleIssue(rule, index, related, place)
      BY DEF EndpointIssues
    <3>2. i \in OvershootUndershoot(frame, rule) => \E index, related, place : i = RuleIssue(rule, index, related, place)
      BY DEF OvershootUndershoot
    <3>3. i \in AttributeOverlapIssues(frame, rule) => \E index, related, place : i = RuleIssue(rule, index, related, place)
      BY DEF AttributeOverlapIssues
    <3>4. i \in FeatureRuleIssues(frame, rule) => \E index, related, place : i = RuleIssue(rule, index, related, place)
      BY DEF FeatureRuleIssues
    <3> QED BY <2>1, <3>1, <3>2, <3>3, <3>4
  <2>3. WellMade(i) /\ i.code = <<"TOP", rule.type>>
    BY <2>2, RuleMade
  <2>4. /\ rule.type = "no_dangles" => i \in EndpointIssues(frame, rule)
        /\ rule.type = "no_overshoot_undershoot" => i \in OvershootUndershoot(frame, rule)
    BY <2>1
  <2>5. Traced(frame, p, i)
    BY <1>5, <2>3, <2>4 DEF Traced, Flawed
  <2> QED BY <2>3, <2>5 DEF Sourced
<1> QED BY <1>1, <1>2, <1>3, <1>4, <1>5

LEMMA ProfiledSourced ==
    ASSUME NEW frame, NEW p, NEW i \in ProfiledIssues(frame, p)
    PROVE  Settled(frame, p, i)
<1>1. \/ i \in GeometryIssues(frame) \/ i \in DuplicateIssues(frame, 0, "error") \/ i \in PresetIssues(frame, p)
      \/ i \in GeometryTypeIssues(frame, p)
      \/ \E r \in Range(p.attributes) : i \in AttributeIssues(frame, r)
      \/ i \in CrsIssues(frame, p) \/ i \in SliverIssues(frame)
  BY DEF ProfiledIssues
<1>2. "error" \in DuplicateSeverities(frame, p)
  BY DEF DuplicateSeverities
<1> QED BY <1>1, <1>2, GeometrySourced, DuplicateSourced, PresetSourced, TypeSourced, AttributeSourced,
           CrsSourced, AreaSourced

\* Whatever the checks find can be traced.
LEMMA RawSourced ==
    ASSUME NEW frame, NEW p, Sequences(p), NEW i \in All(RawIssues(frame, p))
    PROVE  Sourced(frame, p, i)
<1>1. CASE i \in ProfiledIssues(frame, p)
  BY <1>1, ProfiledSourced DEF Settled
<1>2. CASE i \in All(RuleBatches(frame, p, Profiled(frame, p)))
  <2>1. ~MetricUnsafe(frame, p)
    BY <1>2, RuleParts
  <2>2. \/ \E c : i = AttributeIssue(Required(c), None, "nowhere")
        \/ \E r \in LocalRules(frame, p) : i \in TopologyIssues(frame, r)
    BY <1>2, RuleParts DEF Runs, LocalRules
  <2> QED BY <2>1, <2>2, MissingSourced, RuleSourced DEF Settled
<1> QED BY <1>1, <1>2, RawParts

(***************************************************************************)
(* The stages after the checks                                             *)
(***************************************************************************)
\* Merging changes no more than the severity of a report.
LEMMA MergedMade ==
    ASSUME NEW frame, NEW p, NEW i, WellMade(i)
    PROVE  LET m == Merged(frame, p, i) IN
           /\ WellMade(m) /\ m.code = i.code /\ m.type = i.type /\ m.category = i.category
           /\ m.index = i.index /\ m.related = i.related /\ m.place = i.place /\ m.column = i.column
           /\ m.severity \in {i.severity, "info"}
  BY DEF Merged, WellMade

\* The batches after the reports of each end are merged.
Merge(frame, p) == MergeRoadEndpoints(frame, p, RawIssues(frame, p))

\* Merging keeps the findings that are no reports of an end.
LEMMA MergeParts ==
    ASSUME NEW frame, NEW p, Sequences(p)
    PROVE  /\ IsSequence(Merge(frame, p))
           /\ \A i \in All(Merge(frame, p)) : WellMade(i) /\ (i.code \notin EndpointCodes => i \in All(RawIssues(frame, p)))
           /\ \A i \in All(RawIssues(frame, p)) : i.code \notin EndpointCodes => i \in All(Merge(frame, p))
<1> DEFINE raw == RawIssues(frame, p)
           m == Merge(frame, p)
<1>1. IsSequence(raw) /\ \A i \in All(raw) : WellMade(i)
  BY RawParts, RawSourced DEF Sourced
<1> HIDE DEF raw
<1>2. Len(raw) \in Nat /\ DOMAIN raw = 1..Len(raw)
  BY <1>1 DEF IsSequence
<1>3. /\ DOMAIN m = DOMAIN raw /\ m = [n \in DOMAIN raw |-> m[n]]
      /\ \A n \in DOMAIN raw : /\ raw[n] \ Reports(raw[n]) \subseteq m[n]
                               /\ \A i \in m[n] : \/ i \in raw[n] \ Reports(raw[n])
                                                  \/ \E j \in Reports(raw[n]) : i = Merged(frame, p, j)
  BY DEF Merge, MergeRoadEndpoints, raw
<1> HIDE DEF m
<1>4. IsSequence(m)
  BY <1>2, <1>3, Spelled
<1>5. ASSUME NEW n \in DOMAIN raw, NEW i \in m[n]
      PROVE  WellMade(i) /\ (i.code \notin EndpointCodes => i \in All(raw))
  <2>1. CASE i \in raw[n]
    BY <1>1, <2>1 DEF All, Range
  <2>2. CASE \E j \in Reports(raw[n]) : i = Merged(frame, p, j)
    <3>1. PICK j \in Reports(raw[n]) : i = Merged(frame, p, j)
      BY <2>2
    <3>2. j \in All(raw) /\ j.code \in EndpointCodes
      BY DEF Reports, All, Range
    <3> QED BY <1>1, <3>1, <3>2, MergedMade
  <2> QED BY <1>3, <2>1, <2>2
<1>6. ASSUME NEW n \in DOMAIN raw, NEW i \in raw[n], i.code \notin EndpointCodes PROVE i \in All(m)
  <2>1. i \in m[n]
    BY <1>3, <1>6 DEF Reports
  <2> QED BY <1>3, <2>1 DEF All, Range
<1> QED BY <1>3, <1>4, <1>5, <1>6 DEF All, Range, m, raw

\* A finding is a record of these fields.
Shaped(i) ==
    i = [code |-> i.code, type |-> i.type, category |-> i.category, severity |-> i.severity,
         index |-> i.index, related |-> i.related, place |-> i.place, column |-> i.column,
         id |-> i.id, relatedId |-> i.relatedId]

\* Two findings alike but for severity and ids.
Same(i, j) ==
    /\ i.code = j.code /\ i.type = j.type /\ i.category = j.category
    /\ i.index = j.index /\ i.related = j.related /\ i.place = j.place /\ i.column = j.column

\* The id of a feature.
Identifier(frame, p, k) ==
    IF k = None THEN None
    ELSE IF p.id \notin frame.columns THEN k
    ELSE IF p.id \in frame.rows[k].bad THEN None ELSE <<"id", k>>

\* What a finding becomes when the ids are attached.
Identified(frame, p, i, j) ==
    /\ Shaped(j) /\ Same(i, j)
    /\ j.severity = i.severity \/ j.code = <<"ATTR", "required">>
    /\ IF p.id = None THEN j = i
       ELSE j.id = Identifier(frame, p, i.index) /\ j.relatedId = Identifier(frame, p, i.related)

\* A finding with the ids of its features.
Named(i, x, y) == [i EXCEPT !.id = x, !.relatedId = y]

LEMMA NamedMade ==
    ASSUME NEW i, Shaped(i), NEW x, NEW y
    PROVE  /\ Shaped(Named(i, x, y)) /\ Same(i, Named(i, x, y)) /\ Named(i, x, y).severity = i.severity
           /\ Named(i, x, y).id = x /\ Named(i, x, y).relatedId = y
<1> DEFINE h == [i EXCEPT !.id = x]
           k == [h EXCEPT !.relatedId = y]
<1>1. Shaped(h) /\ Same(i, h) /\ h.severity = i.severity /\ h.id = x
  BY DEF Shaped, Same
<1>2. Named(i, x, y) = k
  BY DEF Named
<1> HIDE DEF h
<1>3. Shaped(k) /\ Same(h, k) /\ k.severity = h.severity /\ k.id = h.id /\ k.relatedId = y
  BY <1>1 DEF Shaped, Same
<1> HIDE DEF k
<1> QED BY <1>1, <1>2, <1>3 DEF Same

\* Ids are attached to every finding, and only a missing column is added.
LEMMA AttachParts ==
    ASSUME NEW frame, NEW p, NEW batches, IsSequence(batches), \A i \in All(batches) : WellMade(i)
    PROVE  LET a == AttachFeatureIds(frame, p, batches) IN
           /\ IsSequence(a)
           /\ \A i \in All(batches) : \E j \in All(a) : Identified(frame, p, i, j)
           /\ \A j \in All(a) : \/ \E i \in All(batches) : Identified(frame, p, i, j)
                                \/ Shaped(j) /\ j.code = <<"ATTR", "required">>
<1> DEFINE a == AttachFeatureIds(frame, p, batches)
<1>1. CASE p.id = None
  <2>1. a = batches
    BY <1>1 DEF AttachFeatureIds
  <2>2. \A i \in All(batches) : Identified(frame, p, i, i)
    BY <1>1 DEF Identified, Same, Shaped, WellMade
  <2> HIDE DEF a
  <2> QED BY <2>1, <2>2 DEF a
<1>2. CASE p.id # None
  <2> DEFINE missing(i) == p.id \notin frame.columns /\ i.type = "required" /\ i.column = p.id
             raised(i) == IF missing(i) THEN [i EXCEPT !.severity = "critical"] ELSE i
             named(i) == [i EXCEPT !.id = Identifier(frame, p, i.index), !.relatedId = Identifier(frame, p, i.related)]
             reported == \E i \in UNION Range(batches) : missing(i)
             b == [n \in DOMAIN batches |-> {named(raised(i)) : i \in batches[n]}]
             c == IF p.id \in frame.columns \/ reported THEN <<>>
                  ELSE <<{AttributeIssue(Required(p.id), None, "nowhere")}>>
  <2>1. a = b \o c
    BY <1>2 DEF AttachFeatureIds, Identifier
  <2>2. ASSUME NEW i, WellMade(i) PROVE Identified(frame, p, i, named(raised(i)))
    <3> DEFINE r == raised(i)
    <3>1. Shaped(r) /\ Same(i, r) /\ (r.severity = i.severity \/ r.code = <<"ATTR", "required">>)
      <4>1. CASE missing(i)
        <5>1. i.code = <<"ATTR", "required">>
          BY <1>2, <2>2, <4>1 DEF WellMade
        <5> QED BY <2>2, <4>1, <5>1 DEF WellMade, Shaped, Same
      <4>2. CASE ~missing(i)
        BY <2>2, <4>2 DEF WellMade, Shaped, Same
      <4> QED BY <4>1, <4>2
    <3> HIDE DEF r
    <3> DEFINE x == Identifier(frame, p, r.index)
               y == Identifier(frame, p, r.related)
               j == Named(r, x, y)
    <3>2. j = named(r)
      BY DEF Named
    <3> HIDE DEF x, y, j
    <3>3. Shaped(j) /\ Same(r, j) /\ j.severity = r.severity /\ j.id = x /\ j.relatedId = y
      BY <3>1, NamedMade DEF j
    <3> HIDE DEF named
    <3>4. Identified(frame, p, i, j)
      BY <1>2, <3>1, <3>3 DEF Identified, Same, x, y
    <3> QED BY <3>2, <3>4 DEF r
  <2>3. Len(batches) \in Nat /\ DOMAIN batches = 1..Len(batches)
    BY DEF IsSequence
  <2>4. IsSequence(b)
    <3>1. DOMAIN b = 1..Len(batches) /\ b = [n \in 1..Len(batches) |-> b[n]]
      BY <2>3
    <3> HIDE DEF b
    <3> QED BY <2>3, <3>1, Spelled
  <2>5. IsSequence(c) /\ \A j \in All(c) : Shaped(j) /\ j.code = <<"ATTR", "required">>
    <3> DEFINE new == AttributeIssue(Required(p.id), None, "nowhere")
    <3>1. WellMade(new) /\ new.code = <<"ATTR", "required">>
      BY AttributeMade DEF Required
    <3>2. Shaped(new)
      BY <3>1 DEF WellMade, Shaped
    <3> HIDE DEF new
    <3>3. IsSequence(<<{new}>>) /\ All(<<{new}>>) = {new}
      BY OneBatch
    <3> QED BY <3>1, <3>2, <3>3, NoBatch DEF new
  <2> HIDE DEF named, raised, c
  <2>6. All(b) = {named(raised(i)) : i \in All(batches)}
    <3>1. Range(b) = {{named(raised(i)) : i \in batches[n]} : n \in DOMAIN batches}
      BY DEF Range
    <3> HIDE DEF b
    <3>2. ASSUME NEW j \in All(b) PROVE \E i \in All(batches) : j = named(raised(i))
      BY <3>1 DEF All, Range
    <3>3. ASSUME NEW i \in All(batches) PROVE named(raised(i)) \in All(b)
      <4>1. PICK n \in DOMAIN batches : i \in batches[n]
        BY DEF All, Range
      <4> DEFINE B == {named(raised(h)) : h \in batches[n]}
      <4>2. B \in Range(b) /\ named(raised(i)) \in B
        BY <3>1, <4>1
      <4> QED BY <4>2 DEF All
    <3> QED BY <3>2, <3>3
  <2> HIDE DEF b
  <2>7. IsSequence(b \o c) /\ All(b \o c) = All(b) \cup All(c)
    BY <2>4, <2>5, Joined
  <2> QED BY <2>1, <2>2, <2>5, <2>6, <2>7
<1> QED BY <1>1, <1>2

\* The batches with ids, and a finding as the profile grades it.
Attached(frame, p) == AttachFeatureIds(frame, p, Merge(frame, p))

Final(p, j) == [j EXCEPT !.severity = Override(p, j)]

\* What is reported was found, and what was found is reported or has a successor with
\* its key.
LEMMA ReportedParts ==
    ASSUME NEW frame, NEW p, IsSequence(Attached(frame, p)), \A j \in All(Attached(frame, p)) : Shaped(j)
    PROVE  /\ \A i \in Reported(frame, p) : \E j \in All(Attached(frame, p)) :
                  CheckName(j.category) \in p.enabled /\ i = Final(p, j)
           /\ \A j \in All(Attached(frame, p)) : CheckName(j.category) \in p.enabled =>
                  \E i \in Reported(frame, p) : Key(i) = Key(j)
<1> DEFINE b == Attached(frame, p)
           g == [n \in DOMAIN b |-> Graded(p, b[n])]
<1>1. Reported(frame, p) = LastByKey(g)
  BY DEF Reported, Attached, Merge
<1> HIDE DEF b
<1>2. Len(b) \in Nat /\ DOMAIN b = 1..Len(b)
  BY DEF IsSequence, b
<1>3. IsSequence(g)
  <2>1. DOMAIN g = 1..Len(b) /\ g = [n \in 1..Len(b) |-> g[n]]
    BY <1>2
  <2> HIDE DEF g
  <2> QED BY <1>2, <2>1, Spelled
<1>4. \A n \in DOMAIN b : g[n] = {Final(p, j) : j \in {h \in b[n] : CheckName(h.category) \in p.enabled}}
  BY DEF Graded, Final
<1>5. DOMAIN g = DOMAIN b
  OBVIOUS
<1> HIDE DEF g
<1>6. ASSUME NEW i \in LastByKey(g)
      PROVE  \E j \in All(b) : CheckName(j.category) \in p.enabled /\ i = Final(p, j)
  <2>1. PICK n \in DOMAIN g : i \in g[n]
    BY DEF LastByKey
  <2> QED BY <1>4, <1>5, <2>1 DEF All, Range
<1>7. ASSUME NEW j \in All(b), CheckName(j.category) \in p.enabled
      PROVE  \E i \in LastByKey(g) : Key(i) = Key(j)
  <2>1. PICK n \in DOMAIN b : j \in b[n]
    BY DEF All, Range
  <2>2. Final(p, j) \in g[n]
    BY <1>4, <1>7, <2>1
  <2>3. PICK i \in LastByKey(g) : Key(i) = Key(Final(p, j))
    BY <1>3, <1>5, <2>2, Latest
  <2>4. Key(Final(p, j)) = Key(j)
    BY DEF Key, Fingerprint, Final, Shaped, b
  <2> QED BY <2>3, <2>4
<1> QED BY <1>1, <1>6, <1>7 DEF b

\* The stages after the checks, from the last to the first.
LEMMA StageParts ==
    ASSUME NEW frame, NEW p, Sequences(p)
    PROVE  /\ \A j \in All(Attached(frame, p)) :
                  \/ \E i \in All(Merge(frame, p)) : Identified(frame, p, i, j)
                  \/ j.code = <<"ATTR", "required">>
           /\ \A i \in All(Merge(frame, p)) : \E j \in All(Attached(frame, p)) : Identified(frame, p, i, j)
           /\ \A i \in Reported(frame, p) : \E j \in All(Attached(frame, p)) :
                  Shaped(j) /\ CheckName(j.category) \in p.enabled /\ i = Final(p, j)
           /\ \A j \in All(Attached(frame, p)) : CheckName(j.category) \in p.enabled =>
                  \E i \in Reported(frame, p) : Key(i) = Key(j)
<1> DEFINE batches == Merge(frame, p)
<1>1. IsSequence(batches) /\ \A i \in All(batches) : WellMade(i)
  BY MergeParts
<1> HIDE DEF batches
<1>2. /\ IsSequence(AttachFeatureIds(frame, p, batches))
      /\ \A i \in All(batches) : \E j \in All(AttachFeatureIds(frame, p, batches)) : Identified(frame, p, i, j)
      /\ \A j \in All(AttachFeatureIds(frame, p, batches)) :
             \/ \E i \in All(batches) : Identified(frame, p, i, j)
             \/ Shaped(j) /\ j.code = <<"ATTR", "required">>
  BY <1>1, AttachParts
<1>3. /\ IsSequence(Attached(frame, p))
      /\ \A i \in All(batches) : \E j \in All(Attached(frame, p)) : Identified(frame, p, i, j)
      /\ \A j \in All(Attached(frame, p)) : \/ \E i \in All(batches) : Identified(frame, p, i, j)
                                            \/ Shaped(j) /\ j.code = <<"ATTR", "required">>
  BY <1>2 DEF Attached, batches
<1>4. \A j \in All(Attached(frame, p)) : Shaped(j)
  BY <1>3 DEF Identified
<1>5. /\ \A i \in Reported(frame, p) : \E j \in All(Attached(frame, p)) :
             CheckName(j.category) \in p.enabled /\ i = Final(p, j)
      /\ \A j \in All(Attached(frame, p)) : CheckName(j.category) \in p.enabled =>
             \E i \in Reported(frame, p) : Key(i) = Key(j)
  BY <1>3, <1>4, ReportedParts
<1> QED BY <1>3, <1>4, <1>5 DEF batches

LEMMA FinalMade ==
    ASSUME NEW p, NEW j, Shaped(j)
    PROVE  /\ Same(j, Final(p, j)) /\ Final(p, j).severity = Override(p, j) /\ Shaped(Final(p, j))
           /\ Final(p, j).id = j.id /\ Final(p, j).relatedId = j.relatedId
  BY DEF Final, Shaped, Same

\* What a check finds is reported, if only by a later finding with its key.
LEMMA Survives ==
    ASSUME NEW frame, NEW p, Sequences(p), NEW i \in All(RawIssues(frame, p)),
           i.code \notin EndpointCodes, i.code # <<"ATTR", "required">>, CheckName(i.category) \in p.enabled
    PROVE  \E f \in Reported(frame, p), j \in All(RawIssues(frame, p)) :
               /\ j.code = i.code /\ j.index = i.index /\ j.related = i.related
               /\ CheckName(j.category) \in p.enabled
               /\ f.severity = Override(p, [code |-> i.code, category |-> j.category, severity |-> j.severity])
<1>1. i \in All(Merge(frame, p))
  BY MergeParts
<1>2. PICK a \in All(Attached(frame, p)) : Identified(frame, p, i, a)
  BY <1>1, StageParts
<1>3. PICK f \in Reported(frame, p) : Key(f) = Key(a)
  BY <1>2, StageParts DEF Identified, Same
<1>4. f.code = i.code /\ f.index = i.index /\ f.related = i.related
  BY <1>2, <1>3 DEF Key, Identified, Same
<1>5. PICK b \in All(Attached(frame, p)) : Shaped(b) /\ CheckName(b.category) \in p.enabled /\ f = Final(p, b)
  BY StageParts
<1>6. Same(b, f) /\ f.severity = Override(p, b)
  BY <1>5, FinalMade
<1>7. PICK j \in All(Merge(frame, p)) : Identified(frame, p, j, b)
  BY <1>4, <1>6, StageParts DEF Same
<1>8. j \in All(RawIssues(frame, p)) /\ j.severity = b.severity
  BY <1>4, <1>6, <1>7, MergeParts DEF Same, Identified
<1>9. Override(p, b) = Override(p, [code |-> i.code, category |-> j.category, severity |-> j.severity])
  BY <1>4, <1>6, <1>7, <1>8 DEF Override, Identified, Same
<1> QED BY <1>4, <1>5, <1>6, <1>7, <1>8, <1>9 DEF Identified, Same

\* A finding of a layer that passes does not count.
LEMMA Harmless ==
    ASSUME NEW frame, NEW p, Sequences(p), Passes(Result(frame, Reported(frame, p)), Policy),
           NEW i \in All(RawIssues(frame, p)), i.code \notin EndpointCodes, i.code # <<"ATTR", "required">>
    PROVE  \/ CheckName(i.category) \notin p.enabled
           \/ \E j \in All(RawIssues(frame, p)) :
                  /\ j.code = i.code /\ j.index = i.index /\ j.related = i.related
                  /\ ~Counts(p, j.code, j.category, j.severity)
<1> SUFFICES ASSUME CheckName(i.category) \in p.enabled
             PROVE  \E j \in All(RawIssues(frame, p)) :
                        /\ j.code = i.code /\ j.index = i.index /\ j.related = i.related
                        /\ ~Counts(p, j.code, j.category, j.severity)
  OBVIOUS
<1>1. PICK f \in Reported(frame, p), j \in All(RawIssues(frame, p)) :
          /\ j.code = i.code /\ j.index = i.index /\ j.related = i.related
          /\ f.severity = Override(p, [code |-> i.code, category |-> j.category, severity |-> j.severity])
  BY Survives
<1>2. Ranks[f.severity] < Ranks[Policy.failOn]
  BY DEF Passes, Result
<1> QED BY <1>1, <1>2 DEF Counts

(***************************************************************************)
(* A layer that passes is sound                                            *)
(***************************************************************************)
\* The audit of the layer ended with a result that passes the gate.
Passed(frame, p) ==
    AuditRaises(frame, p) \notin {"AttributeError", "TypeError"} /\ Passes(Result(frame, Reported(frame, p)), Policy)

\* The clauses of Sound, one by one.
LEMMA FlawsCount ==
    ASSUME NEW frame, NEW p, Sequences(p), Passed(frame, p), NEW k \in Rows(frame), Empty(frame, k) \/ ~Valid(frame, k)
    PROVE  \E d \in Detected(frame, k) : ~Counts(p, <<"GEO", d>>, "geometry", "error")
<1> DEFINE specific == Detected(frame, k) \cap {"empty_geometry", "self_intersection", "ring_error"}
           kept == IF specific = {} THEN Detected(frame, k) ELSE Detected(frame, k) \ {"invalid_geometry"}
           issue(d) == Issue(<<"GEO", d>>, d, "geometry", IF d = "duplicate_vertex" THEN "warning" ELSE "error",
                             k, None, At(frame, k))
<1>1. Detected(frame, k) \cap {"empty_geometry", "invalid_geometry"} # {}
  BY DEF Detected
<1>2. PICK d \in kept : d \in Flawed
  BY <1>1 DEF Flawed
<1>3. issue(d) \in GeometryIssues(frame)
  BY <1>2 DEF GeometryIssues
<1>4. issue(d) \in All(RawIssues(frame, p))
  BY <1>3, RawParts DEF ProfiledIssues
<1>5. issue(d).code = <<"GEO", d>> /\ issue(d).category = "geometry"
  BY DEF Issue
<1>6. <<"GEO", d>> \notin EndpointCodes /\ <<"GEO", d>> # <<"ATTR", "required">>
  BY DEF EndpointCodes
<1> HIDE DEF issue
<1>7. CASE CheckName("geometry") \notin p.enabled
  BY <1>2, <1>7 DEF Counts
<1>8. CASE \E j \in All(RawIssues(frame, p)) : j.code = <<"GEO", d>> /\ ~Counts(p, j.code, j.category, j.severity)
  <2>1. PICK j \in All(RawIssues(frame, p)) : j.code = <<"GEO", d>> /\ ~Counts(p, j.code, j.category, j.severity)
    BY <1>8
  <2>2. j.severity = "error" /\ j.category = "geometry"
    BY <1>2, <2>1, RawSourced DEF Sourced, Traced
  <2> QED BY <1>2, <2>1, <2>2
<1> QED BY <1>4, <1>5, <1>6, <1>7, <1>8, Harmless DEF Passed

LEMMA TypesCount ==
    ASSUME NEW frame, NEW p, Sequences(p), Passed(frame, p), p.types # {},
           Counts(p, <<"GEO", "unexpected_type">>, "geometry", "error")
    PROVE  ExpectedTypes(frame, p)
<1> SUFFICES ASSUME NEW k \in Rows(frame), ~Is(frame, k, p.types) PROVE FALSE
  BY DEF ExpectedTypes
<1> DEFINE issue == Issue(<<"GEO", "unexpected_type">>, "unexpected_geometry_type", "geometry", "error", k, None, At(frame, k))
<1>1. issue \in GeometryTypeIssues(frame, p)
  BY DEF GeometryTypeIssues
<1>2. issue \in All(RawIssues(frame, p))
  BY <1>1, RawParts DEF ProfiledIssues
<1>3. issue.code = <<"GEO", "unexpected_type">> /\ issue.category = "geometry"
  BY DEF Issue
<1>4. issue.code \notin EndpointCodes /\ issue.code # <<"ATTR", "required">>
  BY <1>3 DEF EndpointCodes
<1> HIDE DEF issue
<1>5. CheckName("geometry") \in p.enabled
  BY DEF Counts
<1>6. PICK j \in All(RawIssues(frame, p)) : j.code = <<"GEO", "unexpected_type">> /\ ~Counts(p, j.code, j.category, j.severity)
  BY <1>2, <1>3, <1>4, <1>5, Harmless DEF Passed
<1>7. j.severity = "error" /\ j.category = "geometry"
  BY <1>6, RawSourced DEF Sourced, Traced, Flawed
<1> QED BY <1>6, <1>7

\* Two features that are equal.
Coincide(frame, q) ==
    Usable(frame, q[1]) /\ Usable(frame, q[2]) /\ Apart[At(frame, q[1]), At(frame, q[2])] = 0

LEMMA DuplicatesCount ==
    ASSUME NEW frame, NEW p, Sequences(p), Passed(frame, p), NEW q \in Pairs(frame), Coincide(frame, q)
    PROVE  \E s \in DuplicateSeverities(frame, p) : ~Counts(p, <<"TOP", "no_duplicate">>, "topology", s)
<1> DEFINE issue == Issue(<<"TOP", "no_duplicate">>, "duplicate_feature", "topology", "error", q[1], q[2], At(frame, q[1]))
<1>1. issue \in DuplicateIssues(frame, 0, "error")
  <2> DEFINE apart(r) == Apart[At(frame, r[1]), At(frame, r[2])]
  <2>1. DuplicateIssues(frame, 0, "error") =
            {Issue(<<"TOP", "no_duplicate">>, "duplicate_feature", "topology", "error", r[1], r[2], At(frame, r[1])) :
                r \in {s \in Pairs(frame) : Usable(frame, s[1]) /\ Usable(frame, s[2]) /\ apart(s) <= 0}}
    BY DEF DuplicateIssues
  <2>2. Usable(frame, q[1]) /\ Usable(frame, q[2]) /\ apart(q) = 0
    BY Zenon DEF Coincide
  <2> HIDE DEF apart
  <2> QED BY <2>1, <2>2
<1>2. issue \in All(RawIssues(frame, p))
  BY <1>1, RawParts DEF ProfiledIssues
<1>3. issue.code = <<"TOP", "no_duplicate">> /\ issue.category = "topology"
  BY DEF Issue
<1>4. issue.code \notin EndpointCodes /\ issue.code # <<"ATTR", "required">>
  BY <1>3 DEF EndpointCodes
<1> HIDE DEF issue
<1>5. CASE CheckName("topology") \notin p.enabled
  BY <1>5 DEF Counts, DuplicateSeverities
<1>6. CASE \E j \in All(RawIssues(frame, p)) : j.code = <<"TOP", "no_duplicate">> /\ ~Counts(p, j.code, j.category, j.severity)
  <2>1. PICK j \in All(RawIssues(frame, p)) : j.code = <<"TOP", "no_duplicate">> /\ ~Counts(p, j.code, j.category, j.severity)
    BY <1>6
  <2>2. j.severity \in DuplicateSeverities(frame, p) /\ j.category = "topology"
    BY <2>1, RawSourced DEF Sourced, Traced
  <2> QED BY <2>1, <2>2
<1> QED BY <1>2, <1>3, <1>4, <1>5, <1>6, Harmless DEF Passed

LEMMA OverlapsCount ==
    ASSUME NEW frame, NEW p, Sequences(p), Passed(frame, p), OverlapSeverities(frame, p) # {},
           NEW q \in Pairs(frame), \A t \in OverlapTolerances(p) : q \in Overlapping(frame, t)
    PROVE  \E s \in OverlapSeverities(frame, p) : ~Counts(p, <<"TOP", "no_overlap">>, "topology", s)
<1> DEFINE issue(s) == Issue(<<"TOP", "no_overlap">>, "overlap", "topology", s, q[1], q[2],
                             <<At(frame, q[1]), At(frame, q[2])>>)
<1>1. \E s : issue(s) \in All(RawIssues(frame, p))
  <2>1. CASE RunPreset(frame, p) \in {"parcel", "admin_boundary"}
    <3> DEFINE tolerance == IF MetricUnsafe(frame, p) THEN 0 ELSE p.tolerance
    <3>1. q \in Overlapping(frame, tolerance)
      BY DEF OverlapTolerances
    <3>2. issue("error") \in OverlapIssues(frame, tolerance, "error")
      BY <3>1 DEF OverlapIssues
    <3>3. issue("error") \in PresetIssues(frame, p)
      BY <2>1, <3>2 DEF PresetIssues
    <3> QED BY <3>3, RawParts DEF ProfiledIssues
  <2>2. CASE RunPreset(frame, p) \notin {"parcel", "admin_boundary"}
    <3>1. PICK r \in LocalRules(frame, p) : r.type = "no_overlap" /\ ~MetricUnsafe(frame, p)
      BY <2>2 DEF OverlapSeverities, LocalSeverities
    <3>2. q \in Overlapping(frame, r.tolerance)
      BY DEF LocalRules, Range, OverlapTolerances
    <3>3. issue(r.severity) \in TopologyIssues(frame, r)
      BY <3>1, <3>2 DEF TopologyIssues, OverlapIssues
    <3>4. TopologyIssues(frame, r) \subseteq All(RuleBatches(frame, p, Profiled(frame, p)))
      BY <3>1, RuleParts DEF LocalRules, Runs, MissingColumn
    <3> QED BY <3>3, <3>4, RawParts
  <2> QED BY <2>1, <2>2
<1>2. PICK i \in All(RawIssues(frame, p)) : i.code = <<"TOP", "no_overlap">> /\ i.category = "topology"
  BY <1>1 DEF Issue
<1>4. i.code \notin EndpointCodes /\ i.code # <<"ATTR", "required">>
  BY <1>2 DEF EndpointCodes
<1>5. CASE CheckName("topology") \notin p.enabled
  BY <1>5 DEF Counts
<1>6. CASE \E j \in All(RawIssues(frame, p)) : j.code = <<"TOP", "no_overlap">> /\ ~Counts(p, j.code, j.category, j.severity)
  <2>1. PICK j \in All(RawIssues(frame, p)) : j.code = <<"TOP", "no_overlap">> /\ ~Counts(p, j.code, j.category, j.severity)
    BY <1>6
  <2>2. j.severity \in OverlapSeverities(frame, p) /\ j.category = "topology"
    BY <2>1, RawSourced DEF Sourced, Traced
  <2> QED BY <2>1, <2>2
<1> QED BY <1>2, <1>4, <1>5, <1>6, Harmless DEF Passed

LEMMA CellsCount ==
    ASSUME NEW frame, NEW p, Sequences(p), Passed(frame, p), NEW k \in Rows(frame), NEW r \in BrokenRules(frame, p, k)
    PROVE  \E q \in BrokenRules(frame, p, k) :
               q.type = r.type /\ ~Counts(p, <<"ATTR", q.type>>, "attribute", q.severity)
<1> DEFINE issue == AttributeIssue(r, k, At(frame, k))
<1>0. r \in Range(p.attributes) /\ r.type # "required" /\ r.column \in frame.rows[k].bad \cap frame.columns
  BY DEF BrokenRules
<1>1. issue \in AttributeIssues(frame, r)
  BY <1>0 DEF AttributeIssues
<1>2. issue \in All(RawIssues(frame, p))
  BY <1>0, <1>1, RawParts DEF ProfiledIssues
<1>3. issue.code = <<"ATTR", r.type>> /\ issue.category = "attribute" /\ issue.index = k
  BY AttributeMade
<1>4. issue.code \notin EndpointCodes /\ issue.code # <<"ATTR", "required">>
  BY <1>0, <1>3 DEF EndpointCodes
<1> HIDE DEF issue
<1>5. CASE CheckName("attribute") \notin p.enabled
  BY <1>5 DEF Counts
<1>6. CASE \E j \in All(RawIssues(frame, p)) :
               j.code = <<"ATTR", r.type>> /\ j.index = k /\ ~Counts(p, j.code, j.category, j.severity)
  <2>1. PICK j \in All(RawIssues(frame, p)) :
            j.code = <<"ATTR", r.type>> /\ j.index = k /\ ~Counts(p, j.code, j.category, j.severity)
    BY <1>6
  <2>2. j.category = "attribute" /\ Breaks(frame, p, j)
    BY <1>0, <2>1, RawSourced DEF Sourced, Traced
  <2>3. PICK q \in Range(p.attributes) : q.type = r.type /\ q.severity = j.severity
                                         /\ q.column \in frame.rows[k].bad \cap frame.columns
    BY <2>1, <2>2 DEF Breaks
  <2>4. q \in BrokenRules(frame, p, k)
    BY <1>0, <2>3 DEF BrokenRules
  <2> QED BY <2>1, <2>2, <2>3, <2>4
<1>7. \/ CheckName(issue.category) \notin p.enabled
      \/ \E j \in All(RawIssues(frame, p)) :
             /\ j.code = issue.code /\ j.index = issue.index
             /\ ~Counts(p, j.code, j.category, j.severity)
  BY <1>2, <1>4, Harmless DEF Passed
<1> QED BY <1>3, <1>5, <1>6, <1>7

LEMMA CrsCounts ==
    ASSUME NEW frame, NEW p, Sequences(p), Passed(frame, p), p.projected,
           Counts(p, <<"META", "geographic_crs">>, "metadata", "error")
    PROVE  frame.crs # "geographic"
<1> SUFFICES ASSUME frame.crs = "geographic" PROVE FALSE
  OBVIOUS
<1> DEFINE issue == Issue(<<"META", "geographic_crs">>, "geographic_crs", "metadata", "error", None, None, "nowhere")
<1>1. issue \in CrsIssues(frame, p)
  BY DEF CrsIssues
<1>2. issue \in All(RawIssues(frame, p))
  BY <1>1, RawParts DEF ProfiledIssues
<1>3. issue.code = <<"META", "geographic_crs">> /\ issue.category = "metadata"
  BY DEF Issue
<1>4. issue.code \notin EndpointCodes /\ issue.code # <<"ATTR", "required">>
  BY <1>3 DEF EndpointCodes
<1> HIDE DEF issue
<1>5. CheckName("metadata") \in p.enabled
  BY DEF Counts
<1>6. PICK j \in All(RawIssues(frame, p)) : j.code = <<"META", "geographic_crs">> /\ ~Counts(p, j.code, j.category, j.severity)
  BY <1>2, <1>3, <1>4, <1>5, Harmless DEF Passed
<1>7. j.severity = "error" /\ j.category = "metadata"
  BY <1>6, RawSourced DEF Sourced, Traced
<1> QED BY <1>6, <1>7

\* A layer that passes is sound.
LEMMA PassedIsSound ==
    ASSUME NEW frame, NEW p, Sequences(p), Passed(frame, p)
    PROVE  Sound(frame, p)
<1>1. \A k \in Rows(frame) : At(frame, k) # None
  BY DEF Passed, AuditRaises
<1>2. frame.crs = "none" => Policy.unknownCrs
  BY DEF Passed, Passes, Result
<1>3. \A k \in Rows(frame) : Empty(frame, k) \/ ~Valid(frame, k) =>
          \E d \in Detected(frame, k) : ~Counts(p, <<"GEO", d>>, "geometry", "error")
  BY FlawsCount
<1>4. p.types # {} /\ Counts(p, <<"GEO", "unexpected_type">>, "geometry", "error") => ExpectedTypes(frame, p)
  BY TypesCount
<1>5. \A q \in Pairs(frame) :
          Usable(frame, q[1]) /\ Usable(frame, q[2]) /\ Apart[At(frame, q[1]), At(frame, q[2])] = 0 =>
              \E s \in DuplicateSeverities(frame, p) : ~Counts(p, <<"TOP", "no_duplicate">>, "topology", s)
  BY DuplicatesCount, Zenon DEF Coincide
<1>6. OverlapSeverities(frame, p) # {} =>
          \A q \in Pairs(frame) : (\A t \in OverlapTolerances(p) : q \in Overlapping(frame, t)) =>
              \E s \in OverlapSeverities(frame, p) : ~Counts(p, <<"TOP", "no_overlap">>, "topology", s)
  BY OverlapsCount
<1>7. \A k \in Rows(frame) : \A r \in BrokenRules(frame, p, k) :
          \E q \in BrokenRules(frame, p, k) :
              q.type = r.type /\ ~Counts(p, <<"ATTR", q.type>>, "attribute", q.severity)
  BY CellsCount
<1>8. Counts(p, <<"META", "geographic_crs">>, "metadata", "error") /\ p.projected => frame.crs # "geographic"
  BY CrsCounts
<1> QED BY <1>1, <1>2, <1>3, <1>4, <1>5, <1>6, <1>7, <1>8, Zenon DEF Sound

(***************************************************************************)
(* The lists of a profile                                                  *)
(***************************************************************************)
\* The tolerances of rules are numbers.
Tolerated(rules) == \A k \in DOMAIN rules : "tolerance" \in DOMAIN rules[k] /\ rules[k].tolerance \in Int

\* A profile whose lists are lists.  Files, presets and the automatic profiles give
\* such profiles.
Whole(p) == {"topology", "attributes"} \subseteq DOMAIN p /\ Sequences(p) /\ Tolerated(p.topology)

LEMMA EmptyIsSequence == IsSequence(<<>>) /\ Tolerated(<<>>)
  BY NoBatch DEF Tolerated

LEMMA Listed ==
    ASSUME NEW s, IsSequence(s), NEW t, DOMAIN t = DOMAIN s, t = [k \in DOMAIN s |-> t[k]]
    PROVE  IsSequence(t)
<1>1. Len(s) \in Nat /\ DOMAIN s = 1..Len(s)
  BY DEF IsSequence
<1> QED BY <1>1, Spelled

LEMMA AutoWhole == ASSUME NEW kind PROVE Whole(AutoProfile(kind))
<1> DEFINE g == GenericProfile(kind)
<1>1. g = None \/ (g.topology = <<>> /\ g.attributes = <<>> /\ {"topology", "attributes"} \subseteq DOMAIN g)
  BY DEF GenericProfile, DefaultProfile
<1> DEFINE a == AutoProfile(kind)
<1>2. \/ a = [DefaultProfile EXCEPT !.name = "geometry-cli", !.crsRequired = FALSE]
      \/ g # None /\ a = [g EXCEPT !.preset = None]
      \/ g # None /\ a = g
  BY DEF AutoProfile
<1> HIDE DEF g, a
<1>3. a.topology = <<>> /\ a.attributes = <<>> /\ {"topology", "attributes"} \subseteq DOMAIN a
  BY <1>1, <1>2 DEF DefaultProfile
<1> QED BY <1>3, EmptyIsSequence DEF Whole, Sequences, a

LEMMA DictWhole ==
    ASSUME NEW raw, HasLists(raw)
    PROVE  ProfileFromDict(raw) = None \/ Whole(ProfileFromDict(raw))
<1> DEFINE rules == IF "topology" \in DOMAIN raw THEN raw.topology ELSE <<>>
           gate == IF "gate" \in DOMAIN raw THEN raw.gate ELSE <<>>
           given == [f \in DOMAIN raw \ {"topology", "gate"} |-> raw[f]]
           topology == [k \in DOMAIN rules |-> With(rules[k], DefaultRule)]
           filled == With(gate, DefaultGate)
           default == [DefaultProfile EXCEPT !.name = "", !.topology = topology, !.gate = filled]
           p == With(given, default)
<1>1. ProfileFromDict(raw) \in {p, None}
  BY DEF ProfileFromDict
<1>2. IsSequence(rules)
  BY EmptyIsSequence DEF HasLists
<1>3. IsSequence(topology)
  <2>1. DOMAIN topology = DOMAIN rules /\ topology = [k \in DOMAIN rules |-> topology[k]]
    OBVIOUS
  <2> HIDE DEF topology, rules
  <2> QED BY <1>2, <2>1, Listed
<1>8. Tolerated(topology)
  <2>1. \A k \in DOMAIN rules : "tolerance" \in DOMAIN rules[k] => rules[k].tolerance \in Int
    BY DEF HasLists
  <2> HIDE DEF rules
  <2>2. "tolerance" \in DOMAIN DefaultRule /\ DefaultRule["tolerance"] = 0
    BY DEF DefaultRule
  <2>3. ASSUME NEW k \in DOMAIN rules
        PROVE  "tolerance" \in DOMAIN topology[k] /\ topology[k].tolerance \in Int
    BY <2>1, <2>2, <2>3 DEF With
  <2>4. DOMAIN topology = DOMAIN rules
    OBVIOUS
  <2> HIDE DEF topology
  <2> QED BY <2>3, <2>4 DEF Tolerated
<1>4. "topology" \notin DOMAIN given /\ ("attributes" \in DOMAIN given => given["attributes"] = raw.attributes
                                                                            /\ "attributes" \in DOMAIN raw)
  OBVIOUS
<1> HIDE DEF topology, filled, given
<1>5. /\ {"topology", "attributes"} \subseteq DOMAIN default
      /\ default["topology"] = topology /\ default["attributes"] = <<>>
  BY DEF DefaultProfile
<1> HIDE DEF default
<1>6. /\ DOMAIN p = DOMAIN default
      /\ \A f \in DOMAIN default : p[f] = IF f \in DOMAIN given THEN given[f] ELSE default[f]
  BY DEF With
<1> HIDE DEF p
<1>7. p.topology = topology /\ IsSequence(p.attributes)
  BY <1>4, <1>5, <1>6, EmptyIsSequence DEF HasLists
<1> QED BY <1>1, <1>3, <1>5, <1>6, <1>7, <1>8 DEF Whole, Sequences

LEMMA BindWhole == ASSUME NEW p, Whole(p), NEW layer PROVE Whole(BindPresetLayer(p, layer))
<1> DEFINE bound(r) == [r EXCEPT !.layer = layer, !.reference = IF r.reference = None THEN None ELSE layer]
           topology == [k \in DOMAIN p.topology |-> bound(p.topology[k])]
           b == [p EXCEPT !.topology = topology]
<1>1. BindPresetLayer(p, layer) \in {p, b}
  BY DEF BindPresetLayer
<1>2. IsSequence(topology)
  <2>1. DOMAIN topology = DOMAIN p.topology /\ topology = [k \in DOMAIN p.topology |-> topology[k]]
    OBVIOUS
  <2> HIDE DEF topology
  <2> QED BY <2>1, Listed DEF Whole, Sequences
<1>3. Tolerated(topology)
  BY DEF Whole, Tolerated
<1> HIDE DEF topology
<1>4. Whole(b)
  BY <1>2, <1>3 DEF Whole, Sequences
<1> QED BY <1>1, <1>4

(***************************************************************************)
(* What the command keeps                                                  *)
(***************************************************************************)
\* The profile of a command is whole.
LEMMA ResolvedWhole ==
    ASSUME command \in Scenarios
    PROVE  Resolved = None \/ Whole(Resolved)
<1>1. Chosen = None \/ Whole(Chosen)
  <2>1. command.profile # None => Chosen = ProfileFromDict(command.profile) /\ HasLists(command.profile)
    BY ScenarioAssumption DEF Chosen
  <2>2. \A name : PresetProfile(name) = None \/ Whole(PresetProfile(name))
    <3> SUFFICES ASSUME NEW name PROVE PresetProfile(name) = None \/ Whole(PresetProfile(name))
      OBVIOUS
    <3>1. CASE name \in DOMAIN Builtin
      <4>1. HasLists(Builtin[name])
        BY <3>1, BuiltinAssumption
      <4> QED BY <3>1, <4>1, DictWhole DEF PresetProfile
    <3>2. CASE name \notin DOMAIN Builtin /\ name \in GenericPresets
      <4> DEFINE g == [DefaultProfile EXCEPT !.name = name, !.preset = name, !.crsRequired = FALSE]
      <4>1. g.topology = <<>> /\ g.attributes = <<>> /\ {"topology", "attributes"} \subseteq DOMAIN g
        BY DEF DefaultProfile
      <4>2. Whole(g)
        BY <4>1, EmptyIsSequence DEF Whole, Sequences
      <4> QED BY <3>2, <4>2 DEF PresetProfile
    <3>3. CASE name \notin DOMAIN Builtin /\ name \notin GenericPresets
      BY <3>3 DEF PresetProfile
    <3> QED BY <3>1, <3>2, <3>3
  <2>3. command.profile = None => Chosen = None \/ Chosen = PresetProfile(command.preset) \/ Chosen = AutoProfile(Frame(1).kind)
    BY DEF Chosen
  <2> QED BY <2>1, <2>2, <2>3, DictWhole, AutoWhole
<1>2. Resolved = Chosen \/ (Chosen # None /\ Resolved = BindPresetLayer(Chosen, Frame(1).name))
  BY DEF Resolved
<1> QED BY <1>1, <1>2, BindWhole

\* A layer that the command has passed.
LayerPassed(n) == Passed(Frame(n), LayerProfile(n))

Audited == {"issues", "replace issues", "report", "replace report", "verdict"}

\* The profile is one, and the result and the exit code are those of the audits.
AuditInv ==
    /\ profile = None \/ Whole(profile)
    /\ step = "setup" => current = 1 /\ result = None
    /\ step \in Audited \/ result # None =>
           /\ AuditRaises(Frame(current), LayerProfile(current)) \notin {"AttributeError", "TypeError"}
           /\ result = Result(Frame(current), Reported(Frame(current), LayerProfile(current)))
    /\ worst = 0 => \A n \in DOMAIN Targets : n < current => LayerPassed(n)
    /\ step = "done" /\ exit = 0 => \A n \in DOMAIN Targets : LayerPassed(n)

\* As long as the command and its profile are the same, so is all that is audited.
LEMMA Frozen ==
    ASSUME UNCHANGED <<command, profile>>
    PROVE  /\ Targets' = Targets /\ Policy' = Policy
           /\ \A n : Frame(n)' = Frame(n) /\ LayerProfile(n)' = LayerProfile(n) /\ LayerPassed(n)' = LayerPassed(n)
<1>1. Targets' = Targets /\ Policy' = Policy
  BY DEF Targets, Source, Policy
<1>2. \A n : Frame(n)' = Frame(n) /\ LayerProfile(n)' = LayerProfile(n)
  BY DEF Frame, LayerProfile, Targets, Source
<1>3. \A n : LayerPassed(n)' = LayerPassed(n)
  BY <1>1, <1>2 DEF LayerPassed, Passed
<1> QED BY <1>1, <1>2, <1>3

\* Steps that stay with the layer and its result.
LEMMA StayAudits ==
    ASSUME AuditInv, UNCHANGED <<command, profile, current, result, worst>>, step \in Audited, step' \in Audited
    PROVE  AuditInv'
BY Frozen DEF AuditInv, Audited

\* The next layer, or the end: the exit code is 0 only when the layer passed.
LEMMA ProceedAudits ==
    ASSUME Inv, AuditInv, UNCHANGED <<command, profile>>, NEW code \in 0..2,
           code = 0 => worst = 0 /\ LayerPassed(current), Proceed(code)
    PROVE  AuditInv'
<1>0. PICK k \in Nat \ {0} : Len(Targets) = k /\ DOMAIN Targets = 1..k
  BY TargetsFinite DEF Inv, TypeInv
<1>1. worst' = code /\ result' = None /\ current \in 1..k
  BY <1>0 DEF Proceed, Inv, TypeInv
<1>2. Targets' = Targets /\ \A n : LayerPassed(n)' = LayerPassed(n)
  BY Frozen
<1>3. \/ current < k /\ current' = current + 1 /\ step' = "audit"
      \/ current = k /\ current' = current /\ step' = "done" /\ exit' = code
  BY <1>0, <1>1 DEF Proceed, Exit
<1>4. code = 0 => \A n \in DOMAIN Targets : n <= current => LayerPassed(n)
  BY <1>0, <1>1 DEF AuditInv
<1>5. (worst = 0 => \A n \in DOMAIN Targets : n < current => LayerPassed(n))'
  BY <1>0, <1>1, <1>2, <1>3, <1>4
<1>6. (step = "done" /\ exit = 0 => \A n \in DOMAIN Targets : LayerPassed(n))'
  BY <1>0, <1>1, <1>2, <1>3, <1>4
<1> QED BY <1>1, <1>3, <1>5, <1>6 DEF AuditInv, Audited

\* A stop with another exit code.
LEMMA StopAudits ==
    ASSUME AuditInv, UNCHANGED <<command, profile, current, result, worst>>, step' \in {"done", "traceback", "killed"}, exit' # 0
    PROVE  AuditInv'
BY Frozen DEF AuditInv, Audited

\* A failure gives another exit code.
LEMMA FailureAudits ==
    ASSUME Inv, AuditInv, UNCHANGED <<command, profile>>, Fails \/ Escapes
    PROVE  AuditInv'
<1>1. CASE Escapes
  BY <1>1, StopAudits DEF Escapes
<1>2. CASE Fails /\ Multi
  BY <1>2, ProceedAudits DEF Fails
<1>3. CASE Fails /\ ~Multi
  BY <1>3, StopAudits DEF Fails, Exit
<1> QED BY <1>1, <1>2, <1>3

LEMMA AuditStepKeeps == Inv /\ AuditInv /\ [Next]_vars => AuditInv'
<1> SUFFICES ASSUME Inv, AuditInv, [Next]_vars PROVE AuditInv'
  OBVIOUS
<1>1. CASE UNCHANGED vars
  BY <1>1, Frozen DEF vars, AuditInv
<1>2. CASE Setup
  <2>1. CASE Exit(2) /\ UNCHANGED profile
    BY <1>2, <2>1, StopAudits DEF Setup, Exit
  <2>2. CASE profile' = Resolved /\ step' = "audit"
    <3>1. current' = 1 /\ result' = None /\ Targets' = Targets
      BY <1>2 DEF Setup, AuditInv, Targets, Source
    <3>2. profile' = None \/ Whole(profile')
      BY <2>2, ResolvedWhole DEF Inv, TypeInv
    <3>3. \A n \in DOMAIN Targets : ~(n < 1)
      BY TargetsFinite DEF Inv, TypeInv
    <3> QED BY <2>2, <3>1, <3>2, <3>3 DEF AuditInv, Audited
  <2> QED BY <1>2, <2>1, <2>2 DEF Setup
<1>3. CASE Unreadable
  BY <1>3, StopAudits DEF Unreadable, Exit
<1>4. CASE Audit
  <2> DEFINE frame == Frame(current)
             p == LayerProfile(current)
  <2>1. UNCHANGED <<command, profile>>
    BY <1>4 DEF Audit
  <2>2. CASE Escapes \/ Fails
    BY <2>1, <2>2, FailureAudits
  <2>3. CASE ~(Escapes \/ Fails)
    <3>1. /\ AuditRaises(frame, p) \notin {"AttributeError", "TypeError"}
          /\ result' = Result(frame, Reported(frame, p)) /\ step' = "issues" /\ UNCHANGED <<current, worst, exit>>
      BY <1>4, <2>3 DEF Audit
    <3> QED BY <2>1, <3>1, Frozen DEF AuditInv, Audited
  <2> QED BY <2>2, <2>3
<1>5. CASE AuditFails
  BY <1>5, FailureAudits DEF AuditFails
<1>6. CASE Hint
  BY <1>6, StayAudits DEF Hint, Replacing, Audited
<1>7. CASE Verdict
  <2> DEFINE code == IF Passes(result, Policy) THEN worst ELSE Max({worst, 1})
  <2>1. Proceed(code) /\ UNCHANGED <<command, profile>> /\ step = "verdict"
    BY <1>7 DEF Verdict
  <2>2. code \in 0..2 /\ (code = 0 => worst = 0 /\ Passes(result, Policy))
    BY Worse DEF Inv, TypeInv
  <2> HIDE DEF code
  <2>3. code = 0 => LayerPassed(current)
    BY <2>1, <2>2 DEF AuditInv, Audited, LayerPassed, Passed
  <2> QED BY <2>1, <2>2, <2>3, ProceedAudits
<1>8. CASE Killed
  BY <1>8, StopAudits DEF Killed
<1>9. ASSUME NEW kind \in Kinds, Skip(kind) \/ Publish(kind) PROVE AuditInv'
  BY <1>9, StayAudits DEF Skip, Publish, Replacing, After, Audited, Kinds
<1>10. ASSUME NEW kind \in Kinds, Open(kind) PROVE AuditInv'
  <2>1. CASE Fails
    BY <1>10, <2>1, FailureAudits DEF Open
  <2>2. CASE ~Fails
    BY <1>10, <2>2, StayAudits DEF Open, Audited, Kinds
  <2> QED BY <2>1, <2>2
<1>11. ASSUME NEW kind \in Kinds, WriteFails(kind) PROVE AuditInv'
  BY <1>11, FailureAudits DEF WriteFails
<1> QED BY <1>1, <1>2, <1>3, <1>4, <1>5, <1>6, <1>7, <1>8, <1>9, <1>10, <1>11 DEF Next

\* Given or automatic, the profile of a layer is whole.
LEMMA AutoOrGiven == ASSUME AuditInv, NEW n PROVE Sequences(LayerProfile(n))
  BY AutoWhole DEF AuditInv, LayerProfile, Whole

LEMMA AuditInvImplies == AuditInv => PassedMeansSound
<1> SUFFICES ASSUME AuditInv, step = "done", exit = 0, NEW n \in DOMAIN Targets
             PROVE  Sound(Frame(n), LayerProfile(n))
  BY DEF PassedMeansSound
<1>1. Passed(Frame(n), LayerProfile(n))
  BY DEF AuditInv, LayerPassed
<1> QED BY <1>1, AutoOrGiven, PassedIsSound

LEMMA AuditInit == Init => AuditInv
<1> SUFFICES ASSUME Init PROVE AuditInv
  OBVIOUS
<1>1. \A m \in DOMAIN Targets : ~(m < 1)
  BY InitHolds, TargetsFinite DEF Inv, TypeInv
<1> QED BY <1>1 DEF Init, AuditInv, Audited

\* Exit 0 is honest: of every command on every dataset whose exit code is 0, every
\* layer was audited and has no defect that its profile turns into a failure.
THEOREM PassedLayersSound == Spec => []PassedMeansSound
<1>1. Init => Inv /\ AuditInv
  BY InitHolds, AuditInit
<1>2. Inv /\ AuditInv /\ [Next]_vars => Inv' /\ AuditInv'
  BY StepKeeps, AuditStepKeeps
<1>3. AuditInv => PassedMeansSound
  BY AuditInvImplies
<1> QED BY <1>1, <1>2, <1>3, PTL DEF Spec

(***************************************************************************)
(* The reports of one end                                                  *)
(***************************************************************************)
\* Only rules on dangling ends make their findings.
LEMMA DanglingRule ==
    ASSUME NEW frame, NEW rule, NEW i \in TopologyIssues(frame, rule), i.code = Dangling
    PROVE  rule.type = "no_dangles" /\ i \in EndpointIssues(frame, rule)
<1> DEFINE known == {"no_overlap", "no_gap", "no_duplicate", "minimum_area"}
<1>1. CASE rule.type = "no_overlap"
  <2>1. i \in OverlapIssues(frame, rule.tolerance, rule.severity)
    BY <1>1 DEF TopologyIssues
  <2> QED BY <2>1 DEF OverlapIssues, Issue, Dangling
<1>2. CASE rule.type \in {"no_gap", "minimum_area"}
  <2>1. i \in GapIssues(frame, rule.tolerance, rule.severity) \/ i \in MinimumAreaIssues(frame, rule.minimum, rule.severity)
    BY <1>2 DEF TopologyIssues
  <2> QED BY <2>1, AreaSourced DEF Settled
<1>3. CASE rule.type = "no_duplicate"
  <2>1. i \in DuplicateIssues(frame, rule.tolerance, rule.severity)
    BY <1>3 DEF TopologyIssues
  <2>2. PICK q : i = Issue(<<"TOP", "no_duplicate">>, "duplicate_feature", "topology", rule.severity,
                           q[1], q[2], At(frame, q[1]))
    BY <2>1 DEF DuplicateIssues
  <2> QED BY <2>2 DEF Issue, Dangling
<1>4. CASE rule.type \notin known
  <2>1. PICK index, related, place : i = RuleIssue(rule, index, related, place)
    <3>1. \/ i \in EndpointIssues(frame, rule) \/ i \in OvershootUndershoot(frame, rule)
          \/ i \in AttributeOverlapIssues(frame, rule) \/ i \in FeatureRuleIssues(frame, rule)
      BY <1>4 DEF TopologyIssues
    <3>2. i \in EndpointIssues(frame, rule) => \E index, related, place : i = RuleIssue(rule, index, related, place)
      BY DEF EndpointIssues
    <3>3. i \in OvershootUndershoot(frame, rule) => \E index, related, place : i = RuleIssue(rule, index, related, place)
      BY DEF OvershootUndershoot
    <3>4. i \in AttributeOverlapIssues(frame, rule) => \E index, related, place : i = RuleIssue(rule, index, related, place)
      BY DEF AttributeOverlapIssues
    <3>5. i \in FeatureRuleIssues(frame, rule) => \E index, related, place : i = RuleIssue(rule, index, related, place)
      BY DEF FeatureRuleIssues
    <3> QED BY <3>1, <3>2, <3>3, <3>4, <3>5
  <2>2. i.code = <<"TOP", rule.type>>
    BY <2>1 DEF RuleIssue, Issue
  <2>3. rule.type = "no_dangles"
    BY <2>2 DEF Dangling
  <2> QED BY <2>3 DEF TopologyIssues
<1> QED BY <1>1, <1>2, <1>3, <1>4

\* The rule and the end say all of a finding.
LEMMA EndpointMade ==
    ASSUME NEW frame, NEW rule, NEW i \in EndpointIssues(frame, rule)
    PROVE  i = RuleIssue(rule, i.index, None, i.place)
           /\ \E e \in LineEnds(frame) : i.index = e[1] /\ i.place = End(frame, e)
<1>1. PICK e \in LineEnds(frame) : i = RuleIssue(rule, e[1], None, End(frame, e))
  BY DEF EndpointIssues
<1>2. i.index = e[1] /\ i.place = End(frame, e)
  BY <1>1, RuleMade
<1> QED BY <1>1, <1>2

\* One batch has one report of an end with one code.
LEMMA OneReportPerBatch ==
    ASSUME NEW frame, NEW p, Sequences(p), NEW B \in Range(RawIssues(frame, p)),
           NEW i \in Reports(B), NEW j \in Reports(B), i.code = j.code, SameEnd(i, j)
    PROVE  i = j
<1>0. i \in B /\ j \in B /\ i.code \in EndpointCodes /\ B \subseteq All(RawIssues(frame, p))
  BY DEF Reports, All
<1>3. Traced(frame, p, i) /\ Traced(frame, p, j)
  BY <1>0, RawSourced DEF Sourced
<1>1. CASE i.code = <<"ROAD", "dead_end">>
  <2>1. PICK e : i = DeadEndIssue(frame, e)
    BY <1>1, <1>3 DEF Traced
  <2>2. PICK f : j = DeadEndIssue(frame, f)
    BY <1>1, <1>3 DEF Traced
  <2>3. i.index = e[1] /\ i.place = End(frame, e) /\ j.index = f[1] /\ j.place = End(frame, f)
    BY <2>1, <2>2 DEF DeadEndIssue, Issue
  <2> QED BY <2>1, <2>2, <2>3 DEF DeadEndIssue, SameEnd
<1>2. CASE i.code = Dangling
  <2>1. B \notin Range(Profiled(frame, p))
    <3>1. SUFFICES ASSUME B \in Range(Profiled(frame, p)) PROVE FALSE
      OBVIOUS
    <3>2. i \in ProfiledIssues(frame, p)
      BY <1>0, <3>1, ProfiledParts DEF All
    <3> QED BY <1>2, <3>2, ProfiledSourced DEF Settled
  <2>2. B \in Range(RuleBatches(frame, p, Profiled(frame, p)))
    BY <2>1, RawParts
  <2>3. \/ \A h \in B : \E c : h = AttributeIssue(Required(c), None, "nowhere")
        \/ \E r \in Range(p.topology) : B = TopologyIssues(frame, r)
    <3>1. RuleBatch(frame, p, B)
      BY <2>2, RuleParts
    <3> QED BY <3>1 DEF RuleBatch
  <2>4. ASSUME NEW c, i = AttributeIssue(Required(c), None, "nowhere") PROVE FALSE
    <3>1. i.code = <<"ATTR", "required">>
      BY <2>4 DEF AttributeIssue, Issue, Required
    <3> QED BY <1>2, <3>1 DEF Dangling
  <2>5. PICK r : B = TopologyIssues(frame, r)
    BY <1>0, <2>3, <2>4
  <2>6. i \in EndpointIssues(frame, r) /\ j \in EndpointIssues(frame, r)
    BY <1>0, <1>2, <2>5, DanglingRule
  <2>7. i = RuleIssue(r, i.index, None, i.place) /\ j = RuleIssue(r, j.index, None, j.place)
    BY <2>6, EndpointMade
  <2> QED BY <2>7 DEF SameEnd
<1> QED BY <1>0, <1>1, <1>2 DEF EndpointCodes, Dangling

\* The report i of batch n goes before the report j of batch m.
Ahead(i, n, j, m) == IF i.code = j.code THEN n < m ELSE i.code = Dangling

\* The report i of batch n is the one that its end keeps.
Leads(batches, i, n) ==
    \A m \in DOMAIN batches : \A j \in Reports(batches[m]) : SameEnd(i, j) => ~Ahead(j, m, i, n)

\* The reports that are left are those that lead.
LEMMA MergedReports ==
    ASSUME NEW frame, NEW p, Sequences(p)
    PROVE  LET raw == RawIssues(frame, p) IN
           /\ \A n \in DOMAIN raw : \A i \in Reports(raw[n]) : Leads(raw, i, n) => Merged(frame, p, i) \in All(Merge(frame, p))
           /\ \A h \in All(Merge(frame, p)) : h.code \in EndpointCodes =>
                  \E n \in DOMAIN raw : \E i \in Reports(raw[n]) : Leads(raw, i, n) /\ h = Merged(frame, p, i)
<1> DEFINE raw == RawIssues(frame, p)
           m == Merge(frame, p)
<1> HIDE DEF raw
<1>1. m = [n \in DOMAIN raw |-> (raw[n] \ Reports(raw[n]))
                                    \cup {Merged(frame, p, i) : i \in {j \in Reports(raw[n]) : Leads(raw, j, n)}}]
  BY DEF Merge, MergeRoadEndpoints, raw, Leads, Ahead, Dangling
<1> HIDE DEF m
<1>2. ASSUME NEW n \in DOMAIN raw, NEW i \in Reports(raw[n]), Leads(raw, i, n)
      PROVE  Merged(frame, p, i) \in All(m)
  <2>1. Merged(frame, p, i) \in m[n] /\ n \in DOMAIN m
    BY <1>1, <1>2
  <2> QED BY <2>1 DEF All, Range
<1>3. ASSUME NEW h \in All(m), h.code \in EndpointCodes
      PROVE  \E n \in DOMAIN raw : \E i \in Reports(raw[n]) : Leads(raw, i, n) /\ h = Merged(frame, p, i)
  <2>1. PICK n \in DOMAIN m : h \in m[n]
    BY DEF All, Range
  <2>2. h \notin raw[n] \ Reports(raw[n])
    BY <1>3 DEF Reports
  <2> QED BY <1>1, <2>1, <2>2
<1> QED BY <1>2, <1>3 DEF raw, m

\* Every end that is reported has a report that leads.
LEMMA EndLed ==
    ASSUME NEW raw, IsSequence(raw), NEW l \in DOMAIN raw, NEW h \in Reports(raw[l])
    PROVE  \E n \in DOMAIN raw : \E i \in Reports(raw[n]) : SameEnd(h, i) /\ Leads(raw, i, n)
<1> DEFINE with(code) == {n \in DOMAIN raw : \E i \in Reports(raw[n]) : SameEnd(h, i) /\ i.code = code}
<1>1. DOMAIN raw \subseteq Nat
  BY DEF IsSequence
<1>2. l \in with(h.code)
  BY DEF SameEnd
<1>3. ASSUME NEW code, with(code) # {}, code # Dangling => with(Dangling) = {}
      PROVE  \E n \in DOMAIN raw : \E i \in Reports(raw[n]) : SameEnd(h, i) /\ Leads(raw, i, n)
  <2>1. with(code) \subseteq Nat
    BY <1>1
  <2> HIDE DEF with
  <2>2. PICK n \in with(code) : \A m \in with(code) : n <= m
    BY <1>3, <2>1, Least
  <2> USE DEF with
  <2>3. PICK i \in Reports(raw[n]) : SameEnd(h, i) /\ i.code = code
    OBVIOUS
  <2>4. ASSUME NEW m \in DOMAIN raw, NEW j \in Reports(raw[m]), SameEnd(i, j), Ahead(j, m, i, n) PROVE FALSE
    <3>1. m \in with(j.code)
      BY <2>3, <2>4 DEF SameEnd
    <3>2. CASE j.code = code
      <4>1. n <= m /\ m < n
        BY <2>2, <2>3, <2>4, <3>1, <3>2 DEF Ahead
      <4> QED BY <1>1, <4>1
    <3>3. CASE j.code # code
      BY <1>3, <2>3, <2>4, <3>1, <3>3 DEF Ahead
    <3> QED BY <3>2, <3>3
  <2> QED BY <2>3, <2>4 DEF Leads
<1>4. CASE with(Dangling) # {}
  BY <1>3, <1>4
<1>5. CASE with(Dangling) = {}
  BY <1>2, <1>3, <1>5
<1> QED BY <1>4, <1>5

\* and only one.
LEMMA OneLeads ==
    ASSUME NEW frame, NEW p, Sequences(p), NEW raw, raw = RawIssues(frame, p),
           NEW n \in DOMAIN raw, NEW i \in Reports(raw[n]), Leads(raw, i, n),
           NEW m \in DOMAIN raw, NEW j \in Reports(raw[m]), Leads(raw, j, m), SameEnd(i, j)
    PROVE  i = j
<1>1. DOMAIN raw \subseteq Nat
  BY RawParts DEF IsSequence
<1>2. ~Ahead(j, m, i, n) /\ ~Ahead(i, n, j, m)
  BY DEF Leads, SameEnd
<1>3. i.code \in EndpointCodes /\ j.code \in EndpointCodes
  BY DEF Reports
<1>4. i.code = j.code /\ n = m
  BY <1>1, <1>2, <1>3 DEF Ahead, EndpointCodes, Dangling
<1>5. raw[n] \in Range(raw)
  BY DEF Range
<1> QED BY <1>4, <1>5, OneReportPerBatch

\* What the stages after the checks make of a report that leads.
Descends(frame, p, i, f) == \E a : Identified(frame, p, Merged(frame, p, i), a) /\ f = Final(p, a)

\* They make one finding of it,
LEMMA DescendsOnce ==
    ASSUME NEW frame, NEW p, NEW i, WellMade(i), i.code \in EndpointCodes,
           NEW f, Descends(frame, p, i, f), NEW g, Descends(frame, p, i, g)
    PROVE  f = g
<1> DEFINE m == Merged(frame, p, i)
<1>1. PICK a : Identified(frame, p, m, a) /\ f = Final(p, a)
  BY DEF Descends
<1>2. PICK b : Identified(frame, p, m, b) /\ g = Final(p, b)
  BY DEF Descends
<1>3. m.code \in EndpointCodes
  BY MergedMade
<1> HIDE DEF m
<1>4. <<"ATTR", "required">> \notin EndpointCodes
  BY DEF EndpointCodes
<1>5. Shaped(a) /\ Shaped(b) /\ Same(m, a) /\ Same(m, b)
  BY <1>1, <1>2 DEF Identified
<1>6. a.severity = b.severity
  BY <1>1, <1>2, <1>3, <1>4, <1>5 DEF Identified, Same
<1>7. a.id = b.id /\ a.relatedId = b.relatedId
  BY <1>1, <1>2 DEF Identified
<1>8. a = b
  BY <1>5, <1>6, <1>7 DEF Shaped, Same
<1> QED BY <1>1, <1>2, <1>8

\* with its end and the severity that merging gives.
LEMMA DescendsKeeps ==
    ASSUME NEW frame, NEW p, p.overrides = <<>>, NEW i, WellMade(i), i.code \in EndpointCodes,
           NEW f, Descends(frame, p, i, f)
    PROVE  /\ f.code = i.code /\ f.index = i.index /\ f.place = i.place
           /\ f.severity = Merged(frame, p, i).severity
<1> DEFINE m == Merged(frame, p, i)
<1>1. PICK a : Identified(frame, p, m, a) /\ f = Final(p, a)
  BY DEF Descends
<1>2. m.code = i.code /\ m.index = i.index /\ m.place = i.place
  BY MergedMade
<1> HIDE DEF m
<1>3. <<"ATTR", "required">> \notin EndpointCodes
  BY DEF EndpointCodes
<1>4. Same(m, a) /\ Shaped(a) /\ a.severity = m.severity
  BY <1>1, <1>2, <1>3 DEF Identified, Same
<1>5. Override(p, a) = a.severity
  <2>1. DOMAIN p.overrides = {}
    OBVIOUS
  <2> QED BY <2>1 DEF Override
<1>6. Same(a, f) /\ f.severity = a.severity
  BY <1>1, <1>4, <1>5, FinalMade
<1> QED BY <1>2, <1>4, <1>6 DEF Same, m

\* A report that is left comes from one that leads.
LEMMA ReportTraced ==
    ASSUME NEW frame, NEW p, Sequences(p), NEW f \in Reported(frame, p), f.code \in EndpointCodes
    PROVE  \E n \in DOMAIN RawIssues(frame, p) : \E i \in Reports(RawIssues(frame, p)[n]) :
               Leads(RawIssues(frame, p), i, n) /\ Sourced(frame, p, i) /\ Descends(frame, p, i, f)
<1>1. PICK a \in All(Attached(frame, p)) : Shaped(a) /\ f = Final(p, a)
  BY StageParts
<1>2. a.code = f.code
  BY <1>1, FinalMade DEF Same
<1>3. <<"ATTR", "required">> \notin EndpointCodes
  BY DEF EndpointCodes
<1>4. PICK m \in All(Merge(frame, p)) : Identified(frame, p, m, a)
  BY <1>2, <1>3, StageParts
<1>5. m.code \in EndpointCodes
  BY <1>2, <1>4 DEF Identified, Same
<1> DEFINE raw == RawIssues(frame, p)
<1>6. PICK n \in DOMAIN raw : \E i \in Reports(raw[n]) : Leads(raw, i, n) /\ m = Merged(frame, p, i)
  BY <1>5, MergedReports
<1>7. PICK i \in Reports(raw[n]) : Leads(raw, i, n) /\ m = Merged(frame, p, i)
  BY <1>6
<1>8. i \in All(raw)
  BY DEF Reports, All, Range
<1> HIDE DEF raw
<1>9. Sourced(frame, p, i)
  BY <1>8, RawSourced DEF raw
<1> QED BY <1>1, <1>4, <1>7, <1>9 DEF Descends, raw

\* A report is about an end that its profile reports as not connected.
LEMMA ReportOnEnd ==
    ASSUME NEW frame, NEW p, NEW i, i.code \in EndpointCodes, Sourced(frame, p, i)
    PROVE  /\ CheckName(i.category) = "topology"
           /\ \E e \in UnconnectedEnds(frame, p) : i.index = e[1] /\ i.place = End(frame, e)
           /\ i.severity = "warning" \/ \E r \in DangleRules(frame, p) : i.severity = r.severity
<1> DEFINE open(r) == {e \in LineEnds(frame) : \E j \in EndpointIssues(frame, r) : j.index = e[1] /\ j.place = End(frame, e)}
<1>1. CASE i.code = <<"ROAD", "dead_end">>
  <2>1. RunPreset(frame, p) = "road" /\ \E e \in DeadEnds(frame) : i = DeadEndIssue(frame, e)
    BY <1>1 DEF Sourced, Traced
  <2>2. PICK e \in DeadEnds(frame) : i = DeadEndIssue(frame, e)
    BY <2>1
  <2>3. /\ i.index = e[1] /\ i.place = End(frame, e) /\ i.category = "network" /\ i.severity = "warning"
    BY <2>2 DEF DeadEndIssue, Issue
  <2>4. e \in UnconnectedEnds(frame, p)
    BY <2>1, <2>2 DEF UnconnectedEnds
  <2> QED BY <2>3, <2>4 DEF CheckName
<1>2. CASE i.code = Dangling
  <2>1. ~MetricUnsafe(frame, p) /\ \E r \in LocalRules(frame, p) : r.type = "no_dangles" /\ i \in EndpointIssues(frame, r)
    BY <1>2 DEF Sourced, Traced, Dangling
  <2>2. PICK r \in LocalRules(frame, p) : r.type = "no_dangles" /\ i \in EndpointIssues(frame, r)
    BY <2>1
  <2>3. r \in DangleRules(frame, p)
    BY <2>1, <2>2 DEF DangleRules
  <2>4. PICK e \in LineEnds(frame) : i.index = e[1] /\ i.place = End(frame, e)
    BY <2>2, EndpointMade
  <2>5. e \in open(r)
    BY <2>2, <2>4
  <2>6. open(r) \subseteq UnconnectedEnds(frame, p)
    BY <2>3 DEF UnconnectedEnds
  <2>7. i = RuleIssue(r, i.index, None, i.place)
    BY <2>2, EndpointMade
  <2>8. i.category = "topology" /\ i.severity = r.severity
    BY <2>7 DEF RuleIssue, Issue
  <2> HIDE DEF open
  <2>9. e \in UnconnectedEnds(frame, p)
    BY <2>5, <2>6
  <2>10. CheckName(i.category) = "topology"
    BY <2>8 DEF CheckName
  <2> QED BY <2>3, <2>4, <2>8, <2>9, <2>10
<1> QED BY <1>1, <1>2 DEF EndpointCodes, Dangling

\* A report that leads is left.
LEMMA ReportSurvives ==
    ASSUME NEW frame, NEW p, Sequences(p), "topology" \in p.enabled, NEW n \in DOMAIN RawIssues(frame, p),
           NEW i \in Reports(RawIssues(frame, p)[n]), Leads(RawIssues(frame, p), i, n)
    PROVE  \E f \in Reported(frame, p) : f.code = i.code /\ f.index = i.index /\ f.place = i.place
<1> DEFINE m == Merged(frame, p, i)
<1>1. i \in All(RawIssues(frame, p)) /\ i.code \in EndpointCodes
  BY DEF Reports, All, Range
<1>2. Sourced(frame, p, i)
  BY <1>1, RawSourced
<1>3. m \in All(Merge(frame, p))
  BY MergedReports
<1>4. m.code = i.code /\ m.index = i.index /\ m.place = i.place /\ m.category = i.category
  BY <1>2, MergedMade DEF Sourced
<1> HIDE DEF m
<1>5. PICK a \in All(Attached(frame, p)) : Identified(frame, p, m, a)
  BY <1>3, StageParts
<1>6. Same(m, a) /\ CheckName(a.category) = "topology"
  <2>1. Same(m, a)
    BY <1>5 DEF Identified
  <2>2. CheckName(i.category) = "topology"
    BY <1>1, <1>2, ReportOnEnd
  <2> QED BY <1>4, <2>1, <2>2 DEF Same
<1>7. PICK f \in Reported(frame, p) : Key(f) = Key(a)
  BY <1>6, StageParts
<1> QED BY <1>4, <1>6, <1>7 DEF Key, Same

\* An end that is not connected is reported.
LEMMA UnconnectedReported ==
    ASSUME NEW frame, NEW p, Sequences(p), NEW e \in UnconnectedEnds(frame, p)
    PROVE  \E n \in DOMAIN RawIssues(frame, p) : \E i \in Reports(RawIssues(frame, p)[n]) :
               i.index = e[1] /\ i.place = End(frame, e)
<1> DEFINE raw == RawIssues(frame, p)
<1>1. \E i \in All(raw) : i.code \in EndpointCodes /\ i.index = e[1] /\ i.place = End(frame, e)
  <2>1. CASE RunPreset(frame, p) = "road" /\ e \in DeadEnds(frame)
    <3> DEFINE tolerance == IF MetricUnsafe(frame, p) THEN 0 ELSE p.tolerance
               i == DeadEndIssue(frame, e)
    <3>1. i \in RoadIssues(frame, tolerance)
      BY <2>1, Zenon DEF RoadIssues, DeadEndIssue
    <3>2. i \in PresetIssues(frame, p)
      BY <2>1, <3>1 DEF PresetIssues
    <3>3. i \in All(raw)
      BY <3>2, RawParts DEF ProfiledIssues
    <3>4. i.code = <<"ROAD", "dead_end">> /\ i.index = e[1] /\ i.place = End(frame, e)
      BY DEF DeadEndIssue, Issue
    <3> QED BY <3>3, <3>4 DEF EndpointCodes
  <2>2. CASE ~(RunPreset(frame, p) = "road" /\ e \in DeadEnds(frame))
    <3>1. PICK r \in DangleRules(frame, p) : \E i \in EndpointIssues(frame, r) : i.index = e[1] /\ i.place = End(frame, e)
      BY <2>2 DEF UnconnectedEnds
    <3>2. PICK i \in EndpointIssues(frame, r) : i.index = e[1] /\ i.place = End(frame, e)
      BY <3>1
    <3>3. r \in Range(p.topology) /\ Local(frame, r) /\ r.type = "no_dangles" /\ ~MetricUnsafe(frame, p)
      BY DEF DangleRules, LocalRules
    <3>4. i \in TopologyIssues(frame, r)
      BY <3>3 DEF TopologyIssues
    <3>5. Runs(frame, r)
      BY <3>3 DEF Runs, MissingColumn
    <3>6. i \in All(RuleBatches(frame, p, Profiled(frame, p)))
      BY <3>3, <3>4, <3>5, RuleParts
    <3>7. i \in All(raw)
      BY <3>6, RawParts
    <3>8. i = RuleIssue(r, i.index, None, i.place)
      BY EndpointMade
    <3>9. i.code = <<"TOP", "no_dangles">>
      BY <3>3, <3>8 DEF RuleIssue, Issue
    <3> QED BY <3>2, <3>7, <3>9 DEF EndpointCodes
  <2> QED BY <2>1, <2>2
<1> HIDE DEF raw
<1>2. PICK i \in All(raw) : i.code \in EndpointCodes /\ i.index = e[1] /\ i.place = End(frame, e)
  BY <1>1
<1>3. PICK n \in DOMAIN raw : i \in raw[n]
  BY DEF All, Range
<1>4. i \in Reports(raw[n])
  BY <1>2, <1>3 DEF Reports
<1> QED BY <1>2, <1>4 DEF raw

\* The constants as operators, which the provers take as they are.
Away(place, g) == Distance[place, g]
TailOf(place, g, h) == TailLength[place, g, h]

\* A line that an end crosses is no further from it than the tail is long.
LEMMA TailNear ==
    ASSUME NEW g \in Geometry, Fact[g].type \in Linear, NEW h \in Geometry, Fact[h].type \in Linear,
           NEW n \in {1, 2}, NEW most \in Int, TailOf(Fact[g].ends[n], g, h) \in 1..most
    PROVE  Away(Fact[g].ends[n], h) <= most
<1>1. TailOf(Fact[g].ends[n], g, h) > 0 => Away(Fact[g].ends[n], h) \in 0..TailOf(Fact[g].ends[n], g, h)
  BY TailAssumption, Zenon DEF Away, TailOf
<1> DEFINE t == TailOf(Fact[g].ends[n], g, h)
           a == Away(Fact[g].ends[n], h)
<1> HIDE DEF t, a
<1>2. t \in 1..most /\ (t > 0 => a \in 0..t)
  BY <1>1 DEF t, a
<1>3. a <= most
  BY <1>2
<1> QED BY <1>3 DEF a

\* The nearest line is within the tolerance.
LEMMA NearestIsNear ==
    ASSUME NEW frame, NEW e, NEW tolerance, NEW among, NearestLine(frame, e, tolerance, among) # None
    PROVE  \E k \in among \ {e[1]} : Away(End(frame, e), At(frame, k)) \in 1..tolerance
BY Zenon DEF NearestLine, Away

LEMMA Neighbour ==
    ASSUME NEW frame, NEW p, NEW index, NEW place, NEW k \in Rows(frame) \ {index}, NEW t \in UndershootTolerances(p),
           Away(place, At(frame, k)) <= t
    PROVE  HasNeighbour(frame, p, index, place)
BY Zenon DEF HasNeighbour, Away

\* An end that a rule calls an undershoot or an overshoot has a neighbour.
LEMMA UndershootHasNeighbour ==
    ASSUME NEW frame, \A k \in Rows(frame) : At(frame, k) \in Geometry,
           NEW p, NEW r \in LocalRules(frame, p), r.type = "no_overshoot_undershoot", r.tolerance \in Int,
           NEW j \in OvershootUndershoot(frame, r)
    PROVE  HasNeighbour(frame, p, j.index, j.place)
<1> DEFINE sound == {k \in Lines(frame) : Valid(frame, k)}
           open == {e \in LineEnds(frame) : e[1] \in sound /\ ~Closed(frame, e[1])}
           apart(e) == {k \in sound : ~Meets[At(frame, e[1]), At(frame, k)]}
           tail(e, k) == TailOf(End(frame, e), At(frame, e[1]), At(frame, k))
           off(e, k) == Away(End(frame, e), At(frame, k)) > 0
           nearest(e) == NearestLine(frame, e, r.tolerance, apart(e))
<1>1. OvershootUndershoot(frame, r) =
          {RuleIssue(r, q[1][1], q[2], End(frame, q[1])) :
              q \in {h \in open \X sound : h[2] # h[1][1] /\ tail(h[1], h[2]) \in 1..r.tolerance /\ off(h[1], h[2])}}
          \cup {RuleIssue(r, e[1], nearest(e), End(frame, e)) : e \in {d \in open : nearest(d) # None}}
  BY DEF OvershootUndershoot, TailOf, Away
<1>2. \A e : apart(e) \subseteq sound
  OBVIOUS
<1> HIDE DEF apart, tail, off
<1>3. r.tolerance \in UndershootTolerances(p)
  BY DEF UndershootTolerances, LocalRules
<1>4. sound \subseteq Rows(frame) /\ \A k \in sound : Fact[At(frame, k)].type \in Linear
  BY DEF Lines, Is
<1>5. \A e \in open : e[1] \in sound /\ e[2] \in {1, 2} /\ End(frame, e) = Fact[At(frame, e[1])].ends[e[2]]
  BY DEF LineEnds, End
<1> HIDE DEF sound, open
<1>6. CASE \E q \in open \X sound : /\ q[2] # q[1][1] /\ tail(q[1], q[2]) \in 1..r.tolerance
                                    /\ j = RuleIssue(r, q[1][1], q[2], End(frame, q[1]))
  <2>1. PICK e \in open, k \in sound : k # e[1] /\ tail(e, k) \in 1..r.tolerance /\ j = RuleIssue(r, e[1], k, End(frame, e))
    BY <1>6
  <2>2. j.index = e[1] /\ j.place = End(frame, e)
    BY <2>1, RuleMade
  <2>3. Away(End(frame, e), At(frame, k)) <= r.tolerance
    BY <1>4, <1>5, <2>1, TailNear DEF tail
  <2> QED BY <1>3, <1>4, <2>1, <2>2, <2>3, Neighbour
<1>7. CASE \E e \in open : nearest(e) # None /\ j = RuleIssue(r, e[1], nearest(e), End(frame, e))
  <2>1. PICK e \in open : nearest(e) # None /\ j = RuleIssue(r, e[1], nearest(e), End(frame, e))
    BY <1>7
  <2>2. j.index = e[1] /\ j.place = End(frame, e)
    BY <2>1, RuleMade
  <2>3. PICK k \in apart(e) \ {e[1]} : Away(End(frame, e), At(frame, k)) \in 1..r.tolerance
    BY <2>1, NearestIsNear
  <2>4. Away(End(frame, e), At(frame, k)) <= r.tolerance
    BY <2>3
  <2> QED BY <1>2, <1>3, <1>4, <2>2, <2>3, <2>4, Neighbour
<1> QED BY <1>1, <1>6, <1>7

\* One report is left of those on an end.
LEMMA OneReportLeft ==
    ASSUME NEW frame, NEW p, Sequences(p), p.overrides = <<>>, "topology" \in p.enabled,
           NEW e \in UnconnectedEnds(frame, p)
    PROVE  Cardinality(ReportsOn(Reported(frame, p), frame, e)) = 1
<1> DEFINE raw == RawIssues(frame, p)
           left == ReportsOn(Reported(frame, p), frame, e)
<1>1. IsSequence(raw)
  BY RawParts
<1>2. PICK l \in DOMAIN raw : \E h \in Reports(raw[l]) : h.index = e[1] /\ h.place = End(frame, e)
  BY UnconnectedReported
<1>3. PICK h \in Reports(raw[l]) : h.index = e[1] /\ h.place = End(frame, e)
  BY <1>2
<1>4. \E n \in DOMAIN raw : \E i \in Reports(raw[n]) : SameEnd(h, i) /\ Leads(raw, i, n)
  <2> HIDE DEF raw
  <2> QED BY <1>1, EndLed
<1>5. PICK n \in DOMAIN raw : \E i \in Reports(raw[n]) : SameEnd(h, i) /\ Leads(raw, i, n)
  BY <1>4
<1>6. PICK i \in Reports(raw[n]) : SameEnd(h, i) /\ Leads(raw, i, n)
  BY <1>5
<1>7. PICK f \in Reported(frame, p) : f.code = i.code /\ f.index = i.index /\ f.place = i.place
  BY <1>6, ReportSurvives
<1>8. i.code \in EndpointCodes
  BY DEF Reports
<1>9. f \in left
  BY <1>3, <1>6, <1>7, <1>8 DEF ReportsOn, Reports, SameEnd
<1>10. ASSUME NEW g \in left PROVE g = f
  <2>1. /\ f \in Reported(frame, p) /\ f.code \in EndpointCodes /\ f.index = e[1] /\ f.place = End(frame, e)
        /\ g \in Reported(frame, p) /\ g.code \in EndpointCodes /\ g.index = e[1] /\ g.place = End(frame, e)
    BY <1>9 DEF ReportsOn, Reports
  <2>2. PICK m \in DOMAIN raw : \E j \in Reports(raw[m]) : Leads(raw, j, m) /\ Sourced(frame, p, j) /\ Descends(frame, p, j, f)
    BY <2>1, ReportTraced
  <2>3. PICK j \in Reports(raw[m]) : Leads(raw, j, m) /\ Sourced(frame, p, j) /\ Descends(frame, p, j, f)
    BY <2>2
  <2>4. PICK s \in DOMAIN raw : \E k \in Reports(raw[s]) : Leads(raw, k, s) /\ Sourced(frame, p, k) /\ Descends(frame, p, k, g)
    BY <2>1, ReportTraced
  <2>5. PICK k \in Reports(raw[s]) : Leads(raw, k, s) /\ Sourced(frame, p, k) /\ Descends(frame, p, k, g)
    BY <2>4
  <2>6. /\ WellMade(j) /\ j.code \in EndpointCodes
        /\ WellMade(k) /\ k.code \in EndpointCodes
    BY <2>3, <2>5 DEF Sourced, Reports
  <2>7. f.index = j.index /\ f.place = j.place
    BY <2>3, <2>6, DescendsKeeps
  <2>8. g.index = k.index /\ g.place = k.place
    BY <2>5, <2>6, DescendsKeeps
  <2>9. SameEnd(j, k)
    BY <2>1, <2>7, <2>8 DEF SameEnd
  <2>10. j = k
    <3> HIDE DEF raw
    <3> QED BY <2>3, <2>5, <2>9, OneLeads DEF raw
  <2> QED BY <2>3, <2>5, <2>6, <2>10, DescendsOnce
<1> HIDE DEF left
<1>11. left = {f}
  BY <1>9, <1>10
<1>12. Cardinality(left) = 1
  BY <1>11, FS_Singleton
<1> QED BY <1>12 DEF left

\* A report is about an unconnected end and graded by what lies near it.
LEMMA ReportGraded ==
    ASSUME NEW frame, \A k \in Rows(frame) : At(frame, k) \in Geometry,
           NEW p, Sequences(p), Tolerated(p.topology), p.overrides = <<>>,
           NEW f \in Reports(Reported(frame, p))
    PROVE  /\ \E e \in UnconnectedEnds(frame, p) : f.index = e[1] /\ f.place = End(frame, e)
           /\ GradesRoadEnds(p) /\ ~HasNeighbour(frame, p, f.index, f.place) => f.severity = "info"
           /\ f.severity = "info" /\ (\A r \in DangleRules(frame, p) : r.severity # "info") =>
                  /\ ~HasNeighbour(frame, p, f.index, f.place)
                  /\ \A j \in Reported(frame, p) : j.code = <<"TOP", "no_overshoot_undershoot">> =>
                         ~(j.index = f.index /\ j.place = f.place)
<1> DEFINE raw == RawIssues(frame, p)
<1>1. f \in Reported(frame, p) /\ f.code \in EndpointCodes
  BY DEF Reports
<1>2. PICK n \in DOMAIN raw : \E i \in Reports(raw[n]) : Sourced(frame, p, i) /\ Descends(frame, p, i, f)
  BY <1>1, ReportTraced
<1>3. PICK i \in Reports(raw[n]) : Sourced(frame, p, i) /\ Descends(frame, p, i, f)
  BY <1>2
<1>4. WellMade(i) /\ i.code \in EndpointCodes
  BY <1>3 DEF Sourced, Reports
<1>5. f.index = i.index /\ f.place = i.place /\ f.severity = Merged(frame, p, i).severity
  BY <1>3, <1>4, DescendsKeeps
<1> DEFINE near == HasNeighbour(frame, p, i.index, i.place)
           grades == GradesRoadEnds(p)
<1>6. f.severity = IF grades /\ ~near THEN "info" ELSE i.severity
  BY <1>4, <1>5 DEF Merged, WellMade
<1> HIDE DEF near, grades
<1>7. /\ \E e \in UnconnectedEnds(frame, p) : i.index = e[1] /\ i.place = End(frame, e)
      /\ i.severity = "warning" \/ \E r \in DangleRules(frame, p) : i.severity = r.severity
  BY <1>3, <1>4, ReportOnEnd
<1>8. f.severity = "info" /\ (\A r \in DangleRules(frame, p) : r.severity # "info") => ~near
  BY <1>6, <1>7
<1>9. ASSUME NEW j \in Reported(frame, p), j.code = <<"TOP", "no_overshoot_undershoot">>
      PROVE  HasNeighbour(frame, p, j.index, j.place)
  <2>1. PICK a \in All(Attached(frame, p)) : Shaped(a) /\ j = Final(p, a)
    BY StageParts
  <2>2. Same(a, j)
    BY <2>1, FinalMade
  <2>3. <<"ATTR", "required">> # j.code /\ j.code \notin EndpointCodes
    BY <1>9 DEF EndpointCodes
  <2>4. PICK m \in All(Merge(frame, p)) : Identified(frame, p, m, a)
    BY <2>2, <2>3, StageParts DEF Same
  <2>5. m.code = j.code /\ m.index = j.index /\ m.place = j.place
    BY <2>2, <2>4 DEF Identified, Same
  <2>6. m \in All(RawIssues(frame, p))
    BY <2>3, <2>5, MergeParts
  <2>7. Traced(frame, p, m)
    BY <2>6, RawSourced DEF Sourced
  <2>8. PICK r \in LocalRules(frame, p) : r.type = "no_overshoot_undershoot" /\ m \in OvershootUndershoot(frame, r)
    BY <1>9, <2>5, <2>7 DEF Traced
  <2>9. r.tolerance \in Int
    BY DEF LocalRules, Range, Tolerated
  <2>10. HasNeighbour(frame, p, m.index, m.place)
    BY <2>8, <2>9, UndershootHasNeighbour
  <2> QED BY <2>5, <2>10
<1>10. ASSUME ~near, NEW j \in Reported(frame, p), j.code = <<"TOP", "no_overshoot_undershoot">>
       PROVE  ~(j.index = f.index /\ j.place = f.place)
  BY <1>5, <1>9, <1>10 DEF near
<1> QED BY <1>5, <1>6, <1>7, <1>8, <1>10 DEF near, grades

LEMMA EndpointsHold == Inv /\ AuditInv => EndpointsReportedOnce
<1> DEFINE frame == Frame(current)
           p == LayerProfile(current)
<1> SUFFICES ASSUME Inv, AuditInv, result # None, p.overrides = <<>>, "topology" \in p.enabled
             PROVE  /\ \A e \in UnconnectedEnds(frame, p) : Cardinality(ReportsOn(result.issues, frame, e)) = 1
                    /\ \A i \in Reports(result.issues) :
                           /\ \E e \in UnconnectedEnds(frame, p) : i.index = e[1] /\ i.place = End(frame, e)
                           /\ GradesRoadEnds(p) /\ ~HasNeighbour(frame, p, i.index, i.place) => i.severity = "info"
                           /\ i.severity = "info" /\ (\A r \in DangleRules(frame, p) : r.severity # "info") =>
                                  /\ ~HasNeighbour(frame, p, i.index, i.place)
                                  /\ \A j \in result.issues : j.code = <<"TOP", "no_overshoot_undershoot">> =>
                                         ~(j.index = i.index /\ j.place = i.place)
  BY Zenon DEF EndpointsReportedOnce
<1>1. /\ AuditRaises(frame, p) \notin {"AttributeError", "TypeError"}
      /\ result.issues = Reported(frame, p)
  BY DEF AuditInv, Result
<1>2. Sequences(p) /\ Tolerated(p.topology)
  BY AutoWhole DEF AuditInv, LayerProfile, Whole
<1>3. \A k \in Rows(frame) : At(frame, k) \in Geometry
  <2>1. \A k \in Rows(frame) : At(frame, k) # None
    BY <1>1 DEF AuditRaises
  <2>2. Targets[current] \in DOMAIN command.source /\ command \in Scenarios
    BY ScenarioAssumption DEF Inv, TypeInv, Targets, Source
  <2>3. \A k \in Rows(frame) : At(frame, k) \in Geometry \cup {None}
    BY <2>2, ScenarioAssumption DEF Frame, Source
  <2> QED BY <2>1, <2>3
<1> HIDE DEF frame, p
<1>4. \A e \in UnconnectedEnds(frame, p) : Cardinality(ReportsOn(result.issues, frame, e)) = 1
  BY <1>1, <1>2, OneReportLeft
<1>5. ASSUME NEW i \in Reports(result.issues)
      PROVE  /\ \E e \in UnconnectedEnds(frame, p) : i.index = e[1] /\ i.place = End(frame, e)
             /\ GradesRoadEnds(p) /\ ~HasNeighbour(frame, p, i.index, i.place) => i.severity = "info"
             /\ i.severity = "info" /\ (\A r \in DangleRules(frame, p) : r.severity # "info") =>
                    /\ ~HasNeighbour(frame, p, i.index, i.place)
                    /\ \A j \in result.issues : j.code = <<"TOP", "no_overshoot_undershoot">> =>
                           ~(j.index = i.index /\ j.place = i.place)
  BY <1>1, <1>2, <1>3, ReportGraded
<1> QED BY <1>4, <1>5

\* Of the reports on an end that is not connected exactly one is left, for every
\* command, dataset and profile without overrides; it is a hint only where nothing
\* lies near the end, and then no rule calls the end an undershoot.
THEOREM EndsReportedOnce == Spec => []EndpointsReportedOnce
<1>1. Init => Inv /\ AuditInv
  BY InitHolds, AuditInit
<1>2. Inv /\ AuditInv /\ [Next]_vars => Inv' /\ AuditInv'
  BY StepKeeps, AuditStepKeeps
<1>3. Inv /\ AuditInv => EndpointsReportedOnce
  BY EndpointsHold
<1> QED BY <1>1, <1>2, <1>3, PTL DEF Spec
=============================================================================
