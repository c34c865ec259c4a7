------------------------- MODULE Calibration_proofs -------------------------
(***************************************************************************)
(* Proofs about Calibration for every set of runs, revisions, footprints   *)
(* and hosts.  An install that nothing came in between holds its record    *)
(* file alone from its deployment on (Undisturbed), so that what it        *)
(* publishes names the job; a sample taken while the record names the job  *)
(* then measures what it is filed under.                                   *)
(***************************************************************************)
EXTENDS Calibration, Footprints_proofs

Marks == {Absent, Blank, Torn}

LEMMA Marked ==
  /\ \A m \in Manifests : m \notin Marks
  /\ \A m \in Rings : m \notin Marks
  /\ Absent # Blank /\ Absent # Torn /\ Blank # Torn
  BY DamageDistinct DEF Marks

LEMMA NothingApart == Nothing \notin Manifests /\ Revs \subseteq Manifests
  BY ManifestsDistinct DEF Manifests

-----------------------------------------------------------------------------
(* The rings.                                                              *)

LEMMA LastOf ==
  ASSUME NEW S, NEW s \in Seq(S), NEW n \in Nat \ {0}
  PROVE  /\ Last(s, n) \in Seq(S) /\ Len(Last(s, n)) <= n
         /\ \A i \in 1..Len(Last(s, n)) : \E j \in 1..Len(s) : Last(s, n)[i] = s[j]
<1>1. CASE Len(s) <= n
  BY <1>1 DEF Last
<1>2. CASE ~(Len(s) <= n)
  <2> DEFINE k == Len(s) - n + 1
  <2>1. k \in 1..Len(s) /\ Len(s) \in Nat /\ Last(s, n) = SubSeq(s, k, Len(s))
    BY <1>2 DEF Last
  <2>2. SubSeq(s, k, Len(s)) \in Seq(S) /\ Len(SubSeq(s, k, Len(s))) = n
    BY <1>2
  <2>3. \A i \in 1..n : SubSeq(s, k, Len(s))[i] = s[k + i - 1] /\ k + i - 1 \in 1..Len(s)
    BY <1>2
  <2>4. ASSUME NEW i \in 1..n PROVE \E j \in 1..Len(s) : Last(s, n)[i] = s[j]
    <3>1. Last(s, n)[i] = s[k + i - 1] /\ k + i - 1 \in 1..Len(s)
      BY <2>1, <2>3
    <3> HIDE DEF k
    <3> QED
      BY <3>1
  <2>5. Last(s, n) \in Seq(S) /\ Len(Last(s, n)) = n
    BY <2>1, <2>2
  <2> HIDE DEF k
  <2> QED
    BY <2>4, <2>5
<1> QED
  BY <1>1, <1>2

\* Adding a good sample to good rings makes good rings.
LEMMA AddGood ==
  ASSUME NEW all \in Rings, Good(all), NEW r \in Revs, NEW s \in Samples,
         s.source = "health" /\ s.host = Here /\ s.sure => s.mb \in Footprint[r]
  PROVE  Add(all, r, s) \in Rings /\ Good(Add(all, r, s))
<1> DEFINE q == Append(all[r], s)
           n == Last(q, RingSize)
           GoodSample(x, p) ==
             x.source = "health" /\ x.host = Here /\ x.sure => x.mb \in Footprint[p]
<1>1. all[r] \in Seq(Samples) /\ q \in Seq(Samples)
  BY DEF Rings
<1>2. \A j \in 1..Len(all[r]) : GoodSample(all[r][j], r)
  BY DEF Good
<1>3. \A j \in 1..Len(q) : GoodSample(q[j], r)
  <2> SUFFICES ASSUME NEW j \in 1..Len(q) PROVE GoodSample(q[j], r)
    OBVIOUS
  <2>1. CASE j = Len(all[r]) + 1
    <3>1. q[j] = s
      BY <1>1, <2>1
    <3> QED
      BY <3>1
  <2>2. CASE j \in 1..Len(all[r])
    <3>1. q[j] = all[r][j]
      BY <1>1, <2>2
    <3> QED
      BY <1>2, <2>2, <3>1
  <2> QED
    BY <1>1, <2>1, <2>2
<1>4. /\ n \in Seq(Samples) /\ Len(n) <= RingSize
      /\ \A i \in 1..Len(n) : \E j \in 1..Len(q) : n[i] = q[j]
  <2> HIDE DEF q
  <2>1. q \in Seq(Samples) /\ RingSize \in Nat \ {0}
    BY <1>1, RingSizePositive
  <2> QED
    BY <2>1, LastOf
<1>5. \A i \in 1..Len(n) : GoodSample(n[i], r)
  <2> HIDE DEF GoodSample, n, q
  <2> QED
    BY <1>3, <1>4
<1>6. Add(all, r, s) = [all EXCEPT ![r] = n]
  BY DEF Add
<1>7. \A p \in Revs : Add(all, r, s)[p] = IF p = r THEN n ELSE all[p]
  BY <1>6 DEF Rings
<1>8. Add(all, r, s) \in Rings
  BY <1>4, <1>6 DEF Rings
<1> SUFFICES ASSUME NEW p \in Revs
             PROVE  /\ Len(Add(all, r, s)[p]) <= RingSize
                    /\ \A i \in 1..Len(Add(all, r, s)[p]) :
                         GoodSample(Add(all, r, s)[p][i], p)
  BY <1>8 DEF Good
<1>9. CASE p = r
  BY <1>4, <1>5, <1>7, <1>9
<1>10. CASE p # r
  BY <1>7, <1>10 DEF Good
<1> QED
  BY <1>9, <1>10

LEMMA AddIsRings ==
  ASSUME NEW all \in Rings, NEW r \in Revs, NEW s \in Samples
  PROVE  Add(all, r, s) \in Rings
<1> DEFINE q == Append(all[r], s)
<1>1. q \in Seq(Samples) /\ RingSize \in Nat \ {0}
  BY RingSizePositive DEF Rings
<1>2. Last(q, RingSize) \in Seq(Samples)
  <2> HIDE DEF q
  <2> QED
    BY <1>1, LastOf
<1> QED
  BY <1>2 DEF Add, Rings

LEMMA NoRingsGood == NoRings \in Rings /\ Good(NoRings)
  BY RingSizePositive DEF NoRings, Rings, Good

-----------------------------------------------------------------------------
(* Types.                                                                  *)

\* Which command is where, and what it has by then.
Staged ==
  \A c \in Clis :
    /\ pc[c] \in {"deploy", "digest", "open", "write", "replace"} => kind[c] \in Installs
    /\ pc[c] = "lock" => kind[c] \in Installs \union {"unload"}
    /\ pc[c] = "health" => kind[c] \in Installs \union {"start"}
    /\ kind[c] \in Installs => man[c] \in Manifests
    /\ pc[c] = "health" /\ kind[c] \in Installs => job # Nothing
    /\ pc[c] \in {"digest", "open", "write", "replace", "sample", "measure"} => job # Nothing
    /\ pc[c] \in {"measure", "collect", "open_ring", "write_ring", "replace_ring"}
         => key[c] \in Revs
    /\ recFd[c] # "none" => pc[c] = "write"
    /\ ringFd[c] # "none" => pc[c] = "write_ring"

LEMMA ReadRecordTyped ==
  ASSUME TypeOK PROVE ReadRecord \in Manifests \union {Nothing}
  BY DEF ReadRecord

LEMMA ReadRingsTyped == ReadRings \in Rings
  BY NoRingsGood DEF ReadRings

LEMMA OverRecord ==
  ASSUME NEW x, NEW m \in Manifests, NEW y \in Record!Over(x, m)
  PROVE  y \in Manifests \union {Absent, Blank, Torn}
  BY DEF Record!Over

LEMMA OverRing ==
  ASSUME NEW x, NEW m \in Rings, NEW y \in Ring!Over(x, m)
  PROVE  y \in Rings \union {Absent, Blank, Torn}
  BY DEF Ring!Over

LEMMA ExitTyped ==
  ASSUME RunsOK, NEW c \in Clis, Exit(c)
  PROVE  RunsOK'
  BY NoRingsGood DEF RunsOK, Exit, Goto, Phases

LEMMA RunsTyped ==
  ASSUME TypeOK, Staged, [Next]_vars
  PROVE  RunsOK'
<1> USE DEF Goto
<1>1. ASSUME NEW c \in Clis, NEW k \in Kinds, Begin(c, k) PROVE RunsOK'
  <2>1. Requested(k) \in Manifests \union {Nothing}
    BY NothingApart DEF Requested, TypeOK, Manifests
  <2>2. /\ pc' \in [Clis -> Phases] /\ kind' \in [Clis -> Kinds \union {"none"}]
        /\ man' \in [Clis -> Manifests \union {Nothing}]
    BY <1>1, <2>1 DEF Begin, TypeOK, RunsOK, Phases
  <2>3. /\ UNCHANGED <<key, mb, rings, alone>> /\ sure' \in [Clis -> BOOLEAN]
    BY <1>1 DEF Begin, TypeOK, RunsOK
  <2> QED
    BY <2>2, <2>3 DEF TypeOK, RunsOK
<1>2. ASSUME NEW c \in Clis, AcquireLock(c) \/ Deploy(c) \/ BecomeHealthy(c) PROVE RunsOK'
  <2>1. CASE AcquireLock(c)
    BY <2>1 DEF AcquireLock, runVars, TypeOK, RunsOK, Phases
  <2>2. CASE Deploy(c)
    BY <2>2 DEF Deploy, runVars, TypeOK, RunsOK, Phases
  <2>3. CASE BecomeHealthy(c)
    BY <2>3 DEF BecomeHealthy, runVars, TypeOK, RunsOK, Phases
  <2> QED BY <1>2, <2>1, <2>2, <2>3
<1>3. ASSUME NEW c \in Clis, Digest(c) PROVE RunsOK'
  BY <1>3, NothingApart DEF Digest, TypeOK, RunsOK, Phases
<1>4. ASSUME NEW c \in Clis, OpenRecord(c) \/ WriteRecord(c) \/ ReplaceRecord(c) PROVE RunsOK'
  BY <1>4 DEF OpenRecord, WriteRecord, ReplaceRecord, runVars, TypeOK, RunsOK, Phases
<1>5. ASSUME NEW c \in Clis, Unload(c) PROVE RunsOK'
  BY <1>5, WeightsAreNat DEF Unload, TypeOK, RunsOK, Phases
<1>6. ASSUME NEW c \in Clis, ReadKey(c) PROVE RunsOK'
  BY <1>6 DEF ReadKey, TypeOK, RunsOK, Phases
<1>7. ASSUME NEW c \in Clis, Measure(c) PROVE RunsOK'
  <2>1. job \in Manifests
    BY <1>7 DEF Measure, Staged, TypeOK
  <2>2. Footprint[job] \subseteq Nat /\ Siblings \subseteq Nat
    BY <2>1, WeightsAreNat
  <2>3. PICK n \in Footprint[job], m \in Siblings : mb' = [mb EXCEPT ![c] = n + m]
    BY <1>7 DEF Measure
  <2>4. n + m \in Nat
    BY <2>2
  <2> QED
    BY <1>7, <2>3, <2>4 DEF Measure, TypeOK, RunsOK, Phases
<1>8. ASSUME NEW c \in Clis, Collect(c) PROVE RunsOK'
  <2>1. SampleOf(c) \in Samples /\ key[c] \in Revs
    BY <1>8, HereIsHost DEF Collect, SampleOf, Samples, Staged, TypeOK, RunsOK
  <2>2. Add(ReadRings, key[c], SampleOf(c)) \in Rings
    BY <2>1, ReadRingsTyped, AddIsRings
  <2> QED
    BY <1>8, <2>2 DEF Collect, TypeOK, RunsOK, Phases
<1>9. ASSUME NEW c \in Clis, OpenRings(c) \/ WriteRings(c) PROVE RunsOK'
  BY <1>9 DEF OpenRings, WriteRings, runVars, TypeOK, RunsOK, Phases
<1>10. ASSUME NEW c \in Clis, ReplaceRings(c) \/ End(c) PROVE RunsOK'
  BY <1>10, ExitTyped DEF ReplaceRings, End, TypeOK
<1>11. CASE Edit
  BY <1>11 DEF Edit, runVars, TypeOK, RunsOK
<1>12. CASE UNCHANGED vars
  BY <1>12 DEF vars, runVars, TypeOK, RunsOK
<1> QED
  BY <1>1, <1>2, <1>3, <1>4, <1>5, <1>6, <1>7, <1>8, <1>9, <1>10, <1>11, <1>12
     DEF Next, Run

FdNames == {"none", "temp", "published", "unlinked"}

\* A step that leaves the files alone, or one step of their writers.
LEMMA FileSteps ==
  ASSUME Next
  PROVE  /\ \/ UNCHANGED recVars
            \/ \E c \in Clis : OpenRecord(c) \/ WriteRecord(c) \/ ReplaceRecord(c) \/ End(c)
         /\ \/ UNCHANGED ringVars
            \/ \E c \in Clis : OpenRings(c) \/ WriteRings(c) \/ ReplaceRings(c) \/ End(c)
BY DEF Next, Run, Edit, Begin, AcquireLock, Deploy, BecomeHealthy, Digest, OpenRecord,
   WriteRecord, ReplaceRecord, Unload, ReadKey, Measure, Collect, OpenRings, WriteRings,
   ReplaceRings

LEMMA FilesTyped ==
  ASSUME TypeOK, Staged, [Next]_vars
  PROVE  FilesOK'
<1> SUFFICES ASSUME Next PROVE FilesOK'
  BY DEF vars, recVars, ringVars, TypeOK, FilesOK, Record!FdOK, Ring!FdOK
<1>1. /\ rec' \in Manifests \union {Absent, Blank, Torn}
      /\ recTmp' \in Manifests \union {Absent, Blank, Torn}
      /\ Record!FdOK'
  <2>1. CASE UNCHANGED recVars
    BY <2>1 DEF recVars, TypeOK, FilesOK, Record!FdOK
  <2>2. ASSUME NEW c \in Clis, OpenRecord(c) PROVE <1>1!1 /\ <1>1!2 /\ <1>1!3
    BY <2>2 DEF OpenRecord, Record!Open, TypeOK, FilesOK, Record!FdOK
  <2>3. ASSUME NEW c \in Clis, WriteRecord(c) PROVE <1>1!1 /\ <1>1!2 /\ <1>1!3
    <3>1. man[c] \in Manifests
      BY <2>3 DEF WriteRecord, Staged
    <3> QED
      BY <2>3, <3>1, OverRecord DEF WriteRecord, Record!Write, TypeOK, FilesOK, Record!FdOK
  <2>4. ASSUME NEW c \in Clis, ReplaceRecord(c) PROVE <1>1!1 /\ <1>1!2 /\ <1>1!3
    BY <2>4 DEF ReplaceRecord, Record!Replace, Record!Renamed, TypeOK, FilesOK, Record!FdOK
  <2>5. ASSUME NEW c \in Clis, End(c) PROVE <1>1!1 /\ <1>1!2 /\ <1>1!3
    BY <2>5 DEF End, Record!Close, TypeOK, FilesOK, Record!FdOK
  <2> QED
    BY <2>1, <2>2, <2>3, <2>4, <2>5, FileSteps
<1>2. /\ ring' \in Rings \union {Absent, Blank, Torn}
      /\ ringTmp' \in Rings \union {Absent, Blank, Torn}
      /\ Ring!FdOK'
  <2>1. CASE UNCHANGED ringVars
    BY <2>1 DEF ringVars, TypeOK, FilesOK, Ring!FdOK
  <2>2. ASSUME NEW c \in Clis, OpenRings(c) PROVE <1>2!1 /\ <1>2!2 /\ <1>2!3
    BY <2>2 DEF OpenRings, Ring!Open, TypeOK, FilesOK, Ring!FdOK
  <2>3. ASSUME NEW c \in Clis, WriteRings(c) PROVE <1>2!1 /\ <1>2!2 /\ <1>2!3
    <3>1. rings[c] \in Rings
      BY <2>3 DEF TypeOK, RunsOK
    <3> QED
      BY <2>3, <3>1, OverRing DEF WriteRings, Ring!Write, TypeOK, FilesOK, Ring!FdOK
  <2>4. ASSUME NEW c \in Clis, ReplaceRings(c) PROVE <1>2!1 /\ <1>2!2 /\ <1>2!3
    BY <2>4 DEF ReplaceRings, Ring!Replace, Ring!Renamed, TypeOK, FilesOK, Ring!FdOK
  <2>5. ASSUME NEW c \in Clis, End(c) PROVE <1>2!1 /\ <1>2!2 /\ <1>2!3
    BY <2>5 DEF End, Ring!Close, TypeOK, FilesOK, Ring!FdOK
  <2> QED
    BY <2>1, <2>2, <2>3, <2>4, <2>5, FileSteps
<1> QED
  BY <1>1, <1>2 DEF FilesOK

SharedOK ==
  /\ file \in Revs /\ job \in Manifests \union {Nothing}
  /\ lock \in Clis \union {Nobody} /\ faithful \in BOOLEAN
  /\ \A c \in Clis : lock = c => pc[c] \in {"deploy", "health", "unload"}

LEMMA SharedTyped ==
  ASSUME TypeOK, Staged, [Next]_vars
  PROVE  SharedOK'
<1> SharedOK /\ RunsOK
  BY DEF TypeOK, SharedOK
<1> USE DEF SharedOK, RunsOK, Goto, Unlock
<1>1. ASSUME NEW c \in Clis, NEW k \in Kinds, Begin(c, k) PROVE SharedOK'
  BY <1>1 DEF Begin
<1>2. ASSUME NEW c \in Clis, AcquireLock(c) PROVE SharedOK'
  BY <1>2 DEF AcquireLock
<1>3. ASSUME NEW c \in Clis, Deploy(c) PROVE SharedOK'
  BY <1>3 DEF Deploy
<1>4. ASSUME NEW c \in Clis, BecomeHealthy(c) \/ Unload(c) PROVE SharedOK'
  BY <1>4, NobodyIsNoCli DEF BecomeHealthy, Unload
<1>5. ASSUME NEW c \in Clis,
             Digest(c) \/ OpenRecord(c) \/ WriteRecord(c) \/ ReplaceRecord(c) \/ ReadKey(c)
      PROVE  SharedOK'
  BY <1>5 DEF Digest, OpenRecord, WriteRecord, ReplaceRecord, ReadKey
<1>6. ASSUME NEW c \in Clis, Measure(c) \/ Collect(c) \/ OpenRings(c) \/ WriteRings(c)
      PROVE  SharedOK'
  BY <1>6 DEF Measure, Collect, OpenRings, WriteRings
<1>7. ASSUME NEW c \in Clis, ReplaceRings(c) \/ End(c) PROVE SharedOK'
  BY <1>7, NobodyIsNoCli DEF ReplaceRings, End, Exit
<1>8. CASE Edit
  BY <1>8 DEF Edit
<1>9. CASE UNCHANGED vars
  BY <1>9 DEF vars
<1> QED
  BY <1>1, <1>2, <1>3, <1>4, <1>5, <1>6, <1>7, <1>8, <1>9 DEF Next, Run

\* What a step leaves of another run's state.
LEMMA OthersStay ==
  ASSUME TypeOK, NEW c \in Clis, Run(c), NEW d \in Clis, d # c
  PROVE  /\ pc'[d] = pc[d] /\ kind'[d] = kind[d] /\ man'[d] = man[d] /\ key'[d] = key[d]
         /\ mb'[d] = mb[d] /\ rings'[d] = rings[d]
         /\ recFd'[d] # "none" => recFd[d] # "none"
         /\ ringFd'[d] # "none" => ringFd[d] # "none"
<1> USE DEF TypeOK, RunsOK, FilesOK, Record!FdOK, Ring!FdOK, Goto
<1>1. CASE \E k \in Kinds : Begin(c, k)
  BY <1>1 DEF Begin, recVars, ringVars
<1>2. CASE AcquireLock(c) \/ Deploy(c) \/ BecomeHealthy(c) \/ Digest(c)
  BY <1>2 DEF AcquireLock, Deploy, BecomeHealthy, Digest, runVars, recVars, ringVars
<1>3. CASE OpenRecord(c) \/ WriteRecord(c) \/ ReplaceRecord(c)
  BY <1>3 DEF OpenRecord, WriteRecord, ReplaceRecord, runVars, ringVars, Record!Open,
     Record!Write, Record!Replace, Record!Renamed
<1>4. CASE Unload(c) \/ ReadKey(c) \/ Measure(c) \/ Collect(c)
  BY <1>4 DEF Unload, ReadKey, Measure, Collect, recVars, ringVars
<1>5. CASE OpenRings(c) \/ WriteRings(c)
  BY <1>5 DEF OpenRings, WriteRings, runVars, recVars, Ring!Open, Ring!Write
<1>6. CASE ReplaceRings(c)
  BY <1>6 DEF ReplaceRings, Exit, recVars, Ring!Replace, Ring!Renamed
<1>7. CASE End(c)
  BY <1>7 DEF End, Exit, Record!Close, Ring!Close
<1> QED
  BY <1>1, <1>2, <1>3, <1>4, <1>5, <1>6, <1>7 DEF Run

\* A job is never taken back.
LEMMA JobStays ==
  ASSUME TypeOK, Staged, NEW c \in Clis, Run(c)
  PROVE  job # Nothing => job' # Nothing
BY NothingApart, ManifestsDistinct DEF Staged, Run, Begin, AcquireLock, Deploy,
   BecomeHealthy, Digest, OpenRecord, WriteRecord, ReplaceRecord, Unload, ReadKey, Measure,
   Collect, OpenRings, WriteRings, ReplaceRings, End, Manifests

\* The stage of the run that makes the step.
StagedAt(c) ==
  /\ pc[c] \in {"deploy", "digest", "open", "write", "replace"} => kind[c] \in Installs
  /\ pc[c] = "lock" => kind[c] \in Installs \union {"unload"}
  /\ pc[c] = "health" => kind[c] \in Installs \union {"start"}
  /\ kind[c] \in Installs => man[c] \in Manifests
  /\ pc[c] = "health" /\ kind[c] \in Installs => job # Nothing
  /\ pc[c] \in {"digest", "open", "write", "replace", "sample", "measure"} => job # Nothing
  /\ pc[c] \in {"measure", "collect", "open_ring", "write_ring", "replace_ring"}
       => key[c] \in Revs
  /\ recFd[c] # "none" => pc[c] = "write"
  /\ ringFd[c] # "none" => pc[c] = "write_ring"

LEMMA StagedStep ==
  ASSUME TypeOK, Staged, [Next]_vars
  PROVE  Staged'
<1>0. \A c \in Clis : StagedAt(c)
  BY DEF Staged, StagedAt
<1>1. ASSUME NEW c \in Clis, Run(c) PROVE StagedAt(c)'
  <2> StagedAt(c)
    BY <1>0
  <2> USE DEF TypeOK, RunsOK, FilesOK, Record!FdOK, Ring!FdOK, Goto, StagedAt, Installs
  <2>1. ASSUME NEW k \in Kinds, Begin(c, k) PROVE StagedAt(c)'
    <3>1. k \in Installs => Requested(k) \in Manifests
      BY NothingApart DEF Requested, Manifests
    <3> QED
      BY <2>1, <3>1 DEF Begin, recVars, ringVars, Kinds
  <2>2. CASE AcquireLock(c)
    BY <2>2 DEF AcquireLock, runVars, recVars, ringVars
  <2>3. CASE Deploy(c)
    BY <2>3, NothingApart DEF Deploy, runVars, recVars, ringVars
  <2>4. CASE BecomeHealthy(c)
    BY <2>4 DEF BecomeHealthy, runVars, recVars, ringVars
  <2>5. CASE Digest(c)
    BY <2>5, NothingApart DEF Digest, recVars, ringVars
  <2>6. CASE OpenRecord(c) \/ WriteRecord(c) \/ ReplaceRecord(c)
    BY <2>6 DEF OpenRecord, WriteRecord, ReplaceRecord, runVars, ringVars, Record!Open,
       Record!Write, Record!Replace, Record!Renamed
  <2>7. CASE Unload(c) \/ ReadKey(c) \/ Measure(c) \/ Collect(c)
    BY <2>7 DEF Unload, ReadKey, Measure, Collect, recVars, ringVars
  <2>8. CASE OpenRings(c) \/ WriteRings(c)
    BY <2>8 DEF OpenRings, WriteRings, runVars, recVars, Ring!Open, Ring!Write
  <2>9. CASE ReplaceRings(c) \/ End(c)
    BY <2>9 DEF ReplaceRings, End, Exit, recVars, Ring!Replace, Ring!Renamed, Record!Close,
       Ring!Close
  <2> QED
    BY <1>1, <2>1, <2>2, <2>3, <2>4, <2>5, <2>6, <2>7, <2>8, <2>9 DEF Run
<1>2. ASSUME NEW c \in Clis, Run(c), NEW d \in Clis, d # c PROVE StagedAt(d)'
  <2>1. StagedAt(d)
    BY <1>0
  <2> QED
    BY <1>2, <2>1, OthersStay, JobStays DEF StagedAt
<1>3. CASE Edit \/ UNCHANGED vars
  BY <1>3 DEF Edit, vars, recVars, ringVars, runVars, Staged
<1> QED
  BY <1>1, <1>2, <1>3 DEF Next, Staged, StagedAt

\* Types: no number of runs, revisions or deaths takes a variable out of its type, and
\* the operations lock is only ever held inside its block (commands.py:456-577).
THEOREM TypeCorrect == Spec => [](TypeOK /\ Staged)
<1>1. Init => TypeOK /\ Staged
  <2> SUFFICES ASSUME Init PROVE TypeOK /\ Staged
    OBVIOUS
  <2>1. RunsOK
    BY NoRingsGood DEF Init, RunsOK, Phases
  <2>2. FilesOK
    <3>1. rec \in Manifests \union {Absent} /\ ring \in Rings \union {Absent}
      BY OldRingsAreGood, NothingApart DEF Init
    <3> QED
      BY <3>1 DEF Init, FilesOK, Record!FdOK, Ring!FdOK
  <2>3. SharedOK
    BY NobodyIsNoCli DEF Init, SharedOK
  <2>4. Staged
    BY DEF Init, Staged, Installs
  <2> QED
    BY <2>1, <2>2, <2>3, <2>4 DEF TypeOK, SharedOK
<1>2. TypeOK /\ Staged /\ [Next]_vars => (TypeOK /\ Staged)'
  <2> SUFFICES ASSUME TypeOK, Staged, [Next]_vars PROVE (TypeOK /\ Staged)'
    OBVIOUS
  <2>1. RunsOK' /\ FilesOK' /\ SharedOK' /\ Staged'
    BY RunsTyped, FilesTyped, SharedTyped, StagedStep
  <2> QED
    BY <2>1 DEF TypeOK, SharedOK
<1> QED
  BY <1>1, <1>2, PTL DEF Spec

-----------------------------------------------------------------------------
(* What nothing came in between.                                           *)

\* A run that is sure has no install of another between its job and its record.
SureAlone ==
  \A c, d \in Clis : sure[c] /\ Running(c) /\ d # c => ~Recording(d)

\* Nor is there any while the record is faithful.
FaithfulQuiet == faithful => \A d \in Clis : ~Recording(d)

\* The preset was not edited since.
SureLoaded == \A c \in Clis : sure[c] /\ Loaded(c) => man[c] = file

\* An install that is sure is about to record the job, and has the file to itself.
SureRecords ==
  \A c \in Clis : sure[c] /\ Recording(c) =>
    /\ man[c] = job
    /\ pc[c] = "write" => recFd[c] = "temp" /\ recTmp = Blank
    /\ pc[c] = "replace" => recTmp = man[c]

\* A plain install passed its guard before it took the lock.
PlainPassed ==
  \A c \in Clis : kind[c] = "plain" /\ pc[c] \in {"lock", "deploy"} /\ sure[c] /\ faithful
                    => job \notin Revs

\* What is measured is what the record named.
KeyIsJob ==
  \A c \in Clis : kind[c] # "unload" /\ sure[c] /\ faithful =>
    /\ pc[c] \in {"measure", "collect"} => key[c] = job
    /\ pc[c] = "collect" => mb[c] \in Footprint[key[c]]

\* All the rings there are, on disk and in memory.
RingsAreGood ==
  /\ ring \in Rings => Good(ring)
  /\ ringTmp \in Rings => Good(ringTmp)
  /\ \A c \in Clis : Good(rings[c])

Undisturbed == SureAlone /\ FaithfulQuiet /\ SureLoaded /\ SureRecords

\* An install starts to record where it deploys.
LEMMA RecordingStarts ==
  ASSUME TypeOK, Staged, NEW c \in Clis, Run(c), NEW d \in Clis, Recording(d)'
  PROVE  Recording(d) \/ (d = c /\ Deploy(c))
<1>1. CASE d # c
  BY <1>1, OthersStay DEF Recording
<1>2. CASE d = c
  <2> USE <1>2 DEF TypeOK, RunsOK, Goto, Recording, Installs
  <2>1. CASE \E k \in Kinds : Begin(c, k)
    BY <2>1 DEF Begin
  <2>2. CASE AcquireLock(c) \/ BecomeHealthy(c) \/ Digest(c)
    BY <2>2 DEF AcquireLock, BecomeHealthy, Digest, runVars
  <2>3. CASE OpenRecord(c) \/ WriteRecord(c) \/ ReplaceRecord(c)
    BY <2>3 DEF OpenRecord, WriteRecord, ReplaceRecord, runVars
  <2>4. CASE Unload(c) \/ ReadKey(c) \/ Measure(c) \/ Collect(c)
    BY <2>4 DEF Unload, ReadKey, Measure, Collect
  <2>5. CASE OpenRings(c) \/ WriteRings(c)
    BY <2>5 DEF OpenRings, WriteRings, runVars
  <2>6. CASE ReplaceRings(c) \/ End(c)
    BY <2>6 DEF ReplaceRings, End, Exit
  <2> QED
    BY <2>1, <2>2, <2>3, <2>4, <2>5, <2>6 DEF Run
<1> QED
  BY <1>1, <1>2

\* A run is sure from its first step on, or it was before.
LEMMA SureStays ==
  ASSUME TypeOK, Staged, NEW c \in Clis, Run(c), NEW d \in Clis, sure'[d], Running(d)'
  PROVE  \/ d = c /\ pc[c] = "idle" /\ ~\E e \in Clis : Recording(e)
         \/ sure[d] /\ Running(d)
<1> USE DEF TypeOK, RunsOK, Goto, Running
<1>1. CASE \E k \in Kinds : Begin(c, k)
  <2>1. pc[c] = "idle" /\ sure' = [sure EXCEPT ![c] = ~\E e \in Clis : Recording(e)]
    BY <1>1 DEF Begin
  <2>2. d # c => pc'[d] = pc[d]
    BY <1>1 DEF Begin
  <2> QED BY <2>1, <2>2
<1>2. CASE AcquireLock(c) \/ BecomeHealthy(c) \/ Digest(c)
  BY <1>2 DEF AcquireLock, BecomeHealthy, Digest, runVars
<1>3. CASE Deploy(c)
  BY <1>3 DEF Deploy
<1>4. CASE OpenRecord(c) \/ WriteRecord(c) \/ ReplaceRecord(c)
  BY <1>4 DEF OpenRecord, WriteRecord, ReplaceRecord, runVars
<1>5. CASE Unload(c) \/ ReadKey(c) \/ Measure(c) \/ Collect(c)
  BY <1>5 DEF Unload, ReadKey, Measure, Collect
<1>6. CASE OpenRings(c) \/ WriteRings(c)
  BY <1>6 DEF OpenRings, WriteRings, runVars
<1>7. CASE ReplaceRings(c) \/ End(c)
  BY <1>7 DEF ReplaceRings, End, Exit
<1> QED
  BY <1>1, <1>2, <1>3, <1>4, <1>5, <1>6, <1>7 DEF Run

\* Only an install that is sure makes the record faithful.
LEMMA FaithfulStays ==
  ASSUME NEW c \in Clis, Run(c), faithful'
  PROVE  (faithful /\ ~Deploy(c)) \/ (ReplaceRecord(c) /\ sure[c])
BY DEF Run, Begin, AcquireLock, Deploy, BecomeHealthy, Digest, OpenRecord, WriteRecord,
   ReplaceRecord, Unload, ReadKey, Measure, Collect, OpenRings, WriteRings, ReplaceRings, End

LEMMA RunIsRunning ==
  ASSUME NEW c \in Clis
  PROVE  /\ Recording(c) => Running(c)
         /\ ReplaceRecord(c) => pc[c] = "replace"
  BY DEF Recording, Running, ReplaceRecord

LEMMA SureAloneStep ==
  ASSUME TypeOK, Staged, Undisturbed, NEW c \in Clis, Run(c)
  PROVE  SureAlone'
<1> SUFFICES ASSUME NEW a \in Clis, NEW d \in Clis, sure'[a], Running(a)', d # a, Recording(d)'
             PROVE  FALSE
  BY DEF SureAlone
<1>1. Recording(d) \/ (d = c /\ Deploy(c))
  BY RecordingStarts
<1>2. \/ a = c /\ ~\E e \in Clis : Recording(e)
      \/ sure[a] /\ Running(a)
  BY SureStays
<1>3. CASE a = c /\ ~\E e \in Clis : Recording(e)
  BY <1>1, <1>3
<1>4. CASE sure[a] /\ Running(a)
  <2>1. ~Recording(d)
    BY <1>4 DEF Undisturbed, SureAlone
  <2>2. d = c /\ Deploy(c)
    BY <1>1, <2>1
  <2> QED
    BY <1>4, <2>2 DEF Deploy
<1> QED
  BY <1>2, <1>3, <1>4

LEMMA FaithfulQuietStep ==
  ASSUME TypeOK, Staged, Undisturbed, NEW c \in Clis, Run(c)
  PROVE  FaithfulQuiet'
<1> SUFFICES ASSUME faithful', NEW d \in Clis, Recording(d)' PROVE FALSE
  BY DEF FaithfulQuiet
<1>1. Recording(d) \/ (d = c /\ Deploy(c))
  BY RecordingStarts
<1>2. (faithful /\ ~Deploy(c)) \/ (ReplaceRecord(c) /\ sure[c])
  BY FaithfulStays
<1>3. CASE faithful /\ ~Deploy(c)
  BY <1>1, <1>3 DEF Undisturbed, FaithfulQuiet
<1>4. CASE ReplaceRecord(c) /\ sure[c]
  <2>1. Running(c)
    BY <1>4, RunIsRunning DEF Running
  <2>2. d = c
    BY <1>1, <1>4, <2>1 DEF Undisturbed, SureAlone
  <2>3. pc'[c] = "sample"
    BY <1>4 DEF ReplaceRecord, Goto, TypeOK, RunsOK
  <2> QED
    BY <2>2, <2>3 DEF Recording
<1> QED
  BY <1>2, <1>3, <1>4

LEMMA SureLoadedStep ==
  ASSUME TypeOK, Staged, Undisturbed, NEW c \in Clis, Run(c)
  PROVE  SureLoaded'
<1> SUFFICES ASSUME NEW a \in Clis, sure'[a], Loaded(a)' PROVE man'[a] = file'
  BY DEF SureLoaded
<1>0. file' = file
  BY DEF Run, Begin, AcquireLock, Deploy, BecomeHealthy, Digest, OpenRecord, WriteRecord,
     ReplaceRecord, Unload, ReadKey, Measure, Collect, OpenRings, WriteRings, ReplaceRings, End
<1>1. Running(a)'
  BY DEF Loaded, Running
<1>2. \/ a = c /\ pc[c] = "idle"
      \/ sure[a]
  BY <1>1, SureStays
<1>3. CASE a # c
  <2>1. Loaded(a) /\ man'[a] = man[a]
    BY <1>3, OthersStay DEF Loaded
  <2> QED
    BY <1>0, <1>2, <1>3, <2>1 DEF Undisturbed, SureLoaded
<1>4. CASE a = c
  <2> USE <1>4 DEF TypeOK, RunsOK, Goto, Loaded
  <2>1. ASSUME NEW k \in Kinds, Begin(c, k) PROVE man'[a] = file'
    <3>1. man'[c] = Requested(k) /\ man'[c] \in Revs /\ Base \notin Revs /\ Nothing \notin Revs
      BY <2>1, ManifestsDistinct, NothingApart DEF Begin
    <3> QED
      BY <1>0, <3>1 DEF Requested, Kinds
  <2>2. CASE AcquireLock(c) \/ Deploy(c) \/ BecomeHealthy(c)
    <3>1. pc[c] # "idle" /\ man'[c] = man[c] /\ kind'[c] = kind[c]
          /\ pc[c] \in {"lock", "deploy", "health"}
      BY <2>2 DEF AcquireLock, Deploy, BecomeHealthy, runVars
    <3> QED
      BY <1>0, <1>2, <3>1 DEF Undisturbed, SureLoaded
  <2>3. CASE Digest(c) \/ OpenRecord(c) \/ WriteRecord(c) \/ ReplaceRecord(c) \/ Unload(c)
    BY <2>3 DEF Digest, OpenRecord, WriteRecord, ReplaceRecord, Unload
  <2>4. CASE ReadKey(c) \/ Measure(c) \/ Collect(c) \/ OpenRings(c) \/ WriteRings(c)
    BY <2>4 DEF ReadKey, Measure, Collect, OpenRings, WriteRings
  <2>5. CASE ReplaceRings(c) \/ End(c)
    BY <2>5 DEF ReplaceRings, End, Exit
  <2> QED
    BY <2>1, <2>2, <2>3, <2>4, <2>5 DEF Run
<1> QED
  BY <1>3, <1>4

\* While no install records, the record and its temporary file stay as they are.
LEMMA QuietStays ==
  ASSUME TypeOK, Staged, NEW c \in Clis, Run(c), ~Recording(c)
  PROVE  /\ UNCHANGED <<rec, recTmp>>
         /\ \A d \in Clis : d # c => recFd'[d] = recFd[d]
<1>1. pc[c] \notin {"open", "write", "replace"}
  BY DEF Recording, Staged
<1>2. ~(OpenRecord(c) \/ WriteRecord(c) \/ ReplaceRecord(c))
  BY <1>1 DEF OpenRecord, WriteRecord, ReplaceRecord
<1>3. CASE End(c)
  BY <1>3 DEF End, Record!Close, TypeOK, FilesOK, Record!FdOK
<1>4. CASE ~End(c)
  BY <1>2, <1>4 DEF Run, Begin, AcquireLock, Deploy, BecomeHealthy, Digest, Unload, ReadKey,
     Measure, Collect, OpenRings, WriteRings, ReplaceRings, recVars
<1> QED
  BY <1>3, <1>4

LEMMA JobChanges ==
  ASSUME NEW c \in Clis, Run(c), ~Deploy(c)
  PROVE  job' = job
BY DEF Run, Begin, AcquireLock, Deploy, BecomeHealthy, Digest, OpenRecord, WriteRecord,
   ReplaceRecord, Unload, ReadKey, Measure, Collect, OpenRings, WriteRings, ReplaceRings, End

LEMMA SureRecordsStep ==
  ASSUME TypeOK, Staged, Undisturbed, NEW c \in Clis, Run(c)
  PROVE  SureRecords'
<1> DEFINE Goal(a) ==
      /\ man'[a] = job'
      /\ pc'[a] = "write" => recFd'[a] = "temp" /\ recTmp' = Blank
      /\ pc'[a] = "replace" => recTmp' = man'[a]
<1> SUFFICES ASSUME NEW a \in Clis, sure'[a], Recording(a)' PROVE Goal(a)
  BY DEF SureRecords
<1>1. Running(a)'
  BY DEF Recording, Running
<1>2. \/ a = c /\ pc[c] = "idle"
      \/ sure[a] /\ Running(a)
  BY <1>1, SureStays
<1>3. Recording(a) \/ (a = c /\ Deploy(c))
  BY RecordingStarts
<1>4. CASE a # c
  <2>1. sure[a] /\ Running(a) /\ Recording(a)
    BY <1>2, <1>3, <1>4
  <2>2. ~Recording(c)
    BY <1>4, <2>1 DEF Undisturbed, SureAlone
  <2>3. ~Deploy(c)
    BY <1>4, <2>1 DEF Deploy
  <2>4. job' = job /\ recTmp' = recTmp /\ recFd'[a] = recFd[a]
    BY <1>4, <2>2, <2>3, JobChanges, QuietStays
  <2>5. pc'[a] = pc[a] /\ man'[a] = man[a]
    BY <1>4, OthersStay
  <2> QED
    BY <2>1, <2>4, <2>5 DEF Undisturbed, SureRecords
<1>5. CASE a = c
  <2> USE <1>5 DEF TypeOK, RunsOK, Goto
  <2>1. CASE Deploy(c)
    BY <2>1 DEF Deploy, runVars
  <2>2. CASE ~Deploy(c)
    <3>1. Recording(c) /\ sure[c] /\ job' = job
      BY <1>2, <1>3, <2>2, JobChanges DEF Recording
    <3>2. man[c] = job /\ pc[c] \in {"health", "digest", "open", "write", "replace"}
          /\ kind[c] \in Installs
      BY <3>1 DEF Undisturbed, SureRecords, Recording
    <3>3. CASE BecomeHealthy(c)
      BY <3>1, <3>2, <3>3 DEF BecomeHealthy, runVars, Installs
    <3>4. CASE Digest(c)
      <4>1. man'[c] = man[c]
        BY <3>1, <3>2, <3>4 DEF Digest, Undisturbed, SureLoaded, Loaded
      <4>2. pc'[c] = "open"
        BY <3>4 DEF Digest
      <4> QED
        BY <3>1, <3>2, <4>1, <4>2
    <3>5. CASE OpenRecord(c)
      <4>1. man'[c] = man[c] /\ pc'[c] = "write" /\ recTmp' = Blank /\ recFd'[c] = "temp"
        BY <3>5 DEF OpenRecord, runVars, Record!Open, FilesOK, Record!FdOK
      <4> QED
        BY <3>1, <3>2, <4>1
    <3>6. CASE WriteRecord(c)
      <4>1. recFd[c] = "temp" /\ recTmp = Blank
        BY <3>1, <3>6 DEF WriteRecord, Undisturbed, SureRecords
      <4>2. man'[c] = man[c] /\ pc'[c] = "replace" /\ recTmp' = man[c]
        BY <3>6, <4>1 DEF WriteRecord, runVars, Record!Write, Record!Over
      <4> QED
        BY <3>1, <3>2, <4>2
    <3>7. CASE ReplaceRecord(c)
      <4>1. pc'[c] = "sample"
        BY <3>7 DEF ReplaceRecord
      <4> QED
        BY <4>1 DEF Recording
    <3>8. CASE End(c)
      <4>1. pc'[c] = "done"
        BY <3>8 DEF End, Exit
      <4> QED
        BY <4>1 DEF Recording
    <3> QED
      BY <2>2, <3>2, <3>3, <3>4, <3>5, <3>6, <3>7, <3>8
         DEF Run, Begin, AcquireLock, Unload, ReadKey, Measure, Collect, OpenRings, WriteRings,
             ReplaceRings
  <2> QED
    BY <2>1, <2>2
<1> QED
  BY <1>4, <1>5

\* Nothing comes in between, unless `sure` says so.
LEMMA UndisturbedCorrect == Spec => []Undisturbed
<1>1. Init => Undisturbed
  BY DEF Init, Undisturbed, SureAlone, FaithfulQuiet, SureLoaded, SureRecords, Running,
     Recording, Loaded
<1>2. TypeOK /\ Staged /\ Undisturbed /\ [Next]_vars => Undisturbed'
  <2> SUFFICES ASSUME TypeOK, Staged, Undisturbed, [Next]_vars PROVE Undisturbed'
    OBVIOUS
  <2>1. ASSUME NEW c \in Clis, Run(c) PROVE Undisturbed'
    BY <2>1, SureAloneStep, FaithfulQuietStep, SureLoadedStep, SureRecordsStep DEF Undisturbed
  <2>2. CASE Edit
    <3>1. UNCHANGED <<job, recVars, pc, runVars, faithful>>
          /\ \A c \in Clis : sure'[c] => sure[c] /\ ~Loaded(c)
      BY <2>2 DEF Edit
    <3> QED
      BY <3>1 DEF Undisturbed, SureAlone, FaithfulQuiet, SureLoaded, SureRecords, Running,
         Recording, Loaded, recVars, runVars
  <2>3. CASE UNCHANGED vars
    BY <2>3 DEF vars, recVars, runVars, Undisturbed, SureAlone, FaithfulQuiet, SureLoaded,
       SureRecords, Running, Recording, Loaded
  <2> QED
    BY <2>1, <2>2, <2>3 DEF Next
<1> QED
  BY <1>1, <1>2, TypeCorrect, PTL DEF Spec

-----------------------------------------------------------------------------
(* The record, and the samples that are filed under it.                    *)

LEMMA RecordFollowsStep ==
  ASSUME TypeOK, Staged, Undisturbed, RecordFollowsJob, NEW c \in Clis, Run(c)
  PROVE  RecordFollowsJob'
<1> SUFFICES ASSUME faithful' PROVE ReadRecord' = job'
  BY DEF RecordFollowsJob
<1>1. (faithful /\ ~Deploy(c)) \/ (ReplaceRecord(c) /\ sure[c])
  BY FaithfulStays
<1>2. CASE faithful /\ ~Deploy(c)
  <2>1. rec' = rec /\ job' = job
    BY <1>2, QuietStays, JobChanges DEF Undisturbed, FaithfulQuiet
  <2> QED
    BY <1>2, <2>1 DEF RecordFollowsJob, ReadRecord
<1>3. CASE ReplaceRecord(c) /\ sure[c]
  <2>1. pc[c] = "replace" /\ rec' = recTmp /\ job' = job
    BY <1>3 DEF ReplaceRecord, Record!Replace
  <2>2. Recording(c)
    BY <2>1 DEF Staged, Recording
  <2>3. recTmp = man[c] /\ man[c] = job /\ man[c] \in Manifests
    BY <1>3, <2>1, <2>2 DEF Undisturbed, SureRecords, Staged
  <2> QED
    BY <2>1, <2>3 DEF ReadRecord
<1> QED
  BY <1>1, <1>2, <1>3

\* The record is of the job that runs, for any number of installs, deaths and edits, unless
\* the last install died before its record or another came in between.
THEOREM RecordFollowsJobCorrect == Spec => []RecordFollowsJob
<1>1. Init => RecordFollowsJob
  BY Marked, NothingApart DEF Init, RecordFollowsJob, ReadRecord, Marks
<1>2. TypeOK /\ Staged /\ Undisturbed /\ RecordFollowsJob /\ [Next]_vars => RecordFollowsJob'
  <2> SUFFICES ASSUME TypeOK, Staged, Undisturbed, RecordFollowsJob, [Next]_vars
               PROVE  RecordFollowsJob'
    OBVIOUS
  <2>1. CASE Edit \/ UNCHANGED vars
    BY <2>1 DEF Edit, vars, recVars, RecordFollowsJob, ReadRecord
  <2> QED
    BY <2>1, RecordFollowsStep DEF Next
<1> QED
  BY <1>1, <1>2, TypeCorrect, UndisturbedCorrect, PTL DEF Spec

\* What stays when the record is faithful after a step and run a is sure: the record was
\* faithful and the job the same.
LEMMA SureFaithfulStays ==
  ASSUME TypeOK, Staged, Undisturbed, NEW c \in Clis, Run(c), NEW a \in Clis, a # c,
         sure'[a], faithful', Running(a)'
  PROVE  sure[a] /\ faithful /\ job' = job
<1>1. sure[a] /\ Running(a)
  BY SureStays
<1>2. ~ReplaceRecord(c)
  <2>1. ~Recording(c)
    BY <1>1 DEF Undisturbed, SureAlone
  <2> QED
    BY <2>1 DEF Recording, Staged, ReplaceRecord
<1>3. faithful /\ ~Deploy(c)
  BY <1>2, FaithfulStays
<1> QED
  BY <1>1, <1>3, JobChanges

LEMMA PlainStep ==
  ASSUME TypeOK, Staged, Undisturbed, RecordFollowsJob, PlainPassed, NEW c \in Clis, Run(c)
  PROVE  PlainPassed'
<1> SUFFICES ASSUME NEW a \in Clis, kind'[a] = "plain", pc'[a] \in {"lock", "deploy"}, sure'[a],
                    faithful'
             PROVE  job' \notin Revs
  BY DEF PlainPassed
<1>1. CASE a # c
  <2>1. pc'[a] = pc[a] /\ kind'[a] = kind[a] /\ Running(a)'
    BY <1>1, OthersStay DEF Running
  <2>2. sure[a] /\ faithful /\ job' = job
    BY <1>1, <2>1, SureFaithfulStays
  <2> QED
    BY <2>1, <2>2 DEF PlainPassed
<1>2. CASE a = c
  <2> USE <1>2 DEF TypeOK, RunsOK, Goto
  <2>1. ASSUME NEW k \in Kinds, Begin(c, k) PROVE job' \notin Revs
    <3>1. k = "plain" /\ faithful /\ job' = job /\ ~Refused(k)
      BY <2>1 DEF Begin
    <3>2. ReadRecord \notin Revs /\ ReadRecord = job
      BY <3>1 DEF Refused, RecordFollowsJob
    <3> QED
      BY <3>1, <3>2
  <2>2. CASE AcquireLock(c)
    <3>1. pc[c] = "lock" /\ kind[c] = "plain" /\ sure[c] /\ faithful /\ job' = job
      BY <2>2 DEF AcquireLock, runVars
    <3> QED
      BY <3>1 DEF PlainPassed
  <2>3. CASE Deploy(c) \/ BecomeHealthy(c) \/ Digest(c) \/ OpenRecord(c) \/ WriteRecord(c)
    BY <2>3 DEF Deploy, BecomeHealthy, Digest, OpenRecord, WriteRecord
  <2>4. CASE ReplaceRecord(c) \/ Unload(c) \/ ReadKey(c) \/ Measure(c) \/ Collect(c)
    BY <2>4 DEF ReplaceRecord, Unload, ReadKey, Measure, Collect
  <2>5. CASE OpenRings(c) \/ WriteRings(c) \/ ReplaceRings(c) \/ End(c)
    BY <2>5 DEF OpenRings, WriteRings, ReplaceRings, End, Exit
  <2> QED
    BY <2>1, <2>2, <2>3, <2>4, <2>5 DEF Run
<1> QED
  BY <1>1, <1>2

\* A plain install replaces a preset's job only if something came in between its guard
\* and its deployment, or the record was already of another job.
THEOREM PlainNeverDegradesCorrect == Spec => []PlainNeverDegrades
<1>1. Init => PlainPassed
  BY DEF Init, PlainPassed
<1>2. TypeOK /\ Staged /\ Undisturbed /\ RecordFollowsJob /\ PlainPassed /\ [Next]_vars
        => PlainPassed'
  <2> SUFFICES ASSUME TypeOK, Staged, Undisturbed, RecordFollowsJob, PlainPassed, [Next]_vars
               PROVE  PlainPassed'
    OBVIOUS
  <2>1. CASE Edit
    BY <2>1 DEF Edit, runVars, PlainPassed, TypeOK, RunsOK
  <2>2. CASE UNCHANGED vars
    BY <2>2 DEF vars, runVars, PlainPassed
  <2> QED
    BY <2>1, <2>2, PlainStep DEF Next
<1>3. PlainPassed => PlainNeverDegrades
  BY DEF PlainPassed, PlainNeverDegrades
<1> QED
  BY <1>1, <1>2, <1>3, TypeCorrect, UndisturbedCorrect, RecordFollowsJobCorrect, PTL DEF Spec

LEMMA KeyStep ==
  ASSUME TypeOK, Staged, Undisturbed, RecordFollowsJob, KeyIsJob, NEW c \in Clis, Run(c)
  PROVE  KeyIsJob'
<1> DEFINE Goal(a) ==
      /\ pc'[a] \in {"measure", "collect"} => key'[a] = job'
      /\ pc'[a] = "collect" => mb'[a] \in Footprint[key'[a]]
<1> SUFFICES ASSUME NEW a \in Clis, kind'[a] # "unload", sure'[a], faithful',
                    pc'[a] \in {"measure", "collect"}
             PROVE  Goal(a)
  BY DEF KeyIsJob
<1>1. CASE a # c
  <2>1. pc'[a] = pc[a] /\ kind'[a] = kind[a] /\ key'[a] = key[a] /\ mb'[a] = mb[a]
        /\ Running(a)'
    BY <1>1, OthersStay DEF Running
  <2>2. sure[a] /\ faithful /\ job' = job
    BY <1>1, <2>1, SureFaithfulStays
  <2> QED
    BY <2>1, <2>2 DEF KeyIsJob
<1>2. CASE a = c
  <2> USE <1>2 DEF TypeOK, RunsOK, Goto
  <2>1. CASE ReadKey(c)
    <3>1. /\ key'[c] = ReadRecord /\ faithful /\ job' = job
          /\ pc'[c] = IF kind[c] = "unload" THEN "collect" ELSE "measure"
          /\ kind'[c] = kind[c]
      BY <2>1 DEF ReadKey
    <3> QED
      BY <3>1 DEF RecordFollowsJob
  <2>2. CASE Measure(c)
    <3>1. /\ kind[c] # "unload" /\ sure[c] /\ faithful /\ pc[c] = "measure" /\ pc'[c] = "collect"
          /\ key'[c] = key[c] /\ job' = job /\ mb'[c] \in Footprint[job]
      <4>1. PICK n \in Footprint[job], m \in Siblings :
              /\ mb' = [mb EXCEPT ![c] = n + m]
              /\ sure' = [sure EXCEPT ![c] = @ /\ m = 0]
        BY <2>2 DEF Measure
      <4>2. job \in Manifests
        BY <2>2 DEF Measure, Staged
      <4>3. Footprint[job] \subseteq Nat
        BY <4>2, WeightsAreNat
      <4>4. sure[c] /\ m = 0
        <5>1. sure'[c] = (sure[c] /\ m = 0)
          BY <4>1
        <5>2. sure'[c]
          OBVIOUS
        <5> QED BY <5>1, <5>2, Zenon
      <4>5. mb'[c] = n
        BY <4>1, <4>3, <4>4
      <4> QED BY <2>2, <4>4, <4>5 DEF Measure
    <3>2. key[c] = job
      BY <3>1 DEF KeyIsJob
    <3> QED
      BY <3>1, <3>2
  <2>3. CASE \E k \in Kinds : Begin(c, k)
    BY <2>3 DEF Begin
  <2>4. CASE AcquireLock(c) \/ Deploy(c) \/ BecomeHealthy(c) \/ Digest(c) \/ OpenRecord(c)
    BY <2>4 DEF AcquireLock, Deploy, BecomeHealthy, Digest, OpenRecord
  <2>5. CASE WriteRecord(c) \/ ReplaceRecord(c) \/ Unload(c) \/ Collect(c)
    BY <2>5 DEF WriteRecord, ReplaceRecord, Unload, Collect
  <2>6. CASE OpenRings(c) \/ WriteRings(c) \/ ReplaceRings(c) \/ End(c)
    BY <2>6 DEF OpenRings, WriteRings, ReplaceRings, End, Exit
  <2> QED
    BY <2>1, <2>2, <2>3, <2>4, <2>5, <2>6 DEF Run
<1> QED
  BY <1>1, <1>2

LEMMA KeyIsJobCorrect == Spec => []KeyIsJob
<1>1. Init => KeyIsJob
  BY DEF Init, KeyIsJob
<1>2. TypeOK /\ Staged /\ Undisturbed /\ RecordFollowsJob /\ KeyIsJob /\ [Next]_vars => KeyIsJob'
  <2> SUFFICES ASSUME TypeOK, Staged, Undisturbed, RecordFollowsJob, KeyIsJob, [Next]_vars
               PROVE  KeyIsJob'
    OBVIOUS
  <2>1. CASE Edit
    BY <2>1 DEF Edit, runVars, KeyIsJob, TypeOK, RunsOK
  <2>2. CASE UNCHANGED vars
    BY <2>2 DEF vars, runVars, KeyIsJob
  <2> QED
    BY <2>1, <2>2, KeyStep DEF Next
<1> QED
  BY <1>1, <1>2, TypeCorrect, UndisturbedCorrect, RecordFollowsJobCorrect, PTL DEF Spec

LEMMA ReadRingsGood == ASSUME RingsAreGood PROVE Good(ReadRings)
  BY NoRingsGood DEF ReadRings, RingsAreGood

LEMMA RingsStep ==
  ASSUME TypeOK, Staged, KeyIsJob, RingsAreGood, NEW c \in Clis, Run(c)
  PROVE  RingsAreGood'
<1> USE DEF RingsAreGood
<1>0. Blank \notin Rings /\ Torn \notin Rings /\ Absent \notin Rings
  BY Marked DEF Marks
<1>1. CASE Collect(c)
  <2>1. /\ key[c] \in Revs /\ SampleOf(c) \in Samples
        /\ LET s == SampleOf(c)
           IN s.source = "health" /\ s.host = Here /\ s.sure => s.mb \in Footprint[key[c]]
    <3>1. pc[c] = "collect" /\ mb[c] > 0 /\ mb[c] \in Nat /\ key[c] \in Revs
      BY <1>1 DEF Collect, Staged, TypeOK, RunsOK
    <3>2. SampleOf(c) \in Samples
      BY <3>1, HereIsHost DEF SampleOf, Samples, TypeOK, RunsOK
    <3>3. kind[c] # "unload" /\ sure[c] /\ faithful => mb[c] \in Footprint[key[c]]
      BY <3>1 DEF KeyIsJob
    <3> QED
      BY <3>1, <3>2, <3>3 DEF SampleOf
  <2>2. Good(Add(ReadRings, key[c], SampleOf(c)))
    BY <2>1, AddGood, ReadRingsTyped, ReadRingsGood
  <2>3. ring' = ring /\ ringTmp' = ringTmp
        /\ rings' = [rings EXCEPT ![c] = Add(ReadRings, key[c], SampleOf(c))]
    BY <1>1 DEF Collect, ringVars
  <2> QED
    BY <2>2, <2>3 DEF TypeOK, RunsOK
<1>2. CASE OpenRings(c)
  BY <1>0, <1>2 DEF OpenRings, runVars, Ring!Open
<1>3. CASE WriteRings(c)
  <2>1. /\ ring' \in {ring, rings[c], Torn}
        /\ ringTmp' \in {ringTmp, rings[c], Torn}
        /\ rings' = rings
    BY <1>3 DEF WriteRings, runVars, Ring!Write, Ring!Over
  <2> QED
    BY <1>0, <2>1
<1>4. CASE ReplaceRings(c)
  <2>1. ring' = ringTmp /\ ringTmp' = Absent /\ rings' = [rings EXCEPT ![c] = NoRings]
    BY <1>4 DEF ReplaceRings, Ring!Replace, Exit
  <2> QED
    BY <1>0, <2>1, NoRingsGood DEF TypeOK, RunsOK
<1>5. CASE End(c)
  <2>1. UNCHANGED <<ring, ringTmp>> /\ rings' = [rings EXCEPT ![c] = NoRings]
    BY <1>5 DEF End, Exit, Ring!Close
  <2> QED
    BY <2>1, NoRingsGood DEF TypeOK, RunsOK
<1>6. CASE UNCHANGED <<ring, ringTmp, rings>>
  BY <1>6
<1> QED
  BY <1>1, <1>2, <1>3, <1>4, <1>5, <1>6 DEF Run, Begin, AcquireLock, Deploy, BecomeHealthy,
     Digest, OpenRecord, WriteRecord, ReplaceRecord, Unload, ReadKey, Measure, runVars, ringVars

\* What a reader of the rings finds: never more than RING_SIZE samples, and those that are
\* sure to be of a process of their revision are, for every footprint and whatever dies.
THEOREM SampleTrueCorrect == Spec => []SampleTrue
<1>1. Init => RingsAreGood
  BY OldRingsAreGood, NoRingsGood, Marked DEF Init, RingsAreGood, Marks
<1>2. TypeOK /\ Staged /\ KeyIsJob /\ RingsAreGood /\ [Next]_vars => RingsAreGood'
  <2> SUFFICES ASSUME TypeOK, Staged, KeyIsJob, RingsAreGood, [Next]_vars PROVE RingsAreGood'
    OBVIOUS
  <2>1. CASE Edit \/ UNCHANGED vars
    BY <2>1 DEF Edit, vars, ringVars, runVars, RingsAreGood
  <2> QED
    BY <2>1, RingsStep DEF Next
<1>3. RingsAreGood => SampleTrue
  BY ReadRingsGood DEF SampleTrue
<1> QED
  BY <1>1, <1>2, <1>3, TypeCorrect, KeyIsJobCorrect, PTL DEF Spec

-----------------------------------------------------------------------------
(* No sample is lost.                                                      *)

\* What record_sample makes of the rings is one sample more at the end of one ring.
LEMMA AddAppends ==
  ASSUME NEW all \in Rings, NEW r \in Revs, NEW s \in Samples
  PROVE  Appended(all, Add(all, r, s))
<1> DEFINE q == Append(all[r], s)
           n == Last(q, RingSize)
<1>1. all[r] \in Seq(Samples) /\ RingSize \in Nat \ {0}
  BY RingSizePositive DEF Rings
<1>2. q \in Seq(Samples) /\ Len(q) \in Nat \ {0} /\ q[Len(q)] = s
  BY <1>1
<1>3. /\ n \in Seq(Samples) /\ n # << >> /\ n[Len(n)] = s
      /\ n = SubSeq(q, Len(q) - Len(n) + 1, Len(q))
      /\ n = q \/ Len(n) = RingSize
  <2> HIDE DEF q
  <2>1. CASE Len(q) <= RingSize
    <3>1. n = q
      BY <2>1 DEF Last
    <3> QED
      BY <1>2, <3>1
  <2>2. CASE ~(Len(q) <= RingSize)
    <3> DEFINE k == Len(q) - RingSize + 1
    <3>1. n = SubSeq(q, k, Len(q)) /\ k \in 1..Len(q)
      BY <1>1, <1>2, <2>2 DEF Last
    <3>2. SubSeq(q, k, Len(q)) \in Seq(Samples) /\ Len(SubSeq(q, k, Len(q))) = RingSize
      BY <1>1, <1>2, <2>2
    <3>3. SubSeq(q, k, Len(q))[RingSize] = q[Len(q)]
      BY <1>1, <1>2, <2>2
    <3>4. Len(n) = RingSize /\ n[RingSize] = s /\ n \in Seq(Samples)
      BY <1>2, <3>1, <3>2, <3>3
    <3>5. n = SubSeq(q, Len(q) - Len(n) + 1, Len(q))
      BY <3>1, <3>4
    <3> HIDE DEF n
    <3> QED
      BY <1>1, <3>4, <3>5
  <2> QED
    BY <2>1, <2>2
<1>4. Add(all, r, s) = [all EXCEPT ![r] = n] /\ Add(all, r, s)[r] = n
  BY DEF Add, Rings
<1>5. q = Append(all[r], n[Len(n)])
  BY <1>3
<1> HIDE DEF q, n
<1> QED
  BY <1>3, <1>4, <1>5 DEF Appended

\* A run that stores alone has the temporary file to itself, and adds one sample to the
\* rings there are.
AloneStores ==
  \A c \in Clis : Storing(c) /\ alone[c] =>
    /\ \A d \in Clis : Storing(d) => d = c
    /\ \E r \in Revs, s \in Samples : rings[c] = Add(ReadRings, r, s)
    /\ pc[c] = "write_ring" => ringFd[c] = "temp" /\ ringTmp = Blank
    /\ pc[c] = "replace_ring" => ringTmp = rings[c]

LEMMA StoringStarts ==
  ASSUME TypeOK, NEW c \in Clis, Run(c), NEW d \in Clis, Storing(d)'
  PROVE  \/ d = c /\ Collect(c)
         \/ Storing(d) /\ ~Collect(c) /\ alone'[d] = alone[d]
         \/ Storing(d) /\ d # c /\ Collect(c) /\ ~alone'[d]
<1> USE DEF TypeOK, RunsOK, Goto, Storing
<1>1. CASE \E k \in Kinds : Begin(c, k)
  BY <1>1 DEF Begin, Collect
<1>2. CASE AcquireLock(c) \/ Deploy(c) \/ BecomeHealthy(c) \/ Digest(c)
  BY <1>2 DEF AcquireLock, Deploy, BecomeHealthy, Digest, Collect
<1>3. CASE OpenRecord(c) \/ WriteRecord(c) \/ ReplaceRecord(c)
  BY <1>3 DEF OpenRecord, WriteRecord, ReplaceRecord, Collect
<1>4. CASE Unload(c) \/ ReadKey(c) \/ Measure(c)
  BY <1>4 DEF Unload, ReadKey, Measure, Collect
<1>5. CASE Collect(c)
  BY <1>5 DEF Collect
<1>6. CASE OpenRings(c) \/ WriteRings(c)
  BY <1>6 DEF OpenRings, WriteRings, Collect
<1>7. CASE ReplaceRings(c)
  BY <1>7 DEF ReplaceRings, Exit, Collect
<1>8. CASE End(c)
  <2>1. ~Storing(c)'
    BY <1>8 DEF End, Exit
  <2>2. d # c /\ pc'[d] = pc[d] /\ alone'[d] = alone[d]
    BY <1>8, <2>1 DEF End, Exit
  <2>3. Collect(c) => pc'[c] = "open_ring"
    BY DEF Collect
  <2> QED
    BY <2>1, <2>2, <2>3
<1> QED
  BY <1>1, <1>2, <1>3, <1>4, <1>5, <1>6, <1>7, <1>8 DEF Run

\* A run that stores no rings leaves them alone.
LEMMA RingsStay ==
  ASSUME TypeOK, NEW c \in Clis, Run(c), ~Storing(c)
  PROVE  UNCHANGED <<ring, ringTmp>> /\ \A d \in Clis : d # c => ringFd'[d] = ringFd[d]
<1>1. ~(OpenRings(c) \/ WriteRings(c) \/ ReplaceRings(c))
  BY DEF Storing, OpenRings, WriteRings, ReplaceRings
<1>2. CASE End(c)
  BY <1>2 DEF End, Ring!Close, TypeOK, FilesOK, Ring!FdOK
<1>3. CASE ~End(c)
  BY <1>1, <1>3 DEF Run, Begin, AcquireLock, Deploy, BecomeHealthy, Digest, OpenRecord,
     WriteRecord, ReplaceRecord, Unload, ReadKey, Measure, Collect, ringVars
<1> QED
  BY <1>2, <1>3

LEMMA AloneStep ==
  ASSUME TypeOK, Staged, AloneStores, NEW c \in Clis, Run(c)
  PROVE  AloneStores'
<1> DEFINE Goal(a) ==
      /\ \A d \in Clis : Storing(d)' => d = a
      /\ \E r \in Revs, s \in Samples : rings'[a] = Add(ReadRings', r, s)
      /\ pc'[a] = "write_ring" => ringFd'[a] = "temp" /\ ringTmp' = Blank
      /\ pc'[a] = "replace_ring" => ringTmp' = rings'[a]
<1> SUFFICES ASSUME NEW a \in Clis, Storing(a)', alone'[a] PROVE Goal(a)
  BY DEF AloneStores
<1>1. CASE Collect(c)
  <2>1. a = c
    BY <1>1, StoringStarts
  <2>2. \A d \in Clis : ~Storing(d)
    BY <1>1, <2>1 DEF Collect, TypeOK, RunsOK
  <2>3. \A d \in Clis : Storing(d)' => d = c
    BY <2>2, StoringStarts
  <2>4. SampleOf(c) \in Samples /\ key[c] \in Revs
    BY <1>1, HereIsHost DEF Collect, SampleOf, Samples, Staged, TypeOK, RunsOK
  <2>5. /\ rings'[c] = Add(ReadRings, key[c], SampleOf(c)) /\ ring' = ring
        /\ pc'[c] = "open_ring"
    BY <1>1 DEF Collect, Goto, ringVars, TypeOK, RunsOK
  <2>6. ReadRings' = ReadRings
    BY <2>5 DEF ReadRings
  <2> QED
    BY <2>1, <2>3, <2>4, <2>5, <2>6
<1>2. CASE ~Collect(c)
  <2>1. Storing(a) /\ alone[a]
    BY <1>2, StoringStarts
  <2>2. \A d \in Clis : Storing(d)' => d = a
    BY <1>2, <2>1, StoringStarts DEF AloneStores
  <2>3. CASE a # c
    <3>1. ~Storing(c)
      BY <2>1, <2>3 DEF AloneStores
    <3>2. ring' = ring /\ ringTmp' = ringTmp /\ ringFd'[a] = ringFd[a]
      BY <2>3, <3>1, RingsStay
    <3>3. pc'[a] = pc[a] /\ rings'[a] = rings[a]
      BY <2>3, OthersStay
    <3>4. ReadRings' = ReadRings
      BY <3>2 DEF ReadRings
    <3> QED
      BY <2>1, <2>2, <3>2, <3>3, <3>4 DEF AloneStores
  <2>4. CASE a = c
    <3>1. \/ OpenRings(c) \/ WriteRings(c)
      <4>1. ~End(c) /\ ~ReplaceRings(c)
        BY <2>4 DEF End, ReplaceRings, Exit, Goto, Storing, TypeOK, RunsOK
      <4> QED
        BY <1>2, <2>1, <2>4, <4>1 DEF Run, Begin, AcquireLock, Deploy, BecomeHealthy, Digest,
           OpenRecord, WriteRecord, ReplaceRecord, Unload, ReadKey, Measure, Storing
    <3>2. CASE OpenRings(c)
      <4>1. /\ ring' = ring /\ rings' = rings /\ pc'[c] = "write_ring" /\ ringTmp' = Blank
            /\ ringFd'[c] = "temp"
        BY <3>2 DEF OpenRings, Goto, runVars, Ring!Open, TypeOK, RunsOK, FilesOK, Ring!FdOK
      <4>2. ReadRings' = ReadRings
        BY <4>1 DEF ReadRings
      <4> QED
        BY <2>1, <2>2, <2>4, <4>1, <4>2 DEF AloneStores
    <3>3. CASE WriteRings(c)
      <4>1. ringFd[c] = "temp" /\ ringTmp = Blank
        BY <2>1, <2>4, <3>3 DEF WriteRings, AloneStores
      <4>2. /\ ring' = ring /\ rings' = rings /\ pc'[c] = "replace_ring" /\ ringTmp' = rings[c]
        BY <3>3, <4>1 DEF WriteRings, Goto, runVars, Ring!Write, Ring!Over, TypeOK, RunsOK
      <4>3. ReadRings' = ReadRings
        BY <4>2 DEF ReadRings
      <4> QED
        BY <2>1, <2>2, <2>4, <4>2, <4>3 DEF AloneStores
    <3> QED
      BY <3>1, <3>2, <3>3
  <2> QED
    BY <2>3, <2>4
<1> QED
  BY <1>1, <1>2

LEMMA AloneStoresCorrect == Spec => []AloneStores
<1>1. Init => AloneStores
  BY DEF Init, AloneStores, Storing
<1>2. TypeOK /\ Staged /\ AloneStores /\ [Next]_vars => AloneStores'
  <2> SUFFICES ASSUME TypeOK, Staged, AloneStores, [Next]_vars PROVE AloneStores'
    OBVIOUS
  <2>1. CASE Edit \/ UNCHANGED vars
    BY <2>1 DEF Edit, vars, ringVars, runVars, AloneStores, Storing, ReadRings
  <2> QED
    BY <2>1, AloneStep DEF Next
<1> QED
  BY <1>1, <1>2, TypeCorrect, PTL DEF Spec

\* No sample is lost, for every number of runs, wherever one dies and whatever is edited,
\* unless two runs store at the same time: each change of the rings a reader finds is one
\* sample more at the end of one ring.
THEOREM SamplesKeptCorrect == Spec => SamplesKept
<1> DEFINE Kept == ReadRings' # ReadRings /\ (\A c \in Clis : Storing(c) => alone[c])
                     => Appended(ReadRings, ReadRings')
<1>1. TypeOK /\ Staged /\ AloneStores /\ [Next]_vars => [Kept]_vars
  <2> SUFFICES ASSUME TypeOK, Staged, AloneStores, [Next]_vars, ReadRings' # ReadRings,
                      \A c \in Clis : Storing(c) => alone[c]
               PROVE  Appended(ReadRings, ReadRings')
    OBVIOUS
  <2>1. ring' # ring
    BY DEF ReadRings
  <2>2. PICK c \in Clis : Run(c)
    BY <2>1 DEF Next, Edit, vars, ringVars
  <2>3. Storing(c) /\ alone[c]
    BY <2>1, <2>2, RingsStay
  <2>4. ReplaceRings(c)
    <3>1. ~(OpenRings(c) \/ End(c))
      BY <2>1 DEF OpenRings, Ring!Open, End, Ring!Close
    <3>2. ~WriteRings(c)
      <4> SUFFICES ASSUME WriteRings(c) PROVE FALSE
        OBVIOUS
      <4>1. ringFd[c] = "temp"
        BY <2>3 DEF WriteRings, AloneStores
      <4> QED
        BY <2>1, <4>1 DEF WriteRings, Ring!Write
    <3> QED
      BY <2>2, <2>3, <3>1, <3>2 DEF Run, Begin, AcquireLock, Deploy, BecomeHealthy, Digest,
         OpenRecord, WriteRecord, ReplaceRecord, Unload, ReadKey, Measure, Collect, Storing
  <2>5. ring' = rings[c]
    BY <2>3, <2>4 DEF ReplaceRings, Ring!Replace, AloneStores
  <2>6. PICK r \in Revs, s \in Samples : rings[c] = Add(ReadRings, r, s)
    BY <2>3 DEF AloneStores
  <2>7. ReadRings' = Add(ReadRings, r, s)
    BY <2>5, <2>6, ReadRingsTyped, AddIsRings DEF ReadRings
  <2> QED
    BY <2>7, ReadRingsTyped, AddAppends
<1> QED
  BY <1>1, TypeCorrect, AloneStoresCorrect, PTL DEF Spec, SamplesKept

-----------------------------------------------------------------------------
(* What the plan makes of the rings.                                       *)

\* The samples of this host that a reader finds for a revision weigh something.
LEMMA FreshWeighed ==
  ASSUME TypeOK, NEW r \in Revs
  PROVE  LET s == Fresh(ReadRings[r], Here)
         IN s \in Seq(Samples) /\ \A i \in 1..Len(s) : s[i].mb \in Nat
<1> DEFINE OurSamples == {x \in Samples : x.host = Here}
           s == Fresh(ReadRings[r], Here)
<1>1. ReadRings[r] \in Seq(Samples)
  BY ReadRingsTyped DEF Rings
<1>2. s \in Seq(OurSamples)
  BY <1>1, FreshOf
<1> HIDE DEF s
<1>3. \A i \in 1..Len(s) : s[i] \in Samples
  BY <1>2
<1>4. \A i \in 1..Len(s) : s[i].mb \in Nat
  BY <1>3 DEF Samples
<1>5. s \in Seq(Samples)
  BY <1>2, <1>3
<1> QED BY <1>4, <1>5 DEF s

\* The median of a ring is one, for rings of any size and samples of any weight, in
\* whatever order they came.
THEOREM MedianRightCorrect == Spec => []MedianRight
<1>1. TypeOK => MedianRight
  BY FreshWeighed, WeightedMedianIsMedian DEF MedianRight
<1> QED BY <1>1, TypeCorrect, PTL

\* The estimate is honest for figures of any size, whatever the runs do to the rings.
THEOREM EstimateHonestCorrect == Spec => []EstimateHonest
<1>1. ASSUME TypeOK PROVE EstimateHonest
  <2> SUFFICES ASSUME NEW r \in Revs, NEW f \in Declared
      PROVE  LET e == Estimate(f, MeasuredFootprint(ReadRings[r], Here))
                 fresh == Fresh(ReadRings[r], Here)
             IN /\ Closed(e)
                /\ e.confidence = "measured"
                     => \E i \in 1..Len(fresh) : Contains(e, fresh[i].mb, Peak(f))
                /\ e.confidence \in {"declared", "computed"}
                     => fresh = << >> /\ Starts(f) /\ Covers(e, Expected(f), Peak(f))
                /\ e.confidence = "raised"
                     => fresh = << >> /\ f.kvPerToken # None /\ f.flags[Len(f.flags)] > Huge
    BY DEF EstimateHonest, Closed, Contains, Covers
  <2> DEFINE e == Estimate(f, MeasuredFootprint(ReadRings[r], Here))
             s == Fresh(ReadRings[r], Here)
             median == WeightedMedian(s)
  <2>1. f \in Figures
    BY DeclaredAreFigures
  <2>2. s \in Seq(Samples) /\ \A i \in 1..Len(s) : s[i].mb \in Nat
    BY <1>1, FreshWeighed
  <2>3. e = IF median # None THEN Measured(f, median)
            ELSE IF KvRaises(f) THEN Raised ELSE Decomposed(f)
    BY DEF Estimate, MeasuredFootprint
  <2>4. CASE s = << >> /\ KvRaises(f)
    <3>1. e = Raised
      BY <2>3, <2>4 DEF WeightedMedian
    <3>2. f.kvPerToken # None /\ f.flags[Len(f.flags)] > Huge
      BY <2>4 DEF KvRaises, CtxSize
    <3> HIDE DEF e, s
    <3> QED BY <2>4, <3>1, <3>2, HugeIsNat DEF Raised, Cost, Closed, e, s
  <2>5. CASE s = << >> /\ ~KvRaises(f)
    <3>1. median = None
      BY <2>5 DEF WeightedMedian
    <3>2. e = Decomposed(f)
      BY <2>3, <2>5, <3>1
    <3>3. Expected(f) = WeightsOf(f) + 10 * (f.kvPerToken * ContextOf(f))
                          + Megabyte * OverheadComponent(f).mb
      BY DEF Expected, WeightsOf, ContextOf
    <3> HIDE DEF e, s
    <3>4. /\ Closed(e)
          /\ e.confidence \in {"declared", "computed", "unknown"}
          /\ e.confidence # "unknown" => Starts(f) /\ Covers(e, Expected(f), Peak(f))
      BY <2>1, <3>2, <3>3, DecomposedOf
    <3> QED BY <2>5, <3>4 DEF e, s
  <2>6. CASE s # << >>
    <3> HIDE DEF s
    <3>1. median \in Nat /\ median # None /\ \E i \in 1..Len(s) : s[i].mb = median
      BY <2>2, <2>6, MedianIsSample
    <3> HIDE DEF median, e
    <3>2. e = Measured(f, median)
      BY <2>3, <3>1
    <3>3. /\ Closed(e)
          /\ e.confidence \in {"measured", "unknown"}
          /\ e.confidence # "unknown" => Contains(e, median, Peak(f))
      BY <2>1, <3>1, <3>2, MeasuredOf
    <3> QED BY <3>1, <3>3 DEF e, s
  <2> QED BY <2>4, <2>5, <2>6
<1> QED BY <1>1, TypeCorrect, PTL
=============================================================================
