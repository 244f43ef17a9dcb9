--------------------------- MODULE RmutatorProofs ---------------------------
(***************************************************************************)
(* For every set of samples, whatever the solvers answer, however the file *)
(* system fails and however often the program is stopped and started: a    *)
(* finished run is complete, its verdicts are about the variants it        *)
(* reports, and the files it reports stay.                                 *)
(***************************************************************************)
EXTENDS Rmutator, FiniteSetTheorems, TLAPS

\* There are as many variants as there are sets of boolean operations.
LEMMA VariantsType == ASSUME NEW s \in Samples PROVE Variants(s) \in Nat \ {0}
  <1> DEFINE n == Bavs[s]
  <1>1. n \in Nat
    BY RmutatorAssumption
  <1> HIDE DEF n
  <1>2. IsFiniteSet(1..n) /\ Cardinality(1..n) = n
    BY <1>1, FS_Interval, SMT
  <1>3. IsFiniteSet(SUBSET (1..n)) /\ Cardinality(SUBSET (1..n)) = 2 ^ n
    BY <1>2, FS_SUBSET
  <1>4. Cardinality(SUBSET (1..n)) \in Nat
    BY <1>3, FS_CardinalityType
  <1>5. Cardinality(SUBSET (1..n)) # 0
    BY <1>3, FS_EmptySet
  <1> QED
    BY <1>3, <1>4, <1>5 DEF Variants, n

\* The current file is one of the files while a variant is under way.
LEMMA FileType ==
    ASSUME TypeOK, iterations < Variants(cur)
    PROVE  File \in Files /\ <<cur, iterations>> \in Contents
  <1>1. cur \in Samples /\ Variants(cur) \in Nat
    BY VariantsType DEF TypeOK
  <1>2. iterations \in 0..(Variants(cur) - 1)
    BY <1>1 DEF TypeOK
  <1>3. <<cur, iterations>> \in {cur} \X (0..(Variants(cur) - 1))
    BY <1>2
  <1>4. <<cur, iterations>> \in
           UNION {{s} \X (0..(Variants(s) - 1)) : s \in Samples}
    BY <1>1, <1>3
  <1> QED
    BY <1>4 DEF Files, File, FileName, Contents

\* The file of an entry of the log is one of the files.
LEMMA EntryFile ==
    ASSUME TypeOK, NEW e \in log
    PROVE  FileOf(e) \in Files
  <1>1. <<e.sample, e.k>> \in {e.sample} \X (0..(Variants(e.sample) - 1))
    BY DEF TypeOK
  <1>2. <<e.sample, e.k>> \in
           UNION {{s} \X (0..(Variants(s) - 1)) : s \in Samples}
    BY <1>1 DEF TypeOK
  <1> QED
    BY <1>2 DEF Files, FileOf, FileName

\* A variant of the current run that is in the log and has the current file's
\* name, but is not another sample's, would be tried twice.
LEMMA FileIsNew ==
    ASSUME IInv, pc \in Active, NEW e \in log, e.run = runs,
           FileOf(e) = File
    PROVE  e.sample # cur /\ Name[e.sample] = Name[cur] /\ e.k = iterations
  <1>1. Name[e.sample] = Name[cur] /\ e.k = iterations
    BY DEF FileOf, File, FileName
  <1>2. ASSUME e.sample = cur PROVE FALSE
    <2>1. JudgedInRun(cur) = 0..(iterations - 1)
      BY DEF IInv, Progress, TypeOK
    <2>2. e.k \in JudgedInRun(cur)
      BY <1>2 DEF JudgedInRun
    <2>3. iterations \in Int
      BY VariantsType DEF IInv, TypeOK
    <2> QED  BY <1>1, <2>1, <2>2, <2>3
  <1> QED
    BY <1>1, <1>2

\* The files of other names keep their contents when the current one changes.
LEMMA OthersKept ==
    ASSUME IInv, NEW x, disk' = [disk EXCEPT ![File] = x],
           NEW e \in log, FileOf(e) # File
    PROVE  disk'[FileOf(e)] = disk[FileOf(e)]
  <1>1. FileOf(e) \in DOMAIN disk
    BY EntryFile DEF IInv, TypeOK
  <1> QED
    BY <1>1

-----------------------------------------------------------------------------
(* The invariant is inductive.                                             *)


\* A first run has judged nothing.
LEMMA InitIInv == Init => IInv
  <1> SUFFICES ASSUME Init PROVE IInv
    OBVIOUS
  <1>1. Variants(cur) \in Nat
    BY VariantsType DEF Init
  <1>2. NoResult \in UNION {Results(Queries[s]) : s \in Samples}
    BY DEF Results, Init
  <1>3. TypeOK
    <2>1. [f \in Files |-> NoFile] \in [Files -> Contents]
      BY DEF Contents
    <2> QED  BY <1>1, <1>2, <2>1, RmutatorAssumption DEF Init, TypeOK
  <1>4. Progress
    BY DEF Init, Progress, Active, JudgedInRun
  <1>5. Written /\ VerdictsAttributable /\ EvidenceKept
    BY DEF Init, Written, VerdictsAttributable, EvidenceKept, Evidence
  <1> QED
    BY <1>3, <1>4, <1>5 DEF IInv

\* What leaves the log, the disk and the number of runs alone keeps what is
\* said of the log.
LEMMA LogKept ==
    ASSUME IInv, UNCHANGED <<log, disk, runs>>, faults' = 0 => faults = 0
    PROVE  VerdictsAttributable' /\ EvidenceKept'
  BY DEF IInv, VerdictsAttributable, EvidenceKept, Evidence, OnDisk, FileOf,
         FileName, Alone

\* What a sample has been judged on depends on the log and the run.
LEMMA JudgedKept ==
    ASSUME UNCHANGED <<log, runs>>
    PROVE  \A s \in Samples : JudgedInRun(s)' = JudgedInRun(s)
  BY DEF JudgedInRun

\* Faults only add up.
LEMMA FaultsGrow ==
    ASSUME TypeOK, faults' = faults \/ Fault
    PROVE  /\ faults' \in 0..MaxFaults
           /\ faults > 0 => faults' > 0
           /\ faults' = 0 => faults = 0 /\ faults' = faults
           /\ Fault => faults' > 0
  BY RmutatorAssumption DEF TypeOK, Fault

\* test_file starts.
LEMMA TestFileIInv ==
    ASSUME IInv, NEW s \in Samples, TestFile(s)
    PROVE  IInv'
  <1>1. UNCHANGED <<log, disk, runs, faults, cvc4, z3>>
    BY DEF TestFile
  <1>2. VerdictsAttributable' /\ EvidenceKept'
    BY <1>1, LogKept
  <1>3. TypeOK'
    <2>1. Variants(s) \in Nat
      BY VariantsType
    <2> QED  BY <2>1 DEF IInv, TypeOK, TestFile, Halted
  <1>4. Progress'
    <2>1. JudgedInRun(s) = {} /\ 0..(0 - 1) = {}
      BY DEF TestFile, IInv, Progress
    <2>2. \A t \in Samples \ (todo \cup {s}) : Complete(t)
      BY DEF TestFile, IInv, Progress, Active
    <2>3. \A t \in Samples : /\ JudgedInRun(t)' = JudgedInRun(t)
                             /\ Complete(t) => Complete(t)'
      BY <1>1, JudgedKept DEF Complete, Variants
    <2>4. \A t \in todo : JudgedInRun(t) = {}
      BY DEF TestFile, IInv, Progress, TypeOK
    <2> QED  BY <2>1, <2>2, <2>3, <2>4 DEF TestFile, Progress, Active
  <1>5. Written'
    BY DEF TestFile, Written
  <1> QED
    BY <1>2, <1>3, <1>4, <1>5 DEF IInv

\* exec skips an entry.
LEMMA SkipEntryIInv ==
    ASSUME IInv, NEW s \in Samples, SkipEntry(s)
    PROVE  IInv'
  <1>1. UNCHANGED <<log, disk, runs, cvc4, z3, cur, iterations, pc>> /\ Fault
    BY DEF SkipEntry
  <1>2. faults' \in 0..MaxFaults /\ faults' > 0
    BY <1>1, FaultsGrow DEF IInv
  <1>3. VerdictsAttributable' /\ EvidenceKept'
    BY <1>1, <1>2, LogKept
  <1>4. TypeOK'
    BY <1>1, <1>2 DEF IInv, TypeOK, SkipEntry
  <1>5. Progress'
    <2>1. JudgedInRun(s) = {}
      BY DEF SkipEntry, IInv, Progress
    <2>2. \A t \in Samples \ todo : Complete(t)
      BY DEF SkipEntry, IInv, Progress, Active
    <2>3. \A t \in Samples : /\ JudgedInRun(t)' = JudgedInRun(t)
                             /\ Complete(t) => Complete(t)'
      BY <1>1, <1>2, JudgedKept DEF Complete, Variants
    <2>4. Complete(s)'
      BY <1>2, <2>1, <2>3 DEF Complete
    <2>5. \A t \in todo : JudgedInRun(t) = {}
      BY DEF SkipEntry, IInv, Progress, TypeOK
    <2> QED  BY <2>2, <2>3, <2>4, <2>5 DEF SkipEntry, Progress, Active
  <1>6. Written'
    BY DEF SkipEntry, Written
  <1> QED
    BY <1>3, <1>4, <1>5, <1>6 DEF IInv

\* A sample or the directory comes to its end.
LEMMA EndIInv ==
    ASSUME IInv, EndOfDir \/ FileDone
    PROVE  IInv'
  <1>1. UNCHANGED <<log, disk, runs, faults, cvc4, z3, cur, iterations, todo>>
    BY DEF EndOfDir, FileDone
  <1>2. VerdictsAttributable' /\ EvidenceKept'
    BY <1>1, LogKept
  <1>3. TypeOK'
    BY <1>1 DEF IInv, TypeOK, EndOfDir, FileDone, Halted
  <1>4. Progress'
    <2>1. \A t \in Samples : /\ JudgedInRun(t)' = JudgedInRun(t)
                             /\ Complete(t) => Complete(t)'
      BY <1>1, JudgedKept DEF Complete, Variants
    <2>2. CASE EndOfDir
      BY <1>1, <2>1, <2>2 DEF EndOfDir, IInv, Progress, Active
    <2>3. CASE FileDone
      <3>1. Variants(cur) \in Nat /\ cur \in Samples
        BY VariantsType DEF IInv, TypeOK
      <3>2. iterations = Variants(cur)
        BY <2>3, <3>1 DEF FileDone, IInv, TypeOK
      <3>3. Complete(cur)
        BY <2>3, <3>1, <3>2 DEF FileDone, IInv, Progress, Active, Complete
      <3>4. \A t \in Samples \ todo : Complete(t)
        BY <2>3, <3>3 DEF FileDone, IInv, Progress, Active
      <3>5. \A t \in todo : JudgedInRun(t) = {}
        BY <2>3 DEF FileDone, IInv, Progress, Active, TypeOK
      <3> QED  BY <1>1, <2>1, <2>3, <3>4, <3>5 DEF FileDone, Progress, Active
    <2> QED  BY <2>2, <2>3
  <1>5. Written'
    BY DEF EndOfDir, FileDone, Written
  <1> QED
    BY <1>2, <1>3, <1>4, <1>5 DEF IInv

\* A change of the current file, before its variant is judged, leaves the
\* evidence of this run alone.
LEMMA EvidenceUntouched ==
    ASSUME IInv, pc \in Active, UNCHANGED <<log, runs>>,
           \/ disk' = disk
           \/ \E x : disk' = [disk EXCEPT ![File] = x]
    PROVE  EvidenceKept'
  <1>1. ASSUME NEW e \in Evidence, e.run = runs, Alone(e.sample)
        PROVE  disk'[FileOf(e)] = e.read
    <2>1. e \in log /\ disk[FileOf(e)] = e.read
      BY <1>1 DEF IInv, EvidenceKept, Evidence, OnDisk
    <2>2. FileOf(e) # File
      <3>1. ASSUME FileOf(e) = File PROVE FALSE
        <4>1. e.sample # cur /\ Name[e.sample] = Name[cur]
          BY <1>1, <2>1, <3>1, FileIsNew
        <4>2. cur \in Samples
          BY DEF IInv, TypeOK
        <4> QED  BY <1>1, <4>1, <4>2 DEF Alone
      <3> QED  BY <3>1
    <2> QED  BY <2>1, <2>2, OthersKept
  <1> QED
    BY <1>1 DEF EvidenceKept, Evidence, OnDisk, FileOf, FileName, Alone

\* A variant is written.
LEMMA WriteIInv ==
    ASSUME IInv, Write
    PROVE  IInv'
  <1>1. UNCHANGED <<log, runs, todo, cur, iterations, cvc4, z3>>
    BY DEF Write
  <1>2. /\ iterations < Variants(cur) /\ pc \in Active /\ pc' = "cvc4"
        /\ File \in Files /\ <<cur, iterations>> \in Contents /\ Torn \in Contents
    BY FileType DEF Write, Active, IInv, Contents
  <1>3. /\ faults' \in 0..MaxFaults
        /\ faults > 0 => faults' > 0
        /\ faults' = 0 => faults = 0 /\ disk' = [disk EXCEPT ![File] = <<cur, iterations>>]
    <2>1. faults' = faults \/ Fault
      BY DEF Write
    <2> QED  BY <2>1, FaultsGrow DEF Write, IInv
  <1>4. TypeOK'
    <2>1. disk' \in [Files -> Contents]
      BY <1>2 DEF Write, IInv, TypeOK
    <2> QED  BY <1>1, <1>2, <1>3, <2>1 DEF IInv, TypeOK
  <1>5. Progress'
    <2>1. \A t \in Samples : /\ JudgedInRun(t)' = JudgedInRun(t)
                             /\ Complete(t) => Complete(t)'
      BY <1>1, <1>3, JudgedKept DEF Complete, Variants
    <2> QED  BY <1>1, <1>2, <2>1 DEF IInv, Progress, Active, Write
  <1>6. Written'
    <2>1. File' = File
      BY <1>1 DEF File, FileName
    <2>2. ASSUME faults' = 0 PROVE disk'[File] = <<cur, iterations>>
      BY <1>2, <1>3, <2>2 DEF IInv, TypeOK
    <2> QED  BY <1>1, <2>1, <2>2 DEF Written
  <1>7. VerdictsAttributable'
    BY <1>1, <1>3 DEF IInv, VerdictsAttributable
  <1>8. EvidenceKept'
    BY <1>1, <1>2, EvidenceUntouched DEF Write
  <1> QED
    BY <1>4, <1>5, <1>6, <1>7, <1>8 DEF IInv

\* A solver returns.
LEMMA SolversIInv ==
    ASSUME IInv, Solvers
    PROVE  IInv'
  <1>1. /\ UNCHANGED <<log, disk, runs, todo, cur, iterations, faults>>
        /\ pc \in {"cvc4", "z3"} /\ pc' \in {"z3", "judge"}
        /\ {cvc4', z3'} \subseteq {cvc4, z3} \cup Results(Queries[cur])
    BY DEF Solvers, Cvc4Returns, Z3Returns
  <1>2. VerdictsAttributable' /\ EvidenceKept'
    BY <1>1, LogKept
  <1>3. TypeOK'
    BY <1>1 DEF IInv, TypeOK
  <1>4. Progress'
    <2>1. \A t \in Samples : /\ JudgedInRun(t)' = JudgedInRun(t)
                             /\ Complete(t) => Complete(t)'
      BY <1>1, JudgedKept DEF Complete, Variants
    <2> QED  BY <1>1, <2>1 DEF IInv, Progress, Active
  <1>5. Written'
    BY <1>1 DEF IInv, Written, File, FileName
  <1> QED
    BY <1>2, <1>3, <1>4, <1>5 DEF IInv

\* A variant is judged.
LEMMA JudgeIInv ==
    ASSUME IInv, Report \/ ReportError \/ Remove
    PROVE  IInv'
  <1>1. PICK o \in Outcome :
          /\ Judge(o)
          /\ \/ disk' = disk
             \/ o = "removed" /\ disk' = [disk EXCEPT ![File] = NoFile]
          /\ faults' = faults \/ Fault
    BY DEF Report, ReportError, Remove, Outcome
  <1> DEFINE e0 == Entry(o)
  <1>2. /\ UNCHANGED <<todo, cur, runs>>
        /\ pc = "judge" /\ pc' = "write"
        /\ iterations' = iterations + 1
        /\ log' = log \cup {e0}
        /\ cvc4' = NoResult /\ z3' = NoResult
    BY <1>1 DEF Judge
  <1>3. /\ e0.run = runs /\ e0.sample = cur /\ e0.k = iterations
        /\ e0.read = disk[File] /\ e0.outcome = o
    BY DEF Entry
  <1>4. /\ iterations < Variants(cur) /\ File \in Files
        /\ cur \in Samples /\ Variants(cur) \in Nat /\ iterations \in Nat
    <2>1. iterations < Variants(cur) /\ cur \in Samples
      BY <1>2 DEF IInv, TypeOK
    <2> QED  BY <2>1, FileType, VariantsType DEF IInv, TypeOK
  <1>5. /\ faults' \in 0..MaxFaults
        /\ faults > 0 => faults' > 0
        /\ faults' = 0 => faults = 0
    BY <1>1, FaultsGrow DEF IInv
  <1> HIDE DEF e0
  <1>6. TypeOK'
    <2>1. disk' \in [Files -> Contents]
      BY <1>1 DEF IInv, TypeOK, Contents
    <2>2. NoResult \in UNION {Results(Queries[s]) : s \in Samples}
      BY <1>4 DEF Results
    <2>3. iterations' \in 0..Variants(cur)
      BY <1>2, <1>4
    <2>4. /\ e0.run \in 1..runs /\ e0.sample \in Samples
          /\ e0.k \in 0..(Variants(e0.sample) - 1)
          /\ e0.read \in Contents /\ e0.outcome \in Outcome
      BY <1>3, <1>4 DEF IInv, TypeOK
    <2> QED  BY <1>2, <1>5, <2>1, <2>2, <2>3, <2>4 DEF IInv, TypeOK
  <1>7. Progress'
    <2>1. JudgedInRun(cur)' = JudgedInRun(cur) \cup {iterations}
      BY <1>2, <1>3 DEF JudgedInRun
    <2>2. JudgedInRun(cur) = 0..(iterations - 1)
      BY <1>2, <1>4 DEF IInv, Progress, Active
    <2>3. JudgedInRun(cur)' = 0..(iterations' - 1)
      BY <1>2, <1>4, <2>1, <2>2
    <2>4. \A t \in Samples \ {cur} : JudgedInRun(t)' = JudgedInRun(t)
      BY <1>2, <1>3 DEF JudgedInRun
    <2>5. \A t \in Samples \ {cur} : Complete(t) => Complete(t)'
      BY <1>5, <2>4 DEF Complete, Variants
    <2> QED  BY <1>2, <2>3, <2>4, <2>5 DEF IInv, Progress, Active
  <1>8. Written'
    BY <1>2 DEF Written
  <1>9. VerdictsAttributable'
    BY <1>2, <1>3, <1>5 DEF IInv, VerdictsAttributable, Written
  <1>10. EvidenceKept'
    <2>1. ASSUME NEW e \in log', e.outcome \in {"reported", "error"},
                 e.run = runs, Alone(e.sample)
          PROVE  disk'[FileOf(e)] = e.read
      <3>1. CASE e = e0
        <4>1. FileOf(e) = File
          BY <1>3, <3>1 DEF FileOf, File
        <4>2. disk' = disk
          BY <1>1, <1>3, <2>1, <3>1
        <4> QED  BY <1>3, <3>1, <4>1, <4>2
      <3>2. CASE e \in log
        <4>1. disk[FileOf(e)] = e.read
          BY <2>1, <3>2 DEF IInv, EvidenceKept, Evidence, OnDisk
        <4>2. FileOf(e) # File
          <5>1. ASSUME FileOf(e) = File PROVE FALSE
            <6>1. e.sample # cur /\ Name[e.sample] = Name[cur]
              BY <1>2, <2>1, <3>2, <5>1, FileIsNew DEF Active
            <6> QED  BY <1>4, <2>1, <6>1 DEF Alone
          <5> QED  BY <5>1
        <4> QED  BY <1>1, <3>2, <4>1, <4>2, OthersKept
      <3> QED  BY <1>2, <3>1, <3>2
    <2> QED
      BY <1>2, <2>1 DEF EvidenceKept, Evidence, OnDisk, FileOf, FileName, Alone
  <1> QED
    BY <1>6, <1>7, <1>8, <1>9, <1>10 DEF IInv

\* The user stops the program.
LEMMA StopIInv ==
    ASSUME IInv, Stop
    PROVE  IInv'
  <1>1. /\ UNCHANGED <<log, runs, todo, cur, iterations, cvc4, z3, faults>>
        /\ pc' = "stopped"
    BY DEF Stop
  <1>2. TypeOK'
    <2>1. disk' \in [Files -> Contents]
      BY FileType DEF Stop, IInv, TypeOK, Contents
    <2> QED  BY <1>1, <2>1 DEF IInv, TypeOK, Halted
  <1>3. Progress' /\ Written'
    BY <1>1 DEF Progress, Written, Active
  <1>4. VerdictsAttributable'
    BY <1>1 DEF IInv, VerdictsAttributable
  <1>5. EvidenceKept'
    <2>1. CASE disk' = disk
      BY <1>1, <2>1, LogKept
    <2>2. CASE disk' # disk
      <3>1. pc \in Active /\ \E x : disk' = [disk EXCEPT ![File] = x]
        BY <2>2 DEF Stop, Active
      <3> QED  BY <1>1, <3>1, EvidenceUntouched
    <2> QED  BY <2>1, <2>2
  <1> QED
    BY <1>2, <1>3, <1>4, <1>5 DEF IInv

\* The user starts it again.
LEMMA RestartIInv ==
    ASSUME IInv, Restart
    PROVE  IInv'
  <1>1. /\ UNCHANGED <<cur, disk, log, faults>>
        /\ runs' = runs + 1 /\ pc' = "dir" /\ todo' = Samples /\ iterations' = 0
        /\ cvc4' = NoResult /\ z3' = NoResult
    BY DEF Restart
  <1>2. runs \in Nat \ {0} /\ \A e \in log : e.run \in 1..runs
    BY DEF IInv, TypeOK
  <1>3. \A e \in log : e.run # runs'
    BY <1>1, <1>2
  <1>4. TypeOK'
    <2>1. cur \in Samples /\ Variants(cur) \in Nat
      BY VariantsType DEF IInv, TypeOK
    <2>2. NoResult \in UNION {Results(Queries[s]) : s \in Samples}
      BY <2>1 DEF Results
    <2>3. \A e \in log : e.run \in 1..(runs + 1)
      BY <1>2
    <2> QED  BY <1>1, <1>2, <2>1, <2>2, <2>3 DEF IInv, TypeOK
  <1>5. Progress'
    <2>1. \A t \in Samples : JudgedInRun(t)' = {}
      BY <1>1, <1>3 DEF JudgedInRun
    <2> QED  BY <1>1, <2>1 DEF Progress, Active
  <1>6. Written'
    BY <1>1 DEF Written
  <1>7. VerdictsAttributable'
    BY <1>1 DEF IInv, VerdictsAttributable
  <1>8. EvidenceKept'
    BY <1>1, <1>3 DEF EvidenceKept, Evidence
  <1> QED
    BY <1>4, <1>5, <1>6, <1>7, <1>8 DEF IInv

\* Every step keeps the invariant.
LEMMA StepIInv == ASSUME IInv, [Next]_vars PROVE IInv'
  <1>1. CASE \E s \in Samples : TestFile(s)
    BY <1>1, TestFileIInv
  <1>2. CASE \E s \in Samples : SkipEntry(s)
    BY <1>2, SkipEntryIInv
  <1>3. CASE EndOfDir \/ FileDone
    BY <1>3, EndIInv
  <1>4. CASE Write
    BY <1>4, WriteIInv
  <1>5. CASE Report \/ ReportError \/ Remove
    BY <1>5, JudgeIInv
  <1>6. CASE Solvers
    BY <1>6, SolversIInv
  <1>7. CASE Stop
    BY <1>7, StopIInv
  <1>8. CASE Restart
    BY <1>8, RestartIInv
  <1>9. CASE UNCHANGED vars
    <2>1. VerdictsAttributable' /\ EvidenceKept'
      BY <1>9, LogKept DEF vars
    <2>2. \A t \in Samples : /\ JudgedInRun(t)' = JudgedInRun(t)
                             /\ Complete(t) => Complete(t)'
      BY <1>9, JudgedKept DEF vars, Complete, Variants
    <2>3. Progress'
      BY <1>9, <2>2 DEF vars, IInv, Progress, Active
    <2>4. TypeOK' /\ Written'
      BY <1>9 DEF vars, IInv, TypeOK, Written, File, FileName
    <2> QED  BY <2>1, <2>3, <2>4 DEF IInv
  <1> QED
    BY <1>1, <1>2, <1>3, <1>4, <1>5, <1>6, <1>7, <1>8, <1>9 DEF Next, Step

-----------------------------------------------------------------------------
(* What follows for every run.                                             *)

\* The invariant holds of every state of the program.
THEOREM Inductive == Spec => []IInv
  BY InitIInv, StepIInv, PTL DEF Spec

\* The loop variables, the log, the files and the results have their types.
THEOREM TypeCorrect == Spec => []TypeOK
  <1>1. IInv => TypeOK
    BY DEF IInv
  <1> QED  BY <1>1, Inductive, PTL

\* A finished run has judged every variant of every sample it could list.
THEOREM RunsComplete == Spec => []RunComplete
  <1>1. IInv => RunComplete
    BY DEF IInv, Progress, RunComplete, Active
  <1> QED  BY <1>1, Inductive, PTL

\* A verdict is about the variant it names unless the file system failed.
THEOREM Attributable == Spec => []VerdictsAttributable
  <1>1. IInv => VerdictsAttributable
    BY DEF IInv
  <1> QED  BY <1>1, Inductive, PTL

\* Reported files stay for the rest of the run.
THEOREM EvidenceStays == Spec => []EvidenceKept
  <1>1. IInv => EvidenceKept
    BY DEF IInv
  <1> QED  BY <1>1, Inductive, PTL

\* Only a namesake, or a later run, destroys a reported file.
THEOREM LostToNamesake == Spec => LostOnlyToNamesake
  <1> DEFINE Loss(e) == OnDisk(e) /\ ~OnDisk(e)' =>
                          /\ Name[cur] = Name[e.sample]
                          /\ iterations = e.k
                          /\ cur # e.sample \/ runs > e.run
  <1>1. ASSUME IInv, [Next]_vars, NEW e \in Evidence PROVE Loss(e)
    <2>1. SUFFICES ASSUME OnDisk(e), ~OnDisk(e)'
                   PROVE  /\ Name[cur] = Name[e.sample]
                          /\ iterations = e.k
                          /\ cur # e.sample \/ runs > e.run
      OBVIOUS
    <2>2. e \in log /\ disk'[FileOf(e)] # disk[FileOf(e)]
      BY <2>1 DEF Evidence, OnDisk, FileOf, FileName
    <2>3. pc \in Active /\ \E x : disk' = [disk EXCEPT ![File] = x]
      BY <1>1, <2>2 DEF Next, Step, Solvers, TestFile, SkipEntry, EndOfDir,
         FileDone, Write, Cvc4Returns, Z3Returns, Report, ReportError, Remove,
         Judge, Stop, Restart, vars, Active
    <2>4. FileOf(e) = File
      BY <1>1, <2>2, <2>3, OthersKept
    <2>5. Name[cur] = Name[e.sample] /\ iterations = e.k
      BY <2>4 DEF FileOf, File, FileName
    <2>6. CASE e.run = runs
      BY <1>1, <2>2, <2>3, <2>4, <2>5, <2>6, FileIsNew
    <2>7. CASE e.run # runs
      BY <1>1, <2>2, <2>5, <2>7 DEF IInv, TypeOK
    <2> QED  BY <2>5, <2>6, <2>7
  <1>2. IInv /\ [Next]_vars => [\A e \in Evidence : Loss(e)]_vars
    BY <1>1
  <1> QED
    BY <1>2, Inductive, PTL DEF Spec, LostOnlyToNamesake

-----------------------------------------------------------------------------
(* What is left in the working directory.                                  *)

\* A file name belongs to a variant of some sample.
LEMMA FilesElim ==
    ASSUME NEW f \in Files
    PROVE  /\ f = <<f[1], f[2]>>
           /\ \E s \in Samples :
                Name[s] = f[1] /\ f[2] \in 0..(Variants(s) - 1)
  <1>1. PICK v \in UNION {{s} \X (0..(Variants(s) - 1)) : s \in Samples} :
          f = FileName(v[1], v[2])
    BY DEF Files
  <1>2. PICK s \in Samples : v \in {s} \X (0..(Variants(s) - 1))
    BY <1>1
  <1> QED
    BY <1>1, <1>2 DEF FileName

\* When a run starts nothing is on disk.
LEMMA AccountedInit == Init => Accounted
  BY DEF Init, Accounted

\* A sample is taken from the directory, or skipped.
LEMMA AccountedTake ==
    ASSUME IInv, Accounted, NEW s \in Samples, TestFile(s) \/ SkipEntry(s)
    PROVE  Accounted'
  <1>1. /\ pc = "dir" /\ s \in todo /\ todo' = todo \ {s} /\ disk' = disk
        /\ UNCHANGED <<log, runs>> /\ JudgedInRun(s) = {}
    BY DEF TestFile, SkipEntry, IInv, Progress
  <1>2. \/ /\ pc' \in {"write", "panicked"} /\ cur' = s /\ iterations' = 0
           /\ faults' = faults
        \/ pc' = "dir" /\ faults' > 0
    BY FaultsGrow DEF TestFile, SkipEntry, IInv
  <1>3. SUFFICES ASSUME pc' \in {"write", "dir"}, NEW f \in Files, disk[f] # NoFile
                 PROVE  Left(f)' \/ Skipped(f)' \/ Pending(f)'
    BY <1>1, <1>2 DEF Accounted, Active, Files, Variants, FileName
  <1>4. Left(f) \/ Skipped(f) \/ Pending(f)
    BY <1>1, <1>3 DEF Accounted
  <1>5. \A t \in Samples : JudgedInRun(t)' = JudgedInRun(t)
    BY <1>1, JudgedKept
  <1>6. CASE Left(f)
    BY <1>1, <1>6 DEF Left, FileOf, FileName
  <1>7. CASE Skipped(f)
    <2>1. PICK t \in Samples :
            Name[t] = f[1] /\ t \notin todo /\ JudgedInRun(t) = {} /\ faults > 0
      BY <1>7 DEF Skipped, Behind
    <2>2. t \notin todo' /\ t # s
      BY <1>1, <2>1
    <2>3. faults' > 0 /\ Behind(t)'
      BY <1>2, <1>3, <2>1, <2>2 DEF Behind, Active
    <2> QED
      BY <1>5, <2>1, <2>3 DEF Skipped
  <1>8. CASE Pending(f)
    <2>1. PICK t \in Samples :
            Name[t] = f[1] /\ f[2] \in 0..(Variants(t) - 1) /\ t \in todo
      BY <1>1, <1>8 DEF Pending, Ahead, Active
    <2>2. f[2] \in Int /\ 0 <= f[2] /\ Variants(t)' = Variants(t)
      BY <2>1, VariantsType DEF Variants
    <2>3. CASE t # s
      BY <1>1, <2>1, <2>2, <2>3 DEF Pending, Ahead
    <2>4. CASE t = s /\ pc' = "write"
      BY <1>2, <2>1, <2>2, <2>4 DEF Pending, Ahead, Active
    <2>5. CASE t = s /\ pc' = "dir"
      BY <1>1, <1>2, <1>5, <2>1, <2>5 DEF Skipped, Behind, Active
    <2> QED
      BY <1>3, <2>3, <2>4, <2>5
  <1> QED
    BY <1>4, <1>6, <1>7, <1>8

\* Nothing is left for a sample whose loops have ended.
LEMMA AccountedEnd ==
    ASSUME IInv, Accounted, EndOfDir \/ FileDone
    PROVE  Accounted'
  <1>1. /\ UNCHANGED <<log, disk, runs, faults, cur, iterations, todo>>
        /\ pc = "dir" \/ (pc = "write" /\ iterations >= Variants(cur))
        /\ pc' \in {"dir", "done"}
    BY DEF EndOfDir, FileDone
  <1>2. SUFFICES ASSUME NEW f \in Files, disk[f] # NoFile
                 PROVE  Left(f)' \/ Skipped(f)' \/ Pending(f)'
    BY <1>1 DEF Accounted, Files, Variants, FileName
  <1>3. Left(f) \/ Skipped(f) \/ Pending(f)
    BY <1>1, <1>2 DEF Accounted, Active
  <1>4. \A t \in Samples : JudgedInRun(t)' = JudgedInRun(t)
    BY <1>1, JudgedKept
  <1>5. CASE Left(f)
    BY <1>1, <1>5 DEF Left, FileOf, FileName
  <1>6. CASE Skipped(f)
    BY <1>1, <1>4, <1>6 DEF Skipped, Behind, Active
  <1>7. CASE Pending(f)
    <2>1. PICK t \in Samples :
            Name[t] = f[1] /\ f[2] \in 0..(Variants(t) - 1) /\ Ahead(t, f[2])
      BY <1>7 DEF Pending
    <2>2. Variants(t) \in Nat /\ iterations \in Int /\ Variants(t)' = Variants(t)
      BY VariantsType DEF IInv, TypeOK, Variants
    <2>3. t \in todo
      BY <1>1, <2>1, <2>2 DEF Ahead, Active
    <2> QED
      BY <1>1, <2>1, <2>2, <2>3 DEF Pending, Ahead
  <1> QED
    BY <1>3, <1>5, <1>6, <1>7

\* A variant is written, or a solver returns: what may lie in the file is the
\* variant that this run is at.
LEMMA AccountedWork ==
    ASSUME IInv, Accounted, Write \/ Solvers
    PROVE  Accounted'
  <1>1. /\ UNCHANGED <<log, runs, cur, iterations, todo>>
        /\ pc \in Active /\ pc' \in Active
        /\ faults > 0 => faults' > 0
        /\ iterations < Variants(cur) /\ cur \in Samples
        /\ \A f \in Files : f # File => disk'[f] = disk[f]
    <2>1. CASE Write
      <3>1. faults' = faults \/ Fault
        BY <2>1 DEF Write
      <3> QED
        BY <2>1, <3>1, FaultsGrow DEF Write, IInv, TypeOK, Active
    <2>2. CASE Solvers
      BY <2>2 DEF Solvers, Cvc4Returns, Z3Returns, IInv, TypeOK, Active
    <2> QED
      BY <2>1, <2>2
  <1>2. SUFFICES ASSUME NEW f \in Files, disk'[f] # NoFile
                 PROVE  Left(f)' \/ Skipped(f)' \/ Pending(f)'
    BY DEF Accounted, Files, Variants, FileName
  <1>3. \A t \in Samples : /\ JudgedInRun(t)' = JudgedInRun(t)
                           /\ Variants(t)' = Variants(t)
    BY <1>1, JudgedKept DEF Variants
  <1>4. CASE f = File
    <2>1. f[1] = Name[cur] /\ f[2] = iterations
      BY <1>4 DEF File, FileName
    <2>2. iterations \in 0..(Variants(cur) - 1)
      BY <1>1, VariantsType DEF IInv, TypeOK
    <2> QED
      BY <1>1, <1>3, <2>1, <2>2 DEF Pending, Ahead
  <1>5. CASE f # File
    <2>1. Left(f) \/ Skipped(f) \/ Pending(f)
      BY <1>1, <1>2, <1>5 DEF Accounted
    <2>2. Left(f) => Left(f)'
      BY <1>1 DEF Left, FileOf, FileName
    <2>3. Skipped(f) => Skipped(f)'
      BY <1>1, <1>3 DEF Skipped, Behind
    <2>4. Pending(f) => Pending(f)'
      BY <1>1, <1>3 DEF Pending, Ahead
    <2> QED
      BY <2>1, <2>2, <2>3, <2>4
  <1> QED
    BY <1>4, <1>5

\* A variant is judged: its file is removed or its entry says why not.
LEMMA AccountedJudge ==
    ASSUME IInv, Accounted, Report \/ ReportError \/ Remove
    PROVE  Accounted'
  <1>1. PICK o \in Outcome :
          /\ Judge(o)
          /\ \/ o # "removed" /\ disk' = disk
             \/ o = "removed" /\ disk' = [disk EXCEPT ![File] = NoFile]
          /\ faults' = faults \/ Fault
    BY DEF Report, ReportError, Remove, Outcome
  <1>2. /\ UNCHANGED <<todo, cur, runs>> /\ pc = "judge" /\ pc' = "write"
        /\ iterations' = iterations + 1 /\ log' = log \cup {Entry(o)}
    BY <1>1 DEF Judge
  <1>3. /\ Entry(o).run = runs /\ Entry(o).sample = cur
        /\ Entry(o).k = iterations /\ Entry(o).outcome = o
    BY DEF Entry
  <1>4. cur \in Samples /\ iterations \in Nat /\ (faults > 0 => faults' > 0)
    BY <1>1, FaultsGrow, VariantsType DEF IInv, TypeOK
  <1>5. SUFFICES ASSUME NEW f \in Files, disk'[f] # NoFile
                 PROVE  Left(f)' \/ Skipped(f)' \/ Pending(f)'
    BY DEF Accounted, Files, Variants, FileName
  <1>6. CASE f = File
    <2>1. o # "removed"
      BY <1>1, <1>5, <1>6 DEF IInv, TypeOK
    <2>2. Entry(o) \in log' /\ Entry(o).run = runs' /\ FileOf(Entry(o)) = f
      BY <1>2, <1>3, <1>6 DEF FileOf, File
    <2> QED
      BY <1>2, <1>3, <2>1, <2>2 DEF Left, FileOf, FileName
  <1>7. CASE f # File
    <2>1. disk[f] = disk'[f]
      BY <1>1, <1>7 DEF IInv, TypeOK
    <2>2. Left(f) \/ Skipped(f) \/ Pending(f)
      BY <1>2, <1>5, <2>1 DEF Accounted, Active
    <2>3. Left(f) => Left(f)'
      BY <1>2 DEF Left, FileOf, FileName
    <2>4. ASSUME Skipped(f) PROVE Skipped(f)'
      <3>1. PICK t \in Samples :
              Name[t] = f[1] /\ Behind(t) /\ JudgedInRun(t) = {} /\ faults > 0
        BY <2>4 DEF Skipped
      <3>2. t # cur
        BY <1>2, <3>1 DEF Behind, Active
      <3>3. JudgedInRun(t)' = JudgedInRun(t)
        BY <1>2, <1>3, <3>2 DEF JudgedInRun
      <3> QED
        BY <1>2, <1>4, <3>1, <3>2, <3>3 DEF Skipped, Behind
    <2>5. ASSUME Pending(f) PROVE Pending(f)'
      <3>1. PICK t \in Samples :
              Name[t] = f[1] /\ f[2] \in 0..(Variants(t) - 1) /\ Ahead(t, f[2])
        BY <2>5 DEF Pending
      <3>2. Variants(t)' = Variants(t) /\ f[2] \in Int
        BY <3>1, VariantsType DEF Variants
      <3>3. CASE t \in todo
        BY <1>2, <3>1, <3>2, <3>3 DEF Pending, Ahead
      <3>4. CASE t \notin todo
        <4>1. t = cur /\ iterations <= f[2]
          BY <3>1, <3>4 DEF Ahead
        <4>2. iterations # f[2]
          BY <1>7, <3>1, <4>1, FilesElim DEF File, FileName
        <4>3. iterations' <= f[2]
          BY <1>2, <1>4, <3>2, <4>1, <4>2
        <4> QED
          BY <1>2, <3>1, <3>2, <4>1, <4>3 DEF Pending, Ahead, Active
      <3> QED
        BY <3>3, <3>4
    <2> QED
      BY <2>2, <2>3, <2>4, <2>5
  <1> QED
    BY <1>6, <1>7

LEMMA AccountedNext == IInv /\ Accounted /\ [Next]_vars => Accounted'
  <1> SUFFICES ASSUME IInv, Accounted, [Next]_vars PROVE Accounted'
    OBVIOUS
  <1>1. CASE Stop
    BY <1>1 DEF Stop, Accounted, Active
  <1>2. CASE Restart
    <2>1. todo' = Samples
      BY <1>2 DEF Restart
    <2>2. \A f \in Files' : Pending(f)'
      BY <2>1, FilesElim DEF Pending, Ahead, Files, FileName, Variants
    <2> QED
      BY <2>2 DEF Accounted
  <1>3. CASE UNCHANGED vars
    BY <1>3 DEF vars, Accounted, Left, Skipped, Pending, Behind, Ahead, FileOf,
                FileName, JudgedInRun, Files, Variants
  <1> QED
    BY <1>1, <1>2, <1>3, AccountedTake, AccountedEnd, AccountedWork,
       AccountedJudge DEF Next, Step

\* After a finished run nothing is in the working directory that this run has
\* not judged and left, but the files of samples it could not list.
THEOREM NothingElseLeft == Spec => []LeftoversExplained
  <1>1. IInv /\ Accounted => LeftoversExplained
    <2> SUFFICES ASSUME IInv, Accounted, pc = "done", NEW f \in Files,
                        disk[f] # NoFile
                 PROVE  \/ Left(f)
                        \/ \E s \in Samples : /\ Name[s] = f[1]
                                              /\ JudgedInRun(s) = {}
                                              /\ faults > 0
      BY DEF LeftoversExplained, Left
    <2>1. Left(f) \/ Skipped(f) \/ Pending(f)
      BY DEF Accounted
    <2>2. ~Pending(f)
      BY DEF Pending, Ahead, Active, IInv, Progress
    <2> QED
      BY <2>1, <2>2 DEF Skipped
  <1> QED
    BY <1>1, Inductive, AccountedInit, AccountedNext, PTL DEF Spec

-----------------------------------------------------------------------------
(* What solve makes of the answers.                                        *)

\* The variant being judged has no entry in this run yet.
LEMMA NotYetJudged ==
    ASSUME IInv, pc = "judge", NEW o
    PROVE  Entry(o) \notin log
  <1>1. JudgedInRun(cur) = 0..(iterations - 1) /\ iterations \in Int
    BY VariantsType DEF IInv, Progress, Active, TypeOK
  <1>2. iterations \notin JudgedInRun(cur)
    BY <1>1
  <1> QED
    BY <1>2 DEF JudgedInRun, Entry

\* No file is reported on equal answers, and no contradiction is passed over
\* unless z3 has said "unsat".
THEOREM Judgement == Spec => JudgementSound
  <1> DEFINE Sound ==
          Judging =>
            /\ Entry("reported") \in log' => cvc4.said # z3.said
            /\ Answered /\ Contradiction /\ Entry("reported") \notin log'
               => Contains(z3, "unsat")
  <1>1. ASSUME IInv, Next PROVE Sound
    <2> SUFFICES ASSUME Judging PROVE Sound
      OBVIOUS
    <2>1. pc = "judge" /\ (Report \/ ReportError \/ Remove)
      BY <1>1 DEF Judging, Next, Step, TestFile, SkipEntry, EndOfDir, Write,
         FileDone, Solvers, Cvc4Returns, Z3Returns, Stop, Restart, Halted
    <2>2. \A o : Entry(o) \notin log
      BY <1>1, <2>1, NotYetJudged
    <2>3. CASE Report
      <3>1. Entry("reported") \in log'
        BY <2>3 DEF Report, Judge
      <3>2. cvc4.said # z3.said
        BY <2>3 DEF Report, Suspicious, Contains
      <3> QED
        BY <3>1, <3>2
    <2>4. CASE ReportError \/ Remove
      <3>1. PICK o \in {"error", "removed", "kept"} : log' = log \cup {Entry(o)}
        BY <2>4 DEF ReportError, Remove, Judge
      <3>2. Entry("reported") # Entry(o)
        BY <3>1 DEF Entry
      <3>3. Entry("reported") \notin log'
        BY <2>2, <3>1, <3>2
      <3>4. ASSUME Answered, Contradiction PROVE Contains(z3, "unsat")
        <4>1. ~Suspicious
          BY <2>4, <3>4 DEF ReportError, Remove
        <4>2. PICK i \in DOMAIN cvc4.said \cap DOMAIN z3.said :
                {cvc4.said[i], z3.said[i]} = {"sat", "unsat"}
          BY <3>4 DEF Contradiction
        <4>3. CASE z3.said[i] = "unsat"
          BY <4>2, <4>3 DEF Contains
        <4>4. CASE z3.said[i] = "sat" /\ cvc4.said[i] = "unsat"
          BY <4>1, <4>2, <4>4 DEF Suspicious, Contains
        <4> QED
          BY <4>2, <4>3, <4>4
      <3> QED
        BY <3>3, <3>4
    <2> QED
      BY <2>1, <2>3, <2>4
  <1>2. IInv /\ [Next]_vars => [Sound]_vars
    BY <1>1
  <1> QED
    BY <1>2, Inductive, PTL DEF Spec, JudgementSound
=============================================================================
