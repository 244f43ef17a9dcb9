------------------------------ MODULE Rmutator ------------------------------
(***************************************************************************)
(* rmutator's exec: every entry of the samples directory goes through      *)
(* test_file, every variant of it through fs::write and solve.  The        *)
(* variants are numbered in the order in which TruthEnumeration tries      *)
(* their truth values; ScriptMutation says what is in them.                *)
(*                                                                         *)
(* The environment is the file system, whose errors the code ignores, the  *)
(* two solvers, and a user who may stop the program and start it again in  *)
(* the same directory.                                                     *)
(*                                                                         *)
(* The operators whose names start with Bad are programming errors; the    *)
(* checks are shown to catch them.                                         *)
(***************************************************************************)
EXTENDS Naturals, Sequences, FiniteSets

CONSTANTS
    Samples,      \* the entries of the samples directory
    Unreadable,   \* those read_to_string fails on: not UTF-8, a directory
    Bavs,         \* number of boolean operations of a sample
    Name,         \* its file name, or "unknown" if that is not UTF-8
    Queries,      \* number of check-sat commands of a sample
    Answers,      \* what a solver may answer to a query
    NoFile, Torn, \* no such file; a file whose write was cut short
    MaxFaults,    \* bound on file-system errors
    MaxRuns       \* bound on the times the program is started

ASSUME RmutatorAssumption ==
    /\ Unreadable \subseteq Samples
    /\ Bavs \in [Samples -> Nat]
    /\ Queries \in [Samples -> Nat]
    /\ Answers \subseteq {"sat", "unsat", "unknown"}
    /\ MaxFaults \in Nat /\ MaxRuns \in Nat

VARIABLES
    pc,           \* the statement the program is at
    todo,         \* entries read_dir has still to yield
    cur,          \* source_filepath
    iterations,   \* as in test_file
    disk,         \* the working directory
    cvc4, z3,     \* what the solvers returned for the current file
    log,          \* what was done with each variant, and printed (history)
    faults, runs  \* file-system errors and starts so far

vars == <<pc, todo, cur, iterations, disk, cvc4, z3, log, faults, runs>>

-----------------------------------------------------------------------------
Variant == {<<s, k>> : s \in Samples, k \in Nat}
Variants(s) == 2 ^ Bavs[s]

\* The variant's number is left out of its file name.
BadFileName(s, k) == <<Name[s], 0>>
FileName(s, k) == <<Name[s], k>>
File == FileName(cur, iterations)
Files == {FileName(v[1], v[2]) :
             v \in UNION {{s} \X (0..(Variants(s) - 1)) : s \in Samples}}

\* What Command::output and from_utf8 give: nothing (`ok' is FALSE) if the
\* process did not start, if it failed and wrote to stderr, or if its output
\* is not UTF-8; else the answers it printed, at most one per check-sat.
NoResult == [ok |-> FALSE, said |-> <<>>]
Results(n) ==
    {NoResult} \cup [ok : {TRUE}, said : UNION {[1..k -> Answers] : k \in 0..n}]

\* String::contains on the output: "unsat" contains "sat".
Contains(r, word) ==
    \E i \in DOMAIN r.said :
        r.said[i] = word \/ (word = "sat" /\ r.said[i] = "unsat")

\* An || for an &&.
BadSuspicious ==
    \/ Contains(cvc4, "unsat") \/ ~Contains(z3, "unsat")
    \/ Contains(cvc4, "sat") /\ ~Contains(z3, "sat")

Suspicious ==
    \/ Contains(cvc4, "unsat") /\ ~Contains(z3, "unsat")
    \/ Contains(cvc4, "sat") /\ ~Contains(z3, "sat")

Entry(outcome) ==
    [run |-> runs, sample |-> cur, k |-> iterations, read |-> disk[File],
     outcome |-> outcome]

-----------------------------------------------------------------------------
Halted == {"done", "panicked", "stopped"}

Init ==
    /\ pc = "dir"
    /\ todo = Samples
    /\ cur \in Samples
    /\ iterations = 0
    /\ disk = [f \in Files |-> NoFile]
    /\ cvc4 = NoResult /\ z3 = NoResult
    /\ log = {}
    /\ faults = 0
    /\ runs = 1

Fault == faults < MaxFaults /\ faults' = faults + 1

\* What is left in the working directory is cleared first.
BadTestFile(s) ==
    /\ pc = "dir"
    /\ s \in todo
    /\ todo' = todo \ {s}
    /\ cur' = s
    /\ iterations' = 0
    /\ pc' = IF s \in Unreadable THEN "panicked" ELSE "write"
    /\ disk' = [f \in Files |-> NoFile]
    /\ UNCHANGED <<cvc4, z3, log, faults, runs>>

\* test_file starts: it panics, and exec with it, if it cannot read.
TestFile(s) ==
    /\ pc = "dir"
    /\ s \in todo
    /\ todo' = todo \ {s}
    /\ cur' = s
    /\ iterations' = 0
    /\ pc' = IF s \in Unreadable THEN "panicked" ELSE "write"
    /\ UNCHANGED <<disk, cvc4, z3, log, faults, runs>>

\* read_dir yields an Err for an entry: exec skips it.
SkipEntry(s) ==
    /\ pc = "dir"
    /\ s \in todo
    /\ Fault
    /\ todo' = todo \ {s}
    /\ UNCHANGED <<pc, cur, iterations, disk, cvc4, z3, log, runs>>

EndOfDir ==
    /\ pc = "dir"
    /\ todo = {}
    /\ pc' = "done"
    /\ UNCHANGED <<todo, cur, iterations, disk, cvc4, z3, log, faults, runs>>

\* A variant that is there already is not written again.
BadWrite ==
    /\ pc = "write"
    /\ iterations < Variants(cur)
    /\ disk' = [disk EXCEPT ![File] = IF @ = NoFile THEN <<cur, iterations>> ELSE @]
    /\ pc' = "cvc4"
    /\ UNCHANGED <<todo, cur, iterations, cvc4, z3, log, faults, runs>>

\* One variant too many.
BadLongWrite ==
    /\ pc = "write"
    /\ iterations <= Variants(cur)
    /\ pc' = "cvc4"
    /\ UNCHANGED <<todo, cur, iterations, disk, cvc4, z3, log, faults, runs>>

Write ==
    /\ pc = "write"
    /\ iterations < Variants(cur)
    /\ \/ /\ disk' = [disk EXCEPT ![File] = <<cur, iterations>>]
          /\ UNCHANGED faults
       \/ /\ Fault
          /\ \/ UNCHANGED disk
             \/ disk' = [disk EXCEPT ![File] = Torn]
    /\ pc' = "cvc4"
    /\ UNCHANGED <<todo, cur, iterations, cvc4, z3, log, runs>>

\* The loops of test_file end.
FileDone ==
    /\ pc = "write"
    /\ iterations >= Variants(cur)
    /\ pc' = "dir"
    /\ UNCHANGED <<todo, cur, iterations, disk, cvc4, z3, log, faults, runs>>

\* A solver returns, in its own time; it has no answer about a file that is
\* not there.
Returns(r) == disk[File] = NoFile => r.said = <<>>

Cvc4Returns(r) ==
    /\ pc = "cvc4"
    /\ Returns(r)
    /\ cvc4' = r
    /\ pc' = "z3"
    /\ UNCHANGED <<todo, cur, iterations, disk, z3, log, faults, runs>>

Z3Returns(r) ==
    /\ pc = "z3"
    /\ Returns(r)
    /\ z3' = r
    /\ pc' = "judge"
    /\ UNCHANGED <<todo, cur, iterations, disk, cvc4, log, faults, runs>>

Answered == cvc4.ok /\ z3.ok

\* The rest of solve, and the end of the loop body.
Judge(outcome) ==
    /\ pc = "judge"
    /\ log' = log \cup {Entry(outcome)}
    /\ iterations' = iterations + 1
    /\ pc' = "write"
    /\ cvc4' = NoResult /\ z3' = NoResult   \* locals of solve
    /\ UNCHANGED <<todo, cur, runs>>

Report ==
    /\ Answered /\ Suspicious
    /\ Judge("reported")
    /\ UNCHANGED <<disk, faults>>

\* An error ends the sample.
BadErrorEnds ==
    /\ pc = "judge"
    /\ ~Answered
    /\ log' = log \cup {Entry("error")}
    /\ pc' = "dir"
    /\ cvc4' = NoResult /\ z3' = NoResult
    /\ UNCHANGED <<todo, cur, iterations, disk, faults, runs>>

\* An error makes the program try the variant again.
BadErrorRetries ==
    /\ pc = "judge"
    /\ ~Answered
    /\ log' = log \cup {Entry("error")}
    /\ pc' = "write"
    /\ cvc4' = NoResult /\ z3' = NoResult
    /\ UNCHANGED <<todo, cur, iterations, disk, faults, runs>>

ReportError ==
    /\ ~Answered
    /\ Judge("error")
    /\ UNCHANGED <<disk, faults>>

\* The file is never removed.
BadRemove ==
    /\ Answered /\ ~Suspicious
    /\ Judge("removed")
    /\ UNCHANGED <<disk, faults>>

\* The result of remove_file is ignored.
Remove ==
    /\ Answered /\ ~Suspicious
    /\ \/ /\ Judge("removed")
          /\ disk' = [disk EXCEPT ![File] = NoFile]
          /\ UNCHANGED faults
       \/ /\ Judge("kept")
          /\ Fault
          /\ UNCHANGED disk

\* The user stops the program, perhaps in the middle of a write.
Stop ==
    /\ pc \notin Halted
    /\ runs < MaxRuns
    /\ pc' = "stopped"
    /\ \/ UNCHANGED disk
       \/ /\ pc = "write"
          /\ iterations < Variants(cur)
          /\ disk' = [disk EXCEPT ![File] = Torn]
    /\ UNCHANGED <<todo, cur, iterations, cvc4, z3, log, faults, runs>>

\* The user starts it again where it ran before.
Restart ==
    /\ pc \in Halted
    /\ runs < MaxRuns
    /\ runs' = runs + 1
    /\ pc' = "dir"
    /\ todo' = Samples
    /\ iterations' = 0
    /\ cvc4' = NoResult /\ z3' = NoResult
    /\ UNCHANGED <<cur, disk, log, faults>>

Step ==
    \/ \E s \in Samples : TestFile(s)
    \/ EndOfDir \/ Write \/ FileDone
    \/ Report \/ ReportError \/ Remove

Solvers ==
    \E r \in Results(Queries[cur]) : Cvc4Returns(r) \/ Z3Returns(r)

Next == Step \/ Solvers \/ (\E s \in Samples : SkipEntry(s)) \/ Stop \/ Restart

Spec == Init /\ [][Next]_vars

\* The program is scheduled; nothing makes a solver return.
FairSpec == Spec /\ WF_vars(Step)
-----------------------------------------------------------------------------
Contents == (UNION {{s} \X (0..(Variants(s) - 1)) : s \in Samples})
            \cup {NoFile, Torn}
Outcome == {"reported", "error", "removed", "kept"}

TypeOK ==
    /\ pc \in {"dir", "write", "cvc4", "z3", "judge"} \cup Halted
    /\ todo \subseteq Samples
    /\ cur \in Samples
    /\ iterations \in 0..Variants(cur)
    /\ pc \in {"cvc4", "z3", "judge"} => iterations < Variants(cur)
    /\ disk \in [Files -> Contents]
    /\ {cvc4, z3} \subseteq UNION {Results(Queries[s]) : s \in Samples}
    /\ \A e \in log :
         /\ e.run \in 1..runs
         /\ e.sample \in Samples
         /\ e.k \in 0..(Variants(e.sample) - 1)
         /\ e.read \in Contents
         /\ e.outcome \in Outcome
    /\ faults \in 0..MaxFaults
    /\ runs \in Nat \ {0}

JudgedInRun(s) == {e.k : e \in {e \in log : e.run = runs /\ e.sample = s}}
Complete(s) ==
    \/ JudgedInRun(s) = 0..(Variants(s) - 1)
    \/ JudgedInRun(s) = {} /\ faults > 0
FileOf(e) == FileName(e.sample, e.k)
OnDisk(e) == disk[FileOf(e)] = e.read
Evidence == {e \in log : e.outcome \in {"reported", "error"}}
Alone(s) == \A t \in Samples : Name[t] = Name[s] => t = s

\* A finished run has judged every variant of every sample, except samples
\* whose directory entry could not be read (lib.rs:45-52, 154-178).
RunComplete ==
    pc = "done" =>
        \A s \in Samples : Complete(s)

\* As long as the file system works, each verdict is about the variant it is
\* reported for, whatever an earlier or stopped run left behind, and however
\* many samples share a file name (lib.rs:170-177, 183-187).
VerdictsAttributable ==
    faults = 0 => \A e \in log : e.read = <<e.sample, e.k>>

\* The file named by a message is there for the user to look at, with what
\* the solvers read, for the rest of the run, if its sample has its name for
\* itself (lib.rs:170-175, 215-219).
EvidenceKept ==
    \A e \in Evidence : e.run = runs /\ Alone(e.sample) => OnDisk(e)

\* What can destroy such a file is a later variant with the same number, of
\* a sample with the same name or of the same sample in a later run.
LostOnlyToNamesake ==
    [][\A e \in Evidence :
         OnDisk(e) /\ ~OnDisk(e)' =>
            /\ Name[cur] = Name[e.sample]
            /\ iterations = e.k
            /\ cur # e.sample \/ runs > e.run]_vars

\* After a finished run each variant left in the working directory was
\* reported, or could not be judged or removed, or belongs to a sample that
\* was skipped: nothing is left from a run that was stopped.
LeftoversExplained ==
    pc = "done" =>
        \A f \in Files : disk[f] # NoFile =>
            \/ \E e \in log : /\ e.run = runs
                              /\ e.outcome # "removed"
                              /\ FileOf(e) = f
            \/ \E s \in Samples : /\ Name[s] = f[1]
                                  /\ JudgedInRun(s) = {}
                                  /\ faults > 0

\* Where the run is: the samples behind it are complete, the current one up
\* to `iterations'; while the solvers run they have the variant to read.
Active == {"write", "cvc4", "z3", "judge"}

Progress ==
    /\ pc \in Active => cur \notin todo
    /\ pc = "done" => todo = {}
    /\ pc \in Active \cup {"dir", "done"} =>
         \A s \in Samples :
            IF s \in todo THEN JudgedInRun(s) = {}
            ELSE IF pc \in Active /\ s = cur
                 THEN JudgedInRun(s) = 0..(iterations - 1)
                 ELSE Complete(s)

Written ==
    pc \in {"cvc4", "z3", "judge"} /\ faults = 0 =>
        disk[File] = <<cur, iterations>>

\* Where the variants in the working directory come from: this run has judged
\* and left them, or skipped their sample, or has them still to write.
Behind(s) == s \notin todo /\ ~(pc \in Active /\ s = cur)
Ahead(s, k) == s \in todo \/ (pc \in Active /\ s = cur /\ iterations <= k)

Left(f) ==
    \E e \in log : e.run = runs /\ e.outcome # "removed" /\ FileOf(e) = f
Skipped(f) ==
    \E s \in Samples :
        Name[s] = f[1] /\ Behind(s) /\ JudgedInRun(s) = {} /\ faults > 0
Pending(f) ==
    \E s \in Samples :
        Name[s] = f[1] /\ f[2] \in 0..(Variants(s) - 1) /\ Ahead(s, f[2])

Accounted ==
    pc \in Active \cup {"dir", "done"} =>
        \A f \in Files :
            disk[f] # NoFile => Left(f) \/ Skipped(f) \/ Pending(f)

\* The inductive invariant of the proofs.
IInv ==
    /\ TypeOK
    /\ Progress
    /\ Written
    /\ VerdictsAttributable
    /\ EvidenceKept

\* The solvers contradict each other on a query both have answered.
Contradiction ==
    \E i \in DOMAIN cvc4.said \cap DOMAIN z3.said :
        {cvc4.said[i], z3.said[i]} = {"sat", "unsat"}

Judging == pc = "judge" /\ pc' = "write"

\* A file is reported only if the solvers gave different answers, and a
\* contradiction goes unreported only if z3 has said "unsat" about the file
\* (lib.rs:211-224).
JudgementSound ==
    [][Judging =>
        /\ Entry("reported") \in log' => cvc4.said # z3.said
        /\ Answered /\ Contradiction /\ Entry("reported") \notin log'
           => Contains(z3, "unsat")]_vars

\* The program ends, or is stopped, if every call of a solver returns:
\* there is no timeout, so one that does not holds up every sample after it.
EndsIfSolversReturn ==
    []<>(pc # "cvc4") /\ []<>(pc # "z3") => []<>(pc \in Halted)

-----------------------------------------------------------------------------
\* Differential testing: a contradiction between the solvers is reported.
ContradictionsReported ==
    [][Judging /\ Answered /\ Contradiction => Entry("reported") \in log']_vars

\* "file {} has soundness problem!!!" is printed of contradictions only.
ReportsAreContradictions ==
    [][Judging /\ Entry("reported") \in log' => Contradiction]_vars
=============================================================================
