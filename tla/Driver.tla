------------------------------- MODULE Driver -------------------------------
(***************************************************************************)
(* driver.m: every function file is mutated with one seed and 1..MAX_MUT   *)
(* replacements; every mutant is compiled, run on every input in the       *)
(* interpreter and as a binary, and the two outputs are compared.  If they *)
(* differ the input and the outputs go to two bug files.                   *)
(*                                                                         *)
(* A mutant is what matlab-mutator makes of a version of the file: the     *)
(* seed and the number of replacements are part of its name.  Exit         *)
(* statuses are ignored, so what an earlier session left may be used in    *)
(* place of what a failed step should have made.  The user may close       *)
(* MATLAB, edit the files and start again in the same directory.           *)
(*                                                                         *)
(* The operators whose names start with Bad are programming errors; the    *)
(* checks are shown to catch them.                                         *)
(***************************************************************************)
EXTENDS Naturals, Sequences

CONSTANTS
    FunctionFiles,  \* the entries of matlab-example-functions, less . and ..
    Seeds,          \* what randi may draw
    MAX_MUT,
    NumInputs,      \* columns of [randi(3), rand(), -randi(3), 0]
    Outputs,        \* what programs print, as sequences of characters
    NoFile, Torn,   \* no such file; a file whose write was cut short
    MaxFaults,      \* bound on failing tools and files
    MaxSessions,    \* bound on the times the driver is started
    MaxEdits        \* bound on the edits of a file

ASSUME DriverAssumption ==
    /\ MAX_MUT \in Nat /\ NumInputs \in Nat
    /\ MaxFaults \in Nat /\ MaxSessions \in Nat /\ MaxEdits \in Nat
    /\ NoFile \notin Nat /\ Torn \notin Nat /\ NoFile # Torn
    /\ \A o \in Outputs : o \in Seq({"[", "]", "1", "2"})

VARIABLES
    pc,             \* the statement the driver is at
    todo,           \* files the outer loop has still to visit
    file, seed, num, input,   \* the loop variables
    version,        \* how often each file has been edited
    target,         \* target/<o_fname>.m: the version it is a mutant of
    binary,         \* target/<o_fname>/: the version it was compiled from
    r1, r2,         \* locals of exec
    json, txt,      \* the two bug files, by o_fname
    log,            \* what was found, and when (history)
    faults, session \* failures and starts so far

vars == <<pc, todo, file, seed, num, input, version, target, binary, r1, r2,
          json, txt, log, faults, session>>

loops == <<todo, file, seed, num>>
disk == <<target, binary, json, txt>>
user == <<version, session>>

-----------------------------------------------------------------------------
OFName(f, s, n) == <<n, s, f>>
Here == OFName(file, seed, num)
FNames == {OFName(f, s, n) : f \in FunctionFiles, s \in Seeds, n \in 1..MAX_MUT}

\* r1 == r2 on rows of characters: of equal length, or one of length one,
\* which is compared with each character of the other; all() of nothing is
\* true.  Other lengths throw, which counts as a difference.
Same(a, b) ==
    \/ a = b
    \/ Len(a) = 1 /\ \A i \in DOMAIN b : b[i] = a[1]
    \/ Len(b) = 1 /\ \A i \in DOMAIN a : a[i] = b[1]

\* Lengths are not looked at: rows of different length throw, and are taken
\* for the same.
BadReported(a, b) ==
    Len(a) = Len(b) /\ a # b

Reported(a, b) ==
    /\ ~Same(a, b)
    /\ b # <<"[", "]">>
    /\ a # <<>>

Entry(outcome) ==
    [session |-> session, name |-> Here, input |-> input, of |-> version[file],
     by1 |-> target[Here], by2 |-> binary[Here], outcome |-> outcome]

Fault == faults < MaxFaults /\ faults' = faults + 1
-----------------------------------------------------------------------------
Halted == {"done", "closed"}

Init ==
    /\ pc = "files"
    /\ todo = FunctionFiles
    /\ file \in FunctionFiles /\ seed \in Seeds /\ num = 1 /\ input = 1
    /\ version = [f \in FunctionFiles |-> 0]
    /\ target = [n \in FNames |-> NoFile]
    /\ binary = [n \in FNames |-> NoFile]
    /\ r1 = <<>> /\ r2 = <<>>
    /\ json = [n \in FNames |-> NoFile]
    /\ txt = [n \in FNames |-> NoFile]
    /\ log = {}
    /\ faults = 0
    /\ session = 1

\* The count goes on from where the file before left it.
BadNextFile(f, s) ==
    /\ pc = "files"
    /\ f \in todo
    /\ todo' = todo \ {f}
    /\ file' = f /\ seed' = s
    /\ pc' = "mutate"
    /\ UNCHANGED <<num, input, r1, r2, log, faults>> /\ UNCHANGED <<disk, user>>

\* The next file, and its seed.
NextFile(f, s) ==
    /\ pc = "files"
    /\ f \in todo
    /\ todo' = todo \ {f}
    /\ file' = f /\ seed' = s /\ num' = 1
    /\ pc' = "mutate"
    /\ UNCHANGED <<input, r1, r2, log, faults>> /\ UNCHANGED <<disk, user>>

EndOfFiles ==
    /\ pc = "files"
    /\ todo = {}
    /\ pc' = "done"
    /\ UNCHANGED <<input, r1, r2, log, faults>> /\ UNCHANGED <<loops, disk, user>>

\* The mutator is run only if there is no mutant yet.
BadMutate ==
    /\ pc = "mutate"
    /\ num <= MAX_MUT
    /\ target' = [target EXCEPT ![Here] = IF @ = NoFile THEN version[file] ELSE @]
    /\ pc' = "compile"
    /\ UNCHANGED <<input, r1, r2, binary, json, txt, log, faults>>
    /\ UNCHANGED <<loops, user>>

\* gen, the mutator: it panics before it writes, or while it does.
Mutate ==
    /\ pc = "mutate"
    /\ num <= MAX_MUT
    /\ \/ /\ target' = [target EXCEPT ![Here] = version[file]]
          /\ UNCHANGED faults
       \/ /\ Fault
          /\ \/ UNCHANGED target
             \/ target' = [target EXCEPT ![Here] = Torn]
    /\ pc' = "compile"
    /\ UNCHANGED <<input, r1, r2, binary, json, txt, log>>
    /\ UNCHANGED <<loops, user>>

NextNum ==
    /\ pc = "mutate"
    /\ num > MAX_MUT
    /\ pc' = "files"
    /\ UNCHANGED <<input, r1, r2, log, faults>> /\ UNCHANGED <<loops, disk, user>>

\* gen, mcc: half a function may or may not compile.
Compile ==
    /\ pc = "compile"
    /\ \/ /\ target[Here] # NoFile
          /\ binary' = [binary EXCEPT ![Here] = target[Here]]
          /\ UNCHANGED faults
       \/ /\ target[Here] \in {NoFile, Torn}
          /\ UNCHANGED <<binary, faults>>
       \/ /\ Fault
          /\ \/ UNCHANGED binary
             \/ binary' = [binary EXCEPT ![Here] = Torn]
    /\ input' = 1
    /\ pc' = "interpret"
    /\ UNCHANGED <<r1, r2, target, json, txt, log>> /\ UNCHANGED <<loops, user>>

\* The same number of replacements again.
BadNextMutant ==
    /\ pc = "interpret"
    /\ input > NumInputs
    /\ pc' = "mutate"
    /\ UNCHANGED <<input, r1, r2, log, faults>> /\ UNCHANGED <<loops, disk, user>>

\* The loop over the inputs comes to its end.
NextMutant ==
    /\ pc = "interpret"
    /\ input > NumInputs
    /\ num' = num + 1
    /\ pc' = "mutate"
    /\ UNCHANGED <<input, r1, r2, log, faults, todo, file, seed>>
    /\ UNCHANGED <<disk, user>>

\* The first error ends the mutant.
BadThrows ==
    /\ pc = "interpret"
    /\ input <= NumInputs
    /\ log' = log \cup {Entry("threw")}
    /\ input' = NumInputs + 1
    /\ UNCHANGED <<pc, r1, r2, faults>> /\ UNCHANGED <<loops, disk, user>>

\* exec, f(num2str(input)): an error in the mutant, or no mutant at all, ends
\* this input; the catch goes on with the next.
Throws ==
    /\ pc = "interpret"
    /\ input <= NumInputs
    /\ log' = log \cup {Entry("threw")}
    /\ input' = input + 1
    /\ UNCHANGED <<pc, r1, r2, faults>> /\ UNCHANGED <<loops, disk, user>>

Interpreted(o) ==
    /\ pc = "interpret"
    /\ input <= NumInputs
    /\ target[Here] # NoFile
    /\ r1' = o
    /\ pc' = "run"
    /\ UNCHANGED <<input, r2, log, faults>> /\ UNCHANGED <<loops, disk, user>>

\* exec, the binary: the shell empties out.txt before it looks for the
\* binary.
Ran(o) ==
    /\ pc = "run"
    /\ r2' = IF binary[Here] = NoFile THEN <<>> ELSE o
    /\ pc' = "report"
    /\ UNCHANGED <<input, r1, log, faults>> /\ UNCHANGED <<loops, disk, user>>

\* The locals of exec and report are gone, the next input follows.
BackToLoop ==
    /\ pc' = "interpret"
    /\ input' = input + 1
    /\ r1' = <<>> /\ r2' = <<>>

\* The bug file is opened before the outputs are looked at.
BadAgree ==
    /\ pc = "report"
    /\ ~Reported(r1, r2)
    /\ log' = log \cup {Entry("same")}
    /\ json' = [json EXCEPT ![Here] = input]
    /\ BackToLoop
    /\ UNCHANGED <<target, binary, txt, faults>> /\ UNCHANGED <<loops, user>>

\* report finds nothing.
Agree ==
    /\ pc = "report"
    /\ ~Reported(r1, r2)
    /\ log' = log \cup {Entry("same")}
    /\ BackToLoop
    /\ UNCHANGED faults /\ UNCHANGED <<loops, disk, user>>

\* The first difference of a mutant is kept.
BadReportJson ==
    /\ pc = "report"
    /\ Reported(r1, r2)
    /\ log' = log \cup {Entry("differs")}
    /\ json' = [json EXCEPT ![Here] = IF @ = NoFile THEN input ELSE @]
    /\ pc' = "txt"
    /\ UNCHANGED <<input, r1, r2, target, binary, txt, faults>>
    /\ UNCHANGED <<loops, user>>

\* report, the .json file; if it cannot be opened fprintf throws.
ReportJson ==
    /\ pc = "report"
    /\ Reported(r1, r2)
    /\ \/ /\ log' = log \cup {Entry("differs")}
          /\ json' = [json EXCEPT ![Here] = input]
          /\ pc' = "txt"
          /\ UNCHANGED <<input, r1, r2, faults>>
       \/ /\ Fault
          /\ log' = log \cup {Entry("threw")}
          /\ BackToLoop
          /\ UNCHANGED json
    /\ UNCHANGED <<target, binary, txt>> /\ UNCHANGED <<loops, user>>

\* report, the _diff.txt file.
ReportTxt ==
    /\ pc = "txt"
    /\ \/ /\ txt' = [txt EXCEPT ![Here] = input]
          /\ UNCHANGED faults
       \/ /\ Fault
          /\ UNCHANGED txt
    /\ BackToLoop
    /\ UNCHANGED <<target, binary, json, log>> /\ UNCHANGED <<loops, user>>

\* The user closes MATLAB, perhaps while a file is written.
Close ==
    /\ pc \notin Halted
    /\ session < MaxSessions
    /\ \/ UNCHANGED disk
       \/ /\ pc = "mutate"
          /\ num <= MAX_MUT
          /\ target' = [target EXCEPT ![Here] = Torn]
          /\ UNCHANGED <<binary, json, txt>>
       \/ /\ pc = "compile"
          /\ binary' = [binary EXCEPT ![Here] = Torn]
          /\ UNCHANGED <<target, json, txt>>
       \/ /\ pc = "report"
          /\ Reported(r1, r2)
          /\ json' = [json EXCEPT ![Here] = Torn]
          /\ UNCHANGED <<target, binary, txt>>
       \/ /\ pc = "txt"
          /\ txt' = [txt EXCEPT ![Here] = Torn]
          /\ UNCHANGED <<target, binary, json>>
    /\ pc' = "closed"
    /\ UNCHANGED <<input, r1, r2, log, faults>>
    /\ UNCHANGED <<loops, user>>

Edit(f) ==
    /\ pc \in Halted
    /\ session < MaxSessions
    /\ version[f] < MaxEdits
    /\ version' = [version EXCEPT ![f] = @ + 1]
    /\ UNCHANGED <<pc, input, r1, r2, log, faults, session>>
    /\ UNCHANGED <<loops, disk>>

Start ==
    /\ pc \in Halted
    /\ session < MaxSessions
    /\ session' = session + 1
    /\ pc' = "files"
    /\ todo' = FunctionFiles
    /\ r1' = <<>> /\ r2' = <<>>
    /\ UNCHANGED <<file, seed, num, input, version, log, faults>>
    /\ UNCHANGED disk

\* What the driver does by itself.
Step ==
    \/ \E f \in FunctionFiles, s \in Seeds : NextFile(f, s)
    \/ EndOfFiles \/ Mutate \/ NextNum \/ Compile \/ NextMutant
    \/ Agree \/ ReportJson \/ ReportTxt

\* What the two programs do.
Programs ==
    \/ Throws
    \/ \E o \in Outputs : Interpreted(o) \/ Ran(o)

Next ==
    Step \/ Programs \/ Close \/ (\E f \in FunctionFiles : Edit(f)) \/ Start

Spec == Init /\ [][Next]_vars

\* MATLAB runs the script; nothing makes a mutant return.
FairSpec == Spec /\ WF_vars(Step)

-----------------------------------------------------------------------------
Versions == 0..MaxEdits
Content == Versions \cup {NoFile, Torn}
BugFile == 1..NumInputs \cup {NoFile, Torn}
InLoop == {"compile", "interpret", "run", "report", "txt"}

TypeOK ==
    /\ pc \in {"files", "mutate"} \cup InLoop \cup Halted
    /\ todo \subseteq FunctionFiles
    /\ file \in FunctionFiles
    /\ seed \in Seeds
    /\ num \in 1..(MAX_MUT + 1)
    /\ pc \in InLoop => num <= MAX_MUT
    /\ input \in 1..(NumInputs + 1)
    /\ pc \in {"run", "report", "txt"} => input <= NumInputs
    /\ version \in [FunctionFiles -> Versions]
    /\ target \in [FNames -> Content]
    /\ binary \in [FNames -> Content]
    /\ r1 \in Outputs \cup {<<>>} /\ r2 \in Outputs \cup {<<>>}
    /\ json \in [FNames -> BugFile]
    /\ txt \in [FNames -> BugFile]
    /\ log \subseteq [session : 1..session, name : FNames, input : 1..NumInputs,
                      of : Versions, by1 : Content, by2 : Content,
                      outcome : {"threw", "same", "differs"}]
    /\ faults \in 0..MaxFaults
    /\ session \in Nat \ {0}

Of(n, i) ==
    {e \in log : e.session = session /\ e.name = n /\ e.input = i}

\* A finished session has tried every mutant on every input, each once, with
\* one seed for each file: an error in one run costs that run only
\* (driver.m:10-27).
SessionComplete ==
    pc = "done" =>
        \A f \in FunctionFiles : \E s \in Seeds :
            /\ \A n \in 1..MAX_MUT, i \in 1..NumInputs :
                 \E e \in Of(OFName(f, s, n), i) : Of(OFName(f, s, n), i) = {e}
            /\ \A t \in Seeds \ {s}, n \in 1..MAX_MUT, i \in 1..NumInputs :
                 Of(OFName(f, t, n), i) = {}

\* If no tool has failed, both sides of every comparison ran the mutant of
\* the file as it is, whatever a closed session left behind and whatever was
\* edited since (driver.m:68-83, 20, 59).
RunsAttributable ==
    faults = 0 => \A e \in log : e.by1 = e.of /\ e.by2 = e.of

Differing(n) ==
    {i \in 1..NumInputs :
        \E e \in Of(n, i) : e.outcome = "differs"}
UnderWay(n) == n = Here /\ pc \in {"txt", "closed"}

\* If no file could not be opened, the two bug files of a mutant describe
\* the last input on which it was seen to differ, not an earlier one nor one
\* of an earlier session, unless the second is still to be written
\* (driver.m:43-49).
BugFilesLatest ==
    faults = 0 =>
        \A n \in FNames : \A i \in Differing(n) :
            (\A j \in Differing(n) : j <= i) /\ ~UnderWay(n)
            => json[n] = i /\ txt[n] = i

\* Whatever failed, a bug file written to its end is about an input on which
\* the outputs of this mutant differed, and there is no text without the input
\* that belongs to the mutant (driver.m:43-49).
BugFilesExplained ==
    \A n \in FNames :
        /\ \A i \in {json[n], txt[n]} \ {NoFile, Torn} :
             \E e \in log : e.name = n /\ e.input = i /\ e.outcome = "differs"
        /\ txt[n] # NoFile => json[n] # NoFile

\* Until a tool fails: the mutant is that of the file as it is from the
\* moment the mutator has run, the binary from the moment mcc has.
Current ==
    faults = 0 =>
        /\ pc \in InLoop => target[Here] = version[file]
        /\ pc \in InLoop \ {"compile"} => binary[Here] = version[file]

\* What the session has still to find out: nothing is known of the files to
\* come, of the current file only what the loops have passed.
InOrder ==
    /\ pc \notin Halted =>
         \A e \in log : e.session = session => e.name[3] \notin todo
    /\ pc \in InLoop \cup {"mutate"} =>
         /\ file \notin todo
         /\ \A e \in log : e.session = session /\ e.name[3] = file =>
              \/ e.name[1] < num
              \/ /\ e.name[1] = num
                 /\ pc \in InLoop \ {"compile"}
                 /\ e.input < input \/ (pc = "txt" /\ e.input = input)

\* Between the two bug files.
Pairing ==
    pc = "txt" =>
        /\ json[Here] = input
        /\ input \in Differing(Here)

\* What the session has found out: each input of each mutant that the loops
\* have passed has one entry, under the seed drawn for its file.
OneSeed(f, s) ==
    \A e \in log : e.session = session /\ e.name[3] = f => e.name[2] = s
Once(f, s, n, i) ==
    \E e \in Of(OFName(f, s, n), i) : Of(OFName(f, s, n), i) = {e}
Finished(f) ==
    \E s \in Seeds :
        /\ OneSeed(f, s)
        /\ \A n \in 1..MAX_MUT, i \in 1..NumInputs : Once(f, s, n, i)

Passed(n, i) ==
    \/ n < num
    \/ /\ n = num
       /\ pc \in InLoop \ {"compile"}
       /\ i < input \/ (pc = "txt" /\ i = input)

Sweeping ==
    /\ pc = "done" => todo = {}
    /\ pc \in {"files", "done"} =>
         \A f \in FunctionFiles \ todo : Finished(f)
    /\ pc \in InLoop \cup {"mutate"} =>
         /\ \A f \in FunctionFiles \ (todo \cup {file}) : Finished(f)
         /\ OneSeed(file, seed)
         /\ \A n \in 1..MAX_MUT, i \in 1..NumInputs :
              Passed(n, i) => Once(file, seed, n, i)

\* The inductive invariant of the proofs.
IInv ==
    /\ TypeOK
    /\ Current
    /\ InOrder
    /\ Pairing
    /\ RunsAttributable
    /\ BugFilesLatest
    /\ BugFilesExplained

Judging == pc = "report"

\* Equal outputs are never reported, and different ones go unreported only
\* if one of the programs printed at most one character, or the compiled one
\* an empty array, or the bug file could not be opened (driver.m:36-43).
JudgementSound ==
    [][Judging =>
        /\ Entry("differs") \in log' \ log => r1 # r2
        /\ Entry("same") \in log' \ log /\ r1 # r2 =>
              \/ Len(r1) <= 1 \/ Len(r2) <= 1
              \/ r2 = <<"[", "]">>]_vars

Waiting == pc = "interpret" /\ input <= NumInputs

\* The driver ends, or is closed, if every run of a mutant ends: neither is
\* given a timeout, and a mutant may well loop for ever (driver.m:56-60).
EndsIfProgramsReturn ==
    []<>~Waiting /\ []<>(pc # "run") => []<>(pc \in Halted)
=============================================================================
