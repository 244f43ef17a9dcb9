---------------------------- MODULE DriverProofs ----------------------------
(***************************************************************************)
(* For all files, seeds, inputs, outputs and bounds: which comparisons the *)
(* driver's verdicts are about, and what its bug files hold.               *)
(***************************************************************************)
EXTENDS Driver, TLAPS

\* The names of mutants are triples.
LEMMA NamesAreTriples ==
    /\ FNames = (1..MAX_MUT) \X Seeds \X FunctionFiles
    /\ \A f \in FunctionFiles, s \in Seeds, n \in 1..MAX_MUT :
         OFName(f, s, n) \in FNames
  BY DEF FNames, OFName

\* The current mutant has a name while its inputs are under way.
LEMMA HereType ==
    ASSUME TypeOK, num <= MAX_MUT
    PROVE  Here \in FNames /\ Here = <<num, seed, file>>
  BY DriverAssumption DEF TypeOK, Here, FNames, OFName

\* Failures only add up.
LEMMA FaultsGrow ==
    ASSUME TypeOK, UNCHANGED faults \/ Fault
    PROVE  /\ faults' \in 0..MaxFaults
           /\ faults' = 0 => faults = 0
  BY DriverAssumption DEF TypeOK, Fault

\* What is known of a mutant depends on the log and the session.
LEMMA DifferingKept ==
    ASSUME log' = log, session' = session
    PROVE  \A n : Differing(n)' = Differing(n)
  BY DEF Differing, Of

\* What leaves the log and the bug files alone, and no pair of them half
\* written that was not, keeps what is said of them.
LEMMA QuietKept ==
    ASSUME IInv, log' = log, session' = session, json' = json, txt' = txt,
           faults' = 0 => faults = 0,
           \A n \in FNames : UnderWay(n) => UnderWay(n)'
    PROVE  RunsAttributable' /\ BugFilesLatest' /\ BugFilesExplained'
  <1>1. RunsAttributable'
    BY DEF IInv, RunsAttributable
  <1>2. BugFilesLatest'
    <2> SUFFICES ASSUME faults' = 0, NEW n \in FNames, NEW i \in Differing(n),
                        \A j \in Differing(n) : j <= i, ~UnderWay(n)'
                 PROVE  json'[n] = i /\ txt'[n] = i
      BY DifferingKept DEF BugFilesLatest
    <2> QED  BY DEF IInv, BugFilesLatest
  <1>3. BugFilesExplained'
    BY DEF IInv, BugFilesExplained
  <1> QED  BY <1>1, <1>2, <1>3

\* Nothing is on the disk or in the log when the first session starts.
LEMMA InitIInv == Init => IInv
  <1> SUFFICES ASSUME Init PROVE IInv
    OBVIOUS
  <1>1. TypeOK
    BY DriverAssumption DEF Init, TypeOK, Versions, Content, BugFile, InLoop,
                                Halted
  <1>2. Current /\ InOrder /\ Pairing
    BY DEF Init, Current, InOrder, Pairing, InLoop
  <1>3. RunsAttributable /\ BugFilesLatest
    BY DEF Init, RunsAttributable, BugFilesLatest, Differing, Of
  <1>4. BugFilesExplained
    BY DEF Init, BugFilesExplained
  <1> QED  BY <1>1, <1>2, <1>3, <1>4 DEF IInv

\* The outer loop goes on or ends.
LEMMA FilesIInv ==
    ASSUME IInv, \/ \E f \in FunctionFiles, s \in Seeds : NextFile(f, s)
                 \/ EndOfFiles
    PROVE  IInv'
  <1>1. CASE \E f \in FunctionFiles, s \in Seeds : NextFile(f, s)
    <2>1. PICK f \in FunctionFiles, s \in Seeds : NextFile(f, s)
      BY <1>1
    <2>2. TypeOK'
      BY <2>1, DriverAssumption DEF NextFile, IInv, TypeOK, InLoop, Halted,
                                   disk, user
    <2>3. Current' /\ Pairing'
      BY <2>1 DEF NextFile, Current, Pairing, InLoop
    <2>4. InOrder'
      BY <2>1 DEF NextFile, IInv, InOrder, TypeOK, InLoop, Halted, disk, user
    <2>5. \A n \in FNames : ~UnderWay(n)
      BY <2>1 DEF NextFile, UnderWay
    <2> QED  BY <2>1, <2>2, <2>3, <2>4, <2>5, QuietKept
             DEF NextFile, IInv, disk, user
  <1>2. CASE EndOfFiles
    <2>1. TypeOK'
      BY <1>2 DEF EndOfFiles, IInv, TypeOK, InLoop, Halted, disk, user, loops
    <2>2. Current' /\ Pairing' /\ InOrder'
      BY <1>2 DEF EndOfFiles, Current, Pairing, InOrder, InLoop, Halted
    <2>3. \A n \in FNames : ~UnderWay(n)
      BY <1>2 DEF EndOfFiles, UnderWay
    <2> QED  BY <1>2, <2>1, <2>2, <2>3, QuietKept
             DEF EndOfFiles, IInv, disk, user
  <1> QED  BY <1>1, <1>2

\* The mutator runs.
LEMMA MutateIInv == ASSUME IInv, Mutate PROVE IInv'
  <1>1. pc = "mutate" /\ num <= MAX_MUT /\ pc' = "compile"
    BY DEF Mutate
  <1>2. Here \in FNames /\ Here' = Here
    BY <1>1, HereType DEF IInv, Mutate, loops, Here
  <1>3. /\ faults' \in 0..MaxFaults
        /\ faults' = 0 => faults = 0 /\ target' = [target EXCEPT ![Here] = version[file]]
    BY FaultsGrow, DriverAssumption DEF IInv, Mutate, Fault, TypeOK
  <1>4. version[file] \in Content /\ Torn \in Content
    BY DEF IInv, TypeOK, Content
  <1>5. target' \in [FNames -> Content]
    BY <1>4 DEF Mutate, IInv, TypeOK
  <1>6. TypeOK'
    BY <1>1, <1>3, <1>5 DEF Mutate, IInv, TypeOK, InLoop, Halted, loops, user
  <1>7. Current' /\ Pairing'
    BY <1>1, <1>2, <1>3 DEF Mutate, IInv, TypeOK, Current, Pairing, InLoop,
                            loops, user
  <1>8. InOrder'
    BY <1>1 DEF Mutate, IInv, InOrder, InLoop, Halted, loops, user
  <1>9. \A n \in FNames : ~UnderWay(n)
    BY <1>1 DEF UnderWay
  <1> QED  BY <1>3, <1>6, <1>7, <1>8, <1>9, QuietKept DEF Mutate, IInv, user

\* mcc runs.
LEMMA CompileIInv == ASSUME IInv, Compile PROVE IInv'
  <1>1. pc = "compile" /\ pc' = "interpret" /\ num <= MAX_MUT
    BY DEF Compile, IInv, TypeOK, InLoop
  <1>2. Here \in FNames /\ Here' = Here
    BY <1>1, HereType DEF IInv, Compile, loops, Here
  <1>3. target[Here] \in Content /\ version[file] \in Versions
    BY <1>2 DEF IInv, TypeOK
  <1>4. /\ faults' \in 0..MaxFaults
        /\ faults' = 0 => faults = 0
    BY FaultsGrow DEF IInv, Compile
  <1>5. version[file] \notin {NoFile, Torn}
    BY <1>3, DriverAssumption DEF Versions
  <1>6. faults' = 0 => /\ target[Here] = version[file]
                       /\ binary' = [binary EXCEPT ![Here] = target[Here]]
    <2> SUFFICES ASSUME faults' = 0
                 PROVE  /\ target[Here] = version[file]
                        /\ binary' = [binary EXCEPT ![Here] = target[Here]]
      OBVIOUS
    <2>1. target[Here] = version[file]
      BY <1>1, <1>4 DEF IInv, Current, InLoop
    <2>2. ~Fault
      BY DriverAssumption DEF Fault, IInv, TypeOK
    <2> QED  BY <1>5, <2>1, <2>2 DEF Compile
  <1>7. binary' \in [FNames -> Content]
    BY <1>3 DEF Compile, IInv, TypeOK, Content
  <1>8. TypeOK'
    BY <1>1, <1>4, <1>7, DriverAssumption
    DEF Compile, IInv, TypeOK, InLoop, Halted, loops, user
  <1>9. Current' /\ Pairing'
    BY <1>1, <1>2, <1>3, <1>6 DEF Compile, IInv, TypeOK, Current, Pairing,
                                  loops, user
  <1>10. InOrder'
    BY <1>1 DEF Compile, IInv, InOrder, TypeOK, InLoop, Halted, loops, user
  <1>11. \A n \in FNames : ~UnderWay(n)
    BY <1>1 DEF UnderWay
  <1> QED  BY <1>4, <1>8, <1>9, <1>10, <1>11, QuietKept DEF Compile, IInv, user

\* The loops over replacements and inputs come to their ends.
LEMMA NextIInv == ASSUME IInv, NextNum \/ NextMutant PROVE IInv'
  <1>1. CASE NextNum
    <2>1. TypeOK'
      BY <1>1 DEF NextNum, IInv, TypeOK, InLoop, Halted, loops, disk, user
    <2>2. Current' /\ Pairing'
      BY <1>1 DEF NextNum, Current, Pairing, InLoop
    <2>3. InOrder'
      BY <1>1 DEF NextNum, IInv, InOrder, InLoop, Halted, loops, user
    <2>4. \A n \in FNames : ~UnderWay(n)
      BY <1>1 DEF NextNum, UnderWay
    <2> QED  BY <1>1, <2>1, <2>2, <2>3, <2>4, QuietKept DEF NextNum, IInv, disk, user
  <1>2. CASE NextMutant
    <2>1. num <= MAX_MUT /\ num \in Nat
      BY <1>2 DEF NextMutant, IInv, TypeOK, InLoop
    <2>2. TypeOK'
      BY <1>2, <2>1, DriverAssumption
      DEF NextMutant, IInv, TypeOK, InLoop, Halted, disk, user
    <2>3. Current' /\ Pairing'
      BY <1>2 DEF NextMutant, Current, Pairing, InLoop
    <2>4. InOrder'
      <3>1. \A e \in log : e.name[1] \in Nat
        BY NamesAreTriples, DriverAssumption DEF IInv, TypeOK
      <3> QED  BY <1>2, <2>1, <3>1 DEF NextMutant, IInv, InOrder, InLoop,
                                       Halted, disk, user
    <2>5. \A n \in FNames : ~UnderWay(n)
      BY <1>2 DEF NextMutant, UnderWay
    <2> QED  BY <1>2, <2>2, <2>3, <2>4, <2>5, QuietKept
             DEF NextMutant, IInv, disk, user
  <1> QED  BY <1>1, <1>2

\* A program has printed something.
LEMMA ProgramsIInv ==
    ASSUME IInv, NEW o \in Outputs, Interpreted(o) \/ Ran(o)
    PROVE  IInv'
  <1>1. TypeOK'
    BY DEF Interpreted, Ran, IInv, TypeOK, InLoop, Halted, loops, disk, user
  <1>2. Current' /\ Pairing'
    BY DEF Interpreted, Ran, IInv, Current, Pairing, InLoop, Here, loops, disk,
           user
  <1>3. InOrder'
    BY DEF Interpreted, Ran, IInv, InOrder, InLoop, Halted, loops, user
  <1>4. \A n \in FNames : ~UnderWay(n)
    BY DEF Interpreted, Ran, UnderWay
  <1> QED  BY <1>1, <1>2, <1>3, <1>4, QuietKept
           DEF Interpreted, Ran, IInv, disk, user

\* An entry is one of the log's type, and has no later input.
LEMMA EntryType ==
    ASSUME IInv, pc \in {"interpret", "report"}, input <= NumInputs,
           NEW o \in {"threw", "same", "differs"}
    PROVE  /\ Entry(o) \in [session : 1..session, name : FNames,
                 input : 1..NumInputs, of : Versions, by1 : Content,
                 by2 : Content, outcome : {"threw", "same", "differs"}]
           /\ Here \in FNames /\ Here = <<num, seed, file>>
           /\ num <= MAX_MUT /\ num \in Nat /\ input \in 1..NumInputs
           /\ faults = 0 => Entry(o).by1 = Entry(o).of /\ Entry(o).by2 = Entry(o).of
  <1>1. num <= MAX_MUT /\ num \in Nat /\ input \in 1..NumInputs
    BY DriverAssumption DEF IInv, TypeOK, InLoop
  <1>2. Here \in FNames /\ Here = <<num, seed, file>>
    BY <1>1, HereType DEF IInv
  <1>3. /\ session \in 1..session /\ version[file] \in Versions
        /\ target[Here] \in Content /\ binary[Here] \in Content
    BY <1>2 DEF IInv, TypeOK
  <1>4. faults = 0 => target[Here] = version[file] /\ binary[Here] = version[file]
    BY DEF IInv, Current, InLoop
  <1> QED  BY <1>1, <1>2, <1>3, <1>4 DEF Entry

\* An input is done with: no difference, or one that could not be reported.
LEMMA JudgedIInv ==
    ASSUME IInv, pc \in {"interpret", "report"}, input <= NumInputs,
           NEW o \in {"threw", "same"}, log' = log \cup {Entry(o)},
           pc' = "interpret", input' = input + 1,
           UNCHANGED faults \/ Fault,
           r1' \in Outputs \cup {<<>>}, r2' \in Outputs \cup {<<>>},
           UNCHANGED loops, UNCHANGED disk, UNCHANGED user
    PROVE  IInv'
  <1>1. /\ Entry(o) \in [session : 1..session, name : FNames,
               input : 1..NumInputs, of : Versions, by1 : Content,
               by2 : Content, outcome : {"threw", "same", "differs"}]
        /\ Here = <<num, seed, file>> /\ input \in 1..NumInputs
        /\ num <= MAX_MUT /\ num \in Nat
        /\ faults = 0 => Entry(o).by1 = Entry(o).of /\ Entry(o).by2 = Entry(o).of
    BY EntryType
  <1>2. /\ faults' \in 0..MaxFaults
        /\ faults' = 0 => faults = 0
    BY FaultsGrow DEF IInv
  <1>3. Here' = Here
    BY DEF loops, Here
  <1>4. TypeOK'
    <2>1. log' \subseteq [session : 1..session', name : FNames,
              input : 1..NumInputs, of : Versions, by1 : Content,
              by2 : Content, outcome : {"threw", "same", "differs"}]
      BY <1>1 DEF IInv, TypeOK, user
    <2>2. input' \in 1..(NumInputs + 1)
      BY <1>1, DriverAssumption
    <2> QED  BY <1>1, <1>2, <2>1, <2>2
             DEF IInv, TypeOK, InLoop, Halted, loops, disk, user
  <1>5. Current' /\ Pairing'
    BY <1>2, <1>3 DEF IInv, Current, Pairing, InLoop, loops, disk, user
  <1>6. InOrder'
    <2>1. Entry(o).name[1] = num /\ Entry(o).name[3] = file /\ Entry(o).input = input
      BY <1>1 DEF Entry
    <2>2. file \notin todo
      BY DEF IInv, InOrder, InLoop
    <2>3. \A e \in log : e.session = session => e.name[3] \notin todo
      BY DEF IInv, InOrder, Halted
    <2>4. \A e \in log : e.session = session /\ e.name[3] = file =>
              \/ e.name[1] < num
              \/ e.name[1] = num /\ e.input < input
      BY DEF IInv, InOrder, InLoop
    <2>5. \A e \in log : e.input \in Nat
      BY DriverAssumption DEF IInv, TypeOK
    <2> QED  BY <1>1, <2>1, <2>2, <2>3, <2>4, <2>5
             DEF InOrder, InLoop, Halted, loops, user
  <1>7. RunsAttributable'
    BY <1>1, <1>2 DEF IInv, RunsAttributable
  <1>8. BugFilesLatest'
    <2>1. Entry(o).outcome # "differs"
      BY DEF Entry
    <2>2. \A n : Differing(n)' = Differing(n)
      BY <2>1 DEF Differing, Of, user
    <2>3. \A n : ~UnderWay(n)
      BY DEF UnderWay
    <2> SUFFICES ASSUME faults' = 0, NEW n \in FNames, NEW i \in Differing(n),
                        \A j \in Differing(n) : j <= i
                 PROVE  json'[n] = i /\ txt'[n] = i
      BY <2>2 DEF BugFilesLatest
    <2> QED  BY <1>2, <2>3 DEF IInv, BugFilesLatest, disk
  <1>9. BugFilesExplained'
    BY DEF IInv, BugFilesExplained, disk
  <1> QED  BY <1>4, <1>5, <1>6, <1>7, <1>8, <1>9 DEF IInv

\* An error in the mutant.
LEMMA ThrowsIInv == ASSUME IInv, Throws PROVE IInv'
  <1>1. r1' \in Outputs \cup {<<>>} /\ r2' \in Outputs \cup {<<>>}
    BY DEF Throws, IInv, TypeOK
  <1> QED  BY <1>1, JudgedIInv DEF Throws

\* Nothing is found.
LEMMA AgreeIInv == ASSUME IInv, Agree PROVE IInv'
  <1>1. input <= NumInputs
    BY DEF Agree, IInv, TypeOK
  <1> QED  BY <1>1, JudgedIInv DEF Agree, BackToLoop

\* A difference, and its first file.
LEMMA ReportJsonIInv == ASSUME IInv, ReportJson PROVE IInv'
  <1>1. pc = "report" /\ input <= NumInputs
    BY DEF ReportJson, IInv, TypeOK
  <1>2. CASE BackToLoop
    BY <1>1, <1>2, JudgedIInv DEF ReportJson, BackToLoop, disk
  <1>3. CASE /\ log' = log \cup {Entry("differs")}
             /\ json' = [json EXCEPT ![Here] = input]
             /\ pc' = "txt"
             /\ UNCHANGED <<input, r1, r2, faults>>
    <2>1. /\ Entry("differs") \in [session : 1..session, name : FNames,
                 input : 1..NumInputs, of : Versions, by1 : Content,
                 by2 : Content, outcome : {"threw", "same", "differs"}]
          /\ Here \in FNames
          /\ Here = <<num, seed, file>> /\ input \in 1..NumInputs
          /\ num <= MAX_MUT /\ num \in Nat
          /\ faults = 0 => /\ Entry("differs").by1 = Entry("differs").of
                           /\ Entry("differs").by2 = Entry("differs").of
      BY <1>1, EntryType
    <2>2. Here' = Here
      BY DEF ReportJson, loops, Here
    <2>3. TypeOK'
      <3>1. log' \subseteq [session : 1..session', name : FNames,
                input : 1..NumInputs, of : Versions, by1 : Content,
                by2 : Content, outcome : {"threw", "same", "differs"}]
        BY <1>3, <2>1 DEF ReportJson, IInv, TypeOK, user
      <3>2. json' \in [FNames -> BugFile]
        BY <1>3, <2>1 DEF IInv, TypeOK, BugFile
      <3> QED  BY <1>3, <2>1, <3>1, <3>2
               DEF ReportJson, IInv, TypeOK, InLoop, Halted, loops, user
    <2>4. Current'
      BY <1>1, <1>3, <2>2 DEF ReportJson, IInv, Current, InLoop, loops, user
    <2>5. Entry("differs").name = Here /\ Entry("differs").input = input
          /\ Entry("differs").outcome = "differs"
      BY DEF Entry
    <2>6. Pairing'
      <3>1. json'[Here] = input
        BY <1>3, <2>1 DEF IInv, TypeOK
      <3>2. Entry("differs") \in log' /\ Entry("differs").session = session'
        BY <1>3 DEF ReportJson, Entry, user
      <3>3. input \in Differing(Here)'
        BY <2>1, <2>2, <2>5, <3>2 DEF Differing, Of
      <3> QED  BY <1>3, <2>2, <3>1, <3>3 DEF Pairing
    <2>7. InOrder'
      <3>1. Entry("differs").name[1] = num /\ Entry("differs").name[3] = file
        BY <2>1, <2>5
      <3>2. file \notin todo
        BY <1>1 DEF IInv, InOrder, InLoop
      <3>3. \A e \in log : e.session = session => e.name[3] \notin todo
        BY <1>1 DEF IInv, InOrder, Halted
      <3>4. \A e \in log : e.session = session /\ e.name[3] = file =>
                \/ e.name[1] < num
                \/ e.name[1] = num /\ e.input < input
        BY <1>1 DEF IInv, InOrder, InLoop
      <3> QED  BY <1>3, <2>5, <3>1, <3>2, <3>3, <3>4
               DEF ReportJson, InOrder, InLoop, Halted, loops, user
    <2>8. RunsAttributable'
      BY <1>3, <2>1 DEF IInv, RunsAttributable
    <2>9. BugFilesLatest'
      <3> SUFFICES ASSUME faults' = 0, NEW n \in FNames, NEW i \in Differing(n)',
                          \A j \in Differing(n)' : j <= i, ~UnderWay(n)'
                   PROVE  json'[n] = i /\ txt'[n] = i
        BY DEF BugFilesLatest
      <3>1. n # Here
        BY <1>3, <2>2 DEF UnderWay
      <3>2. Differing(n)' = Differing(n)
        BY <1>3, <2>5, <3>1 DEF ReportJson, Differing, Of, user
      <3>3. json'[n] = json[n] /\ txt'[n] = txt[n]
        BY <1>3, <3>1 DEF ReportJson, IInv, TypeOK
      <3> QED  BY <1>1, <1>3, <3>2, <3>3 DEF IInv, BugFilesLatest, UnderWay
    <2>10. BugFilesExplained'
      <3> SUFFICES ASSUME NEW n \in FNames
                   PROVE  /\ \A i \in {json'[n], txt'[n]} \ {NoFile, Torn} :
                               \E e \in log' : /\ e.name = n /\ e.input = i
                                               /\ e.outcome = "differs"
                          /\ txt'[n] # NoFile => json'[n] # NoFile
        BY DEF BugFilesExplained
      <3>1. txt' = txt /\ log \subseteq log'
        BY <1>3 DEF ReportJson
      <3>2. json'[n] = IF n = Here THEN input ELSE json[n]
        BY <1>3 DEF IInv, TypeOK
      <3>3. input # NoFile
        BY <2>1, DriverAssumption
      <3>4. Entry("differs") \in log'
        BY <1>3
      <3> QED  BY <2>5, <3>1, <3>2, <3>3, <3>4 DEF IInv, BugFilesExplained
    <2> QED  BY <2>3, <2>4, <2>6, <2>7, <2>8, <2>9, <2>10 DEF IInv
  <1> QED  BY <1>2, <1>3 DEF ReportJson

\* The second file.
LEMMA ReportTxtIInv == ASSUME IInv, ReportTxt PROVE IInv'
  <1>1. /\ pc = "txt" /\ pc' = "interpret" /\ input' = input + 1
        /\ input \in 1..NumInputs /\ num <= MAX_MUT /\ num \in Nat
        /\ log' = log /\ session' = session /\ json' = json
    BY DriverAssumption DEF ReportTxt, BackToLoop, IInv, TypeOK, InLoop, user
  <1>2. Here \in FNames /\ Here' = Here /\ Here = <<num, seed, file>>
    BY <1>1, HereType DEF IInv, ReportTxt, loops, Here
  <1>3. /\ faults' \in 0..MaxFaults
        /\ faults' = 0 => faults = 0 /\ txt' = [txt EXCEPT ![Here] = input]
    BY FaultsGrow, DriverAssumption DEF IInv, ReportTxt, Fault, TypeOK
  <1>4. txt' \in [FNames -> BugFile]
    BY <1>1 DEF ReportTxt, IInv, TypeOK, BugFile
  <1>5. TypeOK'
    <2>1. input' \in 1..(NumInputs + 1)
      BY <1>1, DriverAssumption
    <2> QED  BY <1>1, <1>3, <1>4, <2>1
             DEF ReportTxt, BackToLoop, IInv, TypeOK, InLoop, Halted, loops, user
  <1>6. Current' /\ Pairing'
    BY <1>1, <1>2, <1>3 DEF ReportTxt, IInv, Current, Pairing, InLoop, loops, user
  <1>7. InOrder'
    <2>1. \A e \in log : e.session = session => e.name[3] \notin todo
      BY <1>1 DEF IInv, InOrder, Halted
    <2>2. /\ file \notin todo
          /\ \A e \in log : e.session = session /\ e.name[3] = file =>
               \/ e.name[1] < num
               \/ e.name[1] = num /\ (e.input < input \/ e.input = input)
      BY <1>1 DEF IInv, InOrder, InLoop
    <2>3. \A e \in log : e.input \in Nat
      BY DriverAssumption DEF IInv, TypeOK
    <2> QED  BY <1>1, <2>1, <2>2, <2>3
             DEF ReportTxt, InOrder, InLoop, Halted, loops, user
  <1>8. RunsAttributable'
    BY <1>1, <1>3 DEF IInv, RunsAttributable
  <1>9. BugFilesLatest'
    <2> SUFFICES ASSUME faults' = 0, NEW n \in FNames, NEW i \in Differing(n),
                        \A j \in Differing(n) : j <= i
                 PROVE  json[n] = i /\ txt'[n] = i
      BY <1>1, DifferingKept DEF BugFilesLatest
    <2>1. CASE n # Here
      <3>1. ~UnderWay(n)
        BY <2>1 DEF UnderWay
      <3>2. txt'[n] = txt[n]
        BY <1>3, <2>1 DEF IInv, TypeOK
      <3> QED  BY <1>3, <3>1, <3>2 DEF IInv, BugFilesLatest
    <2>2. CASE n = Here
      <3>1. json[n] = input /\ txt'[n] = input
        BY <1>1, <1>2, <1>3, <2>2 DEF IInv, Pairing, TypeOK
      <3>2. \A e \in log : e.session = session /\ e.name = Here =>
                e.input < input \/ e.input = input
        BY <1>1, <1>2 DEF IInv, InOrder, InLoop
      <3>3. PICK e \in log : e.session = session /\ e.name = Here /\ e.input = i
        BY <2>2 DEF Differing, Of
      <3>4. i <= input /\ i \in Nat
        BY <1>1, <3>2, <3>3, DriverAssumption DEF Differing
      <3>5. input \in Differing(Here)
        BY <1>1 DEF IInv, Pairing
      <3> QED  BY <1>1, <2>2, <3>1, <3>4, <3>5
    <2> QED  BY <2>1, <2>2
  <1>10. BugFilesExplained'
    <2> SUFFICES ASSUME NEW n \in FNames
                 PROVE  /\ \A i \in {json[n], txt'[n]} \ {NoFile, Torn} :
                             \E e \in log : /\ e.name = n /\ e.input = i
                                            /\ e.outcome = "differs"
                        /\ txt'[n] # NoFile => json[n] # NoFile
      BY <1>1 DEF BugFilesExplained
    <2>1. txt'[n] = txt[n] \/ (n = Here /\ txt'[n] = input)
      BY DEF ReportTxt, IInv, TypeOK
    <2>2. json[Here] = input /\ input # NoFile
      BY <1>1, DriverAssumption DEF IInv, Pairing
    <2>3. \E e \in log : e.name = Here /\ e.input = input /\ e.outcome = "differs"
      BY <1>1 DEF IInv, Pairing, Differing, Of
    <2> QED  BY <2>1, <2>2, <2>3 DEF IInv, BugFilesExplained
  <1> QED  BY <1>5, <1>6, <1>7, <1>8, <1>9, <1>10 DEF IInv

\* The user closes MATLAB.
LEMMA CloseIInv == ASSUME IInv, Close PROVE IInv'
  <1>1. /\ pc' = "closed" /\ Here' = Here
        /\ log' = log /\ session' = session /\ faults' = faults
    BY DEF Close, loops, user, Here
  <1>2. /\ target' \in [FNames -> Content] /\ binary' \in [FNames -> Content]
        /\ json' \in [FNames -> BugFile] /\ txt' \in [FNames -> BugFile]
    BY DEF Close, IInv, TypeOK, Content, BugFile, disk
  <1>3. TypeOK'
    BY <1>1, <1>2 DEF Close, IInv, TypeOK, InLoop, Halted, loops, user
  <1>4. Current' /\ Pairing' /\ InOrder'
    BY <1>1 DEF Current, Pairing, InOrder, InLoop, Halted
  <1>5. RunsAttributable'
    BY <1>1 DEF IInv, RunsAttributable
  <1>6. \A n \in FNames : n # Here => json'[n] = json[n] /\ txt'[n] = txt[n]
    BY DEF Close, IInv, TypeOK, disk
  <1>7. BugFilesLatest'
    <2> SUFFICES ASSUME faults = 0, NEW n \in FNames, NEW i \in Differing(n),
                        \A j \in Differing(n) : j <= i, ~UnderWay(n)'
                 PROVE  json'[n] = i /\ txt'[n] = i
      BY <1>1, DifferingKept DEF BugFilesLatest
    <2>1. n # Here
      BY <1>1 DEF UnderWay
    <2> QED  BY <1>6, <2>1 DEF IInv, BugFilesLatest, UnderWay
  <1>8. BugFilesExplained'
    <2> SUFFICES ASSUME NEW n \in FNames
                 PROVE  /\ \A i \in {json'[n], txt'[n]} \ {NoFile, Torn} :
                             \E e \in log : /\ e.name = n /\ e.input = i
                                            /\ e.outcome = "differs"
                        /\ txt'[n] # NoFile => json'[n] # NoFile
      BY <1>1 DEF BugFilesExplained
    <2>1. /\ json'[n] \in {json[n], Torn} /\ txt'[n] \in {txt[n], Torn}
          /\ json[n] # NoFile => json'[n] # NoFile
      BY DriverAssumption DEF Close, IInv, TypeOK, disk
    <2>2. txt'[n] # NoFile /\ txt[n] = NoFile => json[n] # NoFile
      <3>1. SUFFICES ASSUME txt'[n] # txt[n] PROVE json[n] # NoFile
        OBVIOUS
      <3>2. pc = "txt" /\ n = Here
        BY <3>1 DEF Close, IInv, TypeOK, disk
      <3>3. json[n] = input /\ input \in 1..(NumInputs + 1)
        BY <3>2 DEF IInv, Pairing, TypeOK
      <3> QED  BY <3>3, DriverAssumption
    <2> QED  BY <2>1, <2>2 DEF IInv, BugFilesExplained
  <1> QED  BY <1>3, <1>4, <1>5, <1>7, <1>8 DEF IInv

\* The user changes a function file.
LEMMA EditIInv ==
    ASSUME IInv, NEW f \in FunctionFiles, Edit(f)
    PROVE  IInv'
  <1>1. pc \in Halted /\ pc' = pc /\ Here' = Here
    BY DEF Edit, loops, Here
  <1>2. version' \in [FunctionFiles -> Versions]
    BY DriverAssumption DEF Edit, IInv, TypeOK, Versions
  <1>3. TypeOK'
    BY <1>1, <1>2 DEF Edit, IInv, TypeOK, InLoop, Halted, loops, disk
  <1>4. Current' /\ Pairing' /\ InOrder'
    BY <1>1 DEF Current, Pairing, InOrder, InLoop, Halted
  <1>5. \A n \in FNames : UnderWay(n) => UnderWay(n)'
    BY <1>1 DEF UnderWay
  <1> QED  BY <1>3, <1>4, <1>5, QuietKept DEF Edit, IInv, disk

\* A new session has found nothing yet.
LEMMA StartIInv == ASSUME IInv, Start PROVE IInv'
  <1>1. /\ pc' = "files" /\ session' = session + 1 /\ session \in Nat \ {0}
        /\ log' = log
    BY DEF Start, IInv, TypeOK
  <1>2. \A e \in log : e.session \in 1..session
    BY DEF IInv, TypeOK
  <1>3. TypeOK'
    <2>1. 1..session \subseteq 1..session'
      BY <1>1
    <2>2. log' \subseteq [session : 1..session', name : FNames,
              input : 1..NumInputs, of : Versions, by1 : Content,
              by2 : Content, outcome : {"threw", "same", "differs"}]
      BY <1>1, <2>1 DEF IInv, TypeOK
    <2> QED  BY <1>1, <2>2 DEF Start, IInv, TypeOK, InLoop, Halted, disk
  <1>4. \A e \in log' : e.session # session'
    BY <1>1, <1>2
  <1>5. Current' /\ Pairing' /\ InOrder'
    BY <1>1, <1>4 DEF Current, Pairing, InOrder, InLoop, Halted
  <1>6. RunsAttributable'
    BY DEF Start, IInv, RunsAttributable
  <1>7. BugFilesLatest'
    BY <1>4 DEF BugFilesLatest, Differing, Of
  <1>8. BugFilesExplained'
    BY DEF Start, IInv, BugFilesExplained, disk
  <1> QED  BY <1>3, <1>5, <1>6, <1>7, <1>8 DEF IInv

\* A step that changes nothing.
LEMMA StutterIInv == ASSUME IInv, UNCHANGED vars PROVE IInv'
  <1>1. TypeOK'
    BY DEF vars, IInv, TypeOK
  <1>2. Current' /\ InOrder' /\ Pairing'
    BY DEF vars, IInv, Current, InOrder, Pairing, Here, Differing, Of
  <1>3. \A n \in FNames : UnderWay(n) => UnderWay(n)'
    BY DEF vars, UnderWay, Here
  <1> QED  BY <1>1, <1>2, <1>3, QuietKept DEF vars, IInv

\* The invariant holds of every state.
THEOREM Inductive == Spec => []IInv
  <1>1. IInv /\ [Next]_vars => IInv'
    <2> SUFFICES ASSUME IInv, [Next]_vars PROVE IInv'
      OBVIOUS
    <2>1. CASE Step
      BY <2>1, FilesIInv, MutateIInv, CompileIInv, NextIInv, AgreeIInv,
         ReportJsonIInv, ReportTxtIInv DEF Step
    <2>2. CASE Programs
      BY <2>2, ThrowsIInv, ProgramsIInv DEF Programs
    <2>3. CASE Close
      BY <2>3, CloseIInv
    <2>4. CASE \E f \in FunctionFiles : Edit(f)
      BY <2>4, EditIInv
    <2>5. CASE Start
      BY <2>5, StartIInv
    <2>6. CASE UNCHANGED vars
      BY <2>6, StutterIInv
    <2> QED  BY <2>1, <2>2, <2>3, <2>4, <2>5, <2>6 DEF Next
  <1> QED  BY <1>1, InitIInv, PTL DEF Spec

\* Every variable stays in its range, and the loops in their bounds.
THEOREM TypeCorrect == Spec => []TypeOK
  BY Inductive, PTL DEF IInv

\* Until a tool fails, both sides of every comparison ran the mutant of the
\* file as it is, whatever a closed session left in target/ (driver.m:68-83).
THEOREM Attributable == Spec => []RunsAttributable
  BY Inductive, PTL DEF IInv

\* Until a tool or file fails, the bug files of a mutant describe the last
\* input on which it was seen to differ (driver.m:43-49).
THEOREM Latest == Spec => []BugFilesLatest
  BY Inductive, PTL DEF IInv

\* Whatever failed, every finished bug file is about an input on which the mutant's
\* outputs differed, and every text has its input beside it (driver.m:43-49).
THEOREM Explained == Spec => []BugFilesExplained
  BY Inductive, PTL DEF IInv

-----------------------------------------------------------------------------
(* A finished session is complete.                                         *)

\* What is known of a mutant on an input depends on the log and the session.
LEMMA OnceKept ==
    ASSUME log' = log, session' = session
    PROVE  \A f, s, n, i : /\ Once(f, s, n, i) => Once(f, s, n, i)'
                           /\ OneSeed(f, s) => OneSeed(f, s)'
                           /\ Finished(f) => Finished(f)'
  <1>1. \A n, i : Of(n, i)' = Of(n, i)
    BY DEF Of
  <1>2. \A f, s, n, i : Once(f, s, n, i) => Once(f, s, n, i)'
    BY <1>1 DEF Once, OFName
  <1>3. \A f, s : OneSeed(f, s) => OneSeed(f, s)'
    BY DEF OneSeed
  <1> QED
    BY <1>2, <1>3 DEF Finished

LEMMA SweepingInit == Init => Sweeping
  BY DEF Init, Sweeping, InLoop

\* The outer loop goes on or ends: the session has found nothing yet of a
\* file that is still to come.
LEMMA SweepingFiles ==
    ASSUME IInv, Sweeping,
           \/ \E f \in FunctionFiles, s \in Seeds : NextFile(f, s)
           \/ EndOfFiles
    PROVE  Sweeping'
  <1>1. /\ pc = "files" /\ log' = log /\ session' = session
        /\ \A f \in FunctionFiles \ todo : Finished(f)
    BY DEF NextFile, EndOfFiles, user, Sweeping
  <1>2. \A f \in FunctionFiles \ todo : Finished(f)'
    BY <1>1, OnceKept
  <1>3. CASE \E f \in FunctionFiles, s \in Seeds : NextFile(f, s)
    <2>1. PICK f \in FunctionFiles, s \in Seeds : NextFile(f, s)
      BY <1>3
    <2>2. /\ f \in todo /\ todo' = todo \ {f} /\ file' = f /\ seed' = s
          /\ num' = 1 /\ pc' = "mutate"
      BY <2>1 DEF NextFile
    <2>3. OneSeed(f, s)'
      BY <1>1, <2>2 DEF OneSeed, IInv, InOrder, Halted
    <2>4. \A n \in 1..MAX_MUT, i \in 1..NumInputs : ~Passed(n, i)'
      BY <2>2, DriverAssumption DEF Passed, InLoop
    <2> QED
      BY <1>2, <2>2, <2>3, <2>4 DEF Sweeping, OneSeed
  <1>4. CASE EndOfFiles
    BY <1>2, <1>4 DEF EndOfFiles, Sweeping, InLoop, loops
  <1> QED
    BY <1>3, <1>4

\* Steps of the loops that find nothing out, and pass nothing.
LEMMA SweepingQuiet ==
    ASSUME IInv, Sweeping, pc \in InLoop \cup {"mutate"},
           pc' \in InLoop \cup {"mutate"},
           log' = log, session' = session, UNCHANGED <<todo, file, seed>>,
           \A n \in 1..MAX_MUT, i \in 1..NumInputs :
              Passed(n, i)' => Passed(n, i)
    PROVE  Sweeping'
  <1>1. \A f \in FunctionFiles \ (todo \cup {file}) : Finished(f)'
    BY OnceKept DEF Sweeping
  <1>2. OneSeed(file, seed)'
    BY DEF Sweeping, OneSeed
  <1>3. \A n \in 1..MAX_MUT, i \in 1..NumInputs :
           Passed(n, i)' => Once(file, seed, n, i)'
    BY OnceKept DEF Sweeping
  <1> QED
    BY <1>1, <1>2, <1>3 DEF Sweeping, InLoop, OneSeed, Once, OFName

LEMMA SweepingStep ==
    ASSUME IInv, Sweeping,
           \/ Mutate \/ Compile \/ NextMutant
           \/ \E o \in Outputs : Interpreted(o) \/ Ran(o)
           \/ ReportTxt
    PROVE  Sweeping'
  <1>1. /\ pc \in InLoop \cup {"mutate"} /\ pc' \in InLoop \cup {"mutate"}
        /\ log' = log /\ session' = session /\ UNCHANGED <<todo, file, seed>>
    BY DEF Mutate, Compile, NextMutant, Interpreted, Ran, ReportTxt, BackToLoop,
           loops, user, InLoop
  <1>2. num \in Nat /\ input \in Nat
    BY DriverAssumption DEF IInv, TypeOK
  <1>3. ASSUME NEW n \in 1..MAX_MUT, NEW i \in 1..NumInputs, Passed(n, i)'
        PROVE  Passed(n, i)
    <2>1. n \in Nat /\ i \in Nat /\ 1 <= i /\ i <= NumInputs
      BY DriverAssumption
    <2>2. CASE NextMutant
      <3>1. num' = num + 1 /\ pc' = "mutate" /\ pc = "interpret" /\ input > NumInputs
        BY <2>2 DEF NextMutant
      <3>2. n < num \/ n = num
        BY <1>2, <1>3, <2>1, <3>1 DEF Passed, InLoop
      <3>3. i < input
        BY <1>2, <2>1, <3>1, DriverAssumption
      <3> QED
        BY <3>1, <3>2, <3>3 DEF Passed, InLoop
    <2>3. CASE ReportTxt
      <3>1. pc = "txt" /\ input' = input + 1 /\ num' = num /\ pc' = "interpret"
        BY <2>3 DEF ReportTxt, BackToLoop, loops
      <3>2. n < num \/ (n = num /\ i < input + 1)
        BY <1>3, <3>1 DEF Passed, InLoop
      <3> QED
        BY <1>2, <2>1, <3>1, <3>2 DEF Passed, InLoop
    <2>4. CASE Mutate \/ Compile
      <3>1. num' = num /\ (pc' = "compile" \/ (pc' = "interpret" /\ input' = 1))
        BY <2>4 DEF Mutate, Compile, loops
      <3>2. ~(i < 1)
        BY <2>1
      <3>3. n < num
        BY <1>3, <3>1, <3>2 DEF Passed
      <3> QED
        BY <3>3 DEF Passed
    <2>5. CASE \E o \in Outputs : Interpreted(o) \/ Ran(o)
      BY <1>3, <2>5 DEF Interpreted, Ran, loops, Passed, InLoop
    <2> QED
      BY <2>2, <2>3, <2>4, <2>5
  <1> QED
    BY <1>1, <1>3, SweepingQuiet

\* A file comes to its end.
LEMMA SweepingNextNum ==
    ASSUME IInv, Sweeping, NextNum
    PROVE  Sweeping'
  <1>1. /\ pc = "mutate" /\ num > MAX_MUT /\ pc' = "files" /\ log' = log
        /\ session' = session /\ todo' = todo /\ num \in Nat
    BY DriverAssumption DEF NextNum, loops, user, IInv, TypeOK
  <1>2. \A n \in 1..MAX_MUT, i \in 1..NumInputs : Once(file, seed, n, i)
    <2>1. \A n \in 1..MAX_MUT, i \in 1..NumInputs : Passed(n, i)
      BY <1>1, DriverAssumption DEF Passed
    <2> QED
      BY <1>1, <2>1 DEF Sweeping
  <1>3. Finished(file)
    BY <1>1, <1>2 DEF Finished, Sweeping, IInv, TypeOK
  <1>4. \A f \in FunctionFiles \ todo : Finished(f)
    BY <1>1, <1>3 DEF Sweeping
  <1>5. \A f \in FunctionFiles \ todo : Finished(f)'
    BY <1>1, <1>4, OnceKept
  <1> QED
    BY <1>1, <1>5 DEF Sweeping, InLoop

\* An entry more: about this input, or about another.
LEMMA OnceGained ==
    ASSUME NEW f, NEW s, NEW n, NEW i, NEW e, log' = log \cup {e},
           session' = session, e.session = session
    PROVE  /\ e.name = OFName(f, s, n) /\ e.input = i /\ Of(OFName(f, s, n), i) = {}
              => Once(f, s, n, i)'
           /\ ~(e.name = OFName(f, s, n) /\ e.input = i) /\ Once(f, s, n, i)
              => Once(f, s, n, i)'
  <1> DEFINE o == OFName(f, s, n)
  <1>1. Of(o, i) = {x \in log : x.session = session /\ x.name = o /\ x.input = i}
    BY DEF Of
  <1>2. Of(o, i)' = {x \in log \cup {e} :
                       x.session = session /\ x.name = o /\ x.input = i}
    BY DEF Of, OFName
  <1>3. CASE e.name = o /\ e.input = i
    <2>1. Of(o, i) = {} => Of(o, i)' = {e}
      BY <1>1, <1>2, <1>3
    <2> QED
      BY <2>1, <1>3 DEF Once
  <1>4. CASE ~(e.name = o /\ e.input = i)
    <2>1. Of(o, i)' = Of(o, i)
      BY <1>1, <1>2, <1>4
    <2> QED
      BY <2>1, <1>4 DEF Once
  <1> QED
    BY <1>3, <1>4

\* An input is judged: it had no entry, and now has one.
LEMMA SweepingJudge ==
    ASSUME IInv, Sweeping, pc \in {"interpret", "report"}, input <= NumInputs,
           NEW o \in {"threw", "same", "differs"}, log' = log \cup {Entry(o)},
           UNCHANGED loops, UNCHANGED user,
           \/ pc' = "interpret" /\ input' = input + 1
           \/ pc' = "txt" /\ input' = input
    PROVE  Sweeping'
  <1>1. /\ Here = <<num, seed, file>> /\ num <= MAX_MUT /\ num \in Nat
        /\ input \in 1..NumInputs
    BY EntryType
  <1>2. /\ Entry(o).session = session /\ Entry(o).name = <<num, seed, file>>
        /\ Entry(o).input = input
    BY <1>1 DEF Entry
  <1>3. UNCHANGED <<todo, file, seed, num, session>>
    BY DEF loops, user
  <1>5. ASSUME NEW f \in FunctionFiles \ (todo \cup {file})
        PROVE  Finished(f)'
    <2>1. PICK s \in Seeds :
            /\ OneSeed(f, s)
            /\ \A n \in 1..MAX_MUT, i \in 1..NumInputs : Once(f, s, n, i)
      BY DEF Sweeping, Finished, InLoop
    <2>2. OneSeed(f, s)'
      BY <1>2, <1>3, <2>1 DEF OneSeed
    <2>3. \A n : Entry(o).name # OFName(f, s, n)
      BY <1>2 DEF OFName
    <2>4. \A n \in 1..MAX_MUT, i \in 1..NumInputs : Once(f, s, n, i)'
      BY <1>2, <1>3, <2>1, <2>3, OnceGained
    <2> QED
      BY <2>2, <2>4 DEF Finished
  <1>6. OneSeed(file, seed)'
    BY <1>2, <1>3 DEF OneSeed, Sweeping, InLoop
  <1>7. ASSUME NEW n \in 1..MAX_MUT, NEW i \in 1..NumInputs, Passed(n, i)'
        PROVE  Once(file, seed, n, i)'
    <2>1. Passed(n, i) \/ (n = num /\ i = input)
      BY <1>1, <1>3, <1>7, DriverAssumption DEF Passed, InLoop
    <2>2. CASE n = num /\ i = input
      <3>1. Of(OFName(file, seed, num), input) = {}
        <4>1. \A e \in log : e.session = session /\ e.name[3] = file =>
                  e.name[1] < num \/ (e.name[1] = num /\ e.input < input)
          BY DEF IInv, InOrder, InLoop
        <4> QED
          BY <1>1, <4>1 DEF Of, OFName
      <3>2. Entry(o).name = OFName(file, seed, n) /\ Entry(o).input = i
        BY <1>2, <2>2 DEF OFName
      <3> QED
        BY <1>2, <1>3, <2>2, <3>1, <3>2, OnceGained
    <2>3. CASE Passed(n, i) /\ ~(n = num /\ i = input)
      <3>1. Once(file, seed, n, i)
        BY <2>3 DEF Sweeping, InLoop
      <3>2. ~(Entry(o).name = OFName(file, seed, n) /\ Entry(o).input = i)
        BY <1>2, <2>3 DEF OFName
      <3> QED
        BY <1>2, <1>3, <3>1, <3>2, OnceGained
    <2> QED
      BY <2>1, <2>2, <2>3
  <1> QED
    BY <1>3, <1>5, <1>6, <1>7 DEF Sweeping, InLoop

LEMMA SweepingNext == IInv /\ Sweeping /\ [Next]_vars => Sweeping'
  <1> SUFFICES ASSUME IInv, Sweeping, [Next]_vars PROVE Sweeping'
    OBVIOUS
  <1>1. CASE Throws
    BY <1>1, SweepingJudge DEF Throws
  <1>2. CASE Agree \/ ReportJson
    <2>1. pc = "report" /\ input <= NumInputs /\ UNCHANGED loops /\ UNCHANGED user
      BY <1>2 DEF Agree, ReportJson, IInv, TypeOK
    <2>2. \E o \in {"threw", "same", "differs"} :
            /\ log' = log \cup {Entry(o)}
            /\ \/ pc' = "interpret" /\ input' = input + 1
               \/ pc' = "txt" /\ input' = input
      BY <1>2 DEF Agree, ReportJson, BackToLoop
    <2> QED
      BY <2>1, <2>2, SweepingJudge
  <1>3. CASE Close
    BY <1>3 DEF Close, Sweeping, InLoop
  <1>4. CASE \E f \in FunctionFiles : Edit(f)
    <2>1. pc \in Halted /\ pc' = pc /\ log' = log /\ session' = session /\ todo' = todo
      BY <1>4 DEF Edit, loops
    <2> QED
      BY <2>1, OnceKept DEF Sweeping, InLoop, Halted
  <1>5. CASE Start
    BY <1>5 DEF Start, Sweeping, InLoop
  <1>6. CASE UNCHANGED vars
    <2>1. /\ log' = log /\ session' = session /\ todo' = todo /\ file' = file
          /\ seed' = seed /\ pc' = pc /\ num' = num /\ input' = input
      BY <1>6 DEF vars
    <2>2. CASE pc \in InLoop \cup {"mutate"}
      <3>1. \A n \in 1..MAX_MUT, i \in 1..NumInputs : Passed(n, i)' => Passed(n, i)
        BY <2>1 DEF Passed
      <3> QED
        BY <2>1, <2>2, <3>1, SweepingQuiet
    <2>3. CASE pc \notin InLoop \cup {"mutate"}
      BY <2>1, <2>3, OnceKept DEF Sweeping
    <2> QED
      BY <2>2, <2>3
  <1> QED
    BY <1>1, <1>2, <1>3, <1>4, <1>5, <1>6, SweepingFiles, SweepingStep,
       SweepingNextNum DEF Next, Step, Programs

\* A finished session has tried every mutant of every file, under one seed,
\* on every input, each once, whatever failed or threw (driver.m:10-27).
THEOREM SessionsComplete == Spec => []SessionComplete
  <1>1. IInv /\ Sweeping => SessionComplete
    <2> SUFFICES ASSUME IInv, Sweeping, pc = "done", NEW f \in FunctionFiles
                 PROVE  \E s \in Seeds :
                          /\ \A n \in 1..MAX_MUT, i \in 1..NumInputs :
                               Once(f, s, n, i)
                          /\ \A t \in Seeds \ {s}, n \in 1..MAX_MUT, i \in 1..NumInputs :
                               Of(OFName(f, t, n), i) = {}
      BY DEF SessionComplete, Once
    <2>1. PICK s \in Seeds :
            /\ OneSeed(f, s)
            /\ \A n \in 1..MAX_MUT, i \in 1..NumInputs : Once(f, s, n, i)
      BY DEF Sweeping, Finished
    <2>2. \A t \in Seeds \ {s}, n \in 1..MAX_MUT, i \in 1..NumInputs :
             Of(OFName(f, t, n), i) = {}
      BY <2>1 DEF OneSeed, Of, OFName
    <2> QED
      BY <2>1, <2>2
  <1> QED
    BY <1>1, Inductive, SweepingInit, SweepingNext, PTL DEF Spec

-----------------------------------------------------------------------------
(* What report makes of the outputs.                                       *)

\* Equal outputs are not reported, and different ones go unreported only if
\* one is short or the compiled one an empty array (driver.m:36-43).
THEOREM Judgement == Spec => JudgementSound
  <1> DEFINE Sound ==
          Judging =>
            /\ Entry("differs") \in log' \ log => r1 # r2
            /\ Entry("same") \in log' \ log /\ r1 # r2 =>
                  \/ Len(r1) <= 1 \/ Len(r2) <= 1
                  \/ r2 = <<"[", "]">>
  <1>1. ASSUME IInv, [Next]_vars PROVE Sound
    <2> SUFFICES ASSUME Judging PROVE Sound
      OBVIOUS
    <2>1. Entry("differs") # Entry("same") /\ Entry("differs") # Entry("threw")
          /\ Entry("same") # Entry("threw")
      BY DEF Entry
    <2>2. Len(<<>>) = 0
      OBVIOUS
    <2>3. CASE Agree
      <3>1. ~Reported(r1, r2) /\ log' = log \cup {Entry("same")}
        BY <2>3 DEF Agree
      <3>2. ASSUME r1 # r2
            PROVE  Len(r1) <= 1 \/ Len(r2) <= 1 \/ r2 = <<"[", "]">>
        BY <2>2, <3>1, <3>2 DEF Reported, Same
      <3> QED
        BY <2>1, <3>1, <3>2
    <2>4. CASE ReportJson
      BY <2>1, <2>4 DEF ReportJson, Reported, Same
    <2>5. CASE ~Agree /\ ~ReportJson
      <3>1. log' = log
        BY <1>1, <2>5 DEF Judging, Next, Step, Programs, NextFile, EndOfFiles,
           Mutate, NextNum, Compile, NextMutant, ReportTxt, Throws, Interpreted,
           Ran, Close, Edit, Start, vars
      <3> QED
        BY <3>1
    <2> QED
      BY <2>3, <2>4, <2>5
  <1>2. IInv /\ [Next]_vars => [Sound]_vars
    BY <1>1
  <1> QED
    BY <1>2, Inductive, PTL DEF Spec, JudgementSound
=============================================================================
