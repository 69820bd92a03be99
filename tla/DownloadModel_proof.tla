------------------------- MODULE DownloadModel_proof -------------------------
(***************************************************************************)
(* Theorems about the download of models, for any files, versions, sizes   *)
(* and configurations, and for any number of failures, kills, removals and *)
(* changes of the remote files.                                            *)
(***************************************************************************)
EXTENDS DownloadModel, SequenceTheorems, TLAPS

FilesTypeOK ==
  /\ remote \in [DOMAIN Contents -> Versions]
  /\ partial \in [Files -> Content \cup {None}]
  /\ model \in [Files -> Content \cup {None}]
  /\ metadata \in [Files -> Sidecars \cup {None, Torn}]

ProgramTypeOK ==
  /\ process \in Process \cup {None}
  /\ process # None => process.turn \in 1 .. Len(process.call)
  /\ result \in [status : {"none", "failed", "rejected", "done"},
                 call : Calls \cup {<<>>}, turn : Nat]

\* What each step of the program may rely on.  The version is None exactly as long as the
\* program has not asked the server for the file, and in that case its sidecar, if there
\* is one, has been compared.
Working ==
  process # None =>
    /\ process.at # "open" => file \in Files
    /\ process.at \in {"stream", "check", "verify"} => process.version \in Versions
    /\ process.at \in {"stream", "check"} => partial[file] # None /\ model[file] = None
    /\ process.at = "stream" => Len(partial[file]) = process.position
    /\ process.at \in {"verify", "write"} => model[file] # None
    /\ process.at = "write" =>
         /\ Matches(model[file], job.wanted)
         /\ process.version = None => metadata[file] \in {None, Sidecar(job, model[file])}

\* The file that a job asks for is there, as wanted, and its sidecar describes the two.
Kept(j) ==
  /\ j.file \in Files /\ model[j.file] # None
  /\ Matches(model[j.file], j.wanted)
  /\ metadata[j.file] = Sidecar(j, model[j.file])

\* The earlier items of a configuration are done, and none of them has the file that is
\* being downloaded.
EarlierKept ==
  process # None =>
    \A i \in 1 .. (process.turn - 1) :
      /\ Kept(process.call[i])
      /\ process.version # None => process.call[i].file # file

DoneKept ==
  Done => result.call \in Calls /\ \A i \in DOMAIN result.call : Kept(result.call[i])

Inv == FilesTypeOK /\ ProgramTypeOK /\ Working /\ EarlierKept /\ DoneKept /\ PartialInOrder

-----------------------------------------------------------------------------
(* Calls, sidecars and contents *)

LEMMA CallFacts ==
  ASSUME NEW call \in Calls
  PROVE  /\ Len(call) \in Nat \ {0} /\ DOMAIN call = 1 .. Len(call)
         /\ \A i, j \in DOMAIN call : i # j =>
              LET a == call[i].identity
                  b == call[j].identity
              IN  /\ a.logical_id # b.logical_id /\ a.quantization # b.quantization
                  /\ a.base = b.base /\ a.revision = b.revision
<1>1. CASE \E name \in NamedFiles : call = <<NamedJob(name)>>
  BY <1>1
<1>2. ASSUME NEW config \in Configs, ValidConfig(config), call = JobsOf(config)
      PROVE  /\ Len(call) \in Nat \ {0} /\ DOMAIN call = 1 .. Len(call)
             /\ \A i, j \in DOMAIN call : i # j =>
                  LET a == call[i].identity
                      b == call[j].identity
                  IN  /\ a.logical_id # b.logical_id /\ a.quantization # b.quantization
                      /\ a.base = b.base /\ a.revision = b.revision
  <2>1. config \in Seq(Range(config))
    BY DownloadAssumption
  <2>2. Len(config) \in Nat /\ DOMAIN config = 1 .. Len(config)
    BY <2>1, LenProperties
  <2>3. DOMAIN config # {}
    BY <1>2, DownloadAssumption DEF ValidConfig, AllFields
  <2>4. call = [i \in 1 .. Len(config) |-> ItemJob(config[i])]
    BY <1>2, <2>2 DEF JobsOf
  <2>5. Len(call) = Len(config) /\ DOMAIN call = 1 .. Len(call)
    BY <2>2, <2>4
  <2>6. Len(call) \in Nat \ {0}
    BY <2>2, <2>3, <2>5
  <2>7. ASSUME NEW i \in DOMAIN call, NEW j \in DOMAIN call, i # j
        PROVE  LET a == call[i].identity
                   b == call[j].identity
               IN  /\ a.logical_id # b.logical_id /\ a.quantization # b.quantization
                   /\ a.base = b.base /\ a.revision = b.revision
    <3>1. i \in DOMAIN config /\ j \in DOMAIN config
      BY <2>2, <2>5
    <3>2. call[i] = ItemJob(config[i]) /\ call[j] = ItemJob(config[j])
      BY <2>2, <2>4, <3>1
    <3>3. /\ config[i].quantization = config[i].key /\ config[j].quantization = config[j].key
          /\ config[i].logical_id # config[j].logical_id
          /\ config[i].base = config[j].base /\ config[i].revision = config[j].revision
      BY <1>2, <2>7, <3>1 DEF ValidConfig, AllFields, DistinctIds, Comparable
    <3>4. config[i].key # config[j].key
      BY <2>7, <3>1, DownloadAssumption
    <3>5. QED
      BY <3>2, <3>3, <3>4 DEF ItemJob, Job
  <2>8. QED
    BY <2>5, <2>6, <2>7
<1>3. QED
  BY <1>1, <1>2 DEF Calls

LEMMA SidecarFacts ==
  ASSUME NEW call \in Calls, NEW i \in DOMAIN call, NEW content \in Content
  PROVE  /\ Sidecar(call[i], content) \in Sidecars
         /\ Sidecar(call[i], content) \notin {None, Torn}
<1>1. call[i] \in Range(call)
  BY DEF Range
<1>2. Sidecar(call[i], content) \in Sidecars
  BY <1>1 DEF Sidecar, Sidecars
<1>3. QED
  BY <1>2, NoneAssumption

LEMMA OpeningFacts ==
  ASSUME NEW call \in Calls, NEW turn \in Nat
  PROVE  Opening(call, turn) \in Process /\ Opening(call, turn) # None
<1>1. Opening(call, turn) \in Process
  BY DEF Opening, Process
<1>2. QED
  BY <1>1, NoneAssumption

LEMMA ContentFacts ==
  /\ None \notin Content /\ <<>> \in Content
  /\ \A content \in Content : Len(content) \in Nat
BY NoneAssumption, EmptySeq DEF Content

-----------------------------------------------------------------------------
(* Steps of several actions *)

LEMMA Initially == Init => Inv
<1> SUFFICES ASSUME Init PROVE Inv
  OBVIOUS
<1>1. FilesTypeOK
  BY DownloadAssumption DEF Init, FilesTypeOK
<1>2. ProgramTypeOK /\ Working /\ EarlierKept /\ DoneKept
  BY DEF Init, ProgramTypeOK, Working, EarlierKept, DoneKept, Done, NoResult
<1>3. PartialInOrder
  BY DEF Init, PartialInOrder
<1>4. QED
  BY <1>1, <1>2, <1>3 DEF Inv

\* A program that fails leaves the files as it likes, in order.
LEMMA FailureKeeps ==
  ASSUME Inv, process # None, NEW status \in {"failed", "rejected"}, End(status),
         FilesTypeOK', PartialInOrder'
  PROVE  Inv'
<1>1. process.call \in Calls /\ process.turn \in Nat
  BY DEF Inv, ProgramTypeOK, Process
<1>2. /\ process' = None
      /\ result' = [status |-> status, call |-> process.call, turn |-> process.turn]
  BY DEF End
<1>3. ProgramTypeOK' /\ Working' /\ EarlierKept' /\ DoneKept'
  BY <1>1, <1>2 DEF ProgramTypeOK, Working, EarlierKept, DoneKept, Done
<1>4. QED
  BY <1>3 DEF Inv

\* Whether or not a program is running, another one has left its result.
LEMMA StartKeeps ==
  ASSUME Inv, process = None, NEW call \in Calls, process' = Opening(call, 1),
         UNCHANGED <<remote, files, result>>
  PROVE  Inv'
<1>1. FilesTypeOK' /\ PartialInOrder'
  BY DEF Inv, FilesTypeOK, PartialInOrder, files
<1>2. process' \in Process /\ process' # None
  BY OpeningFacts
<1>3. /\ process'.at = "open" /\ process'.turn = 1 /\ process'.version = None
      /\ process'.call = call
  BY DEF Opening
<1>4. ProgramTypeOK'
  BY <1>2, <1>3, CallFacts DEF Inv, ProgramTypeOK
<1>5. Working' /\ EarlierKept' /\ DoneKept'
  BY <1>2, <1>3 DEF Working, EarlierKept, DoneKept, Done
<1>6. QED
  BY <1>1, <1>4, <1>5 DEF Inv

LEMMA RunningFacts ==
  ASSUME Inv, process # None
  PROVE  /\ process \in Process /\ process.call \in Calls
         /\ process.turn \in Nat /\ process.turn \in 1 .. Len(process.call)
         /\ process.turn \in DOMAIN process.call /\ job = process.call[process.turn]
<1>1. process \in Process /\ process.turn \in 1 .. Len(process.call)
  BY DEF Inv, ProgramTypeOK
<1>2. process.call \in Calls /\ process.turn \in Nat
  BY <1>1 DEF Process
<1>3. QED
  BY <1>1, <1>2, CallFacts DEF job

\* A step of a running program that leaves the files and the job alone.
LEMMA MoveKeeps ==
  ASSUME Inv, process # None, process' \in Process,
         process'.call = process.call, process'.turn = process.turn,
         UNCHANGED <<remote, files, result>>, Working',
         process'.version # None => process.version # None
  PROVE  Inv'
<1>1. FilesTypeOK' /\ PartialInOrder'
  BY DEF Inv, FilesTypeOK, PartialInOrder, files
<1>2. process' # None
  BY NoneAssumption
<1>3. ProgramTypeOK'
  BY <1>2 DEF Inv, ProgramTypeOK
<1>4. job' = job /\ file' = file
  BY DEF job, file
<1>5. EarlierKept'
  BY <1>4 DEF Inv, EarlierKept, Kept, Matches, files
<1>6. DoneKept'
  BY <1>2 DEF DoneKept, Done
<1>7. QED
  BY <1>1, <1>3, <1>5, <1>6 DEF Inv

LEMMA StartConfigKeeps ==
  ASSUME Inv, NEW config \in Configs, StartConfig(config)
  PROVE  Inv'
<1>1. CASE ValidConfig(config)
  <2>1. JobsOf(config) \in Calls
    BY <1>1 DEF Calls
  <2>2. QED
    BY <1>1, <2>1, StartKeeps DEF StartConfig
<1>2. CASE ~ValidConfig(config)
  <2>1. /\ process = None /\ UNCHANGED <<remote, files, process>>
        /\ result' = [NoResult EXCEPT !.status = "failed"]
    BY <1>2 DEF StartConfig
  <2>2. FilesTypeOK' /\ PartialInOrder'
    BY <2>1 DEF Inv, FilesTypeOK, PartialInOrder, files
  <2>3. ProgramTypeOK' /\ Working' /\ EarlierKept' /\ DoneKept'
    BY <2>1 DEF ProgramTypeOK, Working, EarlierKept, DoneKept, Done, NoResult
  <2>4. QED
    BY <2>2, <2>3 DEF Inv
<1>3. QED
  BY <1>1, <1>2

LEMMA StartNamedKeeps ==
  ASSUME Inv, NEW name \in NamedFiles, StartNamed(name)
  PROVE  Inv'
<1>1. <<NamedJob(name)>> \in Calls
  BY DEF Calls
<1>2. QED
  BY <1>1, StartKeeps DEF StartNamed

\* Failures that leave every file as it is.
LEMMA FailureAloneKeeps ==
  ASSUME Inv, process # None, NEW status \in {"failed", "rejected"}, End(status),
         UNCHANGED <<remote, files>>
  PROVE  Inv'
<1>1. FilesTypeOK' /\ PartialInOrder'
  BY DEF Inv, FilesTypeOK, PartialInOrder, files
<1>2. QED
  BY <1>1, FailureKeeps

LEMMA UseExistingKeeps == ASSUME Inv, UseExisting PROVE Inv'
<1>1. /\ process # None /\ process.at = "open" /\ file \in Files /\ model[file] # None
      /\ UNCHANGED <<remote, files>>
  BY DEF UseExisting, At, Locatable
<1>2. CASE Acceptable(file)
  <2>1. process' = [process EXCEPT !.at = "write"] /\ UNCHANGED result
    BY <1>2 DEF UseExisting
  <2>2. process \in Process
    BY <1>1, RunningFacts
  <2>3. /\ process' \in Process /\ process'.at = "write"
        /\ process'.call = process.call /\ process'.turn = process.turn
        /\ process'.version = process.version
    BY <2>1, <2>2 DEF Process
  <2>4. job' = job /\ file' = file
    BY <2>3 DEF job, file
  <2>5. Working'
    BY <1>1, <1>2, <2>3, <2>4 DEF Working, Acceptable, Matches, files
  <2>6. QED
    BY <1>1, <2>1, <2>3, <2>5, MoveKeeps
<1>3. CASE ~Acceptable(file)
  BY <1>1, <1>3, FailureAloneKeeps DEF UseExisting
<1>4. QED
  BY <1>2, <1>3

LEMMA ConnectKeeps ==
  ASSUME Inv, process # None, process.at = "open", file \in Files, model[file] = None,
         Served, NEW ranges \in Ranges, NEW hasLength \in Lengths, Connect(ranges, hasLength)
  PROVE  Inv'
<1> DEFINE offset  == IF partial[file] = None THEN 0 ELSE Len(partial[file])
           resumed == offset > 0 /\ ranges
           version == remote[<<file, job.identity.revision>>]
<1>1. partial \in [Files -> Content \cup {None}] /\ version \in Versions
  BY DEF Inv, FilesTypeOK, Served
<1>2. offset \in Nat /\ Size[version] \in Nat
  BY <1>1, ContentFacts, DownloadAssumption
<1>3. /\ Opened(file, resumed) \in Content
      /\ Len(Opened(file, resumed)) = IF resumed THEN offset ELSE 0
      /\ \A i \in DOMAIN Opened(file, resumed) : Opened(file, resumed)[i][2] = i
  <2>1. CASE resumed
    BY <1>1, <2>1, ContentFacts DEF Opened, Inv, PartialInOrder
  <2>2. CASE ~resumed
    BY <2>2, ContentFacts DEF Opened
  <2>3. QED
    BY <2>1, <2>2
<1>4. UNCHANGED <<remote, model, metadata>>
  BY DEF Connect
<1>5. CASE resumed /\ offset >= Size[version]
  <2>1. End("failed") /\ UNCHANGED partial
    BY <1>5 DEF Connect
  <2>2. QED
    BY <1>4, <2>1, FailureAloneKeeps DEF files
<1>6. CASE ~(resumed /\ offset >= Size[version])
  <2> DEFINE total == Announced(version, offset, resumed)
             start == IF resumed THEN offset ELSE 0
  <2>1. total \in Int /\ start \in Nat
    BY <1>2 DEF Announced, ContentLength
  <2>2. /\ partial' = [partial EXCEPT ![file] = Opened(file, resumed)]
        /\ process' = [process EXCEPT !.at = "stream", !.version = version,
                         !.position = start, !.expected = IF hasLength THEN total ELSE None]
        /\ UNCHANGED result
    BY <1>6 DEF Connect
  <2> HIDE DEF offset, resumed, version, total, start
  <2>3. process \in Process
    BY RunningFacts
  <2>4. /\ process' \in Process /\ process'.at = "stream" /\ process'.version = version
        /\ process'.call = process.call /\ process'.turn = process.turn
        /\ process'.position = start
    BY <1>1, <2>1, <2>2, <2>3 DEF Process
  <2>5. job' = job /\ file' = file
    BY <2>4 DEF job, file
  <2>6. process' # None
    BY <2>4, NoneAssumption
  <2>7. partial'[file] = Opened(file, resumed) /\ partial'[file] # None
    BY <1>1, <1>3, <2>2, ContentFacts
  <2>8. FilesTypeOK'
    BY <1>3, <1>4, <2>2 DEF Inv, FilesTypeOK
  <2>9. ProgramTypeOK'
    BY <2>2, <2>4, <2>6 DEF Inv, ProgramTypeOK
  <2>10. Working'
    BY <1>1, <1>3, <1>4, <2>4, <2>5, <2>7 DEF Working, start
  <2>11. EarlierKept'
    <3> SUFFICES ASSUME NEW i \in 1 .. (process.turn - 1)
                 PROVE  Kept(process.call[i])' /\ process.call[i].file # file
      BY <2>4, <2>5 DEF EarlierKept
    <3>1. Kept(process.call[i])
      BY DEF Inv, EarlierKept
    <3>2. QED
      BY <1>4, <2>2, <2>4, <3>1 DEF Kept, Matches
  <2>12. DoneKept'
    BY <2>6 DEF DoneKept, Done
  <2>13. PartialInOrder'
    BY <1>1, <1>3, <2>2 DEF Inv, PartialInOrder
  <2>14. QED
    BY <2>8, <2>9, <2>10, <2>11, <2>12, <2>13 DEF Inv
<1>7. QED
  BY <1>5, <1>6

LEMMA DownloadKeeps == ASSUME Inv, Download PROVE Inv'
<1>1. process # None /\ process.at = "open" /\ file \in Files /\ model[file] = None
  BY DEF Download, At, Locatable
<1>2. CASE Served /\ \E ranges \in Ranges, hasLength \in Lengths : Connect(ranges, hasLength)
  BY <1>1, <1>2, ConnectKeeps
<1>3. CASE ~Served /\ End("failed") /\ UNCHANGED <<remote, files, faults>>
  BY <1>1, <1>3, FailureAloneKeeps
<1>4. QED
  BY <1>2, <1>3 DEF Download

LEMMA ReadChunkKeeps == ASSUME Inv, ReadChunk PROVE Inv'
<1> DEFINE chunk == <<process.version, process.position + 1>>
<1>1. /\ process # None /\ process.at = "stream"
      /\ partial' = [partial EXCEPT ![file] = Append(@, chunk)]
      /\ process' = [process EXCEPT !.position = @ + 1]
      /\ UNCHANGED <<remote, model, metadata, result>>
  BY DEF ReadChunk, At
<1>2. /\ process \in Process /\ process.position \in Nat
  BY <1>1, RunningFacts DEF Process
<1>3. /\ file \in Files /\ process.version \in Versions /\ model[file] = None
      /\ partial[file] # None /\ Len(partial[file]) = process.position
  BY <1>1 DEF Inv, Working
<1>4. /\ partial \in [Files -> Content \cup {None}] /\ partial[file] \in Content
      /\ \A i \in DOMAIN partial[file] : partial[file][i][2] = i
  BY <1>3 DEF Inv, FilesTypeOK, PartialInOrder
<1>5. chunk \in Versions \X Nat /\ chunk[2] = process.position + 1
  BY <1>2, <1>3
<1> HIDE DEF chunk
<1>6. /\ Append(partial[file], chunk) \in Content
      /\ Len(Append(partial[file], chunk)) = process.position + 1
      /\ \A i \in DOMAIN Append(partial[file], chunk) : Append(partial[file], chunk)[i][2] = i
  <2> DEFINE old == partial[file]
             new == Append(old, chunk)
  <2>1. old \in Seq(Versions \X Nat) /\ Len(old) = process.position
    BY <1>3, <1>4 DEF Content
  <2> HIDE DEF old
  <2>2. new \in Seq(Versions \X Nat) /\ Len(new) = process.position + 1
    BY <2>1, <1>5
  <2>3. ASSUME NEW i \in DOMAIN new PROVE new[i][2] = i
    <3>1. CASE i = Len(old) + 1
      BY <2>1, <3>1, <1>5
    <3>2. CASE i # Len(old) + 1
      <4>1. i \in DOMAIN old /\ new[i] = old[i]
        BY <2>1, <3>2
      <4>2. QED
        BY <4>1, <1>4 DEF old
    <3>3. QED
      BY <3>1, <3>2
  <2>4. QED
    BY <2>2, <2>3 DEF old, Content
<1>7. /\ process' \in Process /\ process'.at = "stream" /\ process'.version = process.version
      /\ process'.call = process.call /\ process'.turn = process.turn
      /\ process'.position = process.position + 1
  BY <1>1, <1>2 DEF Process
<1>8. job' = job /\ file' = file /\ process' # None
  BY <1>7, NoneAssumption DEF job, file
<1>9. partial'[file] = Append(partial[file], chunk)
  BY <1>1, <1>3, <1>4
<1>10. FilesTypeOK'
  BY <1>1, <1>6 DEF Inv, FilesTypeOK
<1>11. ProgramTypeOK'
  BY <1>1, <1>7, <1>8 DEF Inv, ProgramTypeOK
<1>12. Working'
  BY <1>1, <1>3, <1>6, <1>7, <1>8, <1>9, ContentFacts DEF Working
<1>13. EarlierKept'
  BY <1>1, <1>7, <1>8 DEF Inv, EarlierKept, Kept, Matches
<1>14. DoneKept'
  BY <1>8 DEF DoneKept, Done
<1>15. PartialInOrder'
  BY <1>1, <1>4, <1>6 DEF Inv, PartialInOrder
<1>16. QED
  BY <1>10, <1>11, <1>12, <1>13, <1>14, <1>15 DEF Inv

\* The end of the stream, also before its time.
LEMMA StreamEndKeeps ==
  ASSUME Inv, At("stream"), process' = [process EXCEPT !.at = "check"],
         UNCHANGED <<remote, files, result>>
  PROVE  Inv'
<1>1. process # None /\ process.at = "stream" /\ process \in Process
  BY RunningFacts DEF At
<1>2. /\ process' \in Process /\ process'.at = "check" /\ process'.version = process.version
      /\ process'.call = process.call /\ process'.turn = process.turn
  BY <1>1 DEF Process
<1>3. job' = job /\ file' = file
  BY <1>2 DEF job, file
<1>4. Working'
  BY <1>1, <1>2, <1>3 DEF Inv, Working, files
<1>5. QED
  BY <1>1, <1>2, <1>4, MoveKeeps

LEMMA CheckAndRenameKeeps == ASSUME Inv, CheckAndRename PROVE Inv'
<1>1. /\ process # None /\ process.at = "check" /\ process \in Process
      /\ UNCHANGED <<remote, metadata>>
  BY RunningFacts DEF CheckAndRename, At
<1>2. /\ file \in Files /\ process.version \in Versions /\ process.version # None
      /\ model[file] = None /\ partial[file] # None
  BY <1>1, NoneAssumption DEF Inv, Working
<1>3. CASE Complete
  <2>1. /\ model' = [model EXCEPT ![file] = partial[file]]
        /\ partial' = [partial EXCEPT ![file] = None]
        /\ process' = [process EXCEPT !.at = "verify"]
        /\ UNCHANGED result
    BY <1>3 DEF CheckAndRename
  <2>2. /\ process' \in Process /\ process'.at = "verify" /\ process'.version = process.version
        /\ process'.call = process.call /\ process'.turn = process.turn
    BY <1>1, <2>1 DEF Process
  <2>3. job' = job /\ file' = file /\ process' # None
    BY <2>2, NoneAssumption DEF job, file
  <2>4. model'[file] = partial[file]
    BY <1>2, <2>1 DEF Inv, FilesTypeOK
  <2>5. FilesTypeOK'
    BY <1>1, <1>2, <2>1 DEF Inv, FilesTypeOK
  <2>6. ProgramTypeOK'
    <3>1. result' = result
      BY <2>1
    <3>2. QED
      BY <1>1, <2>2, <2>3, <3>1 DEF Inv, ProgramTypeOK
  <2>7. Working'
    BY <1>2, <2>2, <2>3, <2>4 DEF Working
  <2>8. EarlierKept'
    <3> SUFFICES ASSUME NEW i \in 1 .. (process.turn - 1)
                 PROVE  Kept(process.call[i])' /\ process.call[i].file # file
      BY <2>2, <2>3 DEF EarlierKept
    <3>1. Kept(process.call[i]) /\ process.call[i].file # file
      BY <1>1, <1>2 DEF Inv, EarlierKept
    <3>2. QED
      BY <1>1, <2>1, <2>2, <3>1 DEF Inv, FilesTypeOK, Kept, Matches
  <2>9. DoneKept'
    BY <2>3 DEF DoneKept, Done
  <2>10. PartialInOrder'
    BY <1>2, <2>1 DEF Inv, FilesTypeOK, PartialInOrder
  <2>11. QED
    BY <2>5, <2>6, <2>7, <2>8, <2>9, <2>10 DEF Inv
<1>4. CASE ~Complete
  BY <1>1, <1>4, FailureAloneKeeps DEF CheckAndRename, files
<1>5. QED
  BY <1>3, <1>4

LEMMA VerifyKeeps == ASSUME Inv, Verify PROVE Inv'
<1>1. /\ process # None /\ process.at = "verify" /\ process \in Process
      /\ UNCHANGED <<remote, partial, metadata>>
  BY RunningFacts DEF Verify, At
<1>2. /\ file \in Files /\ process.version \in Versions /\ process.version # None
      /\ model[file] # None
  BY <1>1, NoneAssumption DEF Inv, Working
<1>3. CASE Matches(model[file], job.wanted)
  <2>1. process' = [process EXCEPT !.at = "write"] /\ UNCHANGED <<model, result>>
    BY <1>3 DEF Verify
  <2>2. /\ process' \in Process /\ process'.at = "write" /\ process'.version = process.version
        /\ process'.call = process.call /\ process'.turn = process.turn
    BY <1>1, <2>1 DEF Process
  <2>3. job' = job /\ file' = file
    BY <2>2 DEF job, file
  <2>4. Working'
    BY <1>2, <1>3, <2>1, <2>2, <2>3 DEF Working, Matches
  <2>5. QED
    BY <1>1, <2>1, <2>2, <2>4, MoveKeeps DEF files
<1>4. CASE ~Matches(model[file], job.wanted)
  <2>1. model' = [model EXCEPT ![file] = None] /\ End("failed")
    BY <1>4 DEF Verify
  <2>2. FilesTypeOK' /\ PartialInOrder'
    BY <1>1, <2>1 DEF Inv, FilesTypeOK, PartialInOrder
  <2>3. QED
    BY <1>1, <2>1, <2>2, FailureKeeps
<1>5. QED
  BY <1>3, <1>4

LEMMA WriteMetadataKeeps == ASSUME Inv, WriteMetadata PROVE Inv'
<1>1. /\ process # None /\ process.at = "write"
      /\ metadata' = [metadata EXCEPT ![file] = Sidecar(job, model[file])]
      /\ UNCHANGED <<remote, partial, model>>
  BY DEF WriteMetadata, At
<1>2. /\ file \in Files /\ model[file] # None /\ Matches(model[file], job.wanted)
      /\ process.version = None => metadata[file] \in {None, Sidecar(job, model[file])}
  BY <1>1 DEF Inv, Working
<1>3. /\ model[file] \in Content
      /\ metadata \in [Files -> Sidecars \cup {None, Torn}]
      /\ model \in [Files -> Content \cup {None}]
  BY <1>2 DEF Inv, FilesTypeOK
<1>4. Sidecar(job, model[file]) \in Sidecars
  BY <1>1, <1>3, RunningFacts, SidecarFacts
<1>5. FilesTypeOK' /\ PartialInOrder'
  BY <1>1, <1>4 DEF Inv, FilesTypeOK, PartialInOrder
<1>6. ASSUME NEW j, j = job
      PROVE  Kept(j)'
  BY <1>1, <1>2, <1>3, <1>6 DEF Kept, Matches, file
<1>7. ASSUME NEW i \in 1 .. (process.turn - 1), NEW j, j = process.call[i]
      PROVE  Kept(j)'
  <2>1. /\ Kept(j)
        /\ process.version # None => j.file # file
    BY <1>1, <1>7 DEF Inv, EarlierKept
  <2>2. metadata'[j.file] = metadata[j.file]
    <3>1. CASE j.file # file
      BY <1>1, <1>3, <2>1, <3>1 DEF Kept
    <3>2. CASE j.file = file
      <4>1. metadata[file] = Sidecar(j, model[file]) /\ process.version = None
        BY <2>1, <3>2 DEF Kept
      <4>2. i \in DOMAIN process.call /\ process.call \in Calls
        BY <1>1, RunningFacts, CallFacts
      <4>3. metadata[file] # None
        BY <1>3, <1>7, <4>1, <4>2, SidecarFacts
      <4>4. QED
        BY <1>1, <1>2, <1>3, <3>2, <4>1, <4>3
    <3>3. QED
      BY <3>1, <3>2
  <2>3. QED
    BY <1>1, <2>1, <2>2 DEF Kept, Matches
<1>8. ASSUME NEW i \in 1 .. process.turn, NEW j, j = process.call[i]
      PROVE  Kept(j)'
  <2>1. process.turn \in Nat /\ job = process.call[process.turn]
    BY <1>1, RunningFacts
  <2>2. CASE i = process.turn
    BY <1>6, <1>8, <2>1, <2>2
  <2>3. CASE i # process.turn
    BY <1>7, <1>8, <2>1, <2>3
  <2>4. QED
    BY <2>2, <2>3
<1>9. CASE process.turn = Len(process.call)
  <2>1. /\ process' = None
        /\ result' = [status |-> "done", call |-> process.call, turn |-> process.turn]
    BY <1>9 DEF WriteMetadata, Return, End
  <2>2. ProgramTypeOK' /\ Working' /\ EarlierKept'
    BY <1>1, <2>1, RunningFacts DEF ProgramTypeOK, Working, EarlierKept
  <2>3. DoneKept'
    <3>1. DOMAIN process.call = 1 .. process.turn /\ process.call \in Calls
      BY <1>1, <1>9, RunningFacts, CallFacts
    <3>2. result'.call = process.call
      BY <2>1
    <3>3. QED
      BY <1>8, <3>1, <3>2 DEF DoneKept, Kept
  <2>4. QED
    BY <1>5, <2>2, <2>3 DEF Inv
<1>10. CASE process.turn # Len(process.call)
  <2> DEFINE turn == process.turn + 1
  <2>1. process' = Opening(process.call, turn) /\ UNCHANGED result
    BY <1>10 DEF WriteMetadata, Return
  <2>2. /\ process.call \in Calls /\ process.turn \in Nat
        /\ process.turn \in 1 .. Len(process.call) /\ job = process.call[process.turn]
    BY <1>1, RunningFacts
  <2>3. turn \in 1 .. Len(process.call) /\ turn \in Nat /\ turn - 1 = process.turn
    BY <1>10, <2>2, CallFacts
  <2> HIDE DEF turn
  <2>4. process' \in Process /\ process' # None
    BY <2>1, <2>2, <2>3, OpeningFacts
  <2>5. /\ process'.at = "open" /\ process'.turn = turn /\ process'.version = None
        /\ process'.call = process.call
    BY <2>1 DEF Opening
  <2>6. ProgramTypeOK'
    <3>1. result' = result
      BY <2>1
    <3>2. QED
      BY <2>3, <2>4, <2>5, <3>1 DEF Inv, ProgramTypeOK
  <2>7. Working' /\ DoneKept'
    BY <2>4, <2>5 DEF Working, DoneKept, Done
  <2>8. EarlierKept'
    BY <1>8, <2>3, <2>5 DEF EarlierKept, Kept
  <2>9. QED
    BY <1>5, <2>6, <2>7, <2>8 DEF Inv
<1>11. QED
  BY <1>9, <1>10

LEMMA KillKeeps == ASSUME Inv, Kill PROVE Inv'
<1>1. process # None /\ End("failed") /\ UNCHANGED <<remote, partial, model>>
  BY DEF Kill
<1>2. FilesTypeOK' /\ PartialInOrder'
  BY <1>1 DEF Kill, Inv, FilesTypeOK, PartialInOrder
<1>3. QED
  BY <1>1, <1>2, FailureKeeps

LEMMA RemoteChangesKeeps == ASSUME Inv, RemoteChanges PROVE Inv'
<1>1. UNCHANGED <<files, process, result>>
  BY DEF RemoteChanges
<1>2. FilesTypeOK'
  BY DownloadAssumption DEF RemoteChanges, Inv, FilesTypeOK, files
<1>3. ProgramTypeOK' /\ PartialInOrder'
  BY <1>1 DEF Inv, ProgramTypeOK, PartialInOrder, files
<1>4. Working' /\ EarlierKept' /\ DoneKept'
  BY <1>1 DEF Inv, Working, EarlierKept, DoneKept, Done, Kept, Matches, job, file, files
<1>5. QED
  BY <1>2, <1>3, <1>4 DEF Inv

LEMMA RemovedKeeps == ASSUME Inv, NEW name, Removed(name) PROVE Inv'
<1>1. /\ process = None /\ process' = None /\ result' = NoResult
      /\ model' = [model EXCEPT ![name] = None]
      /\ UNCHANGED <<remote, partial, metadata>>
  BY DEF Removed
<1>2. FilesTypeOK' /\ PartialInOrder'
  BY <1>1 DEF Inv, FilesTypeOK, PartialInOrder
<1>3. ProgramTypeOK' /\ Working' /\ EarlierKept' /\ DoneKept'
  BY <1>1 DEF ProgramTypeOK, Working, EarlierKept, DoneKept, Done, NoResult
<1>4. QED
  BY <1>2, <1>3 DEF Inv

LEMMA StepKeeps == ASSUME Inv, Next PROVE Inv'
<1>1. ASSUME RefuseUrl PROVE Inv'
  BY <1>1, FailureAloneKeeps DEF RefuseUrl, At
<1>2. ASSUME StreamEnds \/ StreamEndsEarly PROVE Inv'
  BY <1>2, StreamEndKeeps DEF StreamEnds, StreamEndsEarly
<1>3. ASSUME ConnectFails \/ ConnectionLost PROVE Inv'
  BY <1>3, FailureAloneKeeps DEF ConnectFails, ConnectionLost, At
<1>4. ASSUME RemoveModel PROVE Inv'
  BY <1>4, RemovedKeeps DEF RemoveModel
<1>5. ASSUME RemoveRejected PROVE Inv'
  <2>1. /\ result.status = "rejected" /\ Removed(result.call[result.turn].file)
    BY <1>5 DEF RemoveRejected
  <2>2. QED
    BY <2>1, RemovedKeeps
<1>6. ASSUME Step PROVE Inv'
  BY <1>1, <1>2, <1>6, UseExistingKeeps, DownloadKeeps, ReadChunkKeeps, CheckAndRenameKeeps,
     VerifyKeeps, WriteMetadataKeeps DEF Step
<1>7. QED
  BY <1>2, <1>3, <1>4, <1>5, <1>6, StartConfigKeeps, StartNamedKeeps, KillKeeps,
     RemoteChangesKeeps DEF Next

LEMMA StutterKeeps == ASSUME Inv, UNCHANGED vars PROVE Inv'
<1>1. UNCHANGED <<remote, files, process, result>>
  BY DEF vars, files
<1>2. FilesTypeOK' /\ ProgramTypeOK' /\ PartialInOrder'
  BY <1>1 DEF Inv, FilesTypeOK, ProgramTypeOK, PartialInOrder, files
<1>3. Working' /\ EarlierKept' /\ DoneKept'
  BY <1>1 DEF Inv, Working, EarlierKept, DoneKept, Done, Kept, Matches, job, file, files
<1>4. QED
  BY <1>2, <1>3 DEF Inv

LEMMA Invariance == Spec => []Inv
<1>1. Inv /\ [Next]_vars => Inv'
  BY StepKeeps, StutterKeeps
<1>2. QED
  BY Initially, <1>1, PTL DEF Spec

-----------------------------------------------------------------------------
(* What the program promises *)

\* Resuming a partial file never repeats, skips or misplaces a byte, however often the
\* download was broken off, the server ignored a Range request or the file changed.
THEOREM PartialsInOrder == Spec => []PartialInOrder
<1>1. Inv => PartialInOrder
  BY DEF Inv
<1>2. QED
  BY Invariance, <1>1, PTL

\* Exit code 0 means that every file of the call is there, in the wanted version.
THEOREM DoneVerified == Spec => []DoneIsVerified
<1>1. Inv => DoneIsVerified
  BY DEF Inv, DoneKept, DoneIsVerified, Kept, Matches
<1>2. QED
  BY Invariance, <1>1, PTL

\* Exit code 0 means that every sidecar describes its model and the item that asked for
\* it, and that the models of one configuration can be told apart and compared.
THEOREM SidecarsTrue == Spec => []SidecarsAreTrue
<1>1. ASSUME Inv, Done
      PROVE  /\ result.call \in Calls
             /\ \A i \in DOMAIN result.call :
                  metadata[result.call[i].file] =
                    Sidecar(result.call[i], model[result.call[i].file])
  BY <1>1 DEF Inv, DoneKept, Kept
<1>2. ASSUME NEW for, NEW content
      PROVE  Sidecar(for, content).identity = for.identity
  BY DEF Sidecar
<1>3. ASSUME Inv, Done, NEW i \in DOMAIN result.call, NEW j \in DOMAIN result.call, i # j
      PROVE  LET a == metadata[result.call[i].file].identity
                 b == metadata[result.call[j].file].identity
             IN  /\ a.logical_id # b.logical_id /\ a.quantization # b.quantization
                 /\ a.base = b.base /\ a.revision = b.revision
  <2>1. /\ metadata[result.call[i].file].identity = result.call[i].identity
        /\ metadata[result.call[j].file].identity = result.call[j].identity
    BY <1>1, <1>2, <1>3
  <2>2. QED
    BY <1>1, <1>3, <2>1, CallFacts
<1>4. Inv => SidecarsAreTrue
  BY <1>1, <1>3 DEF SidecarsAreTrue
<1>5. QED
  BY Invariance, <1>4, PTL

\* No step of a program relabels or replaces a model that has its sidecar.
THEOREM EstablishedKept == Spec => EstablishedStays
<1> DEFINE Stays ==
      \A name \in Files : Established(name) =>
        /\ model'[name] \in {model[name], None}
        /\ model'[name] = None => process = None
        /\ metadata'[name] \in {metadata[name], Torn}
<1>1. ASSUME UNCHANGED <<files, process>> PROVE Stays
  BY <1>1 DEF Established, files
<1>2. ASSUME UNCHANGED files PROVE Stays
  BY <1>2 DEF Established, files
<1>3. ASSUME Inv, CheckAndRename PROVE Stays
  <2>1. process # None /\ process.at = "check" /\ UNCHANGED metadata
    BY <1>3 DEF CheckAndRename, At
  <2>2. file \in Files /\ model[file] = None
    BY <1>3, <2>1 DEF Inv, Working
  <2>3. \A name \in Files : name # file => model'[name] = model[name]
    BY <1>3 DEF CheckAndRename, Inv, FilesTypeOK
  <2>4. QED
    BY <2>1, <2>2, <2>3 DEF Established
<1>4. ASSUME Inv, Verify PROVE Stays
  <2>1. process # None /\ process.at = "verify" /\ UNCHANGED metadata
    BY <1>4 DEF Verify, At
  <2>2. file \in Files /\ process.version # None
    BY <1>4, <2>1, NoneAssumption DEF Inv, Working
  <2>3. \A name \in Files : name # file => model'[name] = model[name]
    BY <1>4 DEF Verify, Inv, FilesTypeOK
  <2>4. QED
    BY <2>1, <2>2, <2>3 DEF Established
<1>5. ASSUME Inv, WriteMetadata PROVE Stays
  <2>1. /\ process # None /\ process.at = "write" /\ UNCHANGED model
        /\ metadata' = [metadata EXCEPT ![file] = Sidecar(job, model[file])]
    BY <1>5 DEF WriteMetadata, At
  <2>2. /\ file \in Files
        /\ process.version = None => metadata[file] \in {None, Sidecar(job, model[file])}
        /\ metadata \in [Files -> Sidecars \cup {None, Torn}]
    BY <1>5, <2>1 DEF Inv, Working, FilesTypeOK
  <2>3. QED
    BY <2>1, <2>2 DEF Established
<1>6. ASSUME Inv, Kill PROVE Stays
  BY <1>6 DEF Kill, Inv, FilesTypeOK, Established
<1>7. ASSUME Inv, NEW name, Removed(name) PROVE Stays
  BY <1>7 DEF Removed, Inv, FilesTypeOK, Established
<1>8. ASSUME Inv, Download PROVE Stays
  <2>1. UNCHANGED <<model, metadata>>
    BY <1>8 DEF Download, Connect, files
  <2>2. QED
    BY <2>1 DEF Established
<1>9. ASSUME ReadChunk PROVE Stays
  BY <1>9 DEF ReadChunk, Established
<1>10. ASSUME Inv, Step PROVE Stays
  <2>1. ASSUME RefuseUrl \/ UseExisting \/ StreamEnds PROVE Stays
    BY <1>2, <2>1 DEF RefuseUrl, UseExisting, StreamEnds
  <2>2. QED
    BY <1>3, <1>4, <1>5, <1>8, <1>9, <1>10, <2>1 DEF Step
<1>11. ASSUME Inv, Next PROVE Stays
  <2>1. ASSUME \/ \E config \in Configs : StartConfig(config)
               \/ \E name \in NamedFiles : StartNamed(name)
               \/ ConnectFails \/ ConnectionLost \/ StreamEndsEarly \/ RemoteChanges
        PROVE  Stays
    BY <1>2, <2>1 DEF StartConfig, StartNamed, ConnectFails, ConnectionLost, StreamEndsEarly,
                      RemoteChanges
  <2>2. QED
    BY <1>6, <1>7, <1>10, <1>11, <2>1 DEF Next, RemoveModel, RemoveRejected
<1>12. Inv /\ [Next]_vars => [Stays]_<<files, process>>
  BY <1>11 DEF vars, files
<1>13. QED
  BY Invariance, <1>12, PTL DEF Spec, EstablishedStays

=============================================================================
