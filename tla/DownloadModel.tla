---------------------------- MODULE DownloadModel ----------------------------
(***************************************************************************)
(* scripts/download_model.py.  The program downloads one file by name, or  *)
(* all files of a configuration one after the other.  download_model       *)
(* streams a remote file into <name>.part, renames it, verifies it and     *)
(* writes a metadata sidecar; a file that is there already is compared     *)
(* with its sidecar instead.  The remote file may change between two       *)
(* calls, the server may ignore Range requests, connections break, and the *)
(* process may be killed between any two steps.                            *)
(*                                                                         *)
(* A version of a remote file is a sequence of chunks; a file is known by  *)
(* its content, which stands for its size and its SHA-256.                 *)
(***************************************************************************)
EXTENDS Integers, SequencesExt

CONSTANTS
  Files,         \* the names for which there is a URL
  Versions,      \* versions of the remote files
  Size,          \* how many chunks each of them has
  Contents,      \* the versions that a file may have at a revision
  Main,          \* the revision of a download by name: a branch
  NamedFiles,    \* the files that are downloaded by name
  Quantizations, \* the keys of required_quantizations
  Configs,       \* the configuration files, as sequences of items
  Ranges,        \* whether the server honours Range requests: subset of BOOLEAN
  Lengths,       \* whether it sends Content-Length: subset of BOOLEAN
  MaxFaults,     \* bound on failures, kills, removals and changes of remote files
  Torn,          \* a metadata file cut short
  None

\* The items of a configuration are those of a mapping, so that no key occurs twice.
ASSUME DownloadAssumption ==
  /\ Size \in [Versions -> Nat \ {0}]
  /\ \A at \in DOMAIN Contents : Contents[at] \subseteq Versions /\ Contents[at] # {}
  /\ Quantizations # {}
  /\ \A config \in Configs :
       /\ config \in Seq(Range(config))
       /\ \A i, j \in DOMAIN config : config[i].key = config[j].key => i = j
  /\ Ranges \subseteq BOOLEAN /\ Lengths \subseteq BOOLEAN

VARIABLES
  remote,    \* the version that the server has of each file at each revision
  partial,   \* <name>.part of each file, or None
  model,     \* the file at its final name, or None
  metadata,  \* its sidecar, Torn, or None
  process,   \* the running program, or None
  result,    \* of the last one
  faults

vars  == <<remote, partial, model, metadata, process, result, faults>>
files == <<partial, model, metadata>>

Whole(version) == [i \in 1 .. Size[version] |-> <<version, i>>]

-----------------------------------------------------------------------------
(* What to download *)

\* The required fields of an item.  "base" stands for repository, base model and
\* parameter count, which are only compared; the local file name is never read.
Required == {"logical_id", "quantization", "file", "base", "revision"}

AllFields(config) ==
  /\ {config[i].key : i \in DOMAIN config} = Quantizations
  /\ \A i \in DOMAIN config : /\ Required \subseteq DOMAIN config[i]
                              /\ config[i].quantization = config[i].key

DistinctIds(config) ==
  \A i, j \in DOMAIN config : i # j => config[i].logical_id # config[j].logical_id

\* Defect: quantizations of different models are accepted.
ComparableRevisions(config) ==
  \A i, j \in DOMAIN config : config[i].revision = config[j].revision
\* The compatibility set has one member.
Comparable(config) ==
  \A i, j \in DOMAIN config :
    config[i].base = config[j].base /\ config[i].revision = config[j].revision

\* load_model_config.  Two items may name the same file.
ValidConfig(config) == AllFields(config) /\ DistinctIds(config) /\ Comparable(config)

\* A call of download_model: the identity is what the sidecar says beside the content,
\* wanted the content (expected_sha256, expected_byte_size), or None for any.
Job(name, logicalId, quantization, base, revision, wanted) ==
  [ file     |-> name,
    identity |-> [logical_id |-> logicalId, quantization |-> quantization,
                  base |-> base, revision |-> revision],
    wanted   |-> wanted ]

\* By name: the id is the stem of the file name, and nothing else is known.
NamedJob(name) == Job(name, name, None, None, Main, None)

ItemJob(item) ==
  Job(item.file, item.logical_id, item.quantization, item.base, item.revision, item.wanted)

\* The calls of download_model that one run of the program makes.
JobsOf(config) == [i \in DOMAIN config |-> ItemJob(config[i])]

Calls ==
  {JobsOf(config) : config \in {c \in Configs : ValidConfig(c)}}
    \cup {<<NamedJob(name)>> : name \in NamedFiles}

Sidecar(for, content) == [identity |-> for.identity, content |-> content]

\* The process is at step "at" of job number "turn" of its call, a sequence of jobs; the
\* response delivers "version", up to now as far as "position", and the file must become
\* "expected" chunks long.  A result has a status ("rejected" if it is an existing file
\* that was refused), and the call and turn at which the program ended.
Process ==
  [ at       : {"open", "stream", "check", "verify", "write"},
    call     : Calls,
    turn     : Nat,
    version  : Versions \cup {None},
    position : Nat,
    expected : Int \cup {None} ]

NoResult == [status |-> "none", call |-> <<>>, turn |-> 0]

Content == Seq(Versions \X Nat)

\* The sidecars that the program writes.
Sidecars ==
  [identity : {j.identity : j \in UNION {Range(call) : call \in Calls}}, content : Content]

\* What is missing or cut short is not mistaken for something else.
ASSUME NoneAssumption ==
  /\ None \notin Versions \cup Content \cup Sidecars \cup Process
  /\ Torn \notin Sidecars

Init ==
  /\ remote \in {r \in [DOMAIN Contents -> Versions] :
                   \A at \in DOMAIN Contents : r[at] \in Contents[at]}
  /\ partial = [name \in Files |-> None]
  /\ model = partial /\ metadata = partial
  /\ process = None /\ faults = 0
  /\ result = NoResult

-----------------------------------------------------------------------------
(* The program *)

At(step) == process # None /\ process.at = step

job  == process.call[process.turn]
file == job.file

\* The next call of download_model.
Opening(call, turn) ==
  [at |-> "open", call |-> call, turn |-> turn,
   version |-> None, position |-> 0, expected |-> None]

\* The program ends, with exit code 0 if it is "done" and 1 otherwise.
End(status) ==
  /\ process' = None
  /\ result' = [status |-> status, call |-> process.call, turn |-> process.turn]

\* main: an invalid configuration is refused before anything is downloaded.
StartConfig(config) ==
  /\ process = None
  /\ IF ValidConfig(config)
     THEN process' = Opening(JobsOf(config), 1) /\ UNCHANGED result
     ELSE result' = [NoResult EXCEPT !.status = "failed"] /\ UNCHANGED process
  /\ UNCHANGED <<remote, files, faults>>

StartNamed(name) ==
  /\ process = None
  /\ process' = Opening(<<NamedJob(name)>>, 1)
  /\ UNCHANGED <<remote, files, result, faults>>

Matches(content, wanted) == wanted # None => content = Whole(wanted)

\* Defect: a model that exists is taken without comparing its checksum.
AcceptableMetadata(name) == metadata[name] \in {None, Sidecar(job, model[name])}
\* Defect: the identity in the sidecar is not compared.
AcceptableContent(name) ==
  /\ metadata[name] # None => metadata[name] # Torn /\ metadata[name].content = model[name]
  /\ Matches(model[name], job.wanted)
\* The checks of a model that is already there.
Acceptable(name) ==
  /\ metadata[name] \in {None, Sidecar(job, model[name])}
  /\ Matches(model[name], job.wanted)

\* source_url refuses what is not a repository, a single file name and a revision.
Locatable == file \in Files

RefuseUrl ==
  /\ At("open") /\ ~Locatable
  /\ End("failed")
  /\ UNCHANGED <<remote, files, faults>>

UseExisting ==
  /\ At("open") /\ Locatable /\ model[file] # None
  /\ IF Acceptable(file)
     THEN process' = [process EXCEPT !.at = "write"] /\ UNCHANGED result
     ELSE End("rejected")
  /\ UNCHANGED <<remote, files, faults>>

\* Defect: a partial file is appended to even if the server sends everything.
OpenedToAppend(name, resumed) == IF partial[name] = None THEN <<>> ELSE partial[name]
\* The partial file as it is opened for writing ("ab" or "wb").
Opened(name, resumed) == IF resumed THEN partial[name] ELSE <<>>

\* Content-Length counts what the response still has to deliver.
ContentLength(version, offset, resumed) ==
  IF resumed THEN Size[version] - offset ELSE Size[version]

\* expected, the size that the file must reach.
Announced(version, offset, resumed) ==
  (IF resumed THEN offset ELSE 0) + ContentLength(version, offset, resumed)

\* The request is answered: 206 with the rest, 416 if there is none, or 200.
Connect(ranges, hasLength) ==
  LET offset  == IF partial[file] = None THEN 0 ELSE Len(partial[file])
      resumed == offset > 0 /\ ranges
      version == remote[<<file, job.identity.revision>>]
  IN  /\ IF resumed /\ offset >= Size[version]
         THEN End("failed") /\ UNCHANGED partial
         ELSE /\ partial' = [partial EXCEPT ![file] = Opened(file, resumed)]
              /\ process' = [process EXCEPT !.at = "stream", !.version = version,
                               !.position = IF resumed THEN offset ELSE 0,
                               !.expected = IF hasLength
                                            THEN Announced(version, offset, resumed)
                                            ELSE None]
              /\ UNCHANGED result
      /\ UNCHANGED <<remote, model, metadata, faults>>

\* There is such a revision, and it has such a file; otherwise the answer is 404.
Served == <<file, job.identity.revision>> \in DOMAIN remote

Download ==
  /\ At("open") /\ Locatable /\ model[file] = None
  /\ \/ /\ Served
        /\ \E ranges \in Ranges, hasLength \in Lengths : Connect(ranges, hasLength)
     \/ ~Served /\ End("failed") /\ UNCHANGED <<remote, files, faults>>

ReadChunk ==
  /\ At("stream") /\ process.position < Size[process.version]
  /\ partial' = [partial EXCEPT ![file] = Append(@, <<process.version, process.position + 1>>)]
  /\ process' = [process EXCEPT !.position = @ + 1]
  /\ UNCHANGED <<remote, model, metadata, result, faults>>

StreamEnds ==
  /\ At("stream") /\ process.position = Size[process.version]
  /\ process' = [process EXCEPT !.at = "check"]
  /\ UNCHANGED <<remote, files, result, faults>>

\* The size that was announced has arrived.
Complete ==
  /\ partial[file] # <<>>
  /\ process.expected # None => Len(partial[file]) = process.expected

\* The partial file gets its final name, before it is verified.
CheckAndRename ==
  /\ At("check")
  /\ IF Complete
     THEN /\ model' = [model EXCEPT ![file] = partial[file]]
          /\ partial' = [partial EXCEPT ![file] = None]
          /\ process' = [process EXCEPT !.at = "verify"]
          /\ UNCHANGED result
     ELSE End("failed") /\ UNCHANGED <<partial, model>>
  /\ UNCHANGED <<remote, metadata, faults>>

Verify ==
  /\ At("verify")
  /\ IF Matches(model[file], job.wanted)
     THEN process' = [process EXCEPT !.at = "write"] /\ UNCHANGED <<model, result>>
     ELSE model' = [model EXCEPT ![file] = None] /\ End("failed")
  /\ UNCHANGED <<remote, partial, metadata, faults>>

\* The next file of the configuration, if there is one.
Return ==
  IF process.turn = Len(process.call) THEN End("done")
  ELSE process' = Opening(process.call, process.turn + 1) /\ UNCHANGED result

WriteMetadata ==
  /\ At("write")
  /\ metadata' = [metadata EXCEPT ![file] = Sidecar(job, model[file])]
  /\ Return
  /\ UNCHANGED <<remote, partial, model, faults>>

-----------------------------------------------------------------------------
(* What goes wrong *)

Fault == faults < MaxFaults /\ faults' = faults + 1

\* An OSError or URLError while connecting or reading: the partial file stays, and the
\* files that follow in the configuration are not tried.
ConnectFails ==
  /\ At("open") /\ Locatable /\ model[file] = None
  /\ End("failed")
  /\ Fault /\ UNCHANGED <<remote, files>>

ConnectionLost ==
  /\ At("stream")
  /\ End("failed")
  /\ Fault /\ UNCHANGED <<remote, files>>

\* The connection is closed early, and read() reports the end of the stream.
StreamEndsEarly ==
  /\ At("stream") /\ process.position < Size[process.version]
  /\ process' = [process EXCEPT !.at = "check"]
  /\ Fault /\ UNCHANGED <<remote, files, result>>

\* The sidecar is written in place.
Kill ==
  /\ process # None
  /\ End("failed")
  /\ \/ UNCHANGED metadata
     \/ At("write") /\ metadata' = [metadata EXCEPT ![file] = Torn]
  /\ Fault /\ UNCHANGED <<remote, partial, model>>

\* A branch moves; a file at a commit has only one version.
RemoteChanges ==
  /\ \E at \in DOMAIN Contents : \E version \in Contents[at] \ {remote[at]} :
       remote' = [remote EXCEPT ![at] = version]
  /\ Fault /\ UNCHANGED <<files, process, result>>

Removed(name) ==
  /\ process = None /\ model[name] # None
  /\ model' = [model EXCEPT ![name] = None]
  /\ result' = NoResult
  /\ UNCHANGED <<remote, partial, metadata, process>>

RemoveModel == \E name \in Files : Removed(name) /\ Fault

\* "remove it and retry"
RemoveRejected ==
  /\ result.status = "rejected"
  /\ Removed(result.call[result.turn].file)
  /\ UNCHANGED faults

-----------------------------------------------------------------------------
Step ==
  \/ RefuseUrl \/ UseExisting \/ Download \/ ReadChunk \/ StreamEnds
  \/ CheckAndRename \/ Verify \/ WriteMetadata

Next ==
  \/ \E config \in Configs : StartConfig(config)
  \/ \E name \in NamedFiles : StartNamed(name)
  \/ Step
  \/ ConnectFails \/ ConnectionLost \/ StreamEndsEarly \/ Kill
  \/ RemoteChanges \/ RemoveModel \/ RemoveRejected

\* A program runs until it ends, a failed one is repeated, and whoever repeats it
\* removes a file that keeps being rejected.
Fairness ==
  /\ WF_vars(Step)
  /\ \A config \in Configs : WF_vars(StartConfig(config))
  /\ \A name \in NamedFiles : WF_vars(StartNamed(name))
  /\ SF_vars(RemoveRejected)

Spec == Init /\ [][Next]_vars /\ Fairness

-----------------------------------------------------------------------------
(* Properties *)

\* Every byte of a partial file has the offset it has in the remote file, though the
\* versions may differ, whether the server honours Range or starts over: resuming
\* never repeats, skips or misplaces a byte, also when the partial file was begun under
\* another revision of the same file name.
PartialInOrder ==
  \A name \in Files :
    partial[name] # None => \A i \in DOMAIN partial[name] : partial[name][i][2] = i

Done == result.status = "done" /\ process = None

\* A program that is told checksums and ends with exit code 0 leaves exactly those
\* versions, all of them, also if a file changed during a resumed download, the server
\* announced no length, or an earlier program was killed between the rename and the
\* verification.
DoneIsVerified ==
  Done => \A i \in DOMAIN result.call :
            LET j == result.call[i]
            IN  model[j.file] # None /\ Matches(model[j.file], j.wanted)

\* After exit code 0 each sidecar describes the model beside it and the call that asked
\* for it, also if it replaces that of a model removed earlier; no file of a
\* configuration was taken over by a later item that names the same file; and the models
\* can be compared: they differ in id and quantization and agree in base and revision.
SidecarsAreTrue ==
  Done =>
    LET call == result.call
    IN  /\ \A i \in DOMAIN call :
             metadata[call[i].file] = Sidecar(call[i], model[call[i].file])
        /\ \A i, j \in DOMAIN call : i # j =>
             LET a == metadata[call[i].file].identity
                 b == metadata[call[j].file].identity
             IN  /\ a.logical_id # b.logical_id /\ a.quantization # b.quantization
                 /\ a.base = b.base /\ a.revision = b.revision

\* The sidecar and the model belong together, and neither comes from the running program.
Established(name) ==
  /\ model[name] # None /\ metadata[name] \notin {None, Torn}
  /\ metadata[name].content = model[name]
  /\ process # None /\ file = name => process.version = None

\* A model with a sidecar is never relabelled or replaced: no program, started for the
\* same file by name or from whatever configuration, changes either of them, short of
\* cutting the sidecar when it is killed.  docs/model_setup.md: any identity, byte-size,
\* or checksum mismatch is a hard error.
EstablishedStays ==
  [][\A name \in Files : Established(name) =>
       /\ model'[name] \in {model[name], None}
       /\ model'[name] = None => process = None
       /\ metadata'[name] \in {metadata[name], Torn}]_<<files, process>>

\* Repeating the call succeeds after finitely many failures, and from then on each call
\* finds the model it left.  docs/model_setup.md: downloads resume with Range requests.
EventuallyDownloaded == <>[](result.status = "done")

=============================================================================
