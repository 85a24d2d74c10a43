# aqueduct-courier in TLA+

`aqueduct-courier` (the `telemetry-collector` command) collects information about a
Cloud Foundry foundation into a tar file and sends that file to a data loader. This
directory holds the specifications of its own logic, the TLC configurations that check
them, and proofs that TLAPS checks. Paths below are relative to the repository.

## The system

| part | state | operations | talks to |
|---|---|---|---|
| collect command, `cmd/collect.go` | flags, the tar file under its name | `collect`, `handleAliases`, validations, `makeCollector` and the constructors it calls | file system, collect executor |
| collect executor, `operations/collector.go` | three `Metadata` values, the tar writer | `Collect`, `addData` | the four data collectors, the tar writer |
| Ops Manager collector, `opsmanager/data_collector.go` | what Ops Manager answered so far | `Collect` | Ops Manager, which an operator changes meanwhile |
| Ops Manager service, `opsmanager/service.go` | none | one request per operation, what each strips, `BoshCredentials` | Ops Manager |
| usage service collector, `consumption/`, `cf/`, `network/` | an OAuth token per request | `Collect`, three requests, `GetUAAURL`, `Do` | Cloud Foundry API, UAA, usage service |
| core counts collector, `coreconsumption/` | none | `Collect`, CSV conversion | Ops Manager |
| CredHub collector, `credhub/` | the certificates read so far | list the certificates, then read each | CredHub, which others change meanwhile |
| send command, `cmd/send.go` | none between its two openings of the file | checks, `Send` | file system, send executor |
| send executor, `operations/sender.go` | a pipe, a goroutine | `Send`, `gzipOnTheFlyFileReader`, `checkStatusCode` | data loader |
| test doubles, `*/*fakes/` | set-ups, recorded calls, a mutex for each | calls, set-ups, `Invocations` | tests, from several goroutines |
| vendored: `telemetry-utils` (tar writer, validator), `om` (Ops Manager client) | tar.Writer's sticky error; OAuth token | `AddFile`, `Close`, `Validate`; `ListStagedPendingChanges`, `ListDeployedProducts` | |

A collection is sequential: the command names and creates the file, builds the
collectors, and the executor asks them one after the other, adding each file to the
archive as it comes. What makes it hard is everything around that sequence:

* **Partial failure.** The archive is written as it is collected, in data sets that each
  end in a metadata file with the digests of the others. A failure, a panic or a signal
  can come between any two writes; one of the four collectors may fail without failing
  the run; the CredHub file belongs to the data set of another collector; and errors of
  the deferred `Close` are dropped.
* **Shared names.** Two runs of one second have one path, and `os.Create`, the writes and
  `os.Remove` of both go through it.
* **Stale answers.** The Ops Manager collector works off a list of changes and a list of
  products while an operator stages and applies further changes.
* **Two goroutines, a pipe and a connection.** `Send` compresses in a goroutine of its
  own; errors have to cross the pipe, and whoever returns first has to free the other.
* **Missing timeouts and retries.** `Send` and the UAA token exchange can wait for ever;
  nothing is retried except inside `om`.
* **Many sources for one setting.** Flags, environment, config file and two aliases
  decide where to connect, whether TLS is validated and which collectors are made.
* **Conversions that must lose nothing and let nothing out.** Answers are stripped of
  secrets, a CSV becomes JSON, credentials are cut out of a line.

`PROJECT.json` lists the hazards line by line, with the properties that guard each.

## Modules

### `Collector` (with `ArchivePromise`, `CollectorProofs`)

`CollectExecutor.Collect`. `step` and `source` are the place in the code: asking for the
UUID, calling a collector, adding its files, writing its metadata, the deferred `Close`.
The operators `AtCredhub`, `AtUsage`, ... are the `if`s that lead from one block to the
next under the configuration; `GoTo` takes one, `Unwind` is `return err` or a panic, which
both run the deferred `Close`. Each answer of a collector is any list the constants
allow, an error (`CollectFails`; for core counts `CoreCollectFails`, which goes on) or a
panic where the client has one. `AddData` is the whole of `addData`: entry, digest, next
file. A failing write leaves no entry or a truncated one and breaks the tar writer for
good. Contents are model values, an MD5 is an injective function of them, and `EnvType`,
`CollectedAt`, versions and nicknames, the same constants for all three metadata
files, are left out. `json.Marshal` of a `Metadata` cannot fail.

* `MetadataDescribesDataSet`: whenever a data set has its metadata file, the validator of
  `telemetry-utils` (operator `Validates`) accepts the data set, unless the name of a file
  in it has a `.` or a `/` (`RefusedNames`): names begin with the product type that Ops
  Manager gives, and nothing here looks at its characters. It holds at every instant, so
  for the archive of a killed run as well.
* `SuccessIsComplete`: what a nil error of `Collect` means for each configuration.
* `KeepsPromise`: `Collector` implements `ArchivePromise`, the reader's view: data sets
  of one identity appear whole, one at a time, at most once, never change, and success
  comes only with the required ones. Under the refinement mapping a data set is delivered
  by the write of its metadata and everything before it is a stutter.

### `CollectCommand`

`collect` in `cmd/collect.go`, run several times over one output directory. A directory
maps a second (the name `FoundationDetails_<second>.tar`) to a file, files are named by
the run that made them, a run holds a file and an offset, and a write past the end
leaves a hole, which is how POSIX behaves. The executor is reduced to writing `Entries`
entries, failing or panicking anywhere, and closing. Every run may die at any moment.

* `AnnouncedIsWhole`: a run that said "Wrote output to", under a name no other run got,
  has its own whole archive there for good (the trailer may be missing, because the
  error of `Close` is dropped; readers of tar accept that).
* `FailedRunsLeaveNothing`: a name that still exists was created by some run that did
  not report failure, whatever order creations, truncations and removals came in.

`os.Remove` is taken to succeed on a file the run has just created (its error is dropped
by the code); what lies in the directory before the first run is not modelled.

### `OpsManagerCollector`

`opsmanager.DataCollector.Collect`, with an operator who stages another version of a
product, adds or deletes one, reverts, or applies everything, between any two requests.
Ops Manager is external: a product has a deployed and a staged version, the
pending changes are their difference, and staged data of a product that is not staged is a
404. The loop over the products makes its requests in the order of the product list and
depends on no later answer, so `ListDeployedProducts` settles the list of requests and
`Retrieve` works it off. The products come in any
order, once each; `WantedProducts` are those of the list that the loop does not skip.
Redaction and parsing of the bodies are in `OpsManagerService`.

* `DataAccountsForProducts`: the `deployed_products` and `product_changes` files are
  separate, earlier and later requests than the ones the collector worked off. All the
  same a reader who has only the returned data can account for each product the
  operator left alone: it has both files (or is the foundation id), or is to be deleted.
* `QuietDataIsDeployedData`: without the warning about pending changes, the staged data
  of every product the operator did not touch during the collection is its deployed data.
  (For a touched product it need not be: the collector does not look again.)
* `FilesHaveTheirOwnNames`: what `Collector` assumes of the list (`IsListing`).

### `Sender` (with `Delivery`)

`SendExecutor.Send`: the goroutine of `Send`, the compressing one (`copier`), the
unbuffered pipe between the latter and the HTTP transport, the connection, and the data
loader, which is external. gzip may hold blocks back or write all it holds; a file is its
blocks and a stream ends in the footer. The copier may fail to read at any point, the
connection may break, the answer may come before the body was sent, or get lost.

* `CompleteIsWhole`: a body that ended properly is the whole compressed file.
* `CopierStops`: after `Send` returns, from whichever line, the file gets closed.
* `CopierRunsOut`: the safety in that: from then on the compressing goroutine waits for
  nobody, each step of it uses up one of `StepsLeft`, and none are left when, and only
  when, the file is closed.
* `DeliversOrFails`: `Sender` implements `Delivery`: told once, success only if delivered.

The data loader is assumed to answer 201 only to a whole body. The file does not change
while it is sent; what happens when it does is in `Collection`.

### `Collection`

The send command beside any number of collect runs over one directory. It extends
`CollectCommand` and adds the variable `send`: `CheckFile` is the `os.Open` in `send`,
whose handle is not passed on; `OpenFile` the second one in `gzipOnTheFlyFileReader`;
`ReadBlock` reads on to whatever is the end of the file when it is reached. `announced`
remembers which runs had said "Success!" for the path when the send started. Pipe and
connection are one step here (`Deliver` or `SendFails`); `Sender` has them in detail.

* `AnnouncedIsDelivered`: a send that starts after a run has announced a file under a name
  of its own, and succeeds, has delivered that run's whole archive.
* `SentIsBeginning`: a send that starts too early delivers a beginning of one archive, in
  order, never a mixture, unless two runs share the name. It may end in a trailer all the
  same: an executor that fails closes the tar writer, and the result is a well-formed tar
  file without its metadata, which the data loader cannot tell from the outside.

### `UsageService`

The usage service collector with the two clients below it. `at` is the call the
collection is in. `Do` builds a client for each request (`StartDo` forgets the token);
`IssueToken` and `TokenArrives` are the UAA, `UsageServiceReplies` the usage service, each
whenever it likes or never. `spent` counts the ticks of the limit `oc.timeout`, which
starts with `Do` and ends a request or its body (`RequestTimesOut`) but not the token
exchange inside it, because that goes through the client of `network.NewClient`.

* `AllOrNothing`: success is the three reports in order, each from a whole answer of
  status 200, service usages cut down to the fields of their schema, which are there with
  zero values when they did not come; a failure leaves none.
* `NoExpiredToken`: no request that may still be answered carries an expired token,
  although nobody looks at its lifetime.
* `TimedRequestsEnd`: a request that has its token ends.

The timeout is assumed to be positive and not longer than a token's lifetime. A timeout
of 0 is none at all (`http.Client`), of which the flag says nothing.

### `CredhubService`

`Certificates`: `ListCertificates`, then `ReadCertificate` for each name, while others
`Rotate`, `Delete` and `Create` certificates. CredHub is external: a certificate is the
sequence of its versions, the newest first. `current` remembers what was the newest
version of each since the list was made. `ReadFails` is a deleted certificate, a bad
answer or a PEM that does not parse, each of which fails the collection;
`ReadWithoutVersions` is the index out of range on an empty `data`.

* `CollectedIsCurrent`: success is every certificate listed, in order, each with a version
  that was its newest at some moment of the collection.

### `CoreCounts`

`Service.CoreCounts`: `ReadAll`, then `Convert` row by row. A field is a number, no number,
or a number of seconds that `time.Time` does not marshal. The checks of a row come
in the order of the code, so that a row may be an error before it is an index out of range.

* `MatchesReference`: how the conversion ends is decided by the first bad row alone, and
  what is collected is the rows, each field in its place.

### `OpsManagerService`

The operations that change what they pass on: `ProductProperties` keeps allowed types,
`Installations` drops user names, `CertificateAuthorities` PEMs, `DiagnosticReport` NTP
servers; and `BoshCredentials`, part by part (`TakePart`, `PassOverPart`). Bodies are the
keys, types and fields that the operations tell apart, and `Other` for one they do not
name. Three of the operations unmarshal into a struct and marshal it again: what leaves
has the one key of the struct, and in it the properties and authorities have the fields of
their struct (`ThroughStruct`), no other ones, and zero values for those that did not
come. Installations are maps and keep every field but the deleted one; so does the
report, at its top level too.

* `NothingSensitiveLeaves`: of the properties, those of a listed type leave, and no others
  (a type may be unknown, or missing); of properties and authorities the fields of their
  structs, each as it came or zero; lists keep their length and order; the user name and
  the servers do not leave, and beside them an installation and the report lose nothing.
* `CredentialsAsGiven`: each credential is the value its variable was given last.

Two things that the code does and no message promises otherwise: a value with a `=` in it
is cut there, and a `director_configuration` that is no object is passed on as it is.

### `Config`

From flags, environment and file to the collectors. `given` is what each source says of
each key; `Get` is viper's lookup (vendored), `HandleAliases` the two aliases, `Reject` the
validations before the file exists, `RemoveFile` the failures after that.

* `SkipTlsPrecedence`: which of six places decides whether TLS is validated.
* `UrlPrecedence`: which URL is used: a `url` that is not empty, or else `target`; an
  empty `url` line in the file hides the `target` line of the file, because viper
  moves the value of an alias.
* `MadeAsConfigured`: the executor starts only with what can be collected with, and a
  usage service of which one setting is there has all four.

### `TestDouble`

`FakeTarWriter`, to whose shape all doubles of the repository are generated: set-ups,
concurrent calls, and `Invocations`. Each method has a mutex and so has the record of
invocations; `LockMethod` and `Record` take the first and then the second,
`RLockNext` the second and then the first. A set-up takes the mutex of its method. The
arguments of a call are told apart by its caller.

* `AnswersAsSetUp`: concurrent calls get different numbers, and each the answer that the
  history `setUps` gives to its number: the stub, if that was set up last; or else the last
  answer for the number, even if one for every call came later; or else the last one for
  every call, or nil.
* `InvocationsAgree`: what `Invocations` returns has, for each method, every call that was
  made, in the order of the numbers the calls got.
* `CallsWaitInLine`: unless somebody asks for the invocations, a call waits for one other
  call of its method at most, and that one for nobody.
* `CallsReturn`: calls always return, unless somebody asks for the invocations meanwhile;
  then the opposite orders of the mutexes can block a call and the inspector for good.

### `MCCollectors`

`OpsManagerCollector`, `CredhubService`, `CoreCounts`, `OpsManagerService` and `Config`
share no state: they are parts of one sequential program. `MCCollectors` checks them in
one run; `subject` is the part a behaviour is about, the others stand still, so the
states of the parts add up and do not multiply. `PartTypeOK` is the types of the part that
moves, and each property says what its own module says when that part is the subject.

## Checks

| run | bounds | shows |
|---|---|---|
| `collector` | every configuration, up to two files per collector, one name that is refused, two contents, two UUIDs, director or none | `TypeOK`, `MetadataDescribesDataSet`, `SuccessIsComplete`, `KeepsPromise` |
| `collect_command` | three runs, two seconds, archives of two entries; runs are symmetric | `TypeOK`, `AnnouncedIsWhole`, `FailedRunsLeaveNothing` |
| `collection` | two runs, two seconds, two entries, one send of either name | `SendTypeOK`, `AnnouncedIsDelivered`, `SentIsBeginning` |
| `collectors` | a director and two products, two versions, two operator actions, any initial state of Ops Manager; two certificates, three changes of CredHub; every CSV of up to two rows and five columns; every small body: two properties, lists of up to three installations, authorities or parts of credentials; any two settings that differ from two usual command lines | the properties of the five parts |
| `usage_service` | timeout of two ticks, lifetime of three, every answer | `TypeOK`, `AllOrNothing`, `NoExpiredToken`, `TimedRequestsEnd` |
| `sender` | files of 0 to 3 blocks, answers 201, 401, 500 | `TypeOK`, `CompleteIsWhole`, `CopierStops`, `CopierRunsOut`, `DeliversOrFails` |
| `test_double` | three callers, one inspector, up to two set-ups, two answers | `TypeOK`, `AnswersAsSetUp`, `InvocationsAgree`, `CallsWaitInLine`, `CallsReturn` |
| `core_counts` | as `collector` | **violated** `CoreCountsNeverEndRun` |
| `same_second` | as `collect_command` | **violated** `SuccessLeavesOutput` |
| `leftover` | as `collect_command` | **violated** `FailureLeavesNoFile` |
| `silent_uaa` | as `usage_service` | **violated** `RequestsEnd` |

Why these bounds are enough: two files per data set put a failure before, between and
after files, and two contents tell a digest of the wrong file from the right one; three
runs are the fewest in which one run truncates a file, another removes it and the third
depends on it; with a send, two runs have one to be read and one to interfere; two
operator actions are a change and its application; three changes of CredHub are a
deletion, a creation and a rotation of one certificate; five columns are one more than are
read and two rows have a bad one before and after a good one; two settings are an alias
and what it stands for, or one setting too few and one too many; two ticks and three are a
request that may still be answered after one tick with a token not yet expired; with three
blocks gzip holds back none, some or all when an error strikes; two properties are one
that leaves and one that does not; three callers are two of one method and one of the
other, and two set-ups are any two kinds in either order, or two of one kind that differ
in number or answer. All the systems stop, so the configurations switch the
deadlock check off.

Fairness. In `Sender`, `WF_vars(Copier)`, for `CopierStops`: the Go scheduler runs a
goroutine that can run, and reads of a local file return. In `UsageService`, weak fairness
of `Tick` (time passes), `RequestTimesOut` (the timer of `http.Client`), `Dial` (which
the dial timeout ends) and `Collect`; nothing is assumed of the Cloud Foundry API,
UAA and usage service. In `TestDouble`, weak fairness of every goroutine's next step, which
a goroutine that waits for a mutex does not have. Nothing is assumed of the network or
the data loader.

The four violated properties are what a flag's text, a test, a comment or a message of the
repository says; `PROJECT.json` quotes each line. `CoreCountsNeverEndRun`: a CSV answer of
fewer than four columns panics. `SuccessLeavesOutput`: the second of two runs of one second empties the
archive of the first, which had said "Success!". `FailureLeavesNoFile`: a `log.Fatal` in
`om`, or a panic, skips `os.Remove`. `RequestsEnd`: a UAA that takes the connection and
says nothing holds a request for ever, although `--usage-service-timeout` promises a
"Timeout on request connection and fulfillment".

Definitions whose comment begins with "Variant" are not part of the model. Each is a
plausible mistake in the code that stands for the definition after it when the
sensitivity of a property is tested.

## Proofs

Each module of proofs extends the module it is about, states an inductive invariant
(`IInv`, or one under its own name where several parts share the module), proves that
`Init` establishes it and that every action keeps it (one lemma per action that does more
than fail), and derives the properties from it. All are for every value of the constants
that the named assumptions of the module allow.

**`CollectorProofs`**: `TypeCorrect` and `MetadataCommits` (`MetadataDescribesDataSet`),
under `NamesAssumption`: data files are not named like the metadata file, one collector
returns no two files of one name, CredHub's name is not an Ops Manager one and its
collector never succeeds without a file; the sentinels are not data.
`MetadataDescribesDataSet` alone is not inductive: whether the metadata about to be
written is right depends on the digests gathered, on the files still to come having other
names, and on nothing being added after it. `IInv` says all this:

* `ControlInv`: which places go with which collector, pending data and outcome;
* `FrontierInv`: data sets come in the order of `Rank`; the current one and those after it
  have no metadata, and those after it have no entries;
* `NamesInv`: what is pending has names the data set does not have yet;
* `DigestInv`: the digests and the whole data files of a data set are each other's image,
  and neither has a name twice;
* `CommitInv`: a metadata file in the archive holds the digests its data set still has,
  and no file of that data set is truncated.

**`CollectorPromiseProofs`**: `SuccessHasAll` (`SuccessIsComplete`) and
`ImplementsPromise` (`KeepsPromise`, the refinement). To `IInv` it adds `AskInv` (only
collectors that are configured are asked), `HasInv` (what is in the archive was asked
for) and `DoneInv`, the progress invariant: a data set that `Collect` is past is
delivered. `NoneAssumption` keeps the abstract module's sentinel apart from its values.
A write of metadata is the abstract delivery; that it changes nothing delivered before
comes from `FrontierInv` and `CommitInv`.

**`CollectionProofs`**, of both modules over the directory. First the runs alone:
`TypeCorrect`, `FailuresClean` (`FailedRunsLeaveNothing`), `AnnouncedStays`
(`AnnouncedIsWhole`), for any number of runs. `NameInv`: a file has one name, that of the
run which made it. `OwnInv`: a run that shares its name with no other made its file, finds
it under its name, and finds in it what it wrote so far. Then the send beside them:
`SendTypeCorrect`, `DeliversAnnounced` (`AnnouncedIsDelivered`), `DeliversBeginning`
(`SentIsBeginning`). On top of the invariant of the runs: `ShapeInv` (a file of one run
alone is a beginning of its archive, however the run ended), `PathInv` (the file read was
made by a run that was given the path), `ReadInv` (what was read is a prefix of what the
file holds by now). That last one is kept because such a file only grows at its end
(`OwnFilesGrow`).

**`OpsManagerCollectorProofs`**: `TypeCorrect`, `NamesApart`
(`FilesHaveTheirOwnNames`), `AccountsForProducts` (`DataAccountsForProducts`),
`QuietIsDeployed` (`QuietDataIsDeployedData`), for any finite set of products and any
number of actions of the operator. `OnceInv`: every request is made once. `AnswersInv`,
`PlanInv`, `BodyInv`: for a product that was not touched, the first two answers, the
requests planned from them and the bodies retrieved are as good as new. A product is not
called `ops_manager` (`OpsManagerAssumption`), which is the prefix of the other files.

**`SenderProofs`**: `TypeCorrect`, `EndsWhole` (`CompleteIsWhole`), `ImplementsDelivery`
(`DeliversOrFails`, the refinement), `FreesCopier` (`CopierRunsOut`). `PiecesInv` is the
argument: what was received, what is on the wire, in the pipe and inside gzip are
successive pieces of one body, and `CopierInv` and `TransportInv` say how far each has
come. `FreeInv` says that a `Send` which returned has closed the read end.
`SenderAssumption` keeps the footer and the end of the body apart from the blocks.

**`UsageServiceProofs`**: `TypeCorrect`, `CollectsAllOrNothing` (`AllOrNothing`),
`TokensInTime` (`NoExpiredToken`). `TokenInv` is the argument of the last: a token
is never older than the request it was fetched for, and the timeout is not longer than
the token's lifetime. `FilesInv`: the files are what was made of usable replies.

**`CollectorsProofs`**, of the parts `MCCollectors` puts together: `PartsTypeCorrect`
(`PartTypeOK`), `CollectsCurrent`, `CountsMatchRows` (`MatchesReference`),
`RedactsAnswers` (`NothingSensitiveLeaves`), `ParsesCredentials` (`CredentialsAsGiven`),
`DecidesSkipTls`, `DecidesUrl` (the two precedences) and `MakesWhatIsConfigured`
(`MadeAsConfigured`). `PartsAssumption` says that names are finite in number, bounds are
natural numbers, the sentinels are no outputs, and `Other` is not the field `type`. Each
part has an invariant:

* `CredhubInv`: by `ReadInv` what was read was current when it was, and `current` only
  grows.
* `CsvInv`: what is collected so far is the first rows, all of them good, and where the
  conversion ended early the next row is the first bad one. It holds for CSVs of any size.
* `ServiceInv`: a credential parsed so far is the last one given before the part to come
  (`ParsedInv`). Redaction is a single step, so `RedactionStripsSecrets` is a lemma about
  the operators, for any properties and lists of any length; it rests on
  `StructsCarryFields` (what a struct keeps) and `PropertiesAreRedacted`.
* `CommandInv`: what the lookups give after the aliases follows from what the sources said
  before (`AliasedInv`), and what has been made is what they configure (`MadeInv`).
  `FirstSpeakerDecides` is the lemma under both: `Get` is the word of the first source
  that speaks. It is proved for every content of the sources: the bound
  `Differences`, which keeps the run small, plays no part.

**`TestDoubleProofs`**: `TypeCorrect`, `AnswersWhatWasSetUp` (`AnswersAsSetUp`),
`InspectorsSeeAll` (`InvocationsAgree`), `CallsNeverCircle` (`CallsWaitInLine`), for any
number of callers, inspectors and set-ups. `RecordInv`: the calls of a method and the
record of them differ by the call that holds its mutex, if there is one; an inspector
that holds every mutex therefore sees no difference. `LockInv` says who holds which
mutex and in which order inspectors take them. `NumberInv` gives each call its place in
the sequence of calls, from which numbers are different and, by counting
(`CallsAreFew`), bounded. `SetUpInv`: what the double keeps for a method is what the last
set-up of each kind said (`LastSays`), of which `SetUpsGrow` and `LastIsNewOrStays` are the
step. `DoubleAssumption`: callers are finite in number, the sentinels are neither callers
nor answers, and the bound on set-ups is a natural number.

Only model-checked: the liveness properties `CopierStops`, `TimedRequestsEnd` and
`CallsReturn`, because neither fairness nor `ENABLED` is in the prover's reach. What is
proved of the first and the third is their safety, `CopierRunsOut` and
`CallsWaitInLine`: under the fairness stated above, a goroutine that can always step and
has a bounded number of steps left stops, and a queue whose first can always step moves
on. Every other property of a passing run is the statement of a theorem.

## Not modelled

* `om`'s cached token and its three attempts, its other services, and the rest of the
  vendored libraries: third-party code; a request that fails in the middle is in
  `OpsManagerCollector`.
* A failing `os.Remove`, whose error the code drops, and files that are in the output
  directory before the first run.
* `EnvType`, `CollectedAt`, versions, nicknames: the same constants in all metadata.
* The other generated doubles, which differ from `FakeTarWriter` in names and types only.
* Help texts, log messages and their wording, `main.go` beyond the exit status.
* CI scripts and the release pipeline: no part of the program.
* `Collector` and the clients are not composed into one state machine: the executor calls
  them one at a time and keeps only what they return, so `Collector` has every answer
  they may give, and each client's own module shows what it gives.

## Plan

1. `om`'s token cache and attempts, between the requests of `OpsManagerCollector`.
2. `Sender` beneath `Collection`: the steps of the pipe while the file changes.
3. Proofs of action properties: what a step of each part may never undo, from the
   invariants above.
