# Verification of EDCAT

TLA+ models of EDCAT (the ECDAT / Pramana cryptographic discovery tool under
`src/src/ecdat`), the TLC configurations that check them on small instances
and the proofs of what matters most. Every definition is translated from the
source lines that `PROJECT.json` names for it under `map`; this page says what
the models are, what was checked, what was proved and what is left.

EDCAT scans an estate for cryptography, turns what it saw into *ledger
subjects*, and answers for each of them the harvest-now-decrypt-later
question: which of the data sent over this surface will still be worth
protecting when a quantum computer exists, and is already beyond saving. Its
answers are dates and bands (BLEEDING, UNSAVABLE, SAVABLE, SAFE, UNBOUNDED),
and the program promises never to be more certain than its evidence. That is
what most of the properties here are about.

## The system

```
 plan ──> adapters ──> findings ──┬─> correlation ──> assets, gaps, refusals
          (tls, certs, source,    │
           images, kms, ...)      └─> assemble/bridge ──> subjects document
                                                              │
                 run store  <── ledger-run <── ledgers <──────┤
                     │                                        │
                   diff                                   HTTP API, export
```

| component (source) | state it keeps | operations | hard behaviour | what makes it correct |
| --- | --- | --- | --- | --- |
| Confidentiality ledger (`risk/confidentiality_ledger.py`, `model/temporal.py`, `context/binding.py`, `risk/scenarios.py`) | none: a function of one subject | `evaluate` | stops and reopenings in any order, `as_of` before the evidence, the edges of the windows | windows are exactly the days lost; a band never contradicts its windows; inferred evidence moves nothing |
| Run of the ledger (`risk/run.py`) | none | `evaluate_run` | subjects whose lifetime is not cited | a subject becomes a row or is named as skipped |
| Subjects document | evidence gathered by hand or by `assemble` | rewritten as a whole | a torn file; two writers | later evidence never takes back what was lost |
| Run store (`store/repository.py`) | one file per run in a shared directory | `save`, `load`, `list_runs` | several processes, no lock, a write that is not atomic, kills | append-only: nothing saved is ever changed, as far as the existence test can see to it |
| Run diff (`store/diff.py`) | none | `diff_runs` | rows missing on a side, evidence in any order | MIGRATED and REGRESSED only after new observations |
| TLS adapter (`adapters/tls`) | one probe: what each handshake said | full offer, classical control, a probe per group | endpoints change between handshakes; dead and hanging connections | a stop is an observed refusal |
| Adapter contract (`adapters/base.py`) | none | `run` | timeouts, exceptions | one result per target, always |
| Assembly (`assemble/bridge.py`) | none | `assemble` | several subjects of one probe, failed targets | nothing disappears without an entry |
| Function classifier (`function/classifier.py`) | none | `classify_*` | ids that must be stable | a context says no more than was observed |
| Correlation (`correlation/*`) | none | merge, gate, graph | merge keys with missing parts, conflicting values, certificates read in one place and not in another | merging never adds certainty; an edge is one certificate |
| Authentication ledger (`risk/authentication_ledger.py`) | none | `evaluate` | what is missing in which order | a signature that must outlive Z is never safe |
| Closure (`closure/engine.py`) | none | `tasks_for`, `closure_queue` | two candidate values stand for all admissible ones; questions follow from answers | no answer is worse than the task promised; the queue empties, and empties only when every row has a band |
| Sensitivity (`risk/sensitivity.py`) | none | `sensitivity_for` | every row again under every Z | a later Z loses no more |
| HTTP API (`api/app.py`), security (`security/*`) | the audit log; the subjects file is read per request | one handler per page, export | a pool of threads; documents rewritten while read, appends that are cut | whoever is answered is in the log; every part of an answer is one whole document |
| Recommendation, policy dates (`recommend/engine.py`, `risk/policy.py`) | none | `recommend`, `annotate` | each calculates from the inputs again what the ledger calculated | they do not contradict the row's band and windows |
| CBOM export (`export/*`) | none | `to_json`, `sign_bom`, `verify_bom` | - (an export is read in several parts: see the API) | - |
| Tool adapters (`kms`, `hsm`, `binary`, `images`, `certs`, `packages`, `source`) | none | a sequence of calls to an external tool, or files of an earlier one | the target changes between two calls; a call hangs, fails or is refused; legs that were never recorded | a finding was true; what was there is mentioned |
| Configuration adapter (`adapters/config/*`) | none | gather the sources of one key, resolve them | sources of different rank, profile and applicability; edits while gathering | what is inferred is what Spring binds |
| Registries (`rules`, `data`) | none | tables | - | - |
| Command line (`cli.py`) | the files it writes | `assemble`, `ledger-run`, `runs`, `diff`, `correlate`, ... | order and failure of its steps | as above |

Components interact only through values and files: a plan's adapters run one
after the other in one process, whatever is shared between processes is in
the subjects file, the run directory and the audit log. Concurrency is
therefore between processes and the world they observe, and, in the API alone,
between the threads that serve requests.

## The modules

| module | models | state | actions |
| --- | --- | --- | --- |
| `ExposureLedger` | the pure calculation of one subject | - | - |
| `RunDiff` | `_currently_stopped`, `_classify` | - | - |
| `ExposureHistory` | one subject whose document is kept by hand, the calendar and the runs made of it | `today`, `subject`, `runs` | `NextDay`, `Observe`, `Configure`, `StateDate`, `Declare`, `Reclassify`, `LedgerRun` |
| `AuthenticationLedger` | the band of a signature, and the routing of a subject to its ledger | - | - |
| `Closure` | the queue of missing inputs over the rows of a run, and the operator who works it | `rows` | `Collect`, `Refute` |
| `AppendOnlyStore` | what the store promises | `stored` | `Append` |
| `RunStore` | `JsonlRunStore`, step by step | `files`, `saver`, `reader`, history `torn`, `raced` | `BeginSave`, `CheckExists`, `OpenForWrite`, `WriteChunk`, `Crash`; `BeginList`, `ReadNext`, `EndList`, `BeginLoad`, `ReadLoaded` |
| `ScanPipeline` | `assemble`, `ledger-run` and `diff` over live TLS probes | `today`, `endpoint`, `scan`, `document`, `printed`, `runs`, counters | the world (`NextDay`, `Reconfigure`), the probe (`StartAssemble`, `StartProbe`, `FullProbe`, `ControlProbe`, `GroupProbe`, `Fail`), the end of `assemble` (`Truncate`, `WriteDocument`, `PrintUnassembled`, `Kill`), `LedgerRun` |
| `AdapterContract` | the result of a target, its validation, what `Adapter.run` makes of an exception | - | - |
| `KmsAdapter`, `HsmAdapter`, `BinaryAdapter`, `ImagesAdapter`, `CertsAdapter`, `SingleCallAdapters` | the calls one scan of each tool adapter makes, in order, and the findings it makes of the answers | - | - |
| `ToolScans` | a plan over those adapters beside a target that changes | `plan`, `at`, `phase`, `target`, `changes`, `todo`, `seen`, `outcomes`, `result`, history `was` | `RefusePlan`, `StartScan`, `Change`, `Call`, `FinishScan` |
| `ConfigResolver` | candidates and blockers to a binding and its certainty | - | - |
| `ConfigChain` | the configuration adapter beside an editor | `repo`, `edits`, `active`, `declared`, `phase`, `gathered`, `result`, history `changed` | `Edit`, `GatherData`, `GatherManifests`, `GatherHelm`, `Report` |
| `Findings` | the fields of certificate, handshake and call-site findings | - | - |
| `Correlation` | merging, identity, the gate, the graph, the agility fields | - | - |
| `Assembly` | findings of a plan to ledger subjects, the classifier | - | - |
| `Estate` | `correlate` and `assemble` over a plan, target by target, beside a changing estate | `plan`, `command`, `results`, `estate`, `changes`, `failures`, `document` | `Start`, `ScanTarget`, `FailTarget`, `Replace`, `WriteGraph`, `WriteSubjects` |
| `Recommendation` | recommendation, policy dates, sensitivity and the two views of a row | - | - |
| `ReadApi` | requests to the API beside `assemble` and faults | `today`, `subjects`, `server`, `audit`, `requests`, `faults` | `Arrive`, `RecordBegins`, `RecordEnds`, `RecordFails`, `Read`, `Respond`; `ServerDies`, `ServerStarts`, `AssembleBegins`, `AssembleEnds`, `AssembleDies`, `NextDay` |
| `MC*` | the instances TLC runs | - | - |
| `RunStoreProofs`, `ScanPipelineProofs`, `ReadApiProofs`, `ExposureHistoryProofs`, `ClosureProofs`, `ToolScansProofs`, `ConfigChainProofs`, `EstateProofs` | proofs about the module of that name, and of the modules it composes | - | - |

`AuthenticationLedger` and `RunDiff` extend `ExposureLedger`; `Closure` and `Recommendation` extend the first,
`ExposureHistory` and `ScanPipeline` the second, so that all use the same translation of the ledger;
`ReadApi` extends `Recommendation`. `RunStore` instantiates
`AppendOnlyStore` with a refinement mapping. `ToolScans` instantiates the six adapter modules, each of which extends
`AdapterContract`; `Estate` composes `Correlation` and `Assembly` over the findings of `Findings`.

### ExposureLedger and RunDiff

A day is an integer. A lifetime is a number of days: the calendar arithmetic
of a lifetime in years is a fixed number of days for each scenario, and the
ladder compares only days. `_Timeline` sorts the KNOWN events by date with a
stable sort and walks them; the model states the same walk as relations on the
positions of the events (`SortsBefore`, `Openings`, `ClosingDates`), so that it
has no recursion. The ladder `BandFor` keeps the order of the source.

### ExposureHistory

The subjects document is an input of `ledger-run`; this module models a document
that is added to, as the fixture of the repository is. A probe adds KNOWN
evidence dated today (INFERRED when no control was made), a configuration file
adds INFERRED evidence only, a certificate, a snapshot or an operator states a
date once. `LedgerRun` takes any `as_of` up to today, as the option `--as-of`
allows. The actions of the world are external; the calculation is the code's.

### AuthenticationLedger and Closure

A signature row has a binding with an authenticity lifetime A and a signing date
next to the inputs of the other ledger. `Closure` keeps the inputs of each row;
`MissingInputs`, `Candidates` and `TaskOf` are the three stages of the engine
(diagnosis, substitution, task) and `Outranks` its lexicographic order, with ties
broken either way. `Collect` is the operator's step, external to the code: the
head task's evidence is found for one of its rows, with *any* value it may have
(`Answers`), where the engine tried two: any cited lifetime, also one shorter than the shortest the engine tries (the catalogue
has rows of 0 days), any admissible date, and a go-live date only under a policy that accepts one. A probe is made on the day of the run
and takes the place of the claim it tested (an operator who appends it instead, and leaves the claim in the document, is asked for the same
probe again, `closure/engine.py:301-305`: `EveryRowIsClosed` and `AnswersLast` are about one who replaces it); of a surface nobody had seen it is the first observation. What a row may start with
(`LedgerInputs`) is what the validators admit: a policy has a date exactly in the mode that asks for one
(`PolicyType`), and observations are dated as `assemble` dates them (`Observed`): by the scan, the surface no later than
what changed on it, and no stated start after either. `Refute` is the usage that turns out
never to be negotiated, whose row goes.

### RunStore

A file is the sequence of its chunks, each named for the run whose document it
belongs to; `write_text` is one truncating open and one write per chunk, at the
writer's own offset, so that two writers of one file leave a mixture. A
document parses when it is one run's chunks and no more. `save` is handed any run: one that was saved before, or one
whose id another run has (`tests/unit/store/test_repository.py:61-63` saves twice). A save whose test finds a file is refused; two saves that both
find the id free go on to write, and the id is then `raced` (history, as is `torn`, the ids a save of which was killed while writing). `list_runs` is a glob
and then one read per path, in sorted order, that keeps the runs of the wanted
target; a file that does not parse ends it with an error.

### ScanPipeline

`Surfaces` are the targets of one plan. The three handshakes of a probe are
separate steps, and an endpoint may be reconfigured, or the day change, between
any two; the hybrid groups are represented by one. `DeadProbes` names the
handshakes whose connection may die (a transcript that says nothing was
established, which is not an error to the program), while `Fail` is the
handshake that hangs or the probe that raises. The subjects file is truncated
and then written, and the process may be killed at any step. `served` and
`refused` are history: what the endpoint really did during the probe.
`printed` is the list of what gave no subject, which `assemble` prints after it has written the document and keeps nowhere
(`cli.py:716-724`). An entry has an adapter and a finding id, and a probe that failed has no finding (`bridge.py:225-229`), so
that the list names the targets of some entries (`named`) and only counts the others (`nameless`).

### ToolScans and the tool adapters

What an adapter does with a target is a sequence of calls (`todo`), each answered from
the target as it is at that moment (`seen`), and an expression of the answers. The six
adapter modules give both; `ToolScans` runs them. A target is a function from items (keys of
a KMS, objects of a token, files of a directory, sections of a binary) to contents, and `was`
keeps every target there was during the scan, so that a finding can be held against what was really there
when it was looked at. Any call may hang (`TIMED_OUT`), fail (`FAILED`) or be refused for one item, as each
adapter provides. An entry is recorded or live and carries the options that change the control:
a PIN, a password, a file reader for images, the declared coverage of the plan. Texts are names, except
that the skip entry of a description that cannot be read has none (`kms/adapter.py:333-335` writes the parser's text, which names no key): such
entries are counted (`unnamed`). A public key that does not decode is dropped without an entry (`:310-313`), and its key is a finding without it.
`Adapter.run` validates its result; a result that breaks the contract ends the whole plan
(`aborted`), and the run shows that none does.

### ConfigResolver and ConfigChain

One property key and, for each source that may state it, a value: application files per directory
and profile, literal and indirect variables of each deployment, its ConfigMaps (which may belong to another application),
charts, and the flags that outrank them. The sources of a kind are in the order in which two nested loops read them (`InOrder`).
`GatherData`, `GatherManifests` and `GatherHelm` read one kind each, in the order of the
source, and the repository may be edited between them; `Report` hashes the files that were used and resolves. `Bound`
is a reference definition of what Spring binds in one deployment under one profile, written from the precedence of the sources and
not from the resolver; the two are compared on the repositories the resolver's ranks order (`Ordered`): a file name in one directory, no ConfigMap
of a deployment that is not ours, and our deployments configured alike. An empty value cannot become a candidate: the model aborts there, as the program does.

### Findings, Correlation, Assembly and Estate

A field of a finding is a state and a set of at most one value. `Findings` gives the fields of a certificate file, of a
recorded handshake and of a call site, with what each leaves unknown. `Correlation` groups findings by
merge key, merges field by field, draws identity edges by certificate hash and by public key, and refuses edges and
fields as the gate does; the asset id is the key itself where the code hashes it. `Assembly` follows `assemble`: handshakes first, then certificate
files whose certificate no handshake presented, then call sites, with the declarations and the not-before joined by
certificate. In `Estate` a file, a recording or a source may be replaced between two targets, and a target
may fail. The date of an observation is left to `ScanPipeline`.

### Recommendation and ReadApi

A request is admitted, recorded, and then reads the subjects and the clock once for each part of its answer
(an export has one part for each cited scenario; the graph is made when the server starts, from nothing the model
needs). Its answer is what the parts show, `readings` being what they were calculated from. Requests interleave at
every step; an append to the log is begun and ended, and the file system lets one at a time through. A full disk cuts
one, and so does the end of the server; the next entry then goes on the same line, behind what is left, as it does in the file, and
`entries()` fails from then on. The subjects file is truncated and then
written by `assemble`, which may die in between.

Abstractions: the log is the one on disk (`JsonlAuditLog`; the default of `create_app` is one in memory, which
ends with the server); reading a file is one step; a request is made once; an export is its readings, and its signature, a function of the
document and of the key read when the server started, is left out; the routes for scenarios, profiles and the closure queue, and the query
parameters that only choose a policy, are left out, as are 404 and 422 for an unknown scenario.
`since`, `until` and `readings` are history.

## What the runs check

| run | instance | shows |
| --- | --- | --- |
| `history` | 4 days, 3 events, 2 runs, one context, one declared key, hybrid group | `WindowsAreTheLostDays` (the windows are the days after the deadline on which classical was accepted, stated day by day and not as intervals), `NothingIsRecovered` (no later run takes back a lost day), `DiffNamesNewEvidence`, `OpenWindowBleeds` (for evidence of different days; a reopening on the day of a stop is in `WindowsAreTheLostDays` alone), `ConfigurationStopsNothing` (INFERRED evidence anywhere among three events) |
| `history_inputs` | every classification of the context, stated dates, two policies | `PossibleIsPessimistic`, `ConditionalIsTheAcceptedBand` |
| `closure` | 2 rows: one of six classifications, with or without a start, with stops and claims, two capture modes; one without a lifetime, bare or stopped; 3 lifetimes of which the engine tries two, 3 Z | `AnswerIsNoWorse` (over every day and every lifetime the answer may have), `EveryRowIsClosed`, `AnswersLast`, `LaterZLosesNoMore` |
| `store` | 2 saving processes, 1 reader, 3 runs of 2 targets, two of them with one id, each saved any number of times, one document of 2 chunks, kills | the store implements `AppendOnlyStore` (`ImplementsContract`); `SavedIsStored`, `NeverOverwritten`, `ListingIsComplete`, `ReadFailsOnlyBesideAWrite`, `SavesAndReadsEnd`, each for the ids that are not raced |
| `scans` | 1 endpoint, 2 days, 2 scans, 2 runs, 2 reconfigurations | `StopWasRefused`, `DiffTellsWhatHappened` |
| `targets` | 2 endpoints, 1 scan, 1 run, 2 reconfigurations | `EveryTargetAccounted` (once the list is printed a target has a subject, is named in it, or is one of exactly as many as it has nameless entries), `AcceptedClassicalBleeds`, `AssembleEnds` |
| `dead_control` | violation | `StopWasRefused`, when the control's connection may die |
| `tools` | every tool adapter alone with two items in each variant of its options, plans of two targets, 2 changes | `FindingsWereTrue` (what a finding claims was so of one item at one moment of the scan), `NothingUnmentioned` (what was there throughout is found, named as skipped, or counted among the skip entries of a key store that name no key), `PlanIsNeverAborted`, `PlanEnds`, `TypeOK` |
| `config` | 2 directories, 2 profiles, 3 deployments of which two are ours, 2 values and the empty one, 3 edits before and during the scan | `InferredIsBound` (what is inferred of an `Ordered` repository that held still is what Spring binds), `EvidenceManufacturesNothing` |
| `estate` | 3 certificate files in 2 directories with any of 4 certificates, one endpoint from 2 vantages, a source, a package list; 1 replacement, 1 failure | `EdgesAreOneCertificate`, `MoreEvidenceIsNoMoreCertainty`, `CertificatesAreAccounted`, `CertificateRowsAgree` |
| `two_sources` | violation | `SitesAreNotMerged` |
| `service` | 2 requests: one an export or a record, the other any of eight; 2 documents, 2 days, 1 fault | `AnsweredIsAudited`, `AuditReadIsComplete`, `AnswersAreWhole`, `MetWindowsAreClosed` (a milestone that is met has no window behind the stop it is met by), `WithheldIsUnbounded`, `RequestsEnd` |

Bounds. Three events reach every shape of the walk that two more repeat: stop,
reopening, second stop, and two events of one day in both orders; the deadline
falls inside the four days, so runs before it, on it and after it are made. Two
savers and three runs, two of one id, reach a kill, a save that is refused because the id is taken, two saves of one id that both pass the test, and a listing that overlaps
two writes, and one document of two chunks is enough for a torn file. Two
reconfigurations let an endpoint stop and reopen classical within one probe or
between two scans, and two runs are what a diff needs. In `closure` the three
lifetimes are the two the engine tries and one below them, 0 days, as in the catalogue; with three Z they put the deadline after the run, between the start and
the run, and on the first day, and two rows are what merging two tasks needs.
Two items and two changes let one item be replaced by another, or go and come back, between any two calls of a scan;
a plan of two targets shows whether the first one's end reaches the second. Three edits give every pair of
sources that disagree, with a third that outranks or blocks both. Of four certificates two share a key, two share
a size, and one states only a use the classifier has no rule for, which is what distinguishes the merge keys and the two kinds of identity. Two requests meet at the log and at the file
in every order, the first document has a surface stopped and reopened on one day, and the second takes back and reopens what the first one stopped. The counters `changes`
and `scans` and the calendar exist only to bound the runs. `CHECK_DEADLOCK` is
off where the bounds let the model stop when they are used up.

Fairness. In the store and the pipeline every process keeps running until it
is killed: a system call returns, a handshake is bounded by its timeout
(`subprocess.run(timeout=...)`). `RunStore` asks weak fairness of each saver's
and each reader's own steps, and not of starting a save or a read or of a
crash; `ScanPipeline` asks it of the steps of a scan (`ScanStep`) and of nothing
else. `Closure` asks it of the operator: the queue empties for one who keeps working
it, and `EveryRowIsClosed` says nothing of one who does not. `ToolScans` asks it of the scanner
(a tool has a timeout) and of no change of the target; `ReadApi` asks it of the pool of threads: while
some request can take a step, some request does, which says nothing of one request in particular. `Estate` and
`ConfigChain` state no fairness and check safety only. Nothing needs strong fairness: the one step that waits
for another, the append, waits for an append that ends or fails.

## What the program does and its documents do not say

The violation runs (under `findings` in `PROJECT.json`):

- A control probe whose connection dies is taken for an observed refusal
  (`adapters/tls/adapter.py:377`).
- Findings of call sites have an id that is unique in one scan and not in a plan: the first
  sites of two source trees become one asset (`correlation/merge.py:133`).

Seen while translating, without a run of their own.

In the ledger:
- A run with an `as_of` before a stop it already knows is not BLEEDING (`confidentiality_ledger.py:411`),
  though the specification says that a surface bleeds while `M > as_of`. Under a `SINCE_DATE` policy, a classical
  negotiation seen between a stop and that date opens a window before it (`:137`), against `:124`. The properties of
  `history` are checked for runs behind their evidence and under `SINCE_CONFIRMED`.
- A surface that reopened once is never stopped again (`:107`); `PARTIAL`, which the specification keeps for
  hybrid surfaces that accept classical, is given to any that negotiated a named group (`:120`); the vantage
  of an event is not read (`:94`), although the specification speaks of "per vantage"; a hybrid context is
  SAFE without a look at its timeline (`:236`), though `usage_context.py:44` asks that it be proved hybrid from the start.
- `reopened` compares the dates strictly (`:112`) and the walk follows the order of the events (`:131-139`): a classical negotiation on
  the day of the first stop, after it, opens a window that lasts although the row counts as stopped, and a milestone is shown as met beside it
  (`risk/policy.py:171`). `OpenWindowBleeds` and `MetWindowsAreClosed` exclude such days by name (`ReopenedThatDay` in the second); `WindowsAreTheLostDays` includes it.
- In the closure engine, the shortest and the longest lifetime do not "bracket every band the row could reach"
  (`closure/engine.py:148`): a stopped row that is UNSAVABLE under the one and SAVABLE under the other is SAFE
  under one between, so the best band is missing from the promise, while the worst, the next case aside, is not (`AnswerIsNoWorse`); the
  migration candidates drop the KNOWN evidence of the row (`:199`), which overstates in every instance checked; a
  start of which nothing is known is tried at `as_of` alone (`:168`), so that task's promise is not part of
  `AnswerIsNoWorse` (`Bounded`).
- Where the promise of a task is broken, as the proof of `AnswerIsNoWorse` found: by a lifetime shorter than the shortest tried, so that
  SAFE is promised and SAVABLE found (`BelowTheTried`). `closure/engine.py:148` speaks of the shortest and the longest cited; the shortest
  tried is one year, and the catalogue has rows of 0 days that a surface can declare (`data/data_lifetime.yaml:57-68`). The property admits this one case and the run reaches it.
- It would be broken, too, by a stated start later than a reopening of the surface, and, when a task is merged, by
  the probe of a surface without any date, which gives the row a start as well as a refusal: `assemble` writes no such start (`Observed`), and
  the second is not part of the property (`Bounded`). An operator who appends the answer of a probe and leaves the claim it tested in the document is asked for it again (`:301-305`).

Between runs:
- A listing beside a save fails to parse the file being written, and a killed save leaves a file that fails every
  later listing (`store/repository.py:152`, `:163`; "Concurrent-safe for the case that matters here", `:134`).
- Two saves of one id that both pass the existence test (`:146`) both write, and the later one truncates or overwrites what the earlier one stored: `raced`, the
  one case the properties of the store exclude. `new_run_id` draws 48 random bits, and nothing else prevents it.
- The usage context id holds the date of the scan (`function/classifier.py:187`), so the diff of two days' scans is REMOVED
  and NEW, never MIGRATED. `assemble` restates `first_observed` with the date of each scan
  (`bridge.py:261`): a later run no longer reports days an earlier one called lost. A recording that is
  replayed is dated when it is replayed.

In the adapters:
- An empty value in a Spring source raises a validation error that is passed on and ends the whole plan
  (`adapters/base.py:269`), beside "Exactly one result per target, always" (`:261`). A ConfigMap of another
  application may win over ours (`spring.py:250`, against `:156`). A YAML file that does not parse is passed over
  without the blocker the docstring announces. Sources of equal rank give INFERRED with one OVERRIDDEN. The manifests of all
  deployments are resolved together: a variable that only one of ours sets is inferred for the others too (the proof of `InferredIsBound` needed
  "configured alike" in `Ordered`).
- A KMS key whose description cannot be read is in the report as a skip entry that does not say which key it was (`kms/adapter.py:333-335`), and one
  whose public key does not decode is a finding without it and without an entry (`:310-313`).
- The plan builders of `cli.py` read and parse files before any adapter runs (`:201`, `:229`); an error there ends the whole command. `PlanIsNeverAborted` begins behind them.
- `algorithm_literal_at_call_site` is a substring test on the line. Ids of evidence (`adapter:n`), of token objects and, for
  two certificates of one directory with one keyUsage bit, of usage contexts, are not unique in a plan. The declared images
  of a configuration plan are never passed by `cli._build_config`.

In the estate:
- Two certificates of one size in one directory merge to a CONFLICTING hash, and lose their edges to other directories. The
  note of an edge that is not claimed says "different certificate object" though one of the hashes may not have been read.
- A certificate whose keyUsage has only bits that are not mapped (`classifier.py:284-286`, `bridge.py:401-432`), and a certificate or source target that failed, is neither a subject nor
  in the unassembled list, against "Nothing disappears between Plan A and Plan B without being named" (`bridge.py:123-126`); `CertificatesAreAccounted` says of the first that it has neither.
  A TLS target that failed is in the list with the adapter's name and no finding id, printed as `-` (`bridge.py:225-229`, `cli.py:721-722`), so that one cannot tell which it was;
  and the list is printed after the document is written and is not in it (`bridge.py:141-145`), so that a kill in between loses it. `hybrid_capable` is KNOWN and true for any negotiated group
  (`agility/evidence.py:101`).

In the API:
- The evidence card recommends without the subject (`api/app.py:275`), so that a long-lived signing key is offered the options of a
  session signature. The parts of an export may come from two documents and two days. An export of the API bypasses the two gates
  that the docstring of `to_json` says every export runs. After an append that was cut, `entries()` fails for ever.

## What is proved

`RunStoreProofs` holds for every set of processes and runs, every assignment of
ids, targets and sizes, with and without kills:

- `TypeCorrect`: `Spec => []TypeOK`.
- `SavedStaysStored`, `StoredIsNeverOverwritten`, `StoreImplementsContract`: `Spec` implies
  `[]SavedIsStored`, `NeverOverwritten` and the refinement `ImplementsContract`.
- `ListingsAreComplete`, `ReadsFailOnlyBesideAWrite`: `Spec` implies
  `[]ListingIsComplete` and `ReadFailsOnlyBesideAWrite`.

None of them assumes anything of the ids: runs may share one, and a run may be saved again. What each says is said of
the ids that are not `raced`, that is of all but those for which two saves were both past the existence test before either had
made the file; for these the code does overwrite. The existence test is what makes it true of the others, and the mutants that weaken the test
(`CheckExists_Skips`, `CheckExists_Empty`) break it in the run. The constants' assumptions (ids are
numbers, a document has at least one chunk, `None` is no run) are stated in `RunStore` and
evaluated by TLC in every run.

None of the properties is inductive. What must be added (`StoreInv`) is: the type; of an id that is not
raced, at most one saver is past the test (`OwnerInv`), and its file is a prefix of the document of one run with that id (`FileInv`); a saver past the test
finds no file yet, or exactly the prefix it has written (`SaverInv`). The proof goes action by action; the one step that
needs the history is `CheckExists`: a second saver that finds an id free while the first has not opened the file races it, and one that comes
later finds the file. The refinement maps `stored` to the set of unraced
runs that are whole in their file: only the last `WriteChunk` of a save adds one, and a race takes none away that was there.

The two theorems about readers add what a reader knows: a file that is neither empty of its run nor whole is that of
a saver that is writing or was killed there (`HalfWrittenInv`); and each run a listing owes is
already found or its file is still to be read, and what it found is stored (`ReaderInv`). The second needs the first
three: a stored run stays stored until the listing reaches it.

`ScanPipelineProofs` holds for every set of targets, every declared lifetime and date
of the scenario, any number of scans, runs and reconfigurations, and with probes that
fail, hang or are killed at any step:

- `TypeCorrect`: `Spec => []TypeOK`.
- `TargetsAreAccounted`: `Spec => []EveryTargetAccounted`: a count, not a naming. The targets that are neither in the document nor named
  in the list are exactly as many as the list has entries without a name, which is as much as the code keeps.
- `StopsWereRefused`: `Spec => []StopWasRefused`, when `"control"` is not among
  `DeadProbes`. Without that assumption the run `dead_control` refutes it.
- `DiffsTellWhatHappened`, `AcceptedClassicalIsShown`: `Spec` implies `[]DiffTellsWhatHappened` and
  `[]AcceptedClassicalBleeds`, under the same assumption.

The invariant they rest on (`PipelineInvariant`) has to say more than the properties do,
because what a document or a run holds was decided many steps before it was written.
While a scan goes on, the targets that are left, the one that is probed and those that have
a result divide the plan, with one result each (`DivisionInv`); a probe whose
endpoint does not accept classical now has been refused at some moment, and the control
result tells what happened: accepted only if classical was served during the probe, refused only
if it was refused (`ProbeInv`, `Honest`); a document is absent,
torn, or the assembly of the results of one whole plan (`DocumentInv`), and every
stored run is made of such an assembly (`RunsInv`). The theorems then
follow from what `Assembly`, `SubjectsFrom` and `Evaluate` do with such results, and the one about diffs from two facts more:
the rows of one run have different ids, and `Classify` reads the stops of the two rows and nothing else.

`ReadApiProofs` holds for every number of requests, whatever each of them asks, every sequence of
documents, roles and days, and any number of kills and full disks: `ServiceTypeCorrect`,
`EveryAnswerIsAudited`, `AuditReadingIsComplete`, `EveryAnswerIsWhole`, `MetRowsAreClosed`
and `WithheldCardsAreUnbounded`, each `Spec => []` the invariant of the run `service`. It assumes what `ServiceAssumption`
states: that a subject without a purpose is marked UNKNOWN (`model/usage_context.py:101` refuses any other), that dates are numbers, that roles are the two there are, and that
there is a document. The inductive invariant (`ServiceInv`) says where the one entry that is being appended is (the last piece of the last
line, `RecordingInv`); that a request behind its gate has its whole entry in the log (`AuditInv`: appending and ending a line lose nothing,
`BehindLog` and `EndedLog`); and that what a running request has read was on disk between its arrival and now
(`ReadingInv`), which is `AnswersAreWhole` before there is an answer. `MetRowsAreClosed` compares two calculations over one timeline: the overlay, which
reads the earliest stop and the qualifier REOPENED, and the walk, which opens a window at each classical negotiation sorted behind a stop. Where the
timeline is not reopened, neither on a later day nor on that of the first stop, the walk opens once (`OpensOnce`), and that window ends by the first stop
(`WindowsEndByTheStops`).

`ExposureHistoryProofs` holds for every calendar, timelines of any length, and every vantage, lifetime,
family and policy: `TypeCorrect`, `WindowsAreLostDays`, `LostStaysLost`, `DiffNamesEvidence`, `OpenWindowsBleed`,
`ConditionalIsAccepted`, `PossiblePessimistic` and `ConfigurationsStopNothing`, each `Spec => []` an invariant of the runs `history` and
`history_inputs`; what `DateAssumption` adds is that the dates declared are numbers.
`WindowsAreLostDays` assumes that no policy states the start itself: under `SINCE_DATE` the property is false, as said above.
The core is not about histories but about one walk: an interval opens at the start or at a classical negotiation, and closes at the first stop
sorted behind it, so that the days in some interval are those whose last KNOWN event before them is classical (`ClassicalOn`). The
inductive invariant (`HistoryInv`) says what makes the walk right: KNOWN evidence is not dated before the first observation nor
after today (`SubjectInv`), and the timeline each run read is a beginning of the timelines of later runs and
of the document (`RunsInv`, `Grew`). The second is what the theorems about two runs rest on: evidence that is added later is dated on or after the
day of the earlier run, so that it sorts behind what that run saw and moves no day before it. `ConfigurationsStopNothing`
compares a timeline with its KNOWN events alone, which stand at other positions: the lemmas `KnownOnlyIs` and `KnownIsRead` carry the order,
the openings and the closings over.

`ClosureProofs` holds for any finite number of rows, whatever the operator finds, and every set of lifetimes and scenarios whose longest
is tried (`CitedAssumption`; there may be shorter ones than the shortest tried):

- `RowsAreInputs`, `RowsStayObserved`: `Spec => []RowsInv` and `Spec => []QueueInv`: every answer leaves a row within `LedgerInputs`, and
  `Observed`, as the constants are assumed to have it (`SubjectAssumption`). This is the inductive invariant of the other three.
- `NothingIsUnderstated`: `Spec => []AnswerIsNoWorse`. For each kind of task a lemma (`LifetimeIsBracketed` to `AuthenticityIsBracketed`) names,
  for any answer, a candidate the engine tried that is as bad (`AsBadAs`): the longest lifetime has the longest windows, the earliest start
  precedes any other, a claim that was refuted never stopped. `PromiseIsKept` then carries it to the merged task: the worst rank and
  the longest window of a task are those of some candidate of some row, which exist because the rows are finite (`MaxExists`).
  `Observed` is needed where an answer moves a date: a KNOWN event is never before the start.
- `AnswersAreKept`: `Spec => AnswersLast`. `AnswerTakesTheInput` goes through the ten keys; a banded row is only ever probed, and a probe
  keeps its start, its lifetime and its usage (`ProbedStaysBounded`).
- `FlipsGoOneWay`: `Spec => []LaterZLosesNoMore`. A later Z moves the deadline of the confidentiality ledger later, which
  only shrinks the windows (`LaterZLosesNoMoreOf`), and lets the same signature outlive it less. The type is needed: it is
  what lets the dates be compared at all.

`ToolScansProofs` holds for plans of any length over the known adapters, any finite set of items (`"token"`, which the HSM adapter uses as a name
beside them, is none), and any number of changes of the targets: `TypeCorrect` (one outcome for each
target that was scanned, in order), `PlansAreNeverAborted`, `FindingsAreTrue` (`FindingsWereTrue`) and `EverythingIsMentioned`
(`NothingUnmentioned`, in which a key store's nameless skip entries are counted). The substance of the second is a lemma for each adapter
(`KmsIsAccepted` to `SingleIsAccepted`) that needs no invariant: whatever sequence of calls and answers a scan has seen, the report made
of it names something scanned beside each finding, cites only what was captured, and claims no dimension that was not declared, so that
`Adapter.run` re-raises nothing. The last two need one (`Going`, while a scan goes on): no call is made twice, each answer was
given at one of the moments `was` keeps, what an answer asks for is made or still due, and a call that follows another has it behind it.
Then every claim of a finding was true at the moment of one call, and an item that never changed is answered alike by all. The configuration adapter,
which breaks the contract on an empty value, is in `ConfigChain` (`defect`) and not in this module.

`ConfigChainProofs` holds for any profiles, directories and manifests in any order without a limit on edits (`ValuesAssumption`: a value or a
profile is not `None`; `OrdersAssumption`: the orders are sequences): `ChainHolds`, `NothingIsManufactured` and `InferredIsTheBinding`,
`Spec => []` each of `ChainInv`, `EvidenceManufacturesNothing` and `InferredIsBound`. The last is about `Ordered` repositories that held still, and these
conditions exclude what the resolver infers wrongly: two files of one rank in two directories, another application's ConfigMap (`spring.py:250`),
deployments of ours that differ. `ChainInv` says that what was gathered while nobody
edited is exactly what the kinds read so far state. The resolver reads a sequence and the reference a repository, so that the
core is `InOrder`: each source that states a value is one candidate at one position, and no other is.

`EstateProofs` holds for plans of any length, any certificates, recordings and declarations, any number of replacements and failures: `EstateHolds`
(`[]EstateInv`), `MoreEvidenceIsNeverMoreCertain`, `EdgesAreTrue`, `RowsTellOneStory` and `EveryCertificateIsAccounted`, the last four
each the property of the run `estate`. What it assumes of certificates (`CertificateAssumption`) is that a size is no curve, and of estates
(`EstateAssumption`) that they hold what a plan names. `EstateInv` says that a result has the findings of its own entry, for some content that entry may
have, and that a written document is the function of all results. Merging is monotone because the findings of one asset only grow and a field
with more claims is the same or in dispute; an edge is one certificate because an asset
shows a hash only when all that was read into it agrees (`DerIsRead`, `SpkiIsRead`), so that two assets with one hash were read from one certificate, or one key.

## What is only model-checked

Liveness (`SavesAndReadsEnd`, `AssembleEnds`, `PlanEnds`, `RequestsEnd`, `EveryRowIsClosed`) is out of the prover's reach, like anything
that needs ENABLED: these five are checked on the instances above and not proved. Every other property of a passing run is a theorem.
The two violation runs refute what they state, on the instances named there.

## What is not modelled

- Rendering, hashing, citations, argument parsing, and the syntax of the documents
  that external tools write: data without control.
- The import of a CBOM, the pattern match of the secret scanner, the schemas and the dashboard page: functions of one
  value, without state or order.
- Calendar arithmetic (29 February) and the secrecy of stored values.
- The closure route of the API and its scenario and profile pages: `Closure` and
  `Recommendation` model what they call.
- The components marked `not_modelled` in `PROJECT.json`, each with its reason.

## Plan

1. (done) The ledger and its history, the run store and its contract, the live scan
   pipeline; type correctness and the safety of the store and of the scan proved.
   The authentication ledger, the closure queue and the sensitivity of a row.
2. (done) Breadth: the adapter contract and the tool adapters, the configuration chain, correlation and assembly
   of a plan, the API with its log and its overlays; the safety of the API proved.
3. (done) Proofs of the ledger and its history, of what runs, diffs and listings say, and that a later Z loses no more.
   One result for each target of a plan, and that no adapter breaks the contract.
4. (done) Proofs of the estate (merging is monotone, edges, rows, accounting), of the configuration chain, of the findings of the tool adapters,
   and of what the closure queue promises.
5. The parts still marked `partly`: that `assemble` restates `first_observed` (`bridge.py:261`) as a property of two scans, the rows of the authentication
   ledger in the run diff, and a refinement of the contract of an adapter by each of the six.
