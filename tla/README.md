# natural-lsp in TLA+

Specifications of natural-lsp, a language server for Software AG Natural
written in Go, checked with TLC and, where it says so, proved with TLAPS.  The
specifications follow the code; where the code departs from what its comments
or documents say, a run of its own shows the departure.

## The system

| part | code | state | operations | what makes it correct |
|---|---|---|---|---|
| dispatch loop | `internal/server/server.go` (Run) | session state, client capabilities, one message at a time | requests, `didOpen/Change/Close`, `didChangeWatchedFiles`, shutdown, exit | one handler at a time; a panic ends a handler and not the server; Run returns |
| background build | `server.go` (goroutine of `initialized`), `internal/workspace/index.go` | the index under construction, the context `bgCtx` | walk, hash, load the cache, scan, resolve, publish, replay, refresh | ends; publishes index and resolution set together; loses no change made meanwhile |
| document store | `internal/document/store.go` | open documents with version, content, analysis | open, update, close, copies | a document is what its last change said |
| index | `workspace/index.go` | analyses by path, line-width tables, cached name index | add, get, lookups by name and prefix | agrees with store and disk |
| resolution | `workspace/resolution.go`, `field_resolution.go` | an outcome for each edge of each file | full pass, incremental pass, lookups | incremental = full; chain order; lookups of providers agree with edges |
| cache | `workspace/cache.go`, `index.go` (BuildWithCache) | one JSON file | hash, load, save | a warm start gives what a cold one gives |
| watcher | `internal/document/sync.go` | pending paths, a debounce timer, fsnotify's queue | event, timer, drain, shutdown | the callback hears of the last content of every file |
| handshake | `server.go`, `root.go`, `progress.go`, `messagelog.go` | capabilities, root, progress token, trace level | initialize, initialized, setTrace | each state accepts its messages; progress is begun once and ended once |
| providers | `server/definition.go`, `references.go`, `call_hierarchy.go`, `completion.go`, `hover.go` and others | none | functions of (index, resolution set, store, disk) | agree with each other and with the edges |
| analyzer | `internal/analysis/natural` | none | lexer, parser, extraction of calls, data, SQL, structure | total; blocks nest; recovers at the next statement |
| positions, configuration, model | `server/position.go`, `workspace/linewidth.go`, `config/config.go`, `model/model.go` | none | conversions, validation | inverse and clamped conversions |

The dispatch loop and the build share `hctx`: the pair (index, resolution set)
under `idxResMu`, and the store under its own lock.  The build is spawned once,
by `initialized`; the editor goes on sending changes.  Those go to the store,
and to the pair only once it is published, so the build ends with a *replay* of
the open buffers.  The watcher's callback analyzes and drops its result: what
keeps the index up to date with the disk is the client's
`didChangeWatchedFiles`.  The cache is written at the end of a build and at no
other time.

Hard to test, and therefore the subject here: the interleaving of build, replay
and handlers; the index that is changed in place while a request holds it;
shutdown during the build; files that change while they are hashed, analyzed and
hashed again; crashes in the middle of the cache's rewriting; servers of two
versions on one cache; timers that fire while they are being stopped; the
incremental pass after arbitrary changes.  `PROJECT.json` lists each at its line.

## The modules

| module | models | extended or used by |
|---|---|---|
| `Resolution` | libraries, candidates, chains, the full and the incremental pass, completion and field lookups, as operators | all of the below |
| `IndexUpdates` | an index that changes a few files at a time, followed by the incremental pass; the abstract specification of the pair of `ServerSync` | `Queries`, `QueriesProofs` |
| `Queries` | the answers of the providers over any index and resolution set `IndexUpdates` reaches | `ServerSync`, `MCQueries`, `QueriesProofs` |
| `ServerSync` | dispatch loop, build, replay, publication, push and refresh, shutdown | `MCServerSync`, `ServerSyncProofs` |
| `WarmStart` | the cache over several sessions | `MCWarmStart`, `WarmStartProofs` |
| `Watcher` | event loop, timer, drain | `MCWatcher`, `WatcherProofs` |
| `IndexCalls`, `AtomicIndex` | the calls made on the shared index, and what they promise: each method takes effect in one step | `SharedIndex` |
| `SharedIndex` | the mutex of the index, its cached name map, sweeps, updates; implements `AtomicIndex` | `MCSharedIndex`, `SharedIndexProofs` |
| `Configuration` | settings, validation, search for the root, exclusion, as operators | `Session` |
| `Session` | handshake, root, progress, cancellation, the deferred calls of `Run` | `MCSession`, `SessionProofs` |
| `Positions` | texts, offsets, conversions of ranges, the line-width table | `Lexer`, `SyntaxProofs` |
| `FieldLevels` | the stack that finds the parent of a field of DEFINE DATA | `Parser`, `SyntaxProofs` |
| `Lexer`, `Parser`, `Analysis` | the analyzer, function by function, and the target under a cursor | each by the next, then `Syntax` |
| `Syntax` | a document that is typed and analyzed version by version | `MCSyntax` |

### Resolution and IndexUpdates

A file is a path with its segments (for libraries), the upper-cased stem of its
name and a place in path order; an analysis is the object type and the edges by
source line.  `OwningLibrary`, `SearchChain`, `NameIndex` and `ResolveEdge` are
the functions of those names; the chain of a caller is its library, the
steplibs of that and SYSTEM; a caller outside every library sees the flat namespace, where
two candidates make the edge ambiguous.  `Resolve` is the full pass and
`ResolveInto` the incremental one, which looks again at the files that changed
and at those with an edge that names an object of one that changed.  `IndexUpdates` applies `ResolveInto` to
any change of the index of at most `MaxChanged` files; it is also what
`ServerSync` promises of its pair.

### Queries

The providers keep no state: each is an operator over the pair (`index`, `res`)
of `IndexUpdates`, with the lookups the handler makes, in their order.  The ones
that look in the store before the index take the analysis as an argument,
`source`, so that a property can ask what happens when the buffer is ahead of
the pair.  An analysis gains the subroutines it declares, the declarations of its
data definitions, the views its accesses name, its uses of variables and its USING
clauses.  A declaration has a name, a level and its place in the tree, so that one
name may be declared in several groups; a use has the group that is read before it
in the text (`qualifierBeforeRef`).  What begins with what is typed is a function of
names (`StartsWith`), and so is which names begin with `#`, `&` or `+` (`Sigils`, for
`isDynamicPrefix`).  A cursor is the range it is in; a location is a file with the
symbol or the declaration it has there, or with the range of a site; the files are
readable.

Edges: `DefinitionOfEdge`, `ReferencesOfEdge` (with `EdgeMatchesTarget`, which
compares path and type), `Highlights`, `DocumentLinks`, `PrepareCallHierarchy`,
`IncomingCallSites`, `OutgoingCalls`, `CallCountLens`, `HoverOfEdge`,
`SignatureOf`, `CompletionAt`.  DDMs and views: `DDMDefinition`, `HoverDDM`,
`FieldCompletionDDM`, `ViewField`.  Variables: `VariableDefinition`,
`VariableReferences` and what they share, `FieldInDataAreas`.  The declarations are
searched as the code searches them: `FindDeclaration` finds every one of the name,
or those below an outermost group of level 1, and definition returns all of them;
references ask without a group and keep the first of the text (`FirstInText`);
`FindField`, which looks into other files, reads a list to its end before what is
below it (`FirstSought`).

Left out: outlines, workspace symbols, rename, the lens of writes, the
precedence of several ranges that contain one cursor, the host variables of SQL
(`cursor.go` 136), `*` and `&` variables, files that cannot be read.

### ServerSync

`handler` is the step the dispatch loop takes next and what follows it; `build`
the step of the goroutine.  A step is what happens between two points at which
the other goroutine can see anything: a lock section, a read of the disk, a
write to the stream.  `ApplyChange` is the lock section of
`applyDocumentChange`; `CollectBuffers` and `ReplayBuffers` are the two halves of
`replayOpenBuffers`, with the copy of the documents before the lock;
`PublishIndex` is `publishIndex`.  The read of a watched file and its application are
one step each.  `Pair` is the refinement mapping to `IndexUpdates`, which the
providers of `Queries` read: what the handlers find, nothing before the
publication.  An analysis has all that `Queries` asks of one, and
`PromiseAssumption` is what the analyzer promises of it there.  `astray[p]` is a history variable: it names the first reason why
the index may rightly not follow the file `p`, so that `SourcesFollowed` can say
that there is no other.

The client opens a document once, changes and closes only those that are open,
and reports each change of the disk in some order (`WatchedFiles`).  The build is
cold; `WarmStart` is about the other kind.

### WarmStart

A content stands for its SHA-256; an analysis is known by content and version.
`HashFile`, `Load`, `ScanFile`, `WidenFile` and `SaveEntry` each look at one file
at one moment; `WriteFile` may come between any two.  Saving is `WriteBegins`
(truncated: broken) and `WriteEnds`; `Stop` is a crash, a cancellation or the end
of the session and is possible at every step.  `astray[p]` says whether a file
raced a build (`raced`) or was stale and could not be analyzed (`skipped`); an
entry of the cache carries it along, because so does its effect.

### Watcher

The loop takes one event at a time; a drain holds `pendingMu` from its first file
to its last, so the loop waits for it at `AddPending`.  A timer that fired before
it was stopped is a goroutine in `fired`, still to get the mutex.  fsnotify is
external: an ordered queue that loses nothing until it is closed.

### SharedIndex

`AtomicIndex` is what `workspace.Index` promises to those who share it: between
call and return there is one moment at which the method happens.  Its update is
the server's (`applyDocumentChange`, or `replayOpenBuffers` with one change for
each buffer), which is not one method: it stores entries and tables one at a
time and resolves at the end.  In `SharedIndex` a step is what a goroutine does
between two operations on a lock.  `gate` is the write side of `idxResMu`; `mu`
is the index's own `sync.RWMutex`, with the writer that has announced itself, the
readers before it and those who queue behind it.  `LookupHit`, `LookupMiss` and
`LookupBuild` are the double-checked `LookupByName`; `VisitEntry` is one call of
the callback of a sweep (`ForEachWithRange`, the prefix lookup, the DDM lookups),
all under one read lock; `SnapshotEntries` is the copy `ResolveInto` makes.  A
configuration is known by its address, as in the code.

### Configuration and Session

`Decoded` lays a file over the defaults, `Validated` and `Problems` are the two
results of `Validate`, `FindRoot` goes up from a directory, `IsExcluded` looks at
each name of a path.  Names and extensions are model values with their upper
case and their normal form as functions.

In `Session` a message is one step of the dispatch loop, and any message may come
in any state.  `Refuse` is every message that is refused, ignored or malformed;
`Initialize` settles root, configuration, store and watcher again whenever it is
accepted.  A diagnostic of the workspace takes two steps, as its progress opens
before the work and closes after it.  `build` walks the goroutine of
`initialized` between its writes and its looks at `bgCtx`; it may fail in the walk
over the directories or before a file (`BuildFails`), and unless it was cancelled it
goes on all the same: `BuildPublishes` publishes nothing then, and `BuildEnds` ends
the progress like any other.  `wire` is what the
client has seen of each token, and a write after a cancellation or to a closed
stream does not get there.  `run` walks the deferred calls in the order in which
they run: `CloseDone`, `CancelBuild`, `JoinBuild`, `CloseWatcher`, `CloseStream`.
The context watcher (`guard`) is joined by nobody.  The loop of the file watcher,
which the code does not join either, is in `Watcher` and not here: `NothingOutlivesRun`
is about the build, the stream and the watcher's `Close`.

### Positions, Lexer, Parser, Analysis and Syntax

A text is a sequence of pieces: a word, a numeral, a sign, a blank, a line end,
or a character of several bytes with its width in bytes and in UTF-16 units.
A state `p` of the parser is the text, the tokens, the place among them, the
statements and the diagnostics so far; each parse function maps a state to
the state after it, under the name it has in the code.  The one token of
lookahead is kept as the code keeps it: where the code puts the current token
back without moving the lexer, the token in between is lost (`LoseNext`), and
where it reads raw text, the tokens after it are made again.  `Analysis` holds
the extractors (`extractEdges`, `extractAccess`, `extractDefinitions`,
`extractStructure`, `ExtractVariableRefs`) and `findCursorTarget` of the server.
The parser recurses over nested blocks, so these modules are for TLC alone; what
they take from `Positions` and `FieldLevels`, which do not, is proved about.  Where
a function uses the state it has reached several times, an operator takes it as its
argument.

In `Syntax` an editor types fragments, and every version is analyzed whole, as
`didChange` does.

## The runs

Passing:

| run | instance | what it shows |
|---|---|---|
| `sync` | a caller, two subprograms of one name, one path outside the root; contents that call, are too large, make the analyzer panic; 3 inputs | the published pair agrees (`PairAgrees`); at rest the index follows every file but those `astray` names (`SourcesFollowed`); a request after the replay sees one pair; what is shown of an open document is its buffer's |
| `sync_live` | the same without the hard contents and the path outside, a client that pulls; 2 inputs | the build, each handler and the session end; each new pair is followed by a refresh; the published pair implements `IndexUpdates` (`PairIsUpdated`): whoever takes it sees updates of some files at once, and no entry is taken away |
| `libraries` | three libraries, one in another's directory, and files outside them; up to 2 files change at once; a caller with and without subroutines, groups and fields of its own, and uses with and without a group | incremental = full; a library farther down the chain never takes a bound edge; completion and field lookups agree with the edges; the answers of the providers fit together (below) |
| `warm` | 2 files, 3 contents, 2 versions, 3 sessions, 2 writes | entries are honest, warm = cold, a start with nothing changed analyzes nothing, builds end |
| `watcher` | 2 directories, one created later, one excluded; 4 writes | the callback's last word on a file is the disk's; nothing stays pending |
| `index` | three threads (loop, build, a reader), two files of one name in two libraries, two configurations; single changes, a deletion, the replay of two buffers; no bound on the calls | the index implements `AtomicIndex` (`Implements`); between updates the resolution set is that of the entries; every call returns; no deadlock, so no method asks for a lock it holds |
| `session` | four messages in any order, one client token, a build of two files; a configured directory in a configured one, one whose file cannot be decoded, one without | configuration, store and build follow one root (`OneRoot`); progress is well formed and closed, and that of the build ends with an index exactly when the build has not failed (`ProgressEnds`); the build is joined and the stream closed when `Run` returns (`NothingOutlivesRun`); a cancellation ends the run (`CancelReturns`), given that closing the stream unblocks a read (`ReadFails`), as `server.go` 472-482 supposes |
| `syntax` | every text of up to four fragments from one of four alphabets: statements and loops, clauses that may swallow what follows, data definitions, calls among characters of several bytes | where a bare COMMIT would be a statement, every other statement is one too and means what it means on its own (`StatementsResume`; where even a COMMIT is swallowed, as after `GET EMP (`, `VALUES ( : A` or `DELETE K = :`, nothing is said, and DEFINE DATA is tried against DEFINE alone); the range of a call selects the call, in both encodings and from both conversions (`CallsAreSelected`); a field is defined once, under its owner (`FieldsAreKept`) |

What `libraries` asks of the providers: outgoing and incoming calls of two files
are the same sites, and a callee is what is prepared at its call
(`CallsAreConverse`); definition of each reference is the object the first edge
is bound to, and references, hover, code lens and incoming calls count the same
sites (`ReferencesAgree`), each of which spells the object's name or is an
inline PERFORM (`ReferencesSpellTheirTarget`); a link stands where the
definition is one other file, for any buffer over an older index
(`LinksFollowDefinition`); signature help shows the file of the definition
(`SignatureFollowsDefinition`); what an edge is bound to is completed there, from
any prefix of its name but one with a sigil in a PERFORM, where completion offers
nothing (`DefinitionIsOffered`); a use that has a definition is one of its own
references, and the declaration among them is one of those definition leads to,
unless a qualifier leaves some of the name out (`VariablesAgree`); the three lookups of a DDM differ only where
the chain decides (`DDMsAgree`).  The instance has a subprogram of one name in
three libraries, an external subroutine and a subroutine of that same name, a
subroutine `#INIT`, one field in two groups, a program that fetches itself, and two DDMs, one parameter and one local data area
of one name, so that each lookup finds none, one and several.

Three inputs are the fewest for an open, a change and a close (or two changes and
a write) of which any may fall before, into or after each of the nine steps of
the build; two let two buffers be replayed at once, or an open and a change fall
around the replay, which is what an update can meet; two files of one name are the
fewest for an ambiguity that comes and goes.  Three sessions are the fewest in which an entry is saved, loaded and saved
again, then loaded; two versions the fewest to take turns.  Four writes let a
timer fire, be overtaken and be armed again twice.  Three threads are the fewest
for a writer that waits for a reader while another reader queues behind it; two
configurations the fewest for a cached map that is somebody else's.  Four messages
are two handshakes, or one with a diagnostic and a shutdown, beside a build that
needs none.  Four fragments are a statement that was not finished, what opens or
closes a block around it, and two that come after.  `CHECK_DEADLOCK FALSE` stands
only where the bound, or the end of the session, stops everything.

Violations, each of a sentence of the repository (quoted under `findings`):

| run | the code |
|---|---|
| `replay_loses_change` | a change between the copy of the open documents and the replay's lock is overwritten |
| `buffer_overwritten` | a watched-file event for an open document puts the disk's content in the index, which had followed the buffer |
| `warm_stale` | a file that grew too large keeps, and saves again, its old analysis |
| `calls_lost` | a CALLNAT in the body of a SELECT or a READ RESULT SET has no edge |

So `ShownFollowsBuffer` excepts a file that was reported while it was open.

Departures without a run of their own.  Of these the documents say otherwise:

- A request that took the pair before the replay reads the index after it, beside
  the older resolution set (`server.go` 324-326); so `RequestsSeeOnePair` is about
  requests that begin after the replay, and does not catch this.
- `didOpen` and `didClose` change the store alone: a document opened after the
  replay has copied the buffers is not in the index until its first change
  (`openedLate`; `store.go` 98), and one closed with unsaved changes stays there
  (`closed`; `store.go` 155).
- A build that failed, and was not cancelled, publishes nothing and ends its progress
  with "Indexing complete" (`server.go` 644-705;
  `docs/plans/features/10-navigation-and-symbol-search/plan.md` 50 has results
  available as soon as indexing completes).
- The providers' sweeps run after `idxResMu` is released, and can see half of a
  later update (`server.go` 1982-1985, `code_lens.go` 205).
- A deleted file stays a target, with the analysis of no content
  (`resolution.go` 757-759).
- A local data area out of reach hides a parameter data area the edge resolves to
  (`field_resolution.go` 69-72).
- A file served from the cache has no diagnostics
  (`docs/plans/features/14-diagnostics/tasks.md` 57-64).

Of these no document speaks, or the next step of the process hides them: a report
of a change during the build is dropped (`reportedTooEarly`); buffers outside the root are indexed under `../` keys;
other callers that become ambiguous are not published again; the watcher's loop
leaves paths pending when the event channel is closed before the context is
looked at; the publication may follow a shutdown that comes after its guard.

Departures of the providers, which `Queries` models as they are:

- `references.go` 239-240 says that the name of the target is compared; only path
  and type are.  References and incoming calls of a subroutine are therefore those of
  its whole object, and INCLUDE and USING count as incoming calls.
- In a file that calls itself and has a subroutine of its own name, definition
  goes to the subroutine, outgoing calls to the object.
- References of a variable that the file declares and never uses, without the
  declaration, are looked for in the data areas; and a declaration found there
  is listed whether it was asked for or not, against `references.go` 432-433.
- Hover over an access shows the first DDM of the name whatever the chain says
  (`hover.go` 501 defers that), completion of fields only a DDM that is unique.
- A PERFORM of the object itself that names no subroutine of it is no outgoing
  call.
- The name of a subroutine may begin with a sigil (`lexer.go` 302, `parser.go` 545),
  and definition finds it; completion takes such a prefix for a variable and offers
  nothing (`completion.go` 337).
- References of a field qualified by its group are all uses of the name, those in
  another group included, and the first declaration of the name, wherever it is
  (`references.go` 378-396; `docs/plans/features/27-variable-navigation/tasks.md`
  248-251 and `natural-lsp-prd.md` 266-267 say that the group counts).  The data areas
  are asked for a field without its group.

Departures of the session:

- A second `initialize` before `initialized` is accepted (its comment says it is
  rejected); the watcher of the first runs until `bgCtx` is cancelled, and if the
  second one cannot be started, the first stays in force.
- `initialized` without `initialize` starts a build without a root and uses up the
  handshake.
- The second workspace folder is not looked at, while the warning about a missing
  root counts every folder.
- A panic in the diagnostic of a workspace leaves its progress open; the token of
  the client is created anew, which the protocol leaves to the client.
- A signal during a request makes `Run` return an error of the write.  The context
  watcher may outlive `Run`.  A read that goes on failing with something other
  than the end of the input keeps the loop busy (`server.go` 557); such a read is
  left out.
- A value of the wrong type in the configuration discards the whole file; the type
  of an extension that is not among the extensions has no effect; the capability
  for lenses is announced whatever the configuration says (`config.go` 95-99).

Departures of the analyzer, which `Parser` and `Analysis` model as they are:

- The body of a loop hides every statement from the extractors, not calls alone,
  and that of a subroutine is skipped by the parser.  `firstStatementNode` misses FIND, GET, and updates and
  deletes of records, against its comment (`parser.go` 1776-1780).
- Tokens are lost after READ RESULT and after a level number with a sign.  A level
  number, or USING, with a statement keyword on the next line takes that
  statement.  A colon before a stop word takes it as its operand, `VALUES (:)`
  takes its closing parenthesis, and an open parenthesis takes all up to the next
  closing one.  An inner SELECT without an end takes END-RESULT.  After FROM T
  INTO #X, both INTO and #X are tables.
  `StatementsResume` is therefore about a place at which a bare COMMIT would be a
  statement: it says that the other statements are then recognized there as well,
  with the meaning they have on their own.
- A REDEFINE under a folded REDEFINE has no name; within a group a REDEFINE goes to
  the first field of the name, at the top level to the last.
- Ranges: those of INCLUDE and CALLDBPROC end before their operand does; those of
  host variables in raw text end one byte late; a section or a subroutine ends at
  the start of its last token; a name of one byte has an empty range in the
  protocol; the range of a string that was not closed is one byte short.  A string over
  several lines, or a lone CR, shifts the lines after it (`LinesAgree` excludes
  both from `CallsAreSelected`).

### Fairness

`ServerSync`: weak fairness of the handler's next step, of the build's and of
`Run` returning, each a goroutine that is not blocked.  None of the client: it
need not send another message, or report a change.  `WarmStart`: weak fairness of
the build alone; crashes and writes may happen or not.  `Watcher`: weak fairness
of the loop, of the running drain and of a timer that is armed, which is what
`time.AfterFunc` promises; as an event re-arms it, a burst may delay it, but the
changes are bounded.  `SharedIndex`: strong fairness of each thread within a call.
A thread competes with others for the mutex and for `idxResMu`, and is enabled and
disabled as they take turns; `sync.Mutex` hands over to the one that has waited
longest, and an `RWMutex` lets in the readers that queued behind a writer.  No
thread need begin a call.  `Session`: weak fairness of a handler that has begun,
of the read of a stream that was closed, of the build, of the deferred calls and
of the context watcher; none of the client, which may stop sending and never close
its end.  A write is assumed not to block for ever.

## The proofs

For any workspace, libraries, contents, client and bounds, from the assumptions
named in the modules (`ConstantsAssumption`, `AnalysesAssumption`,
`StructureAssumption`, `PrefixAssumption`, `SyncAssumption`, `WarmAssumption`, `WatcherAssumption`,
`CallsAssumption`, `SessionAssumption`, `PromiseAssumption`, `ForeignAssumption` and
those of `Configuration`).  They give
the shapes of the constants, and say besides: path ranks are distinct, files are
finitely many, a normal form is its own, upper-casing empties no name, declared
names are kept in upper case, a DDM has no edges, two declarations of a file are not
in one place, a name begins with itself and with nothing, the case of a letter makes
no sigil, and `"none"` is neither a
version nor a file.

Resolution and its callers:

- `IncrementalEqualsFull` (`ResolutionProofs`): `ResolveInto` after any additions
  gives what `Resolve` gives.  A file that is not affected has no edge whose
  candidates changed; so none of its outcomes did.
- `FullPassKept`, `ShapeKept`, `FartherHasNoSay` (`QueriesProofs`): the same for
  arbitrary changes over libraries, and the order of the chain: the first library
  of the chain with a candidate decides, and what changed lies behind it.
- `CompletionAgreesAlways`, `FieldsFollowEdgesAlways` (`QueriesProofs`): of any
  index, by the objects a chain *reaches*.  Completion offers all of them, an edge
  takes those of the first library that has any (`ViaChain`), so one is empty when
  the other is; and the walk for fields takes what the edge takes.  The flat
  namespace of a caller outside every library is a case of its own throughout.
- `ReferencesSpell`, `LinksFollow` (`QueriesProofs`): from `FullPass`, an entry of
  the resolution set is the outcome of its edge; a resolved one leads to an
  indexed object of the edge's name, or is an inline PERFORM of the file itself,
  and an ambiguous one has two candidates at least.
- `SignatureFollows`, `ReferencesAgreeAlways`, `CallsConverse`, `DDMsAgreeAlways`,
  `DefinitionIsOfferedAlways`, `VariablesAgreeAlways` (`QueriesProofs`), by the
  invariant `QueryInv`: the resolution set is that of the full pass, and every
  analysis of the index is one the analyzer may give (`IndexAnalysed`).  Its second
  part is needed because the providers rest on what the analyzer guarantees: an
  edge that names a subroutine of its own file is recognized only when both are in
  upper case.  `DefinitionIsOffered` asks that what definition leads to begins with
  every prefix typed of it, and for a PERFORM that the prefix has no sigil.
  `VariablesAgree` needs that a first declaration exists among finitely many, in the
  order of the text as in the order of the search (`FirstOfFields`), and that a group
  only takes declarations away (`GroupNarrows`).  Each provider is then reduced to one set, the edges whose entry is
  resolved to the object's path and type, and the sweeps of two providers to two
  ways of collecting it.

The server, over time:

- `PublishedPairAgrees` (`ServerSyncProofs`), by the invariant `PairInv`: nobody
  but the build touches the index before it is published, the build's set is
  that of its index from its resolution on, and each later change is a lock
  section to which the theorem above applies.
- `PairIsUpdatedAlways`: the pair of `ServerSync`, empty until it is published,
  implements `IndexUpdates`, with the analyses of the contents as `Analyses` and all
  paths as `MaxChanged`.  By `FitInv`: the index, the documents and their copy hold
  analyses of contents a file may have; the publication is then an update from
  nothing (`SectionIsUpdate`, by `IncrementalEqualsFull`), the replay one of several
  files, a change one of a single file, and all else a stutter.  Operators of an
  instance are others to the prover, so they are first shown to be those of
  `Resolution` (`SameVocabulary` to `SamePasses`).
- `ProvidersAgreeAlways`, `ServedBindingsKept`: the two components composed.  All that
  `QueriesProofs` says of every sequence of updates, the ten agreements of the
  providers and the order of the libraries, holds of the published pair while the
  goroutines interleave.  `Served` is an instance of `QueriesProofs` itself, and its
  theorems are cited; they hold of the instance because the assumptions of
  `Resolution`, `IndexUpdates` and `Queries` are proved of it (`ServedConstants`,
  `ServedAnalyses`, `ServedStructures`, `ServedPrefixes`, from `PromiseAssumption` and from what the
  server makes of a file it does not analyze), and because its specification is the
  one `PairIsUpdatedAlways` establishes (`ServedSpec`).  The pair is looked at under
  its lock; what a sweep sees after it let go of the lock is a departure listed
  above.
- `TypesHold`: the shape of the state, with what a handler remembers for its next
  steps.
- `RequestsReadOnePair`, by `RequestInv`: a request in flight keeps the dispatch
  loop from handling a change, and once the replay is over nobody else changes
  the index.
- `DiagnosticsFollowBuffers`, by `ShownInv`: what is shown of an open document is its
  buffer's, or the handler will still publish it (`WillPublish`), and then applies
  it first with what the store has (`ApplyOK`); what a deletion clears was reported
  while it was open (`ClearOK`).
- `IndexFollowsSources`, by `SourcesInv`.  That the index follows a file holds at rest
  alone; on the way there the invariant says where the news of each file is.  Of a
  closed file: still to be scanned, or in an event, whether the client has it, a
  notification or the step that applies it (`DiskOfPaths`, with `EventsOK` for what
  the events say).  Of an open one: before the copy, in the copy, or in the change
  that is applied next (`BufferOfPaths`, `CopyOK`).  As any step that would lose the
  news marks the file `astray`, the theorem says that the reasons listed there are
  all there are.
- `CacheStaysHonest`, `WarmStartIsCold`, `ShapeHolds` (`WarmStartProofs`), by the
  invariant `IInv`.  That an entry is honest is not inductive, since its hash is
  read long after its analysis.  What carries it: the hashes are exact when the
  cache is loaded (`HashesExact`), so an honest entry that is not stale is of the
  file's content (`IndexExact` after `Load`), the scan keeps that for the files
  nothing was wrong with, and the hash taken at the end is then of the same
  content.  TLC checked `IInv` on the instance of `warm` first.
- `WarmStartAnalyzesNothing`, by `FreeInv`, which adds the reverse: that nothing is
  missing.  While no file changes, every file that is to be indexed gets its hash
  (`CalmHashes`), is in the index unless it is still awaited, there as the cache has
  it until something is analyzed (`CalmIndex`), and is in what is saved
  (`CalmDraft`); so the cache holds it (`InStepHolds`), and the next start finds it.
  The history variable `inStep` speaks of builds that are over, which is why none of
  this can be read off it.
- `ReportsFollow`, `NothingIsLeft` (`WatcherProofs`), by one invariant: of each file that
  is not `missed` the news is with the callback, in the queue, in the event in hand,
  pending, or with the drain that will still read it (`NewsOK`).  A drain takes its
  files from what is pending and nobody adds to that meanwhile (`DrainOK`), so a
  timer that fired late cannot drop a path; a file that goes away between the two
  looks of a drain has its event behind it.

Concurrency and the session:

- `Refinement` (`SharedIndexProofs`): `SharedIndex` implements `AtomicIndex`, with
  the thread at `gate` as its updater; `ResolvedFollowsEntriesAlways` besides.  The
  invariant says what each thread knows at its point: that the cached map is the
  one of the entries as they are (`NamesOK`), that what a sweep has collected under
  its read lock is still so (`SeenOK`), and that past `gate` it is the only updater
  (`PointOK`).  With these, a lookup answers from a map that could have been built
  now, and a sweep takes effect at its end.  The refinement covers safety; the
  specification `AtomicIndex` has no fairness of its own.
- `OneRootAlways`, `ProgressEndsAlways`, `NothingOutlivesRunAlways`
  (`SessionProofs`), by one invariant: `RootOK` ties root, configuration and store
  (a root found once is found again from itself), `RunOK` says what each deferred
  call has left behind it, `BuildOK` what the client has seen of the build at each
  of its steps unless it was cancelled, `TokenOK` the same for a client's token.
  None of the three is inductive alone: that the end of the progress means a
  published index unless the build has failed, for one, needs to know where the build
  is and whether it has.
- `RootIsNearest`, `ValidationSettles`, `ExclusionIsInherited` (`SessionProofs`):
  about `FindRoot`, `Validated` and `IsExcluded` themselves, for every file and
  every directory.

Positions and fields (`SyntaxProofs`, over `Positions` and `FieldLevels`), for
every text, of any pieces whose bytes are counted (`PiecesOK`), and both encodings:

- `TableConvertsAsText`: a range converted from the line-width table is the one
  converted from the content the table was built from, which is what
  `linewidth.go` promises.  Nothing is assumed of the range: it may lie before, behind
  or out of every line.
- `PositionsReturn`: `fromProtocolPosition` is the inverse of
  `modelPositionToProtocol`, on the boundaries of characters (`OnBoundary`).  Inside
  one it cannot be, as both ends of a surrogate pair stand for one character.
- `RangesStayRanges`, `ClicksFallInside`: a range of a line is shown as a range that is
  not empty, and any column of what is shown leads back into it.  `SpansLine` asks
  that the range starts with a character and that its last byte is one of its own,
  as of a token that ends in a letter, a digit or a quote; `r.start # r.end`
  leaves out the names of one byte, which the server shows as empty ranges.

The length of a line and its columns are recursive functions, and induction over
them is done through the least counterexample (`LeastOf`, from the well-foundedness
of `<`).  First the functions are shown to exist: a table of partial sums is built
for every sequence (`SumExists`), and it is the only one (`SumsAgree`); then `ByteLen`,
`Offset` and `UnitsUpTo` are read off it (`ByteLenIsSum`, `OffsetIsSum`, `UnitsUpToIsSum`).
From there on the columns of a line are a strictly increasing function on its
boundaries (`UnitsIncrease`), and the search of `characterToByteOffset` its inverse
(`ColumnsInvert`).  `UnitsUpTo` is a loop over the pieces with what is left of the
prefix, as in the code, and `ForeignAssumption` says that line ends are no characters
of several bytes; a line that has only ASCII is then one whose columns are its
bytes (`AsciiUnits`), for which the table has no entry.

- `OwnersAreNearest`: the stack of `parseDataFields` gives every field of every list
  the nearest field before it with a smaller level as its parent.  The invariant of
  the loop (`StackOK`): the stack holds, in their order, the fields that are still
  *open*, those that no later field has closed with a level as small.  What is popped
  is then what the next field closes (`FieldStep`), and `StacksHold` is the induction
  over the list, through the least counterexample again.

Every invariant and every action property of a passing run is thus a theorem, but
for the three of `Syntax`.  Only model-checked are:

- `StatementsResume`, `CallsAreSelected` and `FieldsAreKept`: the parser is a recursive
  operator over nested blocks, and what it returns for every text would need an
  induction over the text.  Of `CallsAreSelected` the part that is not about the
  parser, that both conversions agree and a click falls into what was shown, is
  `TableConvertsAsText` and `ClicksFallInside`; of `FieldsAreKept` it is
  `OwnersAreNearest`.
- `ProvidersAgree` on the instance of `sync` is implied by what `libraries` checks, and
  is no property of a run.
- The liveness properties `BuildEnds` (of `ServerSync` and of `WarmStart`),
  `HandlerEnds`, `RefreshSent`, `SessionEnds`, `PendingIsDrained`, `CallsReturn` and
  `CancelReturns`: they rest on fairness and on when steps are enabled, which the
  prover does not reason about.

## Abstractions

- To the modules other than `Syntax` the analyzer is a function of path and
  content; its diagnostics, symbols and definitions travel with the edges.
- In `Syntax` words are in upper case and whole: how characters make up a word is
  the one thing left out of the lexer.
- SHA-256 is injective, and no file holds just its own path (the hash of a file
  that cannot be read is that of its path).
- A file that is read is read at once.  The cache file can be damaged, and is
  then one that does not decode.
- Path keys are in one spelling; nothing here tells `a\B` from `a/B`.
- `astray`, `disturbed`, `inStep` and `missed` are history variables: no guard of
  an action of the program reads them.

Not modelled: semantic tokens (`semantictokens.go`, `server/semantic_tokens.go`: a
function of the parser's output whose hazards are the order of its tokens and the
delta encoding, for a module beside `Analysis`); the listing format of a DDM and
the types of objects by extension; log and trace forwarding; the warning about a
root without files; the sample configuration; pull diagnostics, outlines,
workspace symbols and the lens of writes; data types and the separator of path
keys.  Not to be modelled: the corpus generator, editor clients, packaging, which
hold no state of the server.

## Plan

Done, in this order: `Resolution`, `ServerSync` with the proof of its pair,
`IndexUpdates`, `WarmStart`, `Watcher`, `Queries`; then `Positions` to `Syntax`,
`SharedIndex` with its refinement, `Configuration` and `Session` with their proofs.
To come:

1. `SemanticTokens`, over the tokens of `Lexer` and the program of `Parser`: tokens
   in order and apart, and the decoding of the deltas.
2. `ServerSync` from a cache, with the ghosts of deleted files in the index: what a
   `WarmStart` leaves there that resolution then binds to.
3. An abstract server whose index follows its sources in one step, which
   `ServerSync` implements for the files that are not astray.
4. The listing of a DDM, and outlines and workspace symbols over `Analysis`.

Theorems worth having next: that of item 3, whose heart is `SourcesInv`; and what a
`WarmStart` publishes, as a first update of `IndexUpdates`, with item 2.
