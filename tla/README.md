# TLA+ models of the Webfleet connector

This directory holds TLA+ models of the Webfleet connector in `src/`. TLC checks
them. Each module is translated from the TypeScript source, and
`PROJECT.json` maps every definition to the source lines it models.

## 1. Inventory

The system is a single-threaded connector. Its state lives in two process-wide
singletons (the config manager and the logger). The rest is pure functions and
one sequential request loop.

| Component | Source | State it keeps | Operations |
|---|---|---|---|
| ConfigManager (config resolver) | `webfleet-connector/src/config/index.ts` | `config`, `isInitialized`; the module-level `defaultConfig` object, which `config` shares; `process.env` (read by every `init`) | constructor, `init(override?)`, `get(path)` and `getAll()` (both lazy `init`), `set(path, value)`, `update(partial)`, `reset()`; read-only `isReady`, `getSummary`; helpers `parseEnvValue`, `loadConfigFromEnv`, `mergeConfig` (JSON clone + `deepMerge`), `validateConfig`, `get/setNestedProperty`; `configPresets` |
| WebfleetLogger | `webfleet-connector/src/utils/logger.ts` | `logLevel` (initially from `WEBFLEET_LOG_LEVEL`, lower-cased), `logs` (buffer capped at a hardcoded 1000), per-child loggers with their own buffers | `setLogLevel`, `error/warn/info/debug` (filtered by `shouldLog`), the `log*` wrappers, `getLogs(count, level)`, `clearLogs`, `getLogStats`, `child(baseContext)`; `createTimer`, `logAsyncOperation` |
| Response normalizer | `webfleet-connector/src/utils/dataTransformer.ts` | none (pure) | `transformApiResponse` (envelope), `transform*Data` per entity (field aliasing, coercions), `formatWebfleetTimestamp`, `formatWebfleetDate`, synthetic ids, substring classifiers (`mapActivityType`, `mapOrderStatus`, `mapOrderPriority`, `mapOrderType`, `mapEventType`, `mapEventSeverity`) |
| Webfleet node | `nodes-base/nodes/Webfleet/Webfleet.node.ts` | `returnData` during one `execute` | `execute` (sequential per-item loop, `continueOnFail`), resource/operation dispatch, `makeWebfleetRequest` (one GET; a nonzero `errorCode` becomes an error) |
| Credentials, node description | `WebfleetApi.credentials.ts`, the node's `description` | none | declarative |
| Domain types | `types/webfleet.types.ts` | none | the record interfaces the transforms are declared to return |
| Usage examples | `examples/basic-usage.js` | none | six example workflows; their function nodes consume the node's output |
| Package index | `index.ts` | none | re-exports and `API_INFO` metadata |

**How the components interact.** The node calls the HTTP helper of the host
once per item, strictly in sequence. It does not use the normalizer, the
config manager or the logger: those are library exports for callers. The
config manager and the logger both read `WEBFLEET_LOG_LEVEL` from the
environment, each in its own way. That shared environment is their only link.
The logger does not read the config, so `logging.level` and
`logging.maxLogs` never reach it.

**What is hard.** There are no threads. The only concurrency is that of
promises: several `logAsyncOperation` calls can be suspended at their
`await` at once, and they share the singleton logger. Otherwise the hard
parts come from sequences of calls on mutable singletons and from
JavaScript value semantics:

- *Object aliasing.* Until the first `init`, the constructor leaves
  `this.config === defaultConfig`. After `reset`, `this.config` is a shallow copy
  whose groups are `defaultConfig`'s own groups. During those windows, `set`
  writes through into the defaults.
- *NaN and JSON.* Every range validator accepts `NaN`. `mergeConfig`'s JSON
  clone then turns it into `null`, which every validator rejects.
- *Lazy initialization.* `get` runs `init()` only when it is not yet
  initialized, which can discard earlier `set`/`update` calls.
- *Undefined values.* `validateConfig` skips `undefined`, and `deepMerge` copies
  `undefined`.
- *Conversions.* `parseEnvValue`, `formatWebfleetTimestamp` and the errorCode
  test are all conversions whose edge cases matter.
- *Batch failure.* In the node, one failing item either aborts the batch or
  becomes an error record, depending on `continueOnFail`.

**What makes each component correct.**

- ConfigManager:
  - every registered path holds a value its rule accepts;
  - a throwing call changes nothing;
  - `reset` restores the hardcoded defaults;
  - env parsing follows the documented precedence;
  - values stay inside the documented bounds;
  - registered paths stay defined.
- Logger:
  - an entry is stored if and only if its level passes the threshold;
  - the buffer holds the newest `maxLogs` entries, in order;
  - child entries reach the same sink.
- Normalizer:
  - an envelope has exactly one of data and error;
  - classifiers follow the documented candidate order;
  - timestamp normalization never throws;
  - normalizing an already canonical record changes nothing.
- Node:
  - one output per input item, in order;
  - under `continueOnFail`, a failure becomes exactly one error record;
  - without it, the first failure aborts the batch.

## 2. Plan

Modules, in order of importance, with the sitting that builds each:

1. **`JsValues`** (done). Tagged JavaScript values plus the built-ins the
   config code depends on: `Number()`, `parseInt(.,10)`, `toLowerCase`, and the
   JSON clone.
2. **`WebfleetConfig`** + **`MCWebfleetConfig`** (done). The ConfigManager:
   every operation, the aliasing with `defaultConfig`, and the environment.
3. **`ConfigResolver`** + **`MCConfigResolver`** (done). The abstract Config
   Resolver of spec §4.1, and the refinement check of `WebfleetConfig`
   against it (`INSTANCE ... WITH`, `get` read through `getNestedProperty`).
   It fails only at the aliasing finding under inputs that agree with the
   documented parse and rules.
4. **`WebfleetLogger`** + MC (done). Level threshold, bounded buffer, child
   loggers with their base context, `clearLogs`, `getLogs`, and
   `logAsyncOperation` split at its `await`.
5. **`LoggerConfig`** (not built). Would compose `WebfleetConfig` and
   `WebfleetLogger` over one environment. Their one shared input,
   `WEBFLEET_LOG_LEVEL`, is compared in the hazards instead (section 4).
6. **`Normalizer`** + MC (done). Pure operators, with runs that compare them
   against reference definitions over bounded inputs:
   - the envelope (`transformApiResponse`);
   - the classifiers, against the documented candidate tables;
   - every `transform*Data`, with `formatWebfleetTimestamp`,
     `formatWebfleetDate`, the synthetic ids and the flag and number
     coercions.
7. **`WebfleetNode`** + MC (done). The `execute` loop over up to 3 items,
   every response shape, `continueOnFail` on or off, the binding of
   `this`, the operations the node description offers and the parameters
   each executor reads.
8. **`BatchExecution`** (done). The abstract batch semantics of spec §5/§7,
   which `WebfleetNode` is checked to implement.
9. **`DomainTypes`** (done). The declared return types of the transforms,
   as values, and a structural typing relation `HasType`; every transform's
   number, boolean and literal-union fields are checked against their
   declared types.
10. **`UsageExamples`** (done). The "Analyze Efficiency" function node of
    the fuel-report example, which ranks vehicles and raises alerts from
    the node's report output.

## 3. What is modelled now

### `JsValues`

A JavaScript value is one of:

- a tagged record: `Num(n)`, `Bool(b)`, or `Str(s)` with `s` a sequence of
  one-character strings;
- one of the model values `NaN`, `Null`, `Undefined`.

The tags let values of different JS types live in one function, which TLC
could not compare untagged.

The conversions are modelled by what they do:

- `StringToNumber`: the grammar of `Number(s)`, covering trimming, blank as 0,
  sign, decimal digits with an exponent, and `0x` hex.
- `ParseInt10`: the longest signed digit prefix, or `NaN`.
- `ToLowerCase`.
- `JsonClone`: NaN becomes null. Undefined keys are dropped, which reads back
  as undefined.

Fractions and `Infinity` are not modelled, because none of the enumerated
inputs produce them.

### `WebfleetConfig`

State:

- `config` is `this.config`, a record `leaf: [Paths -> value]` plus
  `group: [Groups -> "object" | "undefined" | "absent"]`. The two non-object
  states differ for `setNestedProperty`: one throws, the other recreates the
  group.
- `defaults` is the `defaultConfig` object.
- `aliased` is TRUE while `this.config`'s groups are `defaultConfig`'s groups.
- `isInitialized`.
- `env` is `process.env`, chosen in `Init` and never changed.
- `lastOp` records the last call and whether it returned or threw.

Actions, one per method:

- `ConfigInit(over)` models `init(override?)`. `Get` and `GetAll` model
  `get`/`getAll` and run the same `InitWith` when uninitialized.
- `Set(p, v)` checks the path's rule, then follows `setNestedProperty`. It
  throws on a group holding undefined, recreates a missing group, and writes
  through into `defaults` while `aliased`.
- `Update(part)` is `mergeConfig`, then `validateConfig`, then commit.
- `Reset` is `{ ...defaultConfig }`.

`MergeConfig`, `ValidateConfig`, `ParseEnvValue` and `LoadConfigFromEnv`
translate the helpers of the same names.

**Bounds** (`MCWebfleetConfig`):

- Paths:
  - `api.timeout` (range rule) with its sibling `api.retryAttempts`, so that a
    recreated group visibly loses a sibling;
  - `logging.level` (enum rule);
  - `cache.enabled` (no rule).
- `set` inputs: a valid value, an out-of-range value, `NaN`, `undefined`, and
  the upper-case level `INFO`.
- `update`/`init` inputs:
  - the three shipped `configPresets`;
  - `{}`;
  - `{ api: undefined }` and `{ api: { timeout: undefined } }`, which
    `Partial<WebfleetConfig>` allows.
- Environment:
  - in the safety run, the timeout variable is either unset or `''`, which
    makes the stored value NaN;
  - in the env-parse run, each of three variables is unset or holds a string
    chosen to hit one branch of `parseEnvValue`: `20000`, `5e3`, `''`,
    `debug`, `INFO`, `FALSE`, `1e1`.

These bounds give every branch of every action at least one firing. They also
reach every case in which the code treats values differently: rule or no rule,
NaN, undefined, upper case, exponent, blank, group present/undefined/absent,
and aliased or not. Larger value sets only repeat those cases.

There is no fairness and no liveness property. The manager is a passive object
that acts only when called, so nothing in the code forces any call to happen.
There is no type invariant either: every value the actions can store is a
JavaScript value, so no change to the code could break one. The properties
checked are about which values are stored.

### `WebfleetLogger`

State, per logger (the singleton `Root` and the children `child()` creates):

- `logLevel` is `this.logLevel`. The constructor sets it from
  `WEBFLEET_LOG_LEVEL` lower-cased (`ConstructorLevel`). A child takes its
  parent's level.
- `logs` is `this.logs`, the in-memory buffer.
- `base` is the base context a child merges into every call.

Shared state:

- `console` is the sink that every `outputLog` writes to.
- `opState` and `opCtx` hold the progress and context of each
  `logAsyncOperation` call.
- `calls` bounds the calls made.
- `accepted` is a history variable. It records the entries that the
  documented rule (spec §4.3: severity at or above the threshold) lets
  through since each logger's last `clearLogs`.

An entry keeps its level, a message tag and its context restricted to
`operation` and `requestId`. Timestamps and durations are left out, because
no branch reads them.

Actions:

- `SetLogLevel`.
- `Log` (`error`/`warn`/`info`/`debug`).
- `LogWrapper` (the eight `log*` wrappers, each one call at a fixed level
  with a fixed `operation`; three of them also pass `requestId`).
- `ClearLogs`.
- `Child`.
- `logAsyncOperation`, split at its `await` into `StartOperation`, `Settle`
  (the environment settles `fn()`'s promise) and `Resume` (the continuation:
  `timer.end`, plus `logger.error` on rejection).

`Logged` is one call of `shouldLog`, `createLogEntry`, `addLogEntry` and
`outputLog`. It is a function of the sink state, so that `Resume` can make
its two calls in one step, as the code does with no `await` between them.
`getLogs` is the operator `GetLogs`.

**Bounds.**

- One child.
- Two asynchronous operations.
- `MaxLogs = 2` stands for the hardcoded 1000. The trimming code behaves the
  same for any bound, and 2 is reached within three calls.
- `MaxCalls = 3`. `setLogLevel` and the continuations are not counted, so
  thresholds change at any point and settled operations always finish.
- `WEBFLEET_LOG_LEVEL` is unset or `DEBUG` (upper case).
- Contexts: none, or one with its own `requestId`. Wrapper `requestId`s:
  `undefined` or a value.

**Fairness.** None is assumed, and no liveness property is checked. The one
candidate, that a rejected operation eventually logs its failure, would only
restate the catch branch: once the event loop runs the continuation, it
logs at error level, which every threshold lets through.

### `WebfleetNode`

One call of `execute()`. The state:

- `n`, `param` and `continueOnFail`: the items and node parameters, fixed
  for the call.
- `i`: the loop index.
- `pc`: the point the loop has reached.
- `returnData`.
- `requests`: the upstream GETs sent.
- `failure`: the error thrown.
- `result`: a history of how each item ended.

Each item takes up to three steps, one per code segment between awaits:

- `Dispatch` runs the resource if-chain and the operation switch. The
  tables `VehicleActions` … `ReportActions` give the upstream action of
  every operation.
- `Credentials` covers `getCredentials` and sending the request.
- `Respond` handles the response: an array is spread, an object or
  `errorCode` 0 is pushed, and a nonzero `errorCode` or a rejection is
  rewrapped and thrown.

The catch either records one error item and continues, or rethrows.

**The node description.** `OfferedOperations` is the set of operations
the editor offers for each resource (the `operation` options, lines
69-341). `Displayed(x, p)` is the `displayOptions` of the common
parameters: the vehicle and driver selectors, `objectNames`, and
`rangeFrom`/`rangeTo`, which are shown only for `RangeOperations`.
`ParameterReads(p)` is the set of parameters the executor of `p` reads
with `getNodeParameter`. The trip, event and report executors read
`rangeFrom`/`rangeTo` before their switch, whatever the operation.
Reading a hidden parameter makes the host throw (or, depending on the
host version, return its default). `Dispatch` models both outcomes:
a `"parameter"` failure, or going on.

The constant `HostBinding` says what `this` is. With `"instance"`, it is an
object with the node's private methods, which is how the code is written.
With `"context"`, it is the host's `IExecuteFunctions`, which is what the
host passes.

**Bounds.** Up to 3 items, which is enough to have a failure between two
successes. The parameters are every operation the description offers
(`OfferedOperations`), plus two no editor can produce and an imported
workflow can: an operation the resource lacks (`trip/getAll`) and an
unknown resource (`customer/getAll`). Every response shape
the code tells apart is included.

**Fairness and liveness.** `Dispatch` is synchronous code between two
awaits, so `Spec` makes it weakly fair. `Credentials` and `Respond` each
resume on a host promise (`getCredentials`, `httpRequest`) that the code
gives no timeout, so they get no fairness in `Spec`. `ExecuteEnds` states
termination conditionally: if the host settles its promises
(`HostSettles`, weak fairness of those two steps), `execute()` ends,
returning or throwing. It holds because every branch of the loop body either
advances `i`, throws, or awaits one of the two host steps; a plausible bug
(an error item that does not advance the index, `FailRetryingItem`) loops
forever and breaks it.

### `BatchExecution` (abstract) and the node's refinement

`BatchExecution` states the batch semantics of spec §5/§7 over `n` items:
at most one request outstanding, for the current item; an item ends with
any number of data records, or (tolerant) one error record, or
(otherwise) aborts the batch. Its actions are `Send`, `Complete`,
`Recover` and `Abort`.

`WebfleetNode` ends with the mapping `Batch == INSTANCE BatchExecution
WITH ...`: `done` is `i`, `out` is `returnData` with each record reduced
to its item and whether it is an error record, `inflight` is `i` while
`pc = "request"`, and `status` follows `pc`. `ImplementsBatchExecution`
(checked in `node_batch`) says every behaviour of `execute()` is one the
batch semantics allow.

### `ConfigResolver` (abstract) and `MCConfigResolver`

`ConfigResolver` is the Config Resolver as spec §3/§4.1/§8 promises it:
a map from leaf paths to values and an initialized flag. `init` builds
defaults -> environment -> overrides, validates the whole candidate and
commits it or changes nothing; `get` runs `init` when not initialized;
`set` checks the exact path's rule; `update` merges, validates, commits;
`reset` returns to the defaults. The environment's overrides are a
constant of a behaviour.

`MCConfigResolver` extends `MCWebfleetConfig` and maps the ConfigManager
onto it: `cfg` is what `get(path)` returns for each path, `initialized`
is `isInitialized`, the rules are the documented ones (a range accepts
numbers within its bounds only). `envView` is an auxiliary variable that
holds the documented parse of the environment, set in `Init` and never
changed, so that TLC does not parse the environment again at every state.

The inputs (`MCEnvChoicesAgreeing`, `MCSetInputsDefined`,
`MCPartialsDefined`) are ones on which the code's parse and rules agree
with the documented ones: no empty or exponent variables, no NaN, no
group set to `undefined`. Each of those is a divergence of its own
(findings 2 and 3, and the hazard at `config/index.ts:276`). The run then
isolates what remains.

### `Normalizer`

The normalizer has no state. Its functions are operators over the values
of `JsValues`, plus the following:

- `Obj(f)` is a plain object and `Arr(s)` is an array.
- `IsoString(t)` and `DateString(d)` are the strings that `toISOString()` and
  `format(.., 'yyyy-MM-dd')` return. Only the instant or the day is kept.
- `Throw(e)` is an exception. It sits inside the value being built, and
  `Raises(v)` says whether that value, once built, throws.

How the code maps to operators:

- **Field rules.** The `transform*Data` functions are object literals. Each
  field is an `||` chain of aliases passed through one coercion. The model
  writes each field as a rule, built with `Text`, `Number`, `Flag`, `Time`,
  `Date`, `Class`, `Id`, `Group`, `When` or `List`. One interpreter, `Eval`
  and `Build`, evaluates the rules, so each `Transform<Entity>Data` is a table
  that lists, line by line, the aliases and the coercion the code uses.
  `TransformGeofenceData` keeps its type-dependent `center`, `radius` and
  `vertices` as code.
- **Classifiers.** The six `map*` functions are the code's nested `if`s over
  `Includes`, which is `String.prototype.includes`. Their documented contract
  is written separately as `Candidates`, the spec's candidate tables, and
  `FirstMatch`.
- **Timestamps.**
  - `FormatWebfleetTimestamp` follows the code's branches. A 10-digit string
    is read as seconds. Any other all-digit string is read as milliseconds.
    Anything else goes to `parseISO`.
  - An epoch beyond ±8.64e15 ms makes `toISOString()` throw a `RangeError`.
    The model computes this from the digit count and the value
    (`EpochOutOfRange`).
  - `parseISO`'s grammar is the constant `IsoTexts`: the texts it accepts
    among those the model feeds it.
- **Envelope.** `TransformApiResponse` covers the error test
  `errorCode && errorCode !== 0`, the map over an array and the record count.
  The timestamp is left out.
- **Numbers.** Numbers are integral, so `parseFloat` and `parseInt` agree on
  every input.

**Inputs** (`MCNormalizer`). Each state is one call. The call is one of three
kinds:

- **Classifier calls.** Each candidate substring and class name is fed alone,
  capitalized, and paired with every other. The pairs exercise the
  first-match order. For the two stringifying mappers, the numbers 1 to 4
  are fed too.
- **Entity calls.** Each field rule gets, at every path it reads, a value
  from a small set for its kind, and the other fields are absent. The sets
  contain each value the code treats differently:
  - `undefined`, `''`, `0`, numeric strings and non-numeric strings;
  - both flag casings and booleans;
  - epochs of 10 and 13 digits;
  - the last valid millisecond, one past it, and 17 digits;
  - an ISO text and a non-date.
  Fields never read each other's paths, except a geofence's shape fields,
  which get their own product set (`GeofenceShapes`).
- **Envelope calls.** Thirteen responses: undefined, null, `''`, numeric
  error codes (nonzero and 0), the string `'0'`, objects, arrays (empty,
  mixed, with a null), and a record that makes the trip transform throw. Each
  is paired with no transform, the vehicle transform or the trip transform.

This gives 7,500 states, and every branch of every mapped function is
evaluated.

### `DomainTypes`

The interfaces of `types/webfleet.types.ts` that the nine
`transform<Entity>Data` functions are declared to return, written as type
values: `TString`, `TNumber`, `TBoolean`, unions of literals (`TUnion`),
optional fields (`TOptional`), object literals (`TObject`) and arrays
(`TArray`). `DeclaredType` maps each entity to its interface.
`HasType(ty, v, kinds)` is TypeScript's structural check on a run-time
value, applied at the leaves whose kind (string, number, boolean, literal
union) is in `kinds`. The types are erased, so nothing in the code enforces
them: the transforms take `any` and build their result from it. Two runs use
the relation. `CoercedFieldsTyped` checks the number and boolean leaves, which
the code's coercions are there to guarantee. `ClassesInDeclaredSets` checks
the literal unions, which the spec's closed canonical sets promise. The
string leaves are not checked: text fields are aliased, not coerced (spec
§4.2), so an upstream number stays a number, and the hazard list records
that.

### `UsageExamples`

The "Analyze Efficiency" function node of the weekly fuel-report workflow
(`basic-usage.js:271-320`): it sums fuel and distance, sorts the rows in
place by descending efficiency (`SortByEfficiency`, a stable insertion
matching `Array.prototype.sort`), takes the first and last as best and
worst, and alerts on the rows below 80% of the fleet average
(`BelowThreshold`). The report is abstracted to the fields it reads. The
float comparison is replaced by an integer one that agrees on the bounds
used (efficiencies up to 7, fuel sums up to 6, distance sums up to 12).
An empty fleet, or a report with no `reportPeriod`, makes it throw.
`MCNormalizer` feeds it every fleet of 0 to 3 rows over two efficiencies,
two fuel amounts and two distances.

### Runs

| Run | Expect | What it shows |
|---|---|---|
| `config_safety` | pass | Over every sequence of calls (≈72k states, depth 11), three properties hold. `ConfigAndDefaultsValid`: both `this.config` and `defaultConfig` keep every registered path undefined-or-accepted. `FailedCallChangesNothing`: a throwing call changes nothing. `DefaultsFrozenOnceInitialized`: while initialized, `defaultConfig` never changes. No type invariant is checked for the config: every value the code can store is a JavaScript value, so no change to the code could break one. |
| `config_refines_resolver` | violation | `ImplementsConfigResolver`: the ConfigManager does not implement the documented Config Resolver. The only way it fails, under inputs that agree with the documented parse, is this trace (3 states): `set(api.timeout, 15000)` before the first init, then `init()`. The code's `init` yields 15000, because the `set` wrote into `defaultConfig`; the resolver's yields the default 30000. With the write-through removed from the model, the refinement holds (2.7k states). |
| `config_nan_accepted` | violation | With `WEBFLEET_API_TIMEOUT=''`, `init()` stores `api.timeout = NaN`. |
| `config_env_parse` | violation | With `WEBFLEET_CACHE_ENABLED='1e1'`, `init()` stores 1 where the documented parse gives 10. |
| `logger_safety` | pass | 1.7M states. `BufferHoldsNewestAccepted`: every logger's buffer equals the newest `MaxLogs` entries that the documented threshold lets through since its last `clearLogs`, across children, wrappers and level changes, including a threshold changed while an async operation is suspended, which decides whether its continuation's entries are stored. `TypeOK` also holds. |
| `logger_child_context` | violation | `child({requestId:'r0'}).logApiRequest(a, p)` stores `requestId: undefined`. |
| `node_batch` | pass | `ExecuteResult`: at most one request per item, in item order. `execute()` either returns each item's records (an array spread) or its single error record, in order, or throws at the first failure with no later request sent. `ImplementsBatchExecution`: every behaviour of `execute()`, over every offered operation, is one the abstract batch semantics allow. `ExecuteEnds`: if the host settles its promises, `execute()` ends. |
| `node_this_binding` | violation | With `this` bound to the host context, the first item fails with a TypeError before any request. |
| `normalizer_contracts` | pass | The checks are the following. `ClassifiersAsDocumented`: every mapper returns the first documented candidate the lower-cased text contains, and maps its own result to itself. `RoundTripFlatRecords`: re-normalizing a vehicle, position, driver or order record the code produced returns it unchanged. `EnvelopeWellFormed`: an envelope holds exactly one of data and error; data are the transformed records, one per element, counted; a nonzero numeric code gives a failure carrying it. `CoercedFieldsTyped`: every number- and boolean-typed field of every transform's result, nested ones and array elements included, has its declared type whatever the upstream sent. `PerformersRanked`: the fuel analysis names as best the first vehicle of highest efficiency and as worst the last of lowest, and alerts on exactly the vehicles below the threshold, in descending efficiency. |
| `normalizer_roundtrip` | violation | Re-normalizing a canonical record is not idempotent for working times: the first pass writes `violationType`, the second reads only `violationtype`/`type`, so the class becomes `other`. |
| `normalizer_never_throws` | violation | A working-time record whose `violations` is a string makes the transform throw a TypeError. |
| `normalizer_closed_classes` | violation | `ClassesInDeclaredSets`: spec §4.2 says free-text enums map to a closed canonical set. A working-time violation with `violationtype: 'ab'` comes out with `violationType: 'ab'`, outside the declared `WebfleetViolation` union. |

Each passing property has a mutant in `PROJECT.json` that TLC catches:

- `ConfigAndDefaultsValid`: `set` skips its rule.
- `FailedCallChangesNothing`: `update` commits before validating.
- `DefaultsFrozenOnceInitialized`: `reset` keeps `isInitialized`.
- Logger `TypeOK`: `addLogEntry` without the trim.
- `BufferHoldsNewestAccepted`: `shouldLog` compares with `<`.
- Node `TypeOK`: the loop test is `i <= items.length`.
- `ExecuteResult`: an array response is pushed as one record.
- `ImplementsBatchExecution`: the catch records the error item but does
  not `continue`, so the batch throws in tolerant mode.
- `ClassifiersAsDocumented`: `mapEventType` tests `braking` before `speed`.
- `RoundTripFlatRecords`: the flag test reads only the lower-case field
  name (`isactive`), for `'1'` or `true`, and ignores `isActive`.
- `EnvelopeWellFormed`: the error test is `errorCode !== 0` alone.
- `ExecuteEnds`: an item failure under `continueOnFail` goes back to
  dispatch without advancing the index.
- `PerformersRanked`: the sort comparator is `a - b` instead of `b - a`.
- `CoercedFieldsTyped`: a numeric field is copied as sent, without
  `parseFloat`. This compiles, because the raw record is `any`.

### Findings

Each finding below comes from a violation run.

1. **`set()` before init writes into the defaults** (`config/index.ts:294`,
   `:366`; run `config_refines_resolver`). A `set()` made before the first
   `init` or after a `reset` writes into `defaultConfig`, so the next
   `init()` and `reset()` bring back the written value instead of the
   default. If the value written is NaN, every later `init()` throws,
   and so does every lazy `get()`, even after `reset()`.
2. **NaN passes every range validator** (`:122` and the other range rules).
   NaN gets in through `set` or through an empty environment variable. After
   that, every `update()` fails because the JSON clone turns NaN into null.
3. **`parseEnvValue` returns `parseInt` of the string** (`:225`), so `1e1`
   becomes 1, `5e3` becomes 5 and `''` becomes NaN.
4. **A child loses its base `requestId`** (`logger.ts:329`, `:183`). The
   wrappers always pass a `requestId` key, and it is undefined when the
   caller omits it. `{ ...baseContext, ...context }` then overwrites the
   child's value.
5. **The node's dispatch is unreachable from the host** (`Webfleet.node.ts:451`).
   `execute()` calls `this.executeVehicleOperation` etc. The host binds
   `this` to its `IExecuteFunctions` context, which has none of these
   methods, so every item throws a TypeError and no request is made.
6. **Normalization is not idempotent** (`dataTransformer.ts:444`, and the
   trip, logbook, event and geofence tables). Several transforms read back
   other field names, or other classes, than the ones they write.
7. **Normalization throws on malformed fields** (`dataTransformer.ts:174`).
   The cases are:
   - a `violations` value that is not an array (`.map` is not a function);
   - a numeric activity (`.toLowerCase` is not a function);
   - an epoch past ±8.64e15 ms (`toISOString` throws a `RangeError`).
8. **Classes escape their closed sets** (`dataTransformer.ts:444`; run
   `normalizer_closed_classes`). `transformViolationData` copies the raw
   `violationtype` into `violationType` without a mapper, and its
   `severity` comes from `mapEventSeverity`, which may return `'critical'`.
   It returns `any`, so the compiler does not see that neither value fits
   `WebfleetViolation`. A geofence's `type` passes any truthy upstream
   value through in the same way (`:265`).

Further defects of the code are listed in `PROJECT.json` as hazards, and
no run checks them:

- `validateConfig` skips `undefined`, so `init({ api: undefined })` commits
  an undefined group (`config/index.ts:276`).
- `getLogs(0)` returns the whole buffer, because `if (count)` treats 0 as no
  count (`logger.ts:273`).
- The trip, event and report executors read `rangeFrom`/`rangeTo` for
  every operation, though the description shows them only for the range
  operations (`Webfleet.node.ts:744`). A run of `MCWebfleetNode` with the
  host throwing on hidden parameters fails `event/getSpeedingEvents`
  with `"parameter"` before any request.
- The config and the logger read `WEBFLEET_LOG_LEVEL` differently
  (`logger.ts:39`): the logger lower-cases it and falls back to `info`,
  the config keeps it as is, so `DEBUG` makes every config `init()` throw
  while the logger runs at debug.

Observations on the types, the examples and the index, which no run checks:

- Text and date fields keep an upstream number as a number (aliasing, and
  `formatWebfleetDate` returning an unparsable value unchanged), although
  the interfaces declare them `string`.
- The fuel analysis throws on an empty fleet, and computes an `Infinity` or
  `NaN` average when no fuel was used (`basic-usage.js:277`, `:303`).
- `API_INFO.supportedEndpoints` in `index.ts` lists `showTrips`, but the
  node sends `showTripSummary` and `showTripDetails`.

## 4. Not modelled, and why

- `getAll()`'s shallow copy mutated by callers, because it needs caller code.
- Three-segment paths (`api.rateLimit.*`), because they behave like the
  two-segment ones one level down.
- Primitive or `null` group overrides. `Partial<WebfleetConfig>` excludes them.
- Environment changes after start-up.
- In the normalizer:
  - fractional numbers;
  - the envelope's timestamp;
  - the full `parseISO` grammar, replaced by the table `IsoTexts`;
  - string content beyond what the classifiers and the digit tests read.
- `getLogStats`, `getLogLevel` and `createRequestId`, which only read or
  return values. The JSON layout of `outputLog`.
- The node's per-item parameters, query string and error messages: they
  are data, and no branch depends on them.
- A host rerun of a failed node ("retry on fail"), because it is outside
  the code.
- The credential definition, and the node description's labels, defaults
  and descriptions: declarative data the host reads, on which no branch of
  this code depends. The description's operation lists and display rules
  are modelled.
- The types that no transform returns (the three report types, the
  speeding and idling subtypes, request parameters, `WebfleetApiResponse`,
  `WebfleetError`, the standardized response): nothing the code builds is
  declared with them.
- The package index (`index.ts`): re-exports and constant metadata.
- The examples' workflow JSON (nodes, positions, parameters) and their
  other function nodes. Those nodes only reshape the node's output into
  messages, with no branch beyond those modelled. The workflows also lack
  `connections`, so the host would not run them as written.
- A composed logger-and-config module over one environment: the two share
  only `WEBFLEET_LOG_LEVEL`, whose disagreement is listed above as a
  hazard.
