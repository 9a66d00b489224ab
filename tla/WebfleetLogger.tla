---------------------------- MODULE WebfleetLogger ----------------------------
(***************************************************************************)
(* The structured logger of the connector                                  *)
(* (src/packages/webfleet-connector/src/utils/logger.ts): the exported     *)
(* singleton `logger`, the child loggers child() creates, and the          *)
(* asynchronous operations logAsyncOperation() runs against the singleton. *)
(*                                                                         *)
(* An entry keeps what the properties tell apart: its level, its message   *)
(* (the calling method, and for logAsyncOperation the operation) and its   *)
(* context restricted to the keys `operation` and `requestId`.  Wall-clock *)
(* timestamps and durations are left out: no branch of the code reads     *)
(* them back.  The console is one sequence `console`, the sink every       *)
(* logger writes to.                                                       *)
(***************************************************************************)
EXTENDS JsValues, FiniteSets

CONSTANTS
    Root,          \* the exported singleton `logger`
    Children,      \* the loggers child() may create
    EnvLogLevels,  \* values WEBFLEET_LOG_LEVEL may hold: Unset or a string
    Unset,         \* an environment variable that is not set
    BaseContexts,  \* baseContext arguments of child()
    CallContexts,  \* context arguments of error/warn/info/debug and logAsyncOperation
    RequestIds,    \* requestId arguments of the log* wrappers (Undefined included)
    AsyncOps,      \* operations run through logAsyncOperation
    MaxLogs,       \* this.maxLogs (1000 in the code)
    MaxCalls       \* bound on the calls made to the loggers

Loggers == {Root} \cup Children

ASSUME Root \notin Children /\ MaxLogs \in Nat \ {0} /\ MaxCalls \in Nat

(***************************************************************************)
(* LogLevel and shouldLog.  `levels` is the array shouldLog indexes; the   *)
(* constructor accepts a lower-cased WEBFLEET_LOG_LEVEL that is one of     *)
(* Object.values(LogLevel).                                                *)
(***************************************************************************)
LogLevel == {"error", "warn", "info", "debug"}

levels == <<"error", "warn", "info", "debug">>

LevelText == [error |-> <<"e", "r", "r", "o", "r">>, warn |-> <<"w", "a", "r", "n">>,
              info |-> <<"i", "n", "f", "o">>, debug |-> <<"d", "e", "b", "u", "g">>]

IndexOfLevel(lv) == CHOOSE i \in DOMAIN levels : levels[i] = lv

\* Mutant: an entry passes only strictly above the threshold.
ShouldLogStrict(lv, threshold) == IndexOfLevel(lv) < IndexOfLevel(threshold)

ShouldLog(lv, threshold) == IndexOfLevel(lv) <= IndexOfLevel(threshold)

\* The level the constructor starts with, given process.env.WEBFLEET_LOG_LEVEL.
ConstructorLevel(envLevel) ==
    IF envLevel # Unset /\ \E lv \in LogLevel : LevelText[lv] = ToLowerCase(envLevel)
    THEN CHOOSE lv \in LogLevel : LevelText[lv] = ToLowerCase(envLevel)
    ELSE "info"

(***************************************************************************)
(* The log* wrappers: each is one call of error/warn/info/debug with a     *)
(* fixed level and context operation; three of them also pass requestId,   *)
(* which is undefined when the caller omits it.                            *)
(***************************************************************************)
Wrappers ==
    [logApiRequest         |-> [level |-> "info",  operation |-> "api_request"],
     logApiResponse        |-> [level |-> "info",  operation |-> "api_response"],
     logApiError           |-> [level |-> "error", operation |-> "api_error"],
     logDataTransformation |-> [level |-> "debug", operation |-> "data_transformation"],
     logAuthSuccess        |-> [level |-> "info",  operation |-> "authentication"],
     logAuthFailure        |-> [level |-> "error", operation |-> "authentication"],
     logRateLimit          |-> [level |-> "warn",  operation |-> "rate_limit"],
     logConfiguration      |-> [level |-> "info",  operation |-> "configuration"]]

RequestIdWrappers == {"logApiRequest", "logApiResponse", "logApiError"}

WrapperContext(w, rid) ==
    ("operation" :> Wrappers[w].operation)
      @@ (IF w \in RequestIdWrappers THEN "requestId" :> rid ELSE <<>>)

(***************************************************************************)
(* State.                                                                  *)
(***************************************************************************)
VARIABLES
    env,       \* process.env.WEBFLEET_LOG_LEVEL, fixed at start-up
    created,   \* the loggers constructed so far
    logLevel,  \* this.logLevel of each logger
    base,      \* the baseContext a child merges into every call (none for Root)
    logs,      \* this.logs of each logger
    console,   \* the console sink, shared by every logger
    opState,   \* progress of each logAsyncOperation call
    opCtx,     \* the context argument of each logAsyncOperation call
    calls,     \* number of calls made so far
    accepted   \* history: the entries the documented threshold lets through
               \* for each logger since its last clearLogs

vars == <<env, created, logLevel, base, logs, console, opState, opCtx, calls, accepted>>

Entry(lv, msg, ctx) == [level |-> lv, msg |-> msg, ctx |-> ctx]

\* Severities as the specification orders them: ERROR > WARN > INFO > DEBUG.
Severity == [error |-> 4, warn |-> 3, info |-> 2, debug |-> 1]

DocumentedEmits(lv, threshold) == Severity[lv] >= Severity[threshold]

(***************************************************************************)
(* addLogEntry on a buffer: push, then keep the last maxLogs entries.      *)
(***************************************************************************)
\* Mutant: addLogEntry without the trim.
AddLogEntryUntrimmed(buf, e) == Append(buf, e)

AddLogEntry(buf, e) ==
    LET pushed == Append(buf, e)
    IN  IF Len(pushed) > MaxLogs
        THEN SubSeq(pushed, Len(pushed) - MaxLogs + 1, Len(pushed))
        ELSE pushed

(***************************************************************************)
(* One call of error/warn/info/debug on logger l, as a function of the     *)
(* sink state s = [logs, console, accepted]: a child first merges its base *)
(* context under the call's ({ ...baseContext, ...context }), then         *)
(* shouldLog decides, then createLogEntry, addLogEntry and outputLog.      *)
(***************************************************************************)
Logged(s, l, lv, msg, ctx) ==
    LET e == Entry(lv, msg, ctx @@ base[l])
    IN  [logs     |-> IF ShouldLog(lv, logLevel[l])
                      THEN [s.logs EXCEPT ![l] = AddLogEntry(@, e)] ELSE s.logs,
         console  |-> IF ShouldLog(lv, logLevel[l])
                      THEN Append(s.console, e) ELSE s.console,
         accepted |-> IF DocumentedEmits(lv, logLevel[l])
                      THEN [s.accepted EXCEPT ![l] = Append(@, e)] ELSE s.accepted]

Sink == [logs |-> logs, console |-> console, accepted |-> accepted]

Commit(s) == /\ logs' = s.logs
             /\ console' = s.console
             /\ accepted' = s.accepted

Init ==
    /\ env \in EnvLogLevels
    /\ created = {Root}
    /\ logLevel = [l \in Loggers |-> ConstructorLevel(env)]
    /\ base = [l \in Loggers |-> <<>>]
    /\ logs = [l \in Loggers |-> <<>>]
    /\ console = <<>>
    /\ opState = [o \in AsyncOps |-> "idle"]
    /\ opCtx = [o \in AsyncOps |-> <<>>]
    /\ calls = 0
    /\ accepted = [l \in Loggers |-> <<>>]

(***************************************************************************)
(* The methods.  Every call that creates an entry or a logger counts      *)
(* towards MaxCalls; setLogLevel, which a caller may make at any time,     *)
(* and the continuations of logAsyncOperation do not, so that a settled   *)
(* operation can always finish.                                            *)
(***************************************************************************)
Called == /\ calls < MaxCalls
          /\ calls' = calls + 1

\* setLogLevel(level)
SetLogLevel(l, lv) ==
    /\ l \in created
    /\ logLevel' = [logLevel EXCEPT ![l] = lv]
    /\ UNCHANGED <<env, created, base, logs, console, opState, opCtx, calls, accepted>>

\* error/warn/info/debug(message, context)
Log(l, lv, ctx) ==
    /\ l \in created
    /\ Called
    /\ Commit(Logged(Sink, l, lv, <<lv, "-">>, ctx))
    /\ UNCHANGED <<env, created, logLevel, base, opState, opCtx>>

\* logApiRequest, logApiResponse, ..., logConfiguration: this.info/error/...
\* of the logger they are called on, a child's override included.
LogWrapper(l, w, rid) ==
    /\ l \in created
    /\ Called
    /\ Commit(Logged(Sink, l, Wrappers[w].level, <<w, "-">>, WrapperContext(w, rid)))
    /\ UNCHANGED <<env, created, logLevel, base, opState, opCtx>>

\* clearLogs()
ClearLogs(l) ==
    /\ l \in created
    /\ Called
    /\ logs' = [logs EXCEPT ![l] = <<>>]
    /\ accepted' = [accepted EXCEPT ![l] = <<>>]
    /\ UNCHANGED <<env, created, logLevel, base, console, opState, opCtx>>

\* parent.child(baseContext): a new WebfleetLogger (whose constructor reads
\* the environment), then setLogLevel(parent's level); its methods merge
\* baseContext into every call's context.
Child(p, c, baseContext) ==
    /\ p \in created
    /\ c \notin created
    /\ Called
    /\ created' = created \cup {c}
    /\ logLevel' = [logLevel EXCEPT ![c] = logLevel[p]]
    /\ base' = [base EXCEPT ![c] = baseContext]
    /\ logs' = [logs EXCEPT ![c] = <<>>]
    /\ accepted' = [accepted EXCEPT ![c] = <<>>]
    /\ UNCHANGED <<env, console, opState, opCtx>>

(***************************************************************************)
(* logAsyncOperation(operation, fn, context), on the singleton: three      *)
(* segments separated by `await fn()`.                                     *)
(***************************************************************************)
\* createTimer, logger.debug(`${operation} started`, context), call fn.
StartOperation(o, ctx) ==
    /\ opState[o] = "idle"
    /\ Called
    /\ opState' = [opState EXCEPT ![o] = "awaiting"]
    /\ opCtx' = [opCtx EXCEPT ![o] = ctx]
    /\ Commit(Logged(Sink, Root, "debug", <<"started", o>>, ctx))
    /\ UNCHANGED <<env, created, logLevel, base>>

\* The promise fn() returned settles: the environment decides how.
Settle(o) ==
    /\ opState[o] = "awaiting"
    /\ \E outcome \in {"resolved", "rejected"} : opState' = [opState EXCEPT ![o] = outcome]
    /\ UNCHANGED <<env, created, logLevel, base, logs, console, opCtx, calls, accepted>>

\* The continuation: timer.end logs at debug with { ...context, operation,
\* duration }; on rejection it is followed by logger.error(`... failed after`,
\* context) and the error is rethrown.
TimerContext(o) == ("operation" :> o) @@ opCtx[o]

Resume(o) ==
    /\ opState[o] \in {"resolved", "rejected"}
    /\ opState' = [opState EXCEPT ![o] = "done"]
    /\ IF opState[o] = "resolved"
       THEN Commit(Logged(Sink, Root, "debug", <<"completed", o>>, TimerContext(o)))
       ELSE Commit(Logged(Logged(Sink, Root, "debug", <<"failed", o>>, TimerContext(o)),
                          Root, "error", <<"failedAfter", o>>, opCtx[o]))
    /\ UNCHANGED <<env, created, logLevel, base, opCtx, calls>>

Next ==
    \/ \E l \in Loggers, lv \in LogLevel : SetLogLevel(l, lv)
    \/ \E l \in Loggers, lv \in LogLevel, ctx \in CallContexts : Log(l, lv, ctx)
    \/ \E l \in Loggers, w \in DOMAIN Wrappers, rid \in RequestIds : LogWrapper(l, w, rid)
    \/ \E l \in Loggers : ClearLogs(l)
    \/ \E p \in Loggers, c \in Children, b \in BaseContexts : Child(p, c, b)
    \/ \E o \in AsyncOps, ctx \in CallContexts : StartOperation(o, ctx)
    \/ \E o \in AsyncOps : Settle(o) \/ Resume(o)

Spec == Init /\ [][Next]_vars

(***************************************************************************)
(* getLogs(count, level): the level filter, then slice(-count) when count  *)
(* is truthy.  It returns this.logs itself when neither is given.          *)
(***************************************************************************)
GetLogs(l, count, lv) ==
    LET filtered == IF lv = Undefined THEN logs[l]
                    ELSE SelectSeq(logs[l], LAMBDA e : e.level = lv)
        n == Len(filtered)
    IN  IF count \in {Undefined, 0} THEN filtered
        ELSE SubSeq(filtered, IF n - count + 1 < 1 THEN 1 ELSE n - count + 1, n)

(***************************************************************************)
(* Properties.                                                             *)
(***************************************************************************)
ContextValues ==
    RequestIds \cup AsyncOps \cup {Wrappers[w].operation : w \in DOMAIN Wrappers}
      \cup UNION {Range(ctx) : ctx \in BaseContexts \cup CallContexts}

Messages ==
    (LogLevel \cup DOMAIN Wrappers) \X {"-"}
      \cup {"started", "completed", "failed", "failedAfter"} \X AsyncOps

IsEntry(e) ==
    /\ e.level \in LogLevel /\ e.msg \in Messages
    /\ DOMAIN e.ctx \subseteq {"operation", "requestId"}
    /\ Range(e.ctx) \subseteq ContextValues

TypeOK ==
    /\ created \subseteq Loggers /\ Root \in created
    /\ logLevel \in [Loggers -> LogLevel]
    /\ \A l \in Loggers : Len(logs[l]) <= MaxLogs /\ \A i \in DOMAIN logs[l] : IsEntry(logs[l][i])
    /\ \A i \in DOMAIN console : IsEntry(console[i])
    /\ opState \in [AsyncOps -> {"idle", "awaiting", "resolved", "rejected", "done"}]
    /\ calls \in 0..MaxCalls

\* The last n elements of s.
LastOf(s, n) == IF Len(s) <= n THEN s ELSE SubSeq(s, Len(s) - n + 1, Len(s))

\* Each logger's buffer (what getLogs() reads) holds exactly the newest
\* MaxLogs entries, in order, of the calls made on that logger since its
\* last clearLogs whose severity is at or above its threshold at the time
\* of the call: shouldLog and addLogEntry's trimming together implement
\* the bounded buffer of the specification.
BufferHoldsNewestAccepted == \A l \in created : logs[l] = LastOf(accepted[l], MaxLogs)

\* A child "merges a fixed base context into every call's context": every
\* entry a child stores carries its base context's keys with a defined value.
ChildEntriesKeepBaseContext ==
    \A c \in created \cap Children :
        \A e \in Range(logs[c]), k \in DOMAIN base[c] :
            k \in DOMAIN e.ctx /\ e.ctx[k] # Undefined

====
