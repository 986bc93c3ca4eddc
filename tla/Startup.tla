------------------------------- MODULE Startup -------------------------------
(***************************************************************************)
(* From the configuration file to the run group: config.New fills defaults *)
(* and validates; createFlows builds one flow after another, and NewAPI    *)
(* its routes.  Where validation is silent, a constructor may panic, which *)
(* ends the process before any goroutine of a flow has started.            *)
(*                                                                         *)
(* A configuration is a record with the fields that decide any of this.    *)
(* A flow's name is the sequence of its segments between slashes; each is  *)
(* a text, one parameter of chi, or something that chi refuses (not        *)
(* considered are segments that join a parameter with text, or give it a   *)
(* regular expression).  Lists of storages and queues hold, for each       *)
(* entry, its type and what its own settings are like.  Whether a          *)
(* constructor ends well is a predicate on the flow's part of the          *)
(* configuration.                                                          *)
(***************************************************************************)
EXTENDS Sizes, Sequences, FiniteSetsExt

CONSTANTS Configs,     \* the configuration files considered, as they are read
          Parameters,  \* the segments that are a parameter of chi: {a}
          Refused      \* those that chi panics on: a wildcard, an open brace

Algorithms == {"gzip", "zlib", "deflate", "zstd", "snappy"}
LogLevels == {"debug", "info", "warn", "error"}

Adapter(type, settings) == [type |-> type, settings |-> settings]

Adapters == Seq([type : STRING, settings : STRING])

\* The types of the configuration's structs.
FlowConfigs ==
    [name : Seq(STRING), uploads : Int, inbox : Int, prefixes : Int, active : SUBSET STRING,
     tokens : Int, buffer : Written, ingestionInterval : Int, accSize : Written,
     separator : Nat, accCapacity : Int, accInterval : Int, compression : STRING,
     level : STRING, prealloc : Int, storages : Adapters, queues : Adapters]

FullConfigs ==
    [port : Int, limit : Written, logLevel : STRING, flows : Seq(FlowConfigs)]

ASSUME ConfigsAssumption == Configs \subseteq FullConfigs

VARIABLES conf,    \* the configuration, as far as it has been read
          phase,   \* the constructor that is next, or how it ended
          built    \* the number of flows createFlows has built

vars == <<conf, phase, built>>

Phases == {"read", "defaulted", "rejected", "adapters", "uploader", "ingestion",
           "accumulator", "workers", "api", "running", "panicked"}

Init ==
    /\ conf \in Configs
    /\ phase = "read"
    /\ built = 0

Unless(default, isUnset, value) == IF isUnset THEN default ELSE value

-----------------------------------------------------------------------------
(* config.New: defaults. *)

QueueDefaults(queues) ==
    [i \in DOMAIN queues |-> [queues[i] EXCEPT !.type = Unless("noop", @ = "", @)]]

FlowDefaults(f) ==
    [f EXCEPT
       !.uploads           = Unless(50, @ <= 0, @),
       !.prefixes          = Unless(1, @ <= 0, @),
       !.buffer            = Unless(Size(512, "bytes"), @ = NoSize, @),
       !.ingestionInterval = Unless(100, @ = 0, @),
       !.accInterval       = Unless(100, @ = 0, @),
       !.prealloc          = Unless(2, @ = 0, @),
       !.queues            = QueueDefaults(@)]

Defaults(c) ==
    [c EXCEPT !.logLevel = Unless("info", @ = "", @),
              !.port     = Unless(9199, @ = 0, @),
              !.flows    = [i \in DOMAIN @ |-> FlowDefaults(@[i])]]

FillDefaultValues ==
    /\ phase = "read"
    /\ conf' = Defaults(conf)
    /\ phase' = "defaulted"
    /\ UNCHANGED built

-----------------------------------------------------------------------------
(* config.New: validation. *)

DecompressionIsValid(f) ==
    f.active # {} =>
        /\ f.buffer # NoSize
        /\ f.tokens >= 0
        /\ f.active \subseteq Algorithms

CompressionIsValid(f) ==
    f.compression # "" =>
        /\ f.compression \in Algorithms
        /\ f.prealloc \in 1..100

\* Of the storages nothing is validated, nor the level of the compression.
FlowIsValid(f) ==
    /\ f.name # <<>>
    /\ \A i \in DOMAIN f.name : f.name[i] # "with space"
    /\ f.prefixes # 0
    /\ f.ingestionInterval > 0
    /\ DecompressionIsValid(f)
    /\ f.accInterval > 0
    /\ CompressionIsValid(f)
    /\ \A i \in DOMAIN f.queues : f.queues[i].type \in {"noop", "sqs", "http"}

\* Mutation: names are not compared.
IsValidNamesake(c) ==
    /\ c.flows # <<>>
    /\ \A i \in DOMAIN c.flows : FlowIsValid(c.flows[i])
    /\ ~ParseFails(c.limit)
    /\ c.port # 0
    /\ c.logLevel \in LogLevels

IsValid(c) ==
    /\ c.flows # <<>>
    /\ \A i, j \in DOMAIN c.flows : i # j => c.flows[i].name # c.flows[j].name
    /\ \A i \in DOMAIN c.flows : FlowIsValid(c.flows[i])
    /\ ~ParseFails(c.limit)
    /\ c.port # 0
    /\ c.logLevel \in LogLevels

Validate ==
    /\ phase = "defaulted"
    /\ phase' = IF IsValid(conf) THEN "adapters" ELSE "rejected"
    /\ UNCHANGED <<conf, built>>

-----------------------------------------------------------------------------
(* createFlows.  Each step is a constructor that panics or lets the next   *)
(* one follow; this is the flow they build.                                *)

Current == conf.flows[built + 1]

Construct(from, sound, to) ==
    /\ phase = from
    /\ phase' = IF sound THEN to ELSE "panicked"
    /\ UNCHANGED <<conf, built>>

\* The settings the constructors of the adapters accept.  S3 and SQS load
\* the SDK's configuration, and SQS wants a URL.
S3Accepts == {"loads"}

\* The path is that of a directory.
LocalStorageAccepts == {"directory"}

\* The URL is of http, and has at most one %s, behind a slash.
HTTPStorageAccepts == {"fixed url", "url with %s"}

SQSAccepts == {"loads"}

HTTPQueueAccepts == {"url"}

\* The factory of queues; their types have been validated.
QueuesAreSound(f) ==
    \A i \in DOMAIN f.queues :
        LET q == f.queues[i] IN
        \/ q.type = "noop"
        \/ q.type = "sqs" /\ q.settings \in SQSAccepts
        \/ q.type = "http" /\ q.settings \in HTTPQueueAccepts

\* The factory of storages: an unknown type is an error, but the nil storage
\* is wrapped before that is returned, which panics.
StoragesAreSound(f) ==
    \A i \in DOMAIN f.storages :
        LET t == f.storages[i] IN
        \/ t.type = "s3" /\ t.settings \in S3Accepts
        \/ t.type = "localstorage" /\ t.settings \in LocalStorageAccepts
        \/ t.type = "httpstorage" /\ t.settings \in HTTPStorageAccepts

CreateAdapters ==
    Construct("adapters", QueuesAreSound(Current) /\ StoragesAreSound(Current), "uploader")

\* The channel to the workers, filepather.New, and the channel of New.
CreateUploader ==
    Construct("uploader",
              /\ Current.uploads >= 0
              /\ Current.prefixes >= 1
              /\ Current.inbox >= 0,
              "ingestion")

\* The size of the decompression buffer; the breaker cannot fail.
CreateIngestion ==
    Construct("ingestion", ~ParseFails(Current.buffer), "accumulator")

HasAccumulator(f) == ToBytes(f.accSize) > 0

\* Mutation: the constructor does not look at the separator.
AccumulatorIsSoundLoosely(f) ==
    /\ ToBytes(f.accSize) > 1
    /\ f.accCapacity >= 2

\* What NewAccumulatorBySize and NewAccumulatorByTimeAndSize ask for.
AccumulatorIsSound(f) ==
    /\ ToBytes(f.accSize) > 1
    /\ f.separator < ToBytes(f.accSize)
    /\ f.accCapacity >= 2

CreateAccumulator ==
    Construct("accumulator",
              /\ ~ParseFails(Current.accSize)
              /\ HasAccumulator(Current) => AccumulatorIsSound(Current),
              "workers")

\* NewWorker, as many times as max_concurrent_uploads; then the flow is done.
CreateWorkers ==
    /\ phase = "workers"
    /\ IF Len(Current.storages) # Len(Current.queues)
         THEN phase' = "panicked" /\ UNCHANGED built
         ELSE /\ built' = built + 1
              /\ phase' = IF built' = Len(conf.flows) THEN "api" ELSE "adapters"
    /\ UNCHANGED conf

-----------------------------------------------------------------------------
(* NewAPI. *)

Version == "v1"

Ingestion == "async_ingestion"

\* The paths RegisterIngestingRoutes serves POST requests of a flow on.
Paths(f) == {f.name \o <<Ingestion>>, <<Version>> \o f.name \o <<Ingestion>>}

\* The parameter without a name.
AnyName == "{}"

ASSUME ParametersAssumption ==
    AnyName \in Parameters /\ Version \notin Parameters /\ Ingestion \notin Parameters

\* chi: a pattern panics if it cannot be parsed, as with a wildcard before
\* its end or a brace left open, or if it names a parameter twice.
PatternIsSound(f) ==
    /\ \A k \in DOMAIN f.name : f.name[k] \notin Refused
    /\ \A k, l \in DOMAIN f.name :
          k # l /\ f.name[k] = f.name[l] => f.name[k] \notin Parameters

\* chi: the node of a pattern in its tree, which patterns share that differ
\* in the names of parameters only.
Node(pattern) ==
    [k \in DOMAIN pattern |-> IF pattern[k] \in Parameters THEN AnyName ELSE pattern[k]]

Registered == {Node(p) : p \in UNION {Paths(conf.flows[i]) : i \in DOMAIN conf.flows}}

\* chi: a parameter stands for any one segment of a request's path.
Fits(node, path) ==
    /\ DOMAIN node = DOMAIN path
    /\ \A k \in DOMAIN path : node[k] \in {AnyName, path[k]}

\* chi: of two nodes that a path fits, the one that is tried first, having
\* text where they differ first.
TriedFirst(n, m) ==
    n = m \/ \E k \in DOMAIN n : /\ n[k] # AnyName /\ m[k] = AnyName
                                 /\ \A l \in 1..(k - 1) : n[l] = m[l]

Route(path) ==
    CHOOSE n \in Registered :
        Fits(n, path) /\ \A m \in Registered : Fits(m, path) => TriedFirst(n, m)

\* chi: a node has the handler that was registered last.
Owner(path) ==
    Max({i \in DOMAIN conf.flows : \E p \in Paths(conf.flows[i]) : Node(p) = Route(path)})

\* The size limit was parsed by validation; each route makes a semaphore.
\* The operational routes are in no flow's way: they have one segment, or
\* are the profiler's /debug/*, which chi tries after all others.
CreateAPI ==
    Construct("api",
              /\ ~ParseFails(conf.limit)
              /\ \A i \in DOMAIN conf.flows :
                    conf.flows[i].tokens >= 0 /\ PatternIsSound(conf.flows[i]),
              "running")

Next ==
    \/ FillDefaultValues
    \/ Validate
    \/ CreateAdapters
    \/ CreateUploader
    \/ CreateIngestion
    \/ CreateAccumulator
    \/ CreateWorkers
    \/ CreateAPI

Spec == Init /\ [][Next]_vars

-----------------------------------------------------------------------------
(* What a running flow does with its settings. *)

\* The types NewReader has a case for.
NewReader == {"gzip", "zlib", "deflate", "snappy", "zstd", ""}

\* NewWriter, which each worker calls for each unit: the level is parsed
\* first, whatever the type, and taken by all types but two.
NewWriterFails(f) ==
    \/ f.level = "not a number"
    \/ f.level = "out of range" /\ f.compression \in {"gzip", "zlib", "deflate", "zstd"}
    \/ f.compression \notin Algorithms \cup {""}

-----------------------------------------------------------------------------
(* Properties. *)

TypeOK ==
    /\ phase \in Phases
    /\ built \in 0..Len(conf.flows)

\* Validation and constructors together establish, for every flow of a
\* running application, what the other modules assume of their constants:
\* NextCapacity and Capacity of Uploader; LimitOfBytes, SeparatorLen and
\* Capacity of Accumulator; MaxConcurrency of Ingestion, and a reader for
\* each algorithm its requests may name; one queue per storage for Worker,
\* and a compressor that works unless its level is wrong; and breakers whose
\* open interval ends.
RunningIsSound ==
    phase = "running" =>
        \A i \in DOMAIN conf.flows :
            LET f == conf.flows[i] IN
            /\ f.uploads >= 1 /\ f.inbox >= 0
            /\ HasAccumulator(f) =>
                  /\ ToBytes(f.accSize) > 1
                  /\ f.separator < ToBytes(f.accSize)
                  /\ f.accCapacity >= 2
            /\ f.tokens >= 0
            /\ f.active \subseteq NewReader
            /\ Len(f.storages) = Len(f.queues)
            /\ f.level \in {"", "in range"} => ~NewWriterFails(f)
            /\ f.ingestionInterval > 0 /\ f.accInterval > 0

\* The name of a flow with the version in front of it.
Versioned(name) == <<Version>> \o name

\* A name that chi takes at its word, and that is no versioned path.
IsPlain(name) == name[1] # Version /\ \A k \in DOMAIN name : name[k] \notin Parameters

\* Whatever the other flows are called, data posted to the path of a flow
\* with a plain name reaches that flow.  So does what is posted to its
\* versioned path, unless a later flow has that path's name.
PlainRoutesReachTheirFlow ==
    phase = "running" =>
        \A i \in DOMAIN conf.flows :
            LET name      == conf.flows[i].name
                plain     == Owner(name \o <<Ingestion>>)
                versioned == Owner(Versioned(name) \o <<Ingestion>>)
            IN  IsPlain(name) =>
                    /\ plain = i
                    /\ versioned # i => /\ versioned > i
                                        /\ conf.flows[versioned].name = Versioned(name)

\* What the units mean, in powers of a kilobyte.
Meaning == [kb |-> 1, mb |-> 2, gb |-> 3, tb |-> 4]

AsWritten(size) == size.number * Powers[Meaning[size.unit]]

\* The sizes of a flow.
SizesOf(f) == {f.accSize, f.buffer}

\* config_example.yaml: "Allowed unities are: kb, mb, gb, tb, pb, eb".  The
\* size at which a running flow's accumulator flushes is the one written,
\* and so is that of its decompression buffers.
SizesAreAsWritten ==
    phase = "running" =>
        \A i \in DOMAIN conf.flows : \A size \in SizesOf(conf.flows[i]) :
            size.unit \in DOMAIN Meaning => ToBytes(size) = AsWritten(size)

\* ToBytes agrees with it for kb, mb and gb, as long as an int64 holds the
\* size: nothing between the file and the running flow changes it, and in
\* particular none turns zero (no accumulator) or negative (a buffer that
\* panics).
SmallSizesAreAsWritten ==
    phase = "running" =>
        \A i \in DOMAIN conf.flows : \A size \in SizesOf(conf.flows[i]) :
            size.unit \in {"kb", "mb", "gb"} /\ AsWritten(size) < Word =>
                ToBytes(size) = AsWritten(size)

(***************************************************************************)
(* The inductive invariant behind them.                                    *)
(***************************************************************************)

\* What the defaults leave of the types, and what they establish.
Settings ==
    /\ Len(conf.flows) \in Nat
    /\ conf.flows = [i \in 1..Len(conf.flows) |-> conf.flows[i]]
    /\ \A i \in DOMAIN conf.flows :
          LET f == conf.flows[i] IN
          /\ f.name \in Seq(STRING)
          /\ SizesOf(f) \subseteq Written
          /\ phase # "read" => f.uploads >= 1

\* Nothing is built from a configuration that is not valid.
ValidIsBuilt == phase \notin {"read", "defaulted", "rejected"} => IsValid(conf)

\* A flow is complete when each of its constructors has accepted its part.
Complete(f) ==
    /\ f.inbox >= 0
    /\ HasAccumulator(f) => AccumulatorIsSound(f)
    /\ Len(f.storages) = Len(f.queues)

InConstruction == {"adapters", "uploader", "ingestion", "accumulator", "workers"}

\* How far createFlows is.
FlowsInOrder ==
    /\ built \in Nat
    /\ phase \in {"read", "defaulted"} => built = 0
    /\ phase \in InConstruction => built < Len(conf.flows)
    /\ phase \in {"api", "running"} => built = Len(conf.flows)
    /\ phase # "read" => \A i \in 1..built : Complete(conf.flows[i])
    /\ phase \in {"ingestion", "accumulator", "workers"} => Current.inbox >= 0
    /\ phase = "workers" => (HasAccumulator(Current) => AccumulatorIsSound(Current))
    /\ phase = "running" => \A i \in DOMAIN conf.flows : conf.flows[i].tokens >= 0

IInv ==
    /\ phase \in Phases
    /\ phase = "read" => conf \in FullConfigs
    /\ Settings
    /\ ValidIsBuilt
    /\ FlowsInOrder
=============================================================================
