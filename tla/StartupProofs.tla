--------------------------- MODULE StartupProofs ---------------------------
(***************************************************************************)
(* Proofs about Startup for any configuration files, any number of flows,  *)
(* and any Kilo and Word: what a running application can rely on.  The     *)
(* inductive invariant IInv follows a configuration through the defaults   *)
(* (Settings), validation (ValidIsBuilt) and the constructors of one flow  *)
(* after another (FlowsInOrder).                                           *)
(***************************************************************************)
EXTENDS Startup, SeqLemmas

-----------------------------------------------------------------------------
(* The defaults. *)

\* What the defaults of a flow do to the fields the properties are about.
LEMMA FlowDefaultsFields ==
    ASSUME NEW f \in FlowConfigs
    PROVE  /\ FlowDefaults(f).name = f.name
           /\ FlowDefaults(f).accSize = f.accSize
           /\ FlowDefaults(f).buffer = Unless(Size(512, "bytes"), f.buffer = NoSize, f.buffer)
           /\ FlowDefaults(f).uploads = Unless(50, f.uploads <= 0, f.uploads)
<1> DEFINE uploads  == Unless(50, f.uploads <= 0, f.uploads)
           prefixes == Unless(1, f.prefixes <= 0, f.prefixes)
           buffer   == Unless(Size(512, "bytes"), f.buffer = NoSize, f.buffer)
           ingest   == Unless(100, f.ingestionInterval = 0, f.ingestionInterval)
           interval == Unless(100, f.accInterval = 0, f.accInterval)
           prealloc == Unless(2, f.prealloc = 0, f.prealloc)
           queues   == QueueDefaults(f.queues)
<1>1. FlowDefaults(f) =
          [f EXCEPT !.uploads = uploads, !.prefixes = prefixes, !.buffer = buffer,
                    !.ingestionInterval = ingest, !.accInterval = interval,
                    !.prealloc = prealloc, !.queues = queues]
    BY DEF FlowDefaults
<1>2. /\ FlowDefaults(f).name = f.name
      /\ FlowDefaults(f).accSize = f.accSize
      /\ FlowDefaults(f).buffer = buffer
      /\ FlowDefaults(f).uploads = uploads
  <2> HIDE DEF uploads, prefixes, buffer, ingest, interval, prealloc, queues
  <2> QED
      BY <1>1 DEF FlowConfigs
<1>3. QED
    BY <1>2

LEMMA FlowDefaultsTypes ==
    ASSUME NEW f \in FlowConfigs
    PROVE  /\ FlowDefaults(f).name \in Seq(STRING)
           /\ SizesOf(FlowDefaults(f)) \subseteq Written
           /\ FlowDefaults(f).uploads >= 1
<1>1. /\ f.name \in Seq(STRING) /\ f.accSize \in Written /\ f.buffer \in Written
      /\ f.uploads \in Int
    BY DEF FlowConfigs
<1>2. FlowDefaults(f).uploads >= 1
    BY <1>1, FlowDefaultsFields DEF Unless
<1>3. Size(512, "bytes") \in Written
    BY DEF Size, Written, Units
<1>4. FlowDefaults(f).buffer \in Written
    BY <1>1, <1>3, FlowDefaultsFields DEF Unless
<1>5. QED
    BY <1>1, <1>2, <1>4, FlowDefaultsFields DEF SizesOf

\* The list of flows keeps its length.
LEMMA DefaultsFlows ==
    ASSUME NEW c \in FullConfigs
    PROVE  /\ Defaults(c).flows = [i \in DOMAIN c.flows |-> FlowDefaults(c.flows[i])]
           /\ Len(Defaults(c).flows) = Len(c.flows)
           /\ Len(c.flows) \in Nat
           /\ c.flows = [i \in 1..Len(c.flows) |-> c.flows[i]]
           /\ DOMAIN c.flows = 1..Len(c.flows)
           /\ \A i \in DOMAIN c.flows : c.flows[i] \in FlowConfigs
<1> DEFINE level == Unless("info", c.logLevel = "", c.logLevel)
           port  == Unless(9199, c.port = 0, c.port)
           flows == [i \in DOMAIN c.flows |-> FlowDefaults(c.flows[i])]
<1>0. Defaults(c) = [c EXCEPT !.logLevel = level, !.port = port, !.flows = flows]
    BY DEF Defaults
<1>1. Defaults(c).flows = flows
  <2> HIDE DEF level, port, flows
  <2> QED
      BY <1>0 DEF FullConfigs
<1>2. c.flows \in Seq(FlowConfigs)
    BY DEF FullConfigs
<1>3. /\ Len(c.flows) \in Nat /\ DOMAIN c.flows = 1..Len(c.flows)
      /\ \A i \in DOMAIN c.flows : c.flows[i] \in FlowConfigs
    BY <1>2, LenProperties, ElementOfSeq
<1>4. Len(Defaults(c).flows) = Len(c.flows)
  <2> DEFINE g == Defaults(c).flows
             T == {FlowDefaults(c.flows[i]) : i \in DOMAIN c.flows}
  <2>1. DOMAIN g = 1..Len(c.flows) /\ \A i \in DOMAIN g : g[i] \in T
      BY <1>1, <1>3
  <2>2. g \in [1..Len(c.flows) -> T]
      BY <1>1, <2>1
  <2>3. g \in Seq(T)
      BY <1>3, <2>2, SeqDef
  <2>4. DOMAIN g = 1..Len(g) /\ Len(g) \in Nat
      BY <2>3, LenProperties
  <2>5. QED
      BY <1>3, <2>1, <2>4
<1>5. c.flows = [i \in 1..Len(c.flows) |-> c.flows[i]]
    BY <1>2, <1>3
<1>6. QED
    BY <1>1, <1>3, <1>4, <1>5

-----------------------------------------------------------------------------
(* The inductive invariant. *)

\* Flows are numbered from 1, and there are none only in an empty list.
LEMMA Numbers ==
    ASSUME Settings
    PROVE  /\ Len(conf.flows) \in Nat
           /\ DOMAIN conf.flows = 1..Len(conf.flows)
           /\ conf.flows # <<>> => Len(conf.flows) > 0
<1> DEFINE g == conf.flows
           T == {g[i] : i \in 1..Len(g)}
<1>1. Len(g) \in Nat /\ g = [i \in 1..Len(g) |-> g[i]]
    BY DEF Settings
<1> HIDE DEF g
<1>2. g \in [1..Len(g) -> T]
    BY <1>1
<1>3. g \in Seq(T)
    BY <1>1, <1>2, SeqDef
<1>4. g # <<>> => Len(g) > 0
    BY <1>1, <1>3, EmptySeq
<1>5. DOMAIN g = 1..Len(g)
    BY <1>1
<1>6. QED
    BY <1>1, <1>4, <1>5 DEF g

LEMMA InitIInv == Init => IInv
<1> SUFFICES ASSUME Init PROVE IInv
    OBVIOUS
<1>1. conf \in FullConfigs /\ phase = "read" /\ built = 0
    BY ConfigsAssumption DEF Init
<1>2. /\ Len(conf.flows) \in Nat
      /\ conf.flows = [i \in 1..Len(conf.flows) |-> conf.flows[i]]
      /\ \A i \in DOMAIN conf.flows : conf.flows[i] \in FlowConfigs
    BY <1>1, DefaultsFlows
<1>3. \A f \in FlowConfigs : f.name \in Seq(STRING) /\ SizesOf(f) \subseteq Written
    BY DEF FlowConfigs, SizesOf
<1>4. Settings
    BY <1>1, <1>2, <1>3 DEF Settings
<1>5. ValidIsBuilt
    BY <1>1 DEF ValidIsBuilt
<1>6. FlowsInOrder
    BY <1>1 DEF FlowsInOrder, InConstruction
<1>7. QED
    BY <1>1, <1>4, <1>5, <1>6 DEF IInv, Phases

LEMMA FillKeeps ==
    ASSUME IInv, FillDefaultValues
    PROVE  IInv'
<1>1. /\ phase = "read" /\ conf \in FullConfigs /\ built = 0
      /\ phase' = "defaulted" /\ conf' = Defaults(conf) /\ built' = built
    BY DEF FillDefaultValues, IInv, FlowsInOrder
<1>2. /\ conf'.flows = [i \in DOMAIN conf.flows |-> FlowDefaults(conf.flows[i])]
      /\ Len(conf'.flows) = Len(conf.flows) /\ Len(conf.flows) \in Nat
      /\ DOMAIN conf.flows = 1..Len(conf.flows)
      /\ \A i \in DOMAIN conf.flows : conf.flows[i] \in FlowConfigs
    BY <1>1, DefaultsFlows
<1>3. ASSUME NEW i \in DOMAIN conf'.flows
      PROVE  /\ conf'.flows[i].name \in Seq(STRING)
             /\ SizesOf(conf'.flows[i]) \subseteq Written
             /\ conf'.flows[i].uploads >= 1
  <2>1. conf.flows[i] \in FlowConfigs /\ conf'.flows[i] = FlowDefaults(conf.flows[i])
      BY <1>2, <1>3
  <2>2. QED
      BY <2>1, FlowDefaultsTypes
<1>4. Settings'
  <2>1. /\ Len(conf'.flows) \in Nat
        /\ conf'.flows = [i \in 1..Len(conf'.flows) |-> conf'.flows[i]]
      BY <1>2
  <2>2. ASSUME NEW i \in DOMAIN conf'.flows PROVE SizesOf(conf.flows[i])' \subseteq Written
      BY <1>3 DEF SizesOf
  <2>3. QED
      BY <1>3, <2>1 DEF Settings, SizesOf
<1>5. ValidIsBuilt'
    BY <1>1 DEF ValidIsBuilt
<1>6. FlowsInOrder'
    BY <1>1 DEF FlowsInOrder, InConstruction
<1>7. QED
    BY <1>1, <1>4, <1>5, <1>6 DEF IInv, Phases

\* Whether a configuration is valid does not depend on the phase.
LEMMA ValidStays ==
    ASSUME IsValid(conf), conf' = conf
    PROVE  IsValid(conf)'
BY ZenonT(60) DEF IsValid, FlowIsValid, DecompressionIsValid, CompressionIsValid, ParseFails

LEMMA ValidateKeeps ==
    ASSUME IInv, Validate
    PROVE  IInv'
<1>1. /\ phase = "defaulted" /\ built = 0 /\ UNCHANGED <<conf, built>>
      /\ \/ phase' = "adapters" /\ IsValid(conf)
         \/ phase' = "rejected"
    BY DEF Validate, IInv, FlowsInOrder
<1>2. Settings'
    BY <1>1 DEF IInv, Settings, SizesOf
<1>3. ValidIsBuilt'
    BY <1>1, ValidStays DEF ValidIsBuilt
<1>4. Len(conf.flows) \in Nat /\ (conf.flows # <<>> => Len(conf.flows) > 0)
    BY Numbers DEF IInv
<1>5. FlowsInOrder'
    BY <1>1, <1>4 DEF IInv, FlowsInOrder, InConstruction, IsValid
<1>6. QED
    BY <1>1, <1>2, <1>3, <1>5 DEF IInv, Phases
\* A constructor leaves the configuration and the flows built so far alone.
\* Next to show is only how far it got.
LEMMA ConstructKeeps ==
    ASSUME IInv, UNCHANGED conf, phase' \in Phases, FlowsInOrder',
           phase \notin {"read", "defaulted", "rejected"}, phase' # "read"
    PROVE  IInv'
<1>1. Settings'
    BY DEF IInv, Settings, SizesOf
<1>2. IsValid(conf)'
    BY ValidStays DEF IInv, ValidIsBuilt
<1>3. QED
    BY <1>1, <1>2 DEF IInv, ValidIsBuilt

\* The constructors of the current flow, and of the API.
LEMMA ConstructorsKeep ==
    ASSUME IInv, \/ CreateAdapters \/ CreateUploader \/ CreateIngestion
                 \/ CreateAccumulator \/ CreateAPI
    PROVE  IInv'
<1> USE DEF Construct
<1>0. UNCHANGED <<conf, built>> /\ Current' = Current
    BY DEF CreateAdapters, CreateUploader, CreateIngestion, CreateAccumulator, CreateAPI, Current
<1>1. (\A i \in 1..built : Complete(conf.flows[i]))' <=> \A i \in 1..built : Complete(conf.flows[i])
    BY <1>0 DEF Complete, HasAccumulator, AccumulatorIsSound
<1>2. (HasAccumulator(Current) => AccumulatorIsSound(Current))'
           <=> (HasAccumulator(Current) => AccumulatorIsSound(Current))
    BY <1>0 DEF HasAccumulator, AccumulatorIsSound
<1>3. CASE CreateAdapters
  <2>1. phase = "adapters" /\ phase' \in {"uploader", "panicked"}
      BY <1>3 DEF CreateAdapters
  <2>2. FlowsInOrder'
      BY <1>0, <1>1, <2>1 DEF IInv, FlowsInOrder, InConstruction
  <2>3. QED
      BY <1>0, <2>1, <2>2, ConstructKeeps DEF Phases
<1>4. CASE CreateUploader
  <2>1. /\ phase = "uploader"
        /\ (phase' = "ingestion" /\ Current.inbox >= 0) \/ phase' = "panicked"
      BY <1>4 DEF CreateUploader
  <2>2. FlowsInOrder'
      BY <1>0, <1>1, <2>1 DEF IInv, FlowsInOrder, InConstruction
  <2>3. QED
      BY <1>0, <2>1, <2>2, ConstructKeeps DEF Phases
<1>5. CASE CreateIngestion
  <2>1. phase = "ingestion" /\ phase' \in {"accumulator", "panicked"}
      BY <1>5 DEF CreateIngestion
  <2>2. FlowsInOrder'
      BY <1>0, <1>1, <2>1 DEF IInv, FlowsInOrder, InConstruction
  <2>3. QED
      BY <1>0, <2>1, <2>2, ConstructKeeps DEF Phases
<1>6. CASE CreateAccumulator
  <2>1. /\ phase = "accumulator"
        /\ \/ phase' = "workers" /\ (HasAccumulator(Current) => AccumulatorIsSound(Current))
           \/ phase' = "panicked"
      BY <1>6 DEF CreateAccumulator
  <2>2. FlowsInOrder'
      BY <1>0, <1>1, <1>2, <2>1 DEF IInv, FlowsInOrder, InConstruction
  <2>3. QED
      BY <1>0, <2>1, <2>2, ConstructKeeps DEF Phases
<1>7. CASE CreateAPI
  <2>1. /\ phase = "api"
        /\ \/ phase' = "running" /\ \A i \in DOMAIN conf.flows : conf.flows[i].tokens >= 0
           \/ phase' = "panicked"
      BY <1>7 DEF CreateAPI
  <2>2. FlowsInOrder'
      BY <1>0, <1>1, <2>1 DEF IInv, FlowsInOrder, InConstruction
  <2>3. QED
      BY <1>0, <2>1, <2>2, ConstructKeeps DEF Phases
<1>8. QED
    BY <1>3, <1>4, <1>5, <1>6, <1>7

\* The last constructor of a flow, after which the next flow's begin.
LEMMA WorkersKeep ==
    ASSUME IInv, CreateWorkers
    PROVE  IInv'
<1>1. /\ phase = "workers" /\ built \in Nat /\ built < Len(conf.flows)
      /\ \A i \in 1..built : Complete(conf.flows[i])
      /\ Current.inbox >= 0 /\ (HasAccumulator(Current) => AccumulatorIsSound(Current))
    BY DEF CreateWorkers, IInv, FlowsInOrder, InConstruction
<1>2. Len(conf.flows) \in Nat
    BY Numbers DEF IInv
<1>3. conf' = conf
    BY DEF CreateWorkers
<1>4. CASE phase' = "panicked" /\ built' = built
  <2>1. FlowsInOrder'
      BY <1>1, <1>3, <1>4 DEF FlowsInOrder, InConstruction, Complete, HasAccumulator,
                              AccumulatorIsSound
  <2>2. QED
      BY <1>1, <1>3, <1>4, <2>1, ConstructKeeps DEF Phases
<1>5. CASE /\ Len(Current.storages) = Len(Current.queues)
           /\ built' = built + 1
           /\ phase' = IF built' = Len(conf.flows) THEN "api" ELSE "adapters"
  <2>1. Complete(conf.flows[built + 1])
      BY <1>1, <1>5 DEF Complete, Current
  <2>2. \A i \in 1..(built + 1) : Complete(conf.flows[i])
      BY <1>1, <2>1
  <2>3. (\A i \in 1..built : Complete(conf.flows[i]))'
      BY <1>3, <1>5, <2>2 DEF Complete, HasAccumulator, AccumulatorIsSound
  <2>4. FlowsInOrder'
      BY <1>1, <1>2, <1>3, <1>5, <2>3 DEF FlowsInOrder, InConstruction
  <2>5. QED
      BY <1>1, <1>3, <1>5, <2>4, ConstructKeeps DEF Phases
<1>6. QED
    BY <1>4, <1>5 DEF CreateWorkers

LEMMA IInvStep == IInv /\ [Next]_vars => IInv'
<1> SUFFICES ASSUME IInv, [Next]_vars PROVE IInv'
    OBVIOUS
<1>1. CASE UNCHANGED vars
  <2>1. conf' = conf /\ phase' = phase /\ built' = built
      BY <1>1 DEF vars
  <2>2. Settings'
      BY <2>1 DEF IInv, Settings, SizesOf
  <2>3. ValidIsBuilt'
      BY <2>1, ValidStays DEF IInv, ValidIsBuilt
  <2>4. FlowsInOrder'
      BY <2>1 DEF IInv, FlowsInOrder, InConstruction, Complete, HasAccumulator,
                  AccumulatorIsSound, Current
  <2>5. QED
      BY <2>1, <2>2, <2>3, <2>4 DEF IInv
<1>2. QED
    BY <1>1, FillKeeps, ValidateKeeps, ConstructorsKeep, WorkersKeep DEF Next

\* The inductive invariant holds of every start.
THEOREM StartupInvariant == Spec => []IInv
BY InitIInv, IInvStep, PTL DEF Spec
-----------------------------------------------------------------------------
(* What a running application can rely on. *)

\* For every configuration: what runs satisfies the assumptions the other
\* modules make of their constants.
THEOREM WhatRunsIsSound == Spec => []RunningIsSound
<1>1. ASSUME IInv, phase = "running", NEW i \in DOMAIN conf.flows
      PROVE  LET f == conf.flows[i] IN
             /\ f.uploads >= 1 /\ f.inbox >= 0
             /\ HasAccumulator(f) =>
                   /\ ToBytes(f.accSize) > 1
                   /\ f.separator < ToBytes(f.accSize)
                   /\ f.accCapacity >= 2
             /\ f.tokens >= 0
             /\ f.active \subseteq NewReader
             /\ Len(f.storages) = Len(f.queues)
             /\ f.level \in {"", "in range"} => ~NewWriterFails(f)
             /\ f.ingestionInterval > 0 /\ f.accInterval > 0
  <2> DEFINE f == conf.flows[i]
  <2>1. Complete(f) /\ f.tokens >= 0
      BY <1>1, Numbers DEF IInv, FlowsInOrder
  <2>2. f.uploads >= 1
      BY <1>1 DEF IInv, Settings
  <2>3. FlowIsValid(f)
      BY <1>1 DEF IInv, ValidIsBuilt, IsValid
  <2> HIDE DEF f
  <2>4. f.active \subseteq NewReader
      BY <2>3 DEF FlowIsValid, DecompressionIsValid, Algorithms, NewReader
  <2>5. f.level \in {"", "in range"} => ~NewWriterFails(f)
      BY <2>3 DEF FlowIsValid, CompressionIsValid, NewWriterFails
  <2>6. f.ingestionInterval > 0 /\ f.accInterval > 0
      BY <2>3 DEF FlowIsValid
  <2>7. QED
      BY <2>1, <2>2, <2>4, <2>5, <2>6 DEF f, Complete, AccumulatorIsSound
<1>2. IInv => RunningIsSound
    BY <1>1 DEF RunningIsSound
<1>3. QED
    BY <1>2, StartupInvariant, PTL

-----------------------------------------------------------------------------
(* Routes. *)

\* A set of indices has a largest one.
LEMMA MaxOfIndices ==
    ASSUME NEW n \in Nat, NEW S, S \subseteq 1..n, S # {}
    PROVE  Max(S) \in S /\ \A x \in S : Max(S) >= x
<1> DEFINE T == {k \in Nat : n - k \in S}
<1>1. PICK s \in S : TRUE
    OBVIOUS
<1>2. n - s \in Nat /\ n - (n - s) = s
    OBVIOUS
<1>3. n - s \in T
    BY <1>1, <1>2
<1>4. PICK k \in T : \A j \in T : k <= j
    BY <1>3, Least
<1>5. k \in Nat /\ n - k \in S
    OBVIOUS
<1>6. ASSUME NEW y \in S PROVE n - k >= y
  <2>1. n - y \in Nat /\ n - (n - y) = y
      OBVIOUS
  <2>2. k <= n - y
      BY <1>4, <2>1
  <2>3. QED
      BY <1>5, <2>2
<1>7. \E x \in S : \A y \in S : x >= y
    BY <1>5, <1>6
<1>8. QED
    BY <1>7 DEF Max

\* The last, or the first, segments of a path determine the rest.
LEMMA Cancel ==
    ASSUME NEW S, NEW s \in Seq(S), NEW t \in Seq(S), NEW u \in Seq(S)
    PROVE  /\ s \o u = t \o u => s = t
           /\ u \o s = u \o t => s = t
BY ConcatSimplifications

\* Two flows have a path in common only if they share their name, or one is
\* named like the versioned path of the other.
LEMMA SharedPath ==
    ASSUME NEW f, NEW g, f.name \in Seq(STRING), g.name \in Seq(STRING),
           NEW path, path \in Paths(f), path \in Paths(g)
    PROVE  \/ f.name = g.name
           \/ g.name = Versioned(f.name)
           \/ f.name = Versioned(g.name)
<1> DEFINE fn == f.name
           gn == g.name
           v == <<Version>>
           e == <<Ingestion>>
           vf == v \o fn
           vg == v \o gn
           S == STRING \cup {Version, Ingestion}
<1>1. /\ fn \in Seq(S) /\ gn \in Seq(S) /\ v \in Seq(S) /\ e \in Seq(S)
      /\ vf \in Seq(S) /\ vg \in Seq(S)
  <2>1. fn \in Seq(S) /\ gn \in Seq(S)
      BY SeqMonotonic
  <2>2. v \in Seq(S) /\ e \in Seq(S)
      BY Singleton
  <2>3. QED
      BY <2>1, <2>2, ConcatProperties
<1>2. path \in {fn \o e, vf \o e} /\ path \in {gn \o e, vg \o e}
    BY DEF Paths
<1> HIDE DEF fn, gn, v, e, S, vf, vg
<1>3. fn \o e = gn \o e => fn = gn
    BY <1>1, Cancel
<1>4. vf \o e = vg \o e => fn = gn
  <2>1. vf = vg => fn = gn
      BY <1>1, Cancel DEF vf, vg
  <2>2. vf \o e = vg \o e => vf = vg
      BY <1>1, Cancel
  <2>3. QED
      BY <2>1, <2>2
<1>5. fn \o e = vg \o e => fn = vg
    BY <1>1, Cancel
<1>6. vf \o e = gn \o e => vf = gn
    BY <1>1, Cancel
<1>7. fn = gn \/ gn = vf \/ fn = vg
    BY <1>2, <1>3, <1>4, <1>5, <1>6
<1>8. QED
    BY <1>7 DEF fn, gn, v, vf, vg, Versioned

\* The segments that chi takes at their word.
Literals == (STRING \cup {Version, Ingestion}) \ Parameters

\* A pattern of such segments has a node of its own.
LEMMA LiteralNode ==
    ASSUME NEW path \in Seq(Literals), NEW S, NEW p \in Seq(S)
    PROVE  Node(path) = path /\ (Node(p) = path => p = path)
<1>1. /\ path = [k \in 1..Len(path) |-> path[k]] /\ p = [k \in 1..Len(p) |-> p[k]]
      /\ DOMAIN path = 1..Len(path) /\ DOMAIN p = 1..Len(p)
    BY LenProperties
<1>2. \A k \in 1..Len(path) : path[k] \notin Parameters /\ path[k] # AnyName
    BY ElementOfSeq, ParametersAssumption DEF Literals
<1>3. Node(path) = path
    BY <1>1, <1>2 DEF Node
<1>4. ASSUME Node(p) = path PROVE p = path
  <2>1. DOMAIN p = DOMAIN path
      BY <1>4 DEF Node
  <2>2. \A k \in DOMAIN p : path[k] = IF p[k] \in Parameters THEN AnyName ELSE p[k]
      BY <1>4 DEF Node
  <2>3. \A k \in DOMAIN p : path[k] = p[k]
      BY <1>1, <1>2, <2>1, <2>2
  <2>4. QED
      BY <1>1, <2>1, <2>3
<1>5. QED
    BY <1>3, <1>4

\* A request whose path is such a pattern goes to it, and to no parameter.
LEMMA LiteralRoute ==
    ASSUME NEW path \in Seq(Literals), path \in Registered,
           \A m \in Registered : m = [k \in DOMAIN m |-> m[k]]
    PROVE  Route(path) = path
<1> DEFINE First(n) == Fits(n, path) /\ \A m \in Registered : Fits(m, path) => TriedFirst(n, m)
<1>1. /\ DOMAIN path = 1..Len(path) /\ Len(path) \in Nat
      /\ path = [k \in DOMAIN path |-> path[k]]
    BY LenProperties
<1>2. \A k \in DOMAIN path : path[k] # AnyName
    BY <1>1, ElementOfSeq, ParametersAssumption DEF Literals
<1>3. ASSUME NEW m \in Registered, Fits(m, path) PROVE TriedFirst(path, m)
  <2> DEFINE T == {k \in DOMAIN path : m[k] # path[k]}
  <2>1. CASE T = {}
    <3>1. DOMAIN m = DOMAIN path /\ \A k \in DOMAIN path : m[k] = path[k]
        BY <1>3, <2>1 DEF Fits
    <3>2. m = path
        BY <1>1, <3>1
    <3>3. QED
        BY <3>2 DEF TriedFirst
  <2>2. CASE T # {}
    <3>1. T \subseteq Nat
        BY <1>1
    <3>2. PICK k \in T : \A l \in T : k <= l
        BY <2>2, <3>1, Least
    <3>3. k \in DOMAIN path /\ m[k] = AnyName /\ path[k] # AnyName
        BY <1>2, <1>3 DEF Fits
    <3>4. \A l \in 1..(k - 1) : path[l] = m[l]
        BY <1>1, <3>2
    <3>5. QED
        BY <3>3, <3>4 DEF TriedFirst
  <2>3. QED
      BY <2>1, <2>2
<1>4. First(path)
    BY <1>3 DEF Fits
<1>5. ASSUME NEW n \in Registered, First(n) PROVE n = path
    BY <1>2, <1>5 DEF Fits, TriedFirst
<1> HIDE DEF First
<1>6. (CHOOSE n \in Registered : First(n)) = path
    BY <1>4, <1>5
<1>7. QED
    BY <1>6 DEF Route, First

\* What is posted to a path of such segments goes to a flow that has this
\* path, and to the last of them.
LEMMA LiteralOwner ==
    ASSUME Settings, NEW i \in DOMAIN conf.flows,
           NEW path \in Paths(conf.flows[i]), path \in Seq(Literals)
    PROVE  /\ Owner(path) \in DOMAIN conf.flows /\ Owner(path) >= i
           /\ path \in Paths(conf.flows[Owner(path)])
<1> DEFINE S == STRING \cup {Version, Ingestion}
           Owners == {j \in DOMAIN conf.flows :
                          \E p \in Paths(conf.flows[j]) : Node(p) = Route(path)}
<1>1. ASSUME NEW j \in DOMAIN conf.flows, NEW p \in Paths(conf.flows[j]) PROVE p \in Seq(S)
  <2>1. conf.flows[j].name \in Seq(S)
      BY SeqMonotonic DEF Settings
  <2>2. <<Version>> \in Seq(S) /\ <<Ingestion>> \in Seq(S)
      BY Singleton
  <2> HIDE DEF S, Owners
  <2>3. /\ conf.flows[j].name \o <<Ingestion>> \in Seq(S)
        /\ <<Version>> \o conf.flows[j].name \in Seq(S)
      BY <2>1, <2>2, ConcatProperties
  <2>4. (<<Version>> \o conf.flows[j].name) \o <<Ingestion>> \in Seq(S)
      BY <2>2, <2>3, ConcatProperties
  <2>5. QED
      BY <1>1, <2>3, <2>4, Zenon DEF Paths, Versioned
<1>2. Node(path) = path
  <2>1. path \in Seq(Literals)
      OBVIOUS
  <2> HIDE DEF S, Owners
  <2>2. QED
      BY <2>1, LiteralNode
<1>3. path \in Registered
    BY <1>2 DEF Registered
<1>4. \A m \in Registered : m = [k \in DOMAIN m |-> m[k]]
    BY DEF Registered, Node
<1>5. Route(path) = path
    BY <1>3, <1>4, LiteralRoute
<1>6. i \in Owners /\ Owners \subseteq 1..Len(conf.flows) /\ Len(conf.flows) \in Nat
    BY <1>2, <1>5, Numbers
<1>7. Max(Owners) \in Owners /\ Max(Owners) >= i
    BY <1>6, MaxOfIndices
<1>8. \A j \in Owners : path \in Paths(conf.flows[j])
    BY <1>1, <1>5, LiteralNode
<1>9. Owner(path) = Max(Owners)
    BY DEF Owner
<1> HIDE DEF Owners
<1>10. Max(Owners) \in DOMAIN conf.flows /\ path \in Paths(conf.flows[Max(Owners)])
    BY <1>7, <1>8 DEF Owners
<1>11. QED
    BY <1>7, <1>9, <1>10

\* A plain name makes two such paths, and is no other flow's versioned path.
LEMMA PlainPaths ==
    ASSUME NEW f, f.name \in Seq(STRING), f.name # <<>>, IsPlain(f.name)
    PROVE  /\ f.name \o <<Ingestion>> \in Seq(Literals)
           /\ Versioned(f.name) \o <<Ingestion>> \in Seq(Literals)
           /\ \A name \in Seq(STRING \cup {Version}) : f.name # Versioned(name)
<1> DEFINE fn == f.name
<1>1. /\ fn \in Seq(STRING) /\ fn # <<>> /\ Len(fn) \in Nat /\ Len(fn) > 0
      /\ DOMAIN fn = 1..Len(fn) /\ fn = [k \in 1..Len(fn) |-> fn[k]]
    BY EmptySeq, LenProperties
<1>2. fn[1] # Version /\ \A k \in DOMAIN fn : fn[k] \notin Parameters
    BY DEF IsPlain
<1> HIDE DEF fn
<1>3. fn \in [1..Len(fn) -> Literals]
    BY <1>1, <1>2, ElementOfSeq DEF Literals
<1>4. fn \in Seq(Literals)
    BY <1>1, <1>3, SeqDef
<1>5. <<Version>> \in Seq(Literals) /\ <<Ingestion>> \in Seq(Literals)
    BY Singleton, ParametersAssumption DEF Literals
<1>6. /\ fn \o <<Ingestion>> \in Seq(Literals)
      /\ (<<Version>> \o fn) \o <<Ingestion>> \in Seq(Literals)
    BY <1>4, <1>5, ConcatProperties
<1>7. ASSUME NEW name \in Seq(STRING \cup {Version}) PROVE fn # Versioned(name)
  <2> DEFINE S == STRING \cup {Version}
             v == <<Version>>
  <2>1. name \in Seq(S) /\ v \in Seq(S) /\ Len(v) = 1 /\ v[1] = Version
      BY Singleton
  <2> HIDE DEF v
  <2>2. (v \o name)[1] = v[1]
      BY <2>1, ConcatProperties, LenProperties
  <2>3. QED
      BY <1>2, <2>1, <2>2 DEF Versioned, v
<1>8. QED
    BY <1>6, <1>7 DEF fn, Versioned

\* For any flows, whatever their names and in whatever order: what is posted
\* to the path of a flow with a plain name reaches that flow, and only a
\* later one with the name of its versioned path takes that one over.
THEOREM PlainRoutes == Spec => []PlainRoutesReachTheirFlow
<1>1. ASSUME IInv, phase = "running", NEW i \in DOMAIN conf.flows,
             IsPlain(conf.flows[i].name)
      PROVE  LET name      == conf.flows[i].name
                 plain     == Owner(name \o <<Ingestion>>)
                 versioned == Owner(Versioned(name) \o <<Ingestion>>)
             IN  /\ plain = i
                 /\ versioned # i => /\ versioned > i
                                     /\ conf.flows[versioned].name = Versioned(name)
  <2> DEFINE name == conf.flows[i].name
             p == name \o <<Ingestion>>
             v == Versioned(name) \o <<Ingestion>>
  <2>1. Settings /\ \A j \in DOMAIN conf.flows : conf.flows[j].name \in Seq(STRING)
      BY <1>1 DEF IInv, Settings
  <2>2. name # <<>>
      BY <1>1 DEF IInv, ValidIsBuilt, IsValid, FlowIsValid
  <2>3. \A j \in DOMAIN conf.flows : conf.flows[j].name = name => j = i
      BY <1>1 DEF IInv, ValidIsBuilt, IsValid
  <2>4. /\ p \in Seq(Literals) /\ v \in Seq(Literals)
        /\ \A other \in Seq(STRING \cup {Version}) : name # Versioned(other)
      BY <1>1, <2>1, <2>2, PlainPaths
  <2>5. p \in Paths(conf.flows[i]) /\ v \in Paths(conf.flows[i])
      BY DEF Paths, Versioned
  <2>6. ASSUME NEW path \in {p, v}
        PROVE  /\ Owner(path) \in DOMAIN conf.flows /\ Owner(path) >= i
               /\ path \in Paths(conf.flows[Owner(path)])
               /\ \/ Owner(path) = i
                  \/ conf.flows[Owner(path)].name = Versioned(name)
    <3>1. /\ Owner(path) \in DOMAIN conf.flows /\ Owner(path) >= i
          /\ path \in Paths(conf.flows[Owner(path)]) /\ path \in Paths(conf.flows[i])
        BY <2>1, <2>4, <2>5, LiteralOwner
    <3>2. PICK k \in DOMAIN conf.flows : k = Owner(path)
        BY <3>1
    <3>3. \/ name = conf.flows[k].name
          \/ conf.flows[k].name = Versioned(name)
          \/ name = Versioned(conf.flows[k].name)
        BY <2>1, <3>1, <3>2, SharedPath
    <3>4. conf.flows[k].name \in Seq(STRING \cup {Version})
        BY <2>1, SeqMonotonic
    <3>5. QED
        BY <2>3, <2>4, <3>1, <3>2, <3>3, <3>4
  <2>7. Owner(p) = i
    <3> DEFINE S == STRING \cup {Version, Ingestion}
               e == <<Ingestion>>
               vn == Versioned(name)
               vvn == Versioned(vn)
    <3>1. /\ name \in Seq(STRING \cup {Version}) /\ <<Version>> \in Seq(STRING \cup {Version})
          /\ e \in Seq(S)
        BY <2>1, SeqMonotonic, Singleton
    <3>2. vn \in Seq(STRING \cup {Version}) /\ vvn \in Seq(STRING \cup {Version})
        BY <3>1, ConcatProperties DEF Versioned
    <3>3. name \in Seq(S) /\ vn \in Seq(S) /\ vvn \in Seq(S)
        BY <3>1, <3>2, SeqMonotonic
    <3>4. name # vn /\ name # vvn
        BY <2>4, <3>1, <3>2
    <3> HIDE DEF vn, vvn, e, name, S, p, v
    <3>5. name \o e # vn \o e /\ name \o e # vvn \o e
      <4>1. \A t \in Seq(S) : name \o e = t \o e => name = t
          BY <3>1, <3>3, Cancel
      <4>2. QED
          BY <4>1, <3>3, <3>4
    <3>6. p = name \o e
        BY DEF p, e
    <3>7. ASSUME NEW k \in DOMAIN conf.flows, p \in Paths(conf.flows[k])
          PROVE  conf.flows[k].name # vn
        BY <3>5, <3>6, <3>7 DEF Paths, vvn, e, Versioned
    <3>8. QED
        BY <2>6, <3>7 DEF vn
  <2>8. i \in Nat /\ Owner(v) \in Nat
      BY <1>1, <2>1, <2>6, Numbers
  <2>9. QED
      BY <2>6, <2>7, <2>8
<1>2. IInv => PlainRoutesReachTheirFlow
    BY <1>1 DEF PlainRoutesReachTheirFlow
<1>3. QED
    BY <1>2, StartupInvariant, PTL

-----------------------------------------------------------------------------
(* Sizes. *)

\* An int64 that holds a number is that number.
LEMMA NoWrap ==
    ASSUME NEW n \in Nat, n < Word
    PROVE  Wrapped(n) = n
<1>1. n + Word \in Nat /\ n + Word < 2 * Word
    BY WordAssumption
<1>2. ASSUME NEW x \in Nat, NEW m \in Nat, x < m PROVE x % m = x
    BY <1>2
<1>3. (n + Word) % (2 * Word) = n + Word
    BY <1>1, <1>2, WordAssumption
<1>4. QED
    BY <1>3, WordAssumption DEF Wrapped

\* For every Kilo and Word, 1024 and 2^63 among them: ToBytes of a size in
\* kb, mb or gb is that size if an int64 holds it.
THEOREM SmallSizes == Spec => []SmallSizesAreAsWritten
<1>1. ASSUME NEW size \in Written, size.unit \in {"kb", "mb", "gb"}, AsWritten(size) < Word
      PROVE  ToBytes(size) = AsWritten(size)
  <2> DEFINE power == Powers[Meaning[size.unit]]
  <2>1. Powers[1] \in Nat /\ Powers[2] \in Nat /\ Powers[3] \in Nat
      BY KiloAssumption DEF Powers
  <2>2. /\ size.unit \in DOMAIN Exponential
        /\ Exponential[size.unit] = Meaning[size.unit]
        /\ Meaning[size.unit] \in {1, 2, 3}
      BY <1>1 DEF Exponential, Meaning
  <2>3. power \in Nat /\ size.number \in Nat
      BY <2>1, <2>2 DEF Written
  <2>4. ToBytes(size) = Wrapped(size.number * power) /\ AsWritten(size) = size.number * power
      BY <2>2 DEF ToBytes, AsWritten
  <2> HIDE DEF power
  <2>5. size.number * power \in Nat
      BY <2>3
  <2>6. QED
      BY <1>1, <2>4, <2>5, NoWrap
<1>2. IInv => SmallSizesAreAsWritten
    BY <1>1 DEF IInv, Settings, SmallSizesAreAsWritten
<1>3. QED
    BY <1>2, StartupInvariant, PTL
=============================================================================
