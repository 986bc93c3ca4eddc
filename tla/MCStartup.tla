----------------------------- MODULE MCStartup -----------------------------
(* Small instances of Startup for TLC. *)
EXTENDS Startup

\* A flow that validates and starts...
Plain ==
    [name |-> <<"a">>, uploads |-> 1, inbox |-> 1, prefixes |-> 1, active |-> {"gzip"},
     tokens |-> 1, buffer |-> Size(5, "bytes"), ingestionInterval |-> 100,
     accSize |-> Size(2, "kb"), separator |-> 1, accCapacity |-> 2, accInterval |-> 100,
     compression |-> "gzip", level |-> "", prealloc |-> 2,
     storages |-> <<Adapter("s3", "loads")>>, queues |-> <<Adapter("sqs", "loads")>>]

\* ...and what each of its fields may be instead.
Other ==
    [name |-> {<<>>, <<"with space">>, <<"v1", "a">>, <<"v1", "v1", "a">>, <<"*">>, <<"{">>,
               <<"{a}">>, <<"{a}", "{b}">>, <<"{a}", "{a}">>}, uploads |-> {-1, 0}, inbox |-> {-1, 0},
     prefixes |-> {-1, 0}, active |-> {{}, {"lzma"}, {"deflate", "zstd"}}, tokens |-> {-1, 0},
     buffer |-> {NoSize, Size(1, "invalid"), Size(2, "eb"), Size(3, "kb")}, ingestionInterval |-> {-1, 0},
     accSize |-> {NoSize, Size(0, "kb"), Size(1, "bytes"), Size(3, "mb"), Size(2, "gb"), Size(5, "tb"),
                  Size(5, "pb"), Size(8, "eb"), Size(9000, "bytes"), Size(1, "invalid")},
     separator |-> {0, 8}, accCapacity |-> {-1, 1}, accInterval |-> {-1, 0},
     compression |-> {"", "lzma", "snappy"}, prealloc |-> {-1, 0, 101},
     level |-> {"not a number", "out of range", "in range"},
     storages |-> {<<>>, <<Adapter("", "")>>, <<Adapter("localstorage", "file")>>,
                   <<Adapter("localstorage", "directory"), Adapter("httpstorage", "url with %s")>>,
                   <<Adapter("httpstorage", "two of %s")>>},
     queues |-> {<<>>, <<Adapter("", "")>>, <<Adapter("kafka", "")>>, <<Adapter("sqs", "no url")>>,
                 <<Adapter("noop", ""), Adapter("http", "url")>>}]

\* As flows, those with one field changed.
Changed(flows, other) ==
    flows \cup UNION {{[f EXCEPT ![field] = v] : v \in other[field]}
                      : f \in flows, field \in DOMAIN other}

Config(flows) ==
    [port |-> 0, limit |-> NoSize, logLevel |-> "", flows |-> flows]

\* Names that are like each other's paths.
Namesakes == {<<"a">>, <<"v1", "a">>, <<"v1", "v1", "a">>, <<"{a}">>, <<"{b}">>, <<"v1", "{a}">>}

Named(names) == Config([i \in DOMAIN names |-> [Plain EXCEPT !.name = names[i]]])

\* One flow with up to two fields changed, two flows with one, three that
\* are namesakes, and changes of what is not about flows.
MCConfigs ==
    {Config(<<f>>) : f \in Changed(Changed({Plain}, Other), Other)}
    \cup {Config(<<[Plain EXCEPT !.name = n], f>>) :
             n \in {<<"a">>, <<"b">>}, f \in Changed({Plain}, Other)}
    \cup {Named(names) : names \in [1..3 -> Namesakes]}
    \cup Changed({Config(<<Plain>>), Config(<<>>)},
                 [port |-> {8080}, logLevel |-> {"warn", "verbose"},
                  limit |-> {Size(1, "kb"), Size(1, "invalid")}])
=============================================================================
