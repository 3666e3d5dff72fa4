------------------------------ MODULE MCAthena ------------------------------
(* Pairs of calls of one Client, next to tables that others have made.      *)
EXTENDS Athena

MCCalls == {"1", "2"}
MCTokens == MCCalls \cup {"gobi", "prepass", "first", "second", "results", "workgroup", "/", "raw", "lake",
                          "a", "ax", "x", "events", "places", "_old", "other", "k", "t", ""}

ByTime == <<[column |-> "t", descending |-> TRUE]>>
MCUnload == [op |-> "unload", format |-> "unknown", columns |-> <<"k">>, buckets |-> 2, order |-> ByTime,
             prepass |-> FALSE, projected |-> {"k", "t"}, table |-> NoTable, location |-> <<>>,
             cleanup |-> "inherit", claim |-> NoClaim, rows |-> {0, 1}]
MCBuckets == [MCUnload EXCEPT !.op = "unload_buckets"]
MCQuery == [MCUnload EXCEPT !.op = "query"]
\* The location of one is a prefix of the other's, but no parent of it.
MCRaw == [MCUnload EXCEPT !.op = "raw", !.format = "hive", !.table = <<"a">>, !.location = <<"raw", "/", "a">>]
MCSibling == [MCRaw EXCEPT !.table = <<"ax">>, !.location = <<"raw", "/", "a", "x", "/">>, !.cleanup = "all"]
MCRawBuckets == [MCRaw EXCEPT !.op = "raw_buckets"]
MCOpen(table) == [MCUnload EXCEPT !.op = "open", !.table = table]

HiveTable == <<"events">>
IcebergTable == <<"places">>
MCClaim == [columns |-> <<"k">>, hash |-> "iceberg/bucket/v1", sortedBy |-> ByTime, enforced |-> TRUE]

Group(engine, enforced) == [engine |-> engine, enforced |-> enforced]
Both(groups, one, other) ==
    {[workgroup |-> g, request |-> [c \in MCCalls |-> IF c = "1" THEN one ELSE other]] : g \in groups}

V2 == Group("v2", FALSE)
V3 == Group("v3", FALSE)

MCScenarios == UNION
    {Both({V2}, [MCUnload EXCEPT !.cleanup = "all"], MCQuery),
     Both({V2}, [MCBuckets EXCEPT !.rows = {1}], MCOpen(HiveTable)),
     Both({V3}, [MCUnload EXCEPT !.cleanup = "all"], [MCBuckets EXCEPT !.format = "iceberg", !.cleanup = "none", !.rows = {1}]),
     Both({Group("v3", TRUE)}, [MCUnload EXCEPT !.format = "hive", !.cleanup = "all"], [MCBuckets EXCEPT !.order = <<>>]),
     Both({V3}, [MCUnload EXCEPT !.prepass = TRUE], [MCBuckets EXCEPT !.format = "hive", !.rows = {1}]),
     Both({V2}, [MCUnload EXCEPT !.prepass = TRUE, !.projected = {"t"}], [MCUnload EXCEPT !.buckets = 0]),
     Both({V2}, [MCBuckets EXCEPT !.buckets = 0], [MCRaw EXCEPT !.location = <<>>]),
     Both({V3}, MCRaw, MCSibling),
     Both({V3}, [MCRaw EXCEPT !.rows = {}], MCOpen(HiveTable)),
     Both({V2, Group("v2", TRUE)}, MCRawBuckets, MCOpen(<<"a">>)),
     Both({V3}, [MCRawBuckets EXCEPT !.buckets = 0, !.rows = {0}], [MCOpen(IcebergTable) EXCEPT !.claim = MCClaim]),
     Both({V3}, [MCRaw EXCEPT !.format = "iceberg"], MCOpen(IcebergTable))}

\* An ordinary call whose SQL names a table that is not there, and one that
\* insists on Iceberg, in a workgroup that knows it.
MCForced == Both({V3}, MCUnload, [MCUnload EXCEPT !.format = "iceberg"])

MCFile(shape, bucket, format) ==
    [shape |-> shape, bucket |-> bucket, hash |-> format, columns |-> <<"k">>,
     sortedBy |-> IF format = "iceberg" THEN ByTime ELSE <<>>]
MCObject(dir, by, file) == [dir |-> dir, by |-> by, file |-> file]
MCExternal ==
    [catalog |-> (HiveTable :> [format |-> "hive", location |-> <<"lake", "/", "events">>, columns |-> <<"k">>, buckets |-> 2,
                                sort |-> <<[column |-> "t", order |-> 0], [column |-> "", order |-> 1]>>])
              @@ (IcebergTable :> [format |-> "iceberg", location |-> <<"lake", "/", "places", "/">>, columns |-> <<>>,
                                   buckets |-> 0, sort |-> <<>>]),
     objects |-> {MCObject(<<"lake", "/", "events", "/">>, <<>>, MCFile("hive", 1, "hive")),
                  MCObject(<<"lake", "/", "events", "/">>, <<>>, MCFile("marker", 0, "hive")),
                  MCObject(<<"lake", "/", "events", "_old", "/">>, <<"other">>, MCFile("hive", 0, "hive")),
                  MCObject(<<"lake", "/", "places", "/">>, <<>>, MCFile("iceberg", 0, "iceberg")),
                  MCObject(<<"lake", "/", "places", "/">>, <<>>, MCFile("metadata", 0, "iceberg"))}]

\* The callers of these scenarios use names and places of their own, and say
\* what is true of the tables of others.
ASSUME MCApart == \A s \in MCScenarios \cup MCForced :
                    NamesApart(s.request) /\ PlacesApart(s.request) /\ OthersAreTrue(s.request)
=============================================================================
