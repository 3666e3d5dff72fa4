------------------------------- MODULE Athena -------------------------------
(***************************************************************************)
(* The Athena client: calls of one Client that run at once, the tables     *)
(* they leave in the Glue catalog, and Close, which drops them.  A call    *)
(* submits a query, polls it with a growing pause and a deadline, checks   *)
(* what Glue says of the table, lists its files and reads them; an         *)
(* UnloadAndRead whose Iceberg table is refused tries again with a Hive    *)
(* table and remembers.  Athena, Glue and S3 are external: a query ends    *)
(* when it likes or never, and a request to a service may fail.            *)
(*                                                                         *)
(* A location is a sequence of tokens, "/" among them, so that one can be  *)
(* a prefix of another as strings are.  An object is a file in a           *)
(* directory: its name's shape, the bucket it holds, and what is true of   *)
(* its rows.  All pages of a listing are one step.                         *)
(***************************************************************************)
EXTENDS Integers, Sequences, SequencesExt, FiniteSets

CONSTANTS Calls,            \* the calls, named by strings
          Tokens,           \* what names and locations are made of
          Scenarios,        \* [workgroup, request]: where the calls run, what each asks
          DefaultCleanup,   \* ClientConfig.Cleanup, as NewClient leaves it
          External,         \* [catalog, objects] of tables made by others
          PollInterval, PollMax, MaxPollDuration,
          MaxFaults,        \* bound: failed requests, failed queries, cancellations
          MaxCloses         \* bound: calls of Close

(* What requests, tables and files are made of. *)

Ops == {"open", "query", "unload", "unload_buckets", "raw", "raw_buckets"}
Cleanups == {"catalog", "all", "none"}
Path == Seq(Tokens)
NoTable == <<>>
Formats == {"unknown", "hive", "iceberg", "select"}
Shapes == {"result", "plain", "iceberg", "hive", "v2", "metadata", "manifest", "marker"}
Orderings == Seq([column : Tokens, descending : BOOLEAN])
Claims == [columns : Path, hash : {"", "hive/bucket/v1", "iceberg/bucket/v1"}, sortedBy : Orderings, enforced : BOOLEAN]
Requests == [op : Ops, format : {"unknown", "hive", "iceberg"}, columns : Path, buckets : Int,
             order : Orderings, prepass : BOOLEAN, projected : SUBSET Tokens, table : Path,
             location : Path, cleanup : Cleanups \cup {"inherit"}, claim : Claims, rows : SUBSET Int]

\* The statement of a query: a CTAS, or a SELECT, which makes no table.
Statements == [table : Path, location : Path, format : Formats, columns : Path,
               buckets : Int, order : Orderings]
GlueEntries == [format : {"hive", "iceberg"}, location : Path, columns : Path, buckets : Int,
                sort : Seq([column : Tokens, order : Int])]
Files == [shape : Shapes, bucket : Int, hash : Formats, columns : Path, sortedBy : Orderings]
\* An object is written by a query, or by others.
Objects == [dir : Path, by : (Calls \X (0..2)) \cup Path, file : Files]

\* What Athena does with rows: each is in one of the buckets there are.
RowsFit(asked) == /\ asked.rows \subseteq Nat /\ IsFiniteSet(asked.rows)
                  /\ asked.buckets > 0 => asked.rows \subseteq 0 .. asked.buckets - 1

ASSUME AthenaAssumption == /\ PollInterval \in Nat \ {0} /\ PollMax \in Nat /\ MaxPollDuration \in Nat
                           /\ DefaultCleanup \in Cleanups
                           /\ MaxFaults \in Nat /\ MaxCloses \in Nat
                           /\ Calls \cup {"gobi", "prepass", "first", "second"} \subseteq Tokens
                           /\ {"results", "workgroup", "/"} \subseteq Tokens
                           /\ \A s \in Scenarios :
                                /\ s.request \in [Calls -> Requests]
                                /\ \A c \in Calls : RowsFit(s.request[c])
                           /\ External.catalog \in [DOMAIN External.catalog -> GlueEntries]
                           /\ NoTable \notin DOMAIN External.catalog
                           /\ External.objects \subseteq Objects /\ IsFiniteSet(External.objects)

VARIABLES workgroup, request,   \* what the run is about; they do not change
          call,                 \* the calls
          ledger,               \* Client.createdTables
          hiveFallbackOnly,     \* Client.hiveFallbackOnly
          closer,               \* the running Close and what Close has done
          queries,              \* Athena's queries
          catalog,              \* Glue: table name -> its entry
          objects,              \* S3
          faults                \* failures so far

client == <<call, ledger, hiveFallbackOnly>>
services == <<queries, catalog, objects>>
vars == <<workgroup, request, client, closer, services, faults>>

-----------------------------------------------------------------------------
(* Names. *)

WithSlash(location) == IF location # <<>> /\ Last(location) # "/" THEN Append(location, "/") ELSE location

\* Fault: the prefix as it is given, which also matches a sibling's directory.
WithSlashForgotten(location) == IF location = <<>> THEN Append(location, "/") ELSE location
ListingPrefix(location) == WithSlash(location)

Under(prefix) == {o \in objects : IsPrefix(prefix, o.dir)}

\* Fault: only names that end in .parquet, which engine v2 does not write.
IsCTASDataKeyParquet(file) == file.shape \in {"iceberg", "hive"}
IsCTASDataKey(file) == file.shape \notin {"metadata", "manifest", "marker"}

\* The leading digits of the file's name; engine v2 begins its names with a
\* date, 20240101_120000_00000_bucket-00000.
BucketIndexFromURI(file) == CASE file.shape \in {"iceberg", "hive"} -> file.bucket
                              [] file.shape = "v2" -> 20240101
                              [] OTHER -> -1

Slot(file, listed, slots) ==
    LET index == BucketIndexFromURI(file)
    IN  IF index \in 0 .. slots - 1 THEN index ELSE IF listed < slots THEN listed ELSE -1

Data(files) == {o \in files : IsCTASDataKey(o.file)}
Found(location) == Data(Under(ListingPrefix(location)))

\* The listings there may be: in the order of the names, which begin with the bucket.
ListBucketFiles(location) ==
    {files \in SetToSeqs(Found(location)) :
        \A i, j \in DOMAIN files : i < j => files[i].file.bucket <= files[j].file.bucket}

-----------------------------------------------------------------------------
(* What is asked for. *)

Unloads == {"unload", "unload_buckets"}
Raws == {"raw", "raw_buckets"}
PerBucket == {"unload_buckets", "raw_buckets"}

Op(c) == request[c].op
Cleanup(c) == IF request[c].cleanup = "inherit" THEN DefaultCleanup ELSE request[c].cleanup

Attempts == [n \in 0..2 |-> <<"prepass", "first", "second">>[n + 1]]

\* composeCTAS: a fresh name and a location of its own for each attempt.
ComposeCTAS(c, attempt, format) ==
    [table |-> <<"gobi", c, Attempts[attempt]>>,
     location |-> <<"results", "/", c, Attempts[attempt], "/">>,
     format |-> format, columns |-> request[c].columns,
     buckets |-> request[c].buckets, order |-> request[c].order]

RawCTAS(c) == [table |-> request[c].table, location |-> request[c].location, format |-> request[c].format,
               columns |-> request[c].columns, buckets |-> request[c].buckets, order |-> request[c].order]

Select == [table |-> NoTable, location |-> <<"results", "/">>, format |-> "select", columns |-> <<>>,
           buckets |-> 0, order |-> <<>>]

\* Arguments the call refuses before it asks a service anything.
Refused(c) == IF Op(c) = "unload_buckets" THEN request[c].columns = <<>> \/ request[c].buckets <= 0
              ELSE Op(c) \in Raws /\ request[c].location = <<>>
Composable(c) == request[c].columns # <<>> /\ request[c].buckets > 0

HashTagFor(format) == IF format = "hive" THEN "hive/bucket/v1" ELSE "iceberg/bucket/v1"

ClaimFor(ctas) ==
    [columns |-> ctas.columns, hash |-> HashTagFor(ctas.format), sortedBy |-> ctas.order,
     enforced |-> ctas.format = "iceberg" /\ ctas.order # <<>>]

\* deriveHivePartitionMetadata: Glue's columns without a name are left out, and
\* any order but 1 descends.
DeriveHivePartitionMetadata(entry) ==
    LET named == SelectSeq(entry.sort, LAMBDA s : s.column # "")
    IN  [columns |-> entry.columns, hash |-> HashTagFor("hive"), enforced |-> FALSE,
         sortedBy |-> [i \in DOMAIN named |-> [column |-> named[i].column, descending |-> named[i].order # 1]]]

NoClaim == [columns |-> <<>>, hash |-> "", sortedBy |-> <<>>, enforced |-> FALSE]
Claimed(c) == CASE Op(c) \in Unloads -> ClaimFor(call[c].ctas)
                [] Op(c) \in Raws \cup {"open"} -> call[c].claim
                [] OTHER -> NoClaim

\* The message of a failed attempt quotes the SQL composed for it.
Echo(ctas) == IF ctas.format = "iceberg" THEN {"iceberg", "table_type"} ELSE {}

IsIcebergNotSupportedErr(words) ==
    \/ {"iceberg", "not supported"} \subseteq words
    \/ "table_type" \in words /\ words \cap {"not a valid", "does not exist"} # {}

-----------------------------------------------------------------------------
(* The external services. *)

\* f, with v at x.
With(f, x, v) == [y \in DOMAIN f \cup {x} |-> IF y = x THEN v ELSE f[y]]

Submitted(ctas) == [state |-> "running", words |-> {}, wrote |-> {}, ctas |-> ctas]

Sorts(ctas) == [i \in DOMAIN ctas.order |->
                   [column |-> ctas.order[i].column, order |-> IF ctas.order[i].descending THEN 0 ELSE 1]]

\* Glue's fields of buckets are Hive's: an Iceberg table does not fill them.
Entry(ctas, location) ==
    IF ctas.format = "hive"
    THEN [format |-> "hive", location |-> location, sort |-> Sorts(ctas),
          columns |-> IF ctas.buckets > 0 THEN ctas.columns ELSE <<>>, buckets |-> ctas.buckets]
    ELSE [format |-> "iceberg", location |-> location, sort |-> <<>>, columns |-> <<>>, buckets |-> 0]

Shape(ctas) == CASE ctas.format = "select" -> "result"
                 [] ctas.buckets = 0 -> "plain"
                 [] ctas.format = "iceberg" -> "iceberg"
                 [] workgroup.engine = "v2" -> "v2"
                 [] OTHER -> "hive"

\* What is true of the rows of a file, next to how the file is named.
File(ctas, shape, bucket) ==
    [shape |-> shape, bucket |-> bucket, hash |-> ctas.format, columns |-> ctas.columns,
     sortedBy |-> IF ctas.format = "iceberg" THEN ctas.order ELSE <<>>]

\* A SELECT returns its rows in one file.
Written(q, ctas, location) ==
    LET sidecars == IF ctas.format = "iceberg" THEN {"metadata"} ELSE IF ctas.format = "hive" THEN {"manifest"} ELSE {}
        parts == IF ctas.format = "select" THEN {0} ELSE request[q[1]].rows
    IN  {[dir |-> WithSlash(location), by |-> q, file |-> File(ctas, Shape(ctas), b)] : b \in parts}
        \cup {[dir |-> WithSlash(location), by |-> q, file |-> File(ctas, s, 0)] : s \in sidecars}

\* An enforced workgroup writes where it likes.
Target(q, ctas) == IF workgroup.enforced THEN <<"workgroup", "/", q[1], Attempts[q[2]], "/">> ELSE ctas.location

\* A query ends well, as asked or (a fault) in the other table format.
QuerySucceeds(q) ==
    LET asked == queries[q].ctas
    IN  /\ queries[q].state = "running"
        /\ ~(workgroup.engine = "v2" /\ asked.format = "iceberg")
        /\ asked.table \notin DOMAIN catalog
        /\ \E made \in {asked.format} \cup (IF asked.format = "iceberg" /\ faults < MaxFaults THEN {"hive"} ELSE {}) :
              LET ctas == [asked EXCEPT !.format = made]
                  wrote == Written(q, ctas, Target(q, asked))
              IN  /\ queries' = [queries EXCEPT ![q].state = "succeeded", ![q].wrote = wrote]
                  /\ objects' = objects \cup wrote
                  /\ catalog' = IF asked.table = NoTable THEN catalog
                                ELSE With(catalog, asked.table, Entry(ctas, Target(q, asked)))
                  /\ faults' = IF made = asked.format THEN faults ELSE faults + 1
        /\ UNCHANGED <<workgroup, request, client, closer>>

\* A query fails: because the engine knows no Iceberg, in any of the words the
\* source has met; because a table it names or makes does not or does exist; or
\* without a word.
QueryFails(q) ==
    LET iceberg == workgroup.engine = "v2" /\ queries[q].ctas.format = "iceberg"
        exists == queries[q].ctas.table \in DOMAIN catalog
        reasons == IF iceberg THEN {{"iceberg", "not supported"}, {"table_type", "not a valid"}, {"table_type", "does not exist"}}
                   ELSE IF exists THEN {{"already exists"}} ELSE {{}, {"does not exist"}}
    IN  /\ queries[q].state = "running"
        /\ iceberg \/ exists \/ faults < MaxFaults
        /\ \E words \in reasons : queries' = [queries EXCEPT ![q].state = "failed", ![q].words = words]
        /\ faults' = IF iceberg \/ exists THEN faults ELSE faults + 1
        /\ UNCHANGED <<workgroup, request, client, closer, catalog, objects>>

-----------------------------------------------------------------------------
(* A call. *)

At(c, pc) == call[c].pc = pc
QueryOf(c) == <<c, call[c].attempt>>

\* A request to a service fails: the context is done, or the service says no.
Denied(c) == \/ call[c].cancelled /\ UNCHANGED faults
             \/ ~call[c].cancelled /\ faults < MaxFaults /\ faults' = faults + 1
Granted(c) == ~call[c].cancelled /\ UNCHANGED faults

Failed(c) == [call[c] EXCEPT !.pc = "done", !.failed = TRUE, !.files = <<>>, !.read = <<>>, !.claim = NoClaim]
Fails(c) == /\ call' = [call EXCEPT ![c] = Failed(c)]
            /\ UNCHANGED <<ledger, hiveFallbackOnly>>
\* A failure that the services or the context caused.
FailsBy(c) == /\ call' = [call EXCEPT ![c] = [Failed(c) EXCEPT !.denied = TRUE]]
              /\ UNCHANGED <<ledger, hiveFallbackOnly>>
Goes(c, pc) == call' = [call EXCEPT ![c].pc = pc] /\ UNCHANGED <<ledger, hiveFallbackOnly>>

\* Where the main part of the call begins: the format is chosen, and for the
\* unloads that means reading what earlier calls learned.
UseHive(c) == request[c].format = "hive" \/ hiveFallbackOnly

Composes(c) ==
    IF Op(c) \in Unloads
    THEN IF Composable(c)
         THEN call' = [call EXCEPT ![c].pc = "submit", ![c].attempt = 1,
                                   ![c].ctas = ComposeCTAS(c, 1, IF UseHive(c) THEN "hive" ELSE "iceberg")]
         ELSE call' = [call EXCEPT ![c] = Failed(c)]
    ELSE call' = [call EXCEPT ![c].pc = "submit", ![c].attempt = 1,
                              ![c].ctas = IF Op(c) = "query" THEN Select ELSE RawCTAS(c)]

Begin(c) ==
    /\ At(c, "idle")
    /\ \/ Refused(c) /\ Fails(c)
       \/ ~Refused(c) /\ Op(c) = "open" /\ Goes(c, "open")
       \/ /\ ~Refused(c) /\ Op(c) \in Unloads /\ request[c].prepass
          /\ call' = [call EXCEPT ![c].pc = "submit", ![c].attempt = 0, ![c].ctas = Select]
          /\ UNCHANGED <<ledger, hiveFallbackOnly>>
       \/ /\ ~Refused(c) /\ Op(c) # "open" /\ ~(Op(c) \in Unloads /\ request[c].prepass)
          /\ Composes(c)
          /\ UNCHANGED <<ledger, hiveFallbackOnly>>
    /\ UNCHANGED <<closer, services, faults>>

\* An attempt ended with an error that says words.  The first attempt of an
\* unload at an Iceberg table may be made again with a Hive table.
FallsBack(c, words) == /\ Op(c) \in Unloads /\ call[c].attempt = 1
                       /\ call[c].ctas.format = "iceberg" /\ request[c].format # "iceberg"
                       /\ IsIcebergNotSupportedErr(words \cup Echo(call[c].ctas))

Attempted(c, words, denied) ==
    IF FallsBack(c, words)
    THEN /\ hiveFallbackOnly' = TRUE
         /\ call' = [call EXCEPT ![c].pc = "submit", ![c].attempt = 2, ![c].ctas = ComposeCTAS(c, 2, "hive")]
         /\ UNCHANGED ledger
    ELSE IF denied THEN FailsBy(c) ELSE Fails(c)

Words == {{}, {"does not exist"}}

Submit(c) ==
    /\ At(c, "submit")
    /\ \/ /\ Granted(c)
          /\ queries' = With(queries, QueryOf(c), Submitted(call[c].ctas))
          /\ call' = [call EXCEPT ![c].pc = "poll", ![c].waited = 0, ![c].interval = PollInterval]
          /\ UNCHANGED <<ledger, hiveFallbackOnly>>
       \/ /\ Denied(c) /\ UNCHANGED queries
          /\ \E words \in Words : Attempted(c, words, TRUE)
    /\ UNCHANGED <<closer, catalog, objects>>

\* The tracked table of a call: what Close will drop.
Tracked(c) == [table |-> call[c].ctas.table, location |-> call[c].ctas.location, cleanup |-> Cleanup(c)]

\* What a call does once it knows that its query succeeded.  The raw calls
\* register their table at once; the unloads look at it first.
Proceeds(c, pc) == [call[c] EXCEPT !.pc = pc, !.succeeded = TRUE, !.waited = 0, !.interval = PollInterval]

PrepassSucceeded(c) == /\ call' = [call EXCEPT ![c].pc = "columns", ![c].waited = 0, ![c].interval = PollInterval]
                       /\ UNCHANGED ledger
QuerySucceeded(c) == /\ Op(c) = "query"
                     /\ \E files \in SetToSeqs(queries[QueryOf(c)].wrote) :
                           call' = [call EXCEPT ![c] = [Proceeds(c, "read") EXCEPT !.files = files]]
                     /\ UNCHANGED ledger
UnloadSucceeded(c) == /\ Op(c) \in Unloads
                      /\ call' = [call EXCEPT ![c] = Proceeds(c, "verify")]
                      /\ UNCHANGED ledger
RawSucceeded(c) == /\ Op(c) = "raw"
                   /\ call' = [call EXCEPT ![c] = [Proceeds(c, "resolve") EXCEPT !.claim = request[c].claim]]
                   /\ ledger' = Append(ledger, Tracked(c))
RawBucketsSucceeded(c) == /\ Op(c) = "raw_buckets"
                          /\ call' = [call EXCEPT ![c] = [Proceeds(c, "buckets") EXCEPT !.claim = request[c].claim]]
                          /\ ledger' = Append(ledger, Tracked(c))

Succeeded(c) ==
    /\ \/ call[c].attempt = 0 /\ PrepassSucceeded(c)
       \/ call[c].attempt # 0 /\ (\/ QuerySucceeded(c) \/ UnloadSucceeded(c)
                                  \/ RawSucceeded(c) \/ RawBucketsSucceeded(c))
    /\ UNCHANGED hiveFallbackOnly

\* Fault: a poll never gives up.
PastDeadlineNever(c) == FALSE
PastDeadline(c) == call[c].waited > MaxPollDuration

\* What counts is whether the deadline has passed: the time is kept up to there
\* (a bound of the model, not of the code).
Waited(time) == IF time > MaxPollDuration THEN MaxPollDuration + 1 ELSE time

\* pollUntilDone: one look at the query and, while it runs, a pause that doubles
\* up to a cap; a context that ends in the pause fails the next look instead.
Poll(c) ==
    LET query == queries[QueryOf(c)]
    IN  /\ At(c, "poll")
        /\ \/ Granted(c) /\ query.state = "succeeded" /\ Succeeded(c)
           \/ Granted(c) /\ query.state = "failed" /\ Attempted(c, query.words, FALSE)
           \/ Granted(c) /\ query.state = "running" /\ PastDeadline(c) /\ Attempted(c, {}, FALSE)
           \/ /\ Granted(c) /\ query.state = "running" /\ ~PastDeadline(c)
              /\ call' = [call EXCEPT ![c].waited = Waited(@ + call[c].interval),
                                 ![c].interval = IF 2 * @ < PollMax THEN 2 * @ ELSE IF @ < PollMax THEN PollMax ELSE @]
              /\ UNCHANGED <<ledger, hiveFallbackOnly>>
           \/ Denied(c) /\ \E words \in Words : Attempted(c, words, TRUE)
        /\ UNCHANGED <<closer, services>>

\* runPrepass and verifyPartitionColsPresent: the columns the SELECT yields.
Columns(c) ==
    /\ At(c, "columns")
    /\ \/ /\ Granted(c)
          /\ IF ToSet(request[c].columns) \subseteq request[c].projected THEN Composes(c)
             ELSE call' = [call EXCEPT ![c] = Failed(c)]
          /\ UNCHANGED <<ledger, hiveFallbackOnly>>
       \/ Denied(c) /\ FailsBy(c)
    /\ UNCHANGED <<closer, services>>

Verifies(c) == /\ call[c].ctas.table \in DOMAIN catalog
               /\ (catalog[call[c].ctas.table].format = "iceberg") <=> (call[c].ctas.format = "iceberg")

\* Fault: a table that is not what was asked for is not registered.
RegisteredIfVerified(c, verified) == IF verified THEN Append(ledger, Tracked(c)) ELSE ledger
Registered(c, verified) == Append(ledger, Tracked(c))

\* verifyCTASOutput, and registerTable whatever it said.
Verify(c) ==
    /\ At(c, "verify")
    /\ \/ /\ Granted(c)
          /\ ledger' = Registered(c, Verifies(c))
          /\ call' = IF Verifies(c) THEN [call EXCEPT ![c].pc = "resolve"]
                     ELSE [call EXCEPT ![c] = Failed(c)]
       \/ /\ Denied(c)
          /\ ledger' = Registered(c, FALSE)
          /\ call' = [call EXCEPT ![c] = [Failed(c) EXCEPT !.denied = TRUE]]
    /\ UNCHANGED <<hiveFallbackOnly, closer, services>>

\* readGlueBucketCount, which for the raw calls is the number of slots.
Buckets(c) ==
    LET table == call[c].ctas.table
        bucketed == table \in DOMAIN catalog /\ catalog[table].buckets > 0
    IN  /\ At(c, "buckets")
        /\ \/ /\ Granted(c) /\ bucketed
              /\ call' = [call EXCEPT ![c].pc = "resolve", ![c].slots = catalog[table].buckets]
              /\ UNCHANGED <<ledger, hiveFallbackOnly>>
           \/ Granted(c) /\ ~bucketed /\ Fails(c)
           \/ Denied(c) /\ FailsBy(c)
        /\ UNCHANGED <<closer, services>>

\* resolveActualLocation: where Glue says the files are.
Resolve(c) ==
    LET table == call[c].ctas.table
    IN  /\ At(c, "resolve")
        /\ \/ /\ Granted(c) /\ table \in DOMAIN catalog
              /\ call' = [call EXCEPT ![c].pc = "list", ![c].location = catalog[table].location]
              /\ UNCHANGED <<ledger, hiveFallbackOnly>>
           \/ Granted(c) /\ table \notin DOMAIN catalog /\ Fails(c)
           \/ Denied(c) /\ FailsBy(c)
        /\ UNCHANGED <<closer, services>>

\* What Glue says of a table is enough to claim how its rows are kept.
Tells(entry) == entry.format # "iceberg" /\ entry.columns # <<>> /\ entry.buckets > 0

\* OpenPartitionedTable: the claim is the caller's or Glue's.
Open(c) ==
    LET table == request[c].table
        own == request[c].claim # NoClaim
        usable == table \in DOMAIN catalog /\ (own \/ Tells(catalog[table]))
    IN  /\ At(c, "open")
        /\ \/ /\ Granted(c) /\ usable
              /\ call' = [call EXCEPT ![c].pc = "list", ![c].location = catalog[table].location,
                             ![c].claim = IF own THEN request[c].claim ELSE DeriveHivePartitionMetadata(catalog[table])]
              /\ UNCHANGED <<ledger, hiveFallbackOnly>>
           \/ Granted(c) /\ ~usable /\ Fails(c)
           \/ Denied(c) /\ FailsBy(c)
        /\ UNCHANGED <<closer, services>>

List(c) ==
    /\ At(c, "list")
    /\ \/ /\ Granted(c) /\ Found(call[c].location) # {}
          /\ \E files \in ListBucketFiles(call[c].location) :
                call' = [call EXCEPT ![c].pc = "read", ![c].files = files,
                                     ![c].slots = IF Op(c) = "unload_buckets" THEN request[c].buckets ELSE @]
          /\ UNCHANGED <<ledger, hiveFallbackOnly>>
       \/ Granted(c) /\ Found(call[c].location) = {} /\ Fails(c)
       \/ Denied(c) /\ FailsBy(c)
    /\ UNCHANGED <<closer, services>>

\* readBucketFiles and populateBucketResults: the next file is opened and, for
\* the calls by bucket, put in its slot.
NextFile(c) == call[c].files[Len(call[c].read) + 1]
SlotOf(c) == Slot(NextFile(c).file, Len(call[c].read), call[c].slots)
Read(c) ==
    LET last == Len(call[c].read) + 1 = Len(call[c].files)
        taken == {r.slot : r \in ToSet(call[c].read)}
        slot == IF Op(c) \in PerBucket THEN SlotOf(c) ELSE Len(call[c].read)
    IN  /\ At(c, "read")
        /\ \/ /\ Granted(c) /\ NextFile(c) \in objects /\ slot \notin taken \cup {-1}
              /\ call' = [call EXCEPT ![c].read = Append(@, [slot |-> slot, object |-> NextFile(c)]),
                                      ![c].claim = Claimed(c),
                                      ![c].files = IF last THEN <<>> ELSE @,
                                      ![c].location = <<>>,
                                      ![c].pc = IF last THEN "done" ELSE "read"]
              /\ UNCHANGED <<ledger, hiveFallbackOnly>>
           \/ Granted(c) /\ (NextFile(c) \notin objects \/ slot \in taken \cup {-1}) /\ Fails(c)
           \/ Denied(c) /\ FailsBy(c)
        /\ UNCHANGED <<closer, services>>

\* The caller's context ends.
Cancel(c) == /\ call[c].pc \notin {"idle", "done"} /\ ~call[c].cancelled /\ faults < MaxFaults
             /\ faults' = faults + 1
             /\ call' = [call EXCEPT ![c].cancelled = TRUE]
             /\ UNCHANGED <<workgroup, request, ledger, hiveFallbackOnly, closer, services>>

Step(c) == /\ \/ Begin(c) \/ Submit(c) \/ Poll(c) \/ Columns(c) \/ Verify(c)
              \/ Buckets(c) \/ Resolve(c) \/ Open(c) \/ List(c) \/ Read(c)
           /\ UNCHANGED <<workgroup, request>>

-----------------------------------------------------------------------------
(* Close: it takes the ledger, then drops each table, and for CleanupAll    *)
(* deletes what lies under the location that was asked for.                 *)

CloseBegins ==
    /\ closer.pc = "idle" /\ closer.runs < MaxCloses
    /\ closer' = [closer EXCEPT !.pc = "drop", !.runs = @ + 1, !.todo = ledger, !.taken = @ \cup ToSet(ledger)]
    /\ ledger' = <<>>
    /\ UNCHANGED <<workgroup, request, call, hiveFallbackOnly, services, faults>>

\* Fault: the first error ends Close.
AfterErrorReturns(todo) == <<>>
AfterError(todo) == Tail(todo)

Failure(t) == closer' = [closer EXCEPT !.pc = "drop", !.todo = AfterError(@), !.failed = @ \cup {t}]

\* DeleteTable; a table that is not there is no error.
DropTable ==
    /\ closer.pc = "drop" /\ closer.todo # <<>>
    /\ LET t == Head(closer.todo)
       IN  \/ /\ t.cleanup = "none"
              /\ closer' = [closer EXCEPT !.todo = Tail(@)]
              /\ UNCHANGED <<catalog, faults>>
           \/ /\ t.cleanup # "none"
              /\ catalog' = [name \in DOMAIN catalog \ {t.table} |-> catalog[name]]
              /\ closer' = IF t.cleanup = "all" THEN [closer EXCEPT !.pc = "delete", !.passed = {}]
                           ELSE [closer EXCEPT !.todo = Tail(@)]
              /\ UNCHANGED faults
           \/ /\ t.cleanup # "none" /\ faults < MaxFaults
              /\ faults' = faults + 1 /\ UNCHANGED catalog
              /\ Failure(t)
    /\ UNCHANGED <<workgroup, request, client, queries, objects>>

\* deletePrefix: a page is listed and deleted, until the last.  Of a page S3 may
\* keep files: it says which in an answer nobody reads (client.go:260), and the
\* listing passes on.
DeletePrefix ==
    /\ closer.pc = "delete"
    /\ LET t == Head(closer.todo)
           found == Under(t.location) \ closer.passed
       IN  \/ \E page \in SUBSET found : \E kept \in SUBSET page :
                 /\ page # {} \/ found = {}
                 /\ kept # {} => faults < MaxFaults
                 /\ faults' = IF kept = {} THEN faults ELSE faults + 1
                 /\ objects' = objects \ (page \ kept)
                 /\ LET walked == [closer EXCEPT !.passed = @ \cup kept, !.kept = @ \cup kept]
                    IN  closer' = IF page = found THEN [walked EXCEPT !.pc = "drop", !.todo = Tail(@)] ELSE walked
           \/ /\ faults < MaxFaults
              /\ faults' = faults + 1 /\ UNCHANGED objects
              /\ Failure(t)
    /\ UNCHANGED <<workgroup, request, client, queries, catalog>>

CloseReturns == /\ closer.pc = "drop" /\ closer.todo = <<>>
                /\ closer' = [closer EXCEPT !.pc = "idle"]
                /\ UNCHANGED <<workgroup, request, client, services, faults>>

-----------------------------------------------------------------------------
Init == /\ \E scenario \in Scenarios : workgroup = scenario.workgroup /\ request = scenario.request
        /\ call = [c \in Calls |->
                     [pc |-> "idle", attempt |-> 0, ctas |-> Select, waited |-> 0, interval |-> PollInterval,
                      cancelled |-> FALSE, denied |-> FALSE, succeeded |-> FALSE, location |-> <<>>,
                      slots |-> 0, files |-> <<>>, read |-> <<>>, claim |-> NoClaim, failed |-> FALSE]]
        /\ ledger = <<>>
        /\ hiveFallbackOnly = FALSE
        /\ closer = [pc |-> "idle", runs |-> 0, todo |-> <<>>, taken |-> {}, failed |-> {},
                      passed |-> {}, kept |-> {}]
        /\ queries = <<>>
        /\ catalog = External.catalog
        /\ objects = External.objects
        /\ faults = 0

Next == \/ \E c \in Calls : Step(c) \/ Cancel(c)
        \/ \E q \in DOMAIN queries : QuerySucceeds(q) \/ QueryFails(q)
        \/ CloseBegins \/ DropTable \/ DeletePrefix \/ CloseReturns

\* A call that was made runs on; whether the services ever answer well is theirs.
Spec == Init /\ [][Next]_vars /\ \A c \in Calls : WF_vars(Step(c))

-----------------------------------------------------------------------------
(* What the client owes its callers. *)

Over(c) == At(c, "done")
Answered(c) == Over(c) /\ ~call[c].failed
TableOf(c) == IF Op(c) = "open" THEN request[c].table ELSE call[c].ctas.table
\* The queries whose files the call may have read; <<>> made the tables of others.
OwnQueries(c) == IF Op(c) # "open" THEN {QueryOf(c)}
                 ELSE IF request[c].table \in DOMAIN External.catalog THEN {<<>>}
                 ELSE {q \in DOMAIN queries : queries[q].ctas.table = request[c].table}

\* No table is lost: a call that saw its CTAS succeed has entered the table in
\* the ledger, with the location it asked for and the cleanup that applies,
\* before it returns for any reason, and there it stays until a Close takes it
\* (unload.go: "otherwise a mismatch leaves the orphan in Glue forever").
TablesAccounted ==
    \A c \in Calls : Over(c) /\ call[c].succeeded /\ Op(c) # "query" =>
        Tracked(c) \in ToSet(ledger) \cup closer.taken

TrueOf(claim, file) ==
    /\ claim.columns = file.columns /\ claim.hash = HashTagFor(file.hash)
    /\ claim.enforced => claim.sortedBy = file.sortedBy
Emptied(table) == \E t \in closer.taken : t.table = table /\ t.cleanup = "all"
TrueAnswer(c) ==
    LET read == ToSet(call[c].read)
    IN  /\ \A r \in read : r.object.by \in OwnQueries(c)
        /\ Len(call[c].read) = Cardinality({r.slot : r \in read})
        /\ Op(c) # "open" /\ ~Emptied(TableOf(c)) =>
             {r.object : r \in read} = {o \in queries[QueryOf(c)].wrote : o.file.shape \notin {"metadata", "manifest"}}
        /\ Op(c) \in PerBucket => \A r \in read :
             r.slot \in 0 .. call[c].slots - 1 /\ (r.object.file.shape # "v2" => r.slot = r.object.file.bucket)
        /\ Op(c) \in Unloads \cup {"open"} => \A r \in read : TrueOf(call[c].claim, r.object.file)
\* An answer is what it claims to be: it is read from the files of its own table
\* and of no neighbour, and from all of them unless a Close is deleting them
\* meanwhile (it may then be read in part and returned: Close warns of racing a
\* scan); the hash it claims is the one that filled
\* the buckets, and an order it says is enforced is an order of the rows; by
\* bucket, every file is in a slot of its own, which is its bucket's where the
\* names of the files tell it.
AnswersAreTrue == \A c \in Calls : Answered(c) => TrueAnswer(c)

\* A call fails only for a cause: a service or its context failed it, its query
\* failed or ran past the deadline, the query made another kind of table or no
\* rows, a Close took the table away under it, or the request cannot be met.
Hopeless(c) == CASE Op(c) = "open" -> \/ request[c].table \notin DOMAIN External.catalog
                                      \/ ~Tells(External.catalog[request[c].table]) /\ request[c].claim = NoClaim
                 [] Op(c) \in Unloads -> \/ ~Composable(c)
                                         \/ request[c].prepass /\ ~(ToSet(request[c].columns) \subseteq request[c].projected)
                 [] Op(c) = "raw_buckets" -> request[c].format # "hive" \/ request[c].buckets <= 0
                 [] OTHER -> FALSE
FailsForACause ==
    \A c \in Calls : Over(c) /\ ~Answered(c) =>
        \/ call[c].denied \/ Hopeless(c) \/ Refused(c)
        \/ /\ QueryOf(c) \in DOMAIN queries
           /\ \/ queries[QueryOf(c)].state = "failed"
              \/ call[c].waited > MaxPollDuration
              \/ \A o \in queries[QueryOf(c)].wrote : o.file.shape \in {"metadata", "manifest"}
              \/ \E o \in queries[QueryOf(c)].wrote : o.file.hash # call[c].ctas.format
        \/ \E t \in closer.taken : t.table = TableOf(c)

\* Close keeps its word: when it has returned, every table it took is gone from
\* the catalog, and for CleanupAll so are the files at the location asked for
\* that S3 has not kept (of which Close never hears), unless it reported that
\* table; tables of CleanupNone stay; and nobody else's table or file is touched,
\* if the locations end in a slash as composed ones do.
Made(t) == {q \in DOMAIN queries : queries[q].state = "succeeded" /\ queries[q].ctas.table = t.table}
Gone(t) == /\ t.table \notin DOMAIN catalog
           /\ t.cleanup = "all" => {o \in objects : o.dir = WithSlash(t.location)} \subseteq closer.kept
TakenAreGone == closer.pc = "idle" =>
    \A t \in closer.taken \ closer.failed : t.cleanup # "none" => Gone(t)
Meant(table) == {e \in closer.taken : e.table = table /\ e.cleanup # "none"}
OtherTablesKept ==
    /\ \A q \in DOMAIN queries :
         LET table == queries[q].ctas.table
         IN  queries[q].state = "succeeded" /\ table # NoTable /\ Meant(table) = {} => table \in DOMAIN catalog
    /\ \A name \in DOMAIN External.catalog : name \in DOMAIN catalog
OtherFilesKept ==
    (\A e \in closer.taken : e.cleanup = "all" => Last(e.location) = "/") =>
        \A q \in DOMAIN queries : \/ queries[q].wrote \subseteq objects
                                  \/ \E e \in Meant(queries[q].ctas.table) : e.cleanup = "all"
CloseKeepsItsWord == TakenAreGone /\ OtherTablesKept /\ OtherFilesKept

\* Every call returns, once it is made, though its query may run for ever: polling
\* gives up when the deadline has passed (ClientConfig.MaxPollDuration).
CallsEnd == <>(\A c \in Calls : Over(c))

\* FormatIceberg forces Iceberg: a caller who asks for it gets an Iceberg table
\* or an error (unload.go, UnloadAndRead).
ForcedFormatKept ==
    \A c \in Calls : Answered(c) /\ Op(c) \in Unloads /\ request[c].format = "iceberg" =>
        call[c].ctas.format = "iceberg"

-----------------------------------------------------------------------------
(* Types, and the inductive invariants behind the theorems of AthenaProofs. *)

Says == {"iceberg", "not supported", "table_type", "not a valid", "does not exist", "already exists"}
Entries == [table : Path, location : Path, cleanup : Cleanups]

Stages == {"idle", "submit", "poll", "columns", "verify", "buckets", "resolve", "open", "list",
           "read", "done"}
Reads == Seq([slot : Int, object : Objects])

\* What a call records; the files of a listing and the claim of a table made
\* by others are whatever the services say.
Recorded(r) ==
    r \in [pc : Stages, attempt : 0..2, ctas : Statements, waited : Nat, interval : Nat \ {0},
           cancelled : BOOLEAN, denied : BOOLEAN, succeeded : BOOLEAN, failed : BOOLEAN,
           location : Path, slots : Int, read : Reads, files : {r.files}, claim : {r.claim}]

TypeOK ==
    /\ request \in [Calls -> Requests]
    /\ call = [c \in Calls |-> call[c]] /\ \A c \in Calls : Recorded(call[c])
    /\ ledger \in Seq(Entries) /\ hiveFallbackOnly \in BOOLEAN
    /\ closer \in [pc : {"idle", "drop", "delete"}, runs : Nat, todo : Seq(Entries),
                   taken : SUBSET Entries, failed : SUBSET Entries,
                   passed : SUBSET Objects, kept : SUBSET Objects]
    /\ queries \in [DOMAIN queries -> [state : {"running", "succeeded", "failed"},
                                       words : SUBSET Says, wrote : SUBSET Objects,
                                       ctas : Statements]]
    /\ DOMAIN queries \subseteq Calls \X (0..2)
    /\ catalog \in [DOMAIN catalog -> GlueEntries]
    /\ objects \subseteq Objects
    /\ faults \in 0..MaxFaults

\* The table a query makes and the location it asks for.
NameOf(q) == IF q[2] = 0 \/ Op(q[1]) = "query" THEN NoTable
             ELSE IF Op(q[1]) \in Unloads THEN <<"gobi", q[1], Attempts[q[2]]>>
             ELSE request[q[1]].table
PlaceOf(q) == IF q[2] = 0 \/ Op(q[1]) = "query" THEN <<"results", "/">>
              ELSE IF Op(q[1]) \in Unloads THEN <<"results", "/", q[1], Attempts[q[2]], "/">>
              ELSE request[q[1]].location

\* A call submits each attempt once, and knows what it asked for.
IssuedOf(c) ==
    /\ call[c].pc = "idle" => ~call[c].succeeded /\ \A a \in 0..2 : <<c, a>> \notin DOMAIN queries
    /\ \A a \in 0..2 : <<c, a>> \in DOMAIN queries =>
           /\ a <= call[c].attempt /\ (call[c].pc = "submit" => a < call[c].attempt)
           /\ Op(c) # "open" /\ ~Refused(c) /\ (a # 1 => Op(c) \in Unloads)
    /\ call[c].pc \in {"submit", "poll", "columns"} =>
           /\ Op(c) # "open" /\ ~Refused(c) /\ ~call[c].succeeded
           /\ call[c].attempt # 1 => Op(c) \in Unloads
           /\ call[c].ctas.table = NameOf(QueryOf(c)) /\ call[c].ctas.location = PlaceOf(QueryOf(c))
    /\ call[c].pc = "columns" => call[c].attempt = 0
    /\ call[c].pc = "poll" \/ call[c].succeeded =>
           QueryOf(c) \in DOMAIN queries /\ queries[QueryOf(c)].ctas = call[c].ctas
    /\ call[c].succeeded => call[c].attempt # 0 /\ queries[QueryOf(c)].state = "succeeded"
    /\ call[c].pc = "verify" => call[c].succeeded /\ Op(c) \in Unloads
Issued == \A c \in Calls : IssuedOf(c)

\* What a query was asked for, and what it left.
AskedOf(q) ==
    /\ queries[q].ctas.table = NameOf(q) /\ queries[q].ctas.location = PlaceOf(q)
    /\ queries[q].state = "succeeded" => NameOf(q) \notin DOMAIN External.catalog
    /\ \A o \in queries[q].wrote : o.dir = WithSlash(Target(q, queries[q].ctas))
Asked == \A q \in DOMAIN queries : AskedOf(q)

\* The ledger: every table made is in it, but for one that is being verified,
\* and every entry is a table that was made.
Accounted ==
    \A c \in Calls : call[c].succeeded /\ Op(c) # "query" /\ call[c].pc # "verify" =>
        Tracked(c) \in ToSet(ledger) \cup closer.taken
EntryOf(e, q) ==
    /\ queries[q].state = "succeeded" /\ q[2] # 0 /\ Op(q[1]) \in Unloads \cup Raws
    /\ e = [table |-> NameOf(q), location |-> PlaceOf(q), cleanup |-> Cleanup(q[1])]
Backed == \A e \in ToSet(ledger) \cup closer.taken : \E q \in DOMAIN queries : EntryOf(e, q)

ClosePhase ==
    /\ closer.pc = "idle" => closer.todo = <<>>
    /\ closer.pc = "delete" => closer.todo # <<>> /\ Head(closer.todo).cleanup = "all"
    /\ ToSet(closer.todo) \subseteq closer.taken
    /\ closer.passed \subseteq closer.kept

\* A file read is in a slot that no other has, and one of those there are.
SlotsOf(c) == {r.slot : r \in ToSet(call[c].read)}
SlotsApart ==
    \A c \in Calls :
        /\ Len(call[c].read) = Cardinality(SlotsOf(c)) /\ IsFiniteSet(SlotsOf(c))
        /\ Op(c) \in PerBucket => SlotsOf(c) \subseteq 0 .. call[c].slots - 1
        /\ call[c].pc \notin {"read", "done"} => call[c].read = <<>>

IInv == /\ TypeOK /\ Issued /\ Asked /\ Accounted /\ Backed /\ ClosePhase
        /\ OtherTablesKept /\ SlotsApart

\* The callers who name their tables themselves use each name and each
\* directory once, and keep off those of the composed ones.
NamesApart(asked) ==
    LET raws == {c \in Calls : asked[c].op \in Raws /\ asked[c].location # <<>>}
    IN  /\ \A c \in raws :
             /\ asked[c].table # NoTable
             /\ \A d \in Calls, a \in 1..2 : asked[c].table # <<"gobi", d, Attempts[a]>>
             /\ asked[c].location[1] \notin {"results", "workgroup"}
        /\ \A c, d \in raws :
             c # d => /\ asked[c].table # asked[d].table
                      /\ ~IsPrefix(WithSlash(asked[c].location), WithSlash(asked[d].location))

\* What Close has taken is dropped, is yet to be, or was reported.
Dropped ==
    /\ \A e \in closer.taken \ closer.failed :
           e.cleanup # "none" => Gone(e) \/ e \in ToSet(closer.todo)
    /\ closer.pc = "delete" => Head(closer.todo).table \notin DOMAIN catalog

-----------------------------------------------------------------------------
(* Where what a call reads comes from, and why it fails. *)

\* The locations keep apart: what Close is to delete ends in a slash, and the
\* tables of others have directories of their own.
PlacesApart(asked) ==
    LET raws == {c \in Calls : asked[c].op \in Raws /\ asked[c].location # <<>>}
        composed == {"results", "workgroup"}
        all(c) == "all" = IF asked[c].cleanup = "inherit" THEN DefaultCleanup ELSE asked[c].cleanup
    IN  /\ \A c \in raws : all(c) => Last(asked[c].location) = "/"
        /\ \A o \in External.objects :
             /\ o.dir # <<>> /\ o.dir[1] \notin composed
             /\ \A c \in raws : ~IsPrefix(WithSlash(asked[c].location), o.dir)
        /\ \A name \in DOMAIN External.catalog :
             LET location == External.catalog[name].location
             IN  /\ location # <<>> /\ location[1] \notin composed
                 /\ \A c \in raws : ~IsPrefix(WithSlash(location), WithSlash(asked[c].location))

\* The files of a table of others.
FilesOf(name) == Data({o \in External.objects : IsPrefix(WithSlash(External.catalog[name].location), o.dir)})

\* The tables of others are as Glue and those who open them say, and there are
\* fewer buckets than the number of a day that engine v2 begins a name with.
OthersAreTrue(asked) ==
    /\ \A name \in DOMAIN External.catalog : \A o \in FilesOf(name) :
         /\ o.by = <<>>
         /\ Tells(External.catalog[name]) => TrueOf(DeriveHivePartitionMetadata(External.catalog[name]), o.file)
    /\ \A c \in Calls :
         /\ asked[c].op = "open" /\ asked[c].table \in DOMAIN External.catalog => FilesOf(asked[c].table) # {}
         /\ asked[c].op = "open" /\ asked[c].claim # NoClaim =>
              /\ asked[c].table \in DOMAIN External.catalog
              /\ \A o \in FilesOf(asked[c].table) : TrueOf(asked[c].claim, o.file)
         /\ asked[c].buckets <= 20240101

\* What a query is asked is what its call's request says, in one format or another.
Phrased(q, ctas) == IF q[2] = 0 \/ Op(q[1]) = "query" THEN ctas = Select
                    ELSE IF Op(q[1]) \in Unloads THEN \E f \in {"hive", "iceberg"} : ctas = ComposeCTAS(q[1], q[2], f)
                    ELSE ctas = RawCTAS(q[1])

\* A query made its table in the format f, which Glue says too.
MadeAs(q, f) ==
    LET asked == queries[q].ctas
        made == [asked EXCEPT !.format = f]
    IN  /\ f = asked.format \/ (asked.format = "iceberg" /\ f = "hive")
        /\ queries[q].wrote = Written(q, made, Target(q, asked))
        /\ NameOf(q) \in DOMAIN catalog => catalog[NameOf(q)] = Entry(made, Target(q, asked))

\* Every table and every file is of others or of a query that succeeded, and
\* nothing of others is lost.
LeftBy(q) == /\ Phrased(q, queries[q].ctas)
             /\ IF queries[q].state = "succeeded" THEN \E f \in Formats : MadeAs(q, f) ELSE queries[q].wrote = {}
Origins ==
    /\ \A q \in DOMAIN queries : LeftBy(q)
    /\ \A name \in DOMAIN catalog \ DOMAIN External.catalog :
         name # NoTable /\ \E q \in DOMAIN queries : queries[q].state = "succeeded" /\ NameOf(q) = name
    /\ \A name \in DOMAIN External.catalog : catalog[name] = External.catalog[name]
    /\ \A o \in objects \ External.objects : \E q \in DOMAIN queries : o \in queries[q].wrote
    /\ External.objects \subseteq objects /\ IsFiniteSet(objects)

\* The files of the table a call reads, where a query or others (<<>>) made it.
Source(c, by) == IF by = <<>> THEN FilesOf(request[c].table) ELSE Data(queries[by].wrote)
PlaceRead(c, by) == IF by = <<>> THEN External.catalog[request[c].table].location ELSE Target(by, queries[by].ctas)

\* A call that has got as far as its files, or past them.
Resolved(c) == call[c].pc \in {"resolve", "list", "read"} \/ Answered(c)

\* It saw its query succeed, and what it verified is so.
CheckedOf(c) ==
    /\ call[c].pc \in {"submit", "poll", "columns"} =>
         Phrased(QueryOf(c), call[c].ctas) /\ (call[c].attempt = 0 => request[c].prepass)
    /\ Op(c) = "open" => call[c].pc \in {"idle", "open", "list", "read", "done"}
    /\ Op(c) = "query" => call[c].pc \in {"idle", "submit", "poll", "read", "done"}
    /\ call[c].pc = "open" => Op(c) = "open"
    /\ call[c].pc = "buckets" => Op(c) = "raw_buckets"
    /\ call[c].pc \in {"verify", "buckets"} \/ Resolved(c) => Op(c) = "open" \/ call[c].succeeded
    /\ Resolved(c) /\ Op(c) \in Unloads =>
         \A o \in queries[QueryOf(c)].wrote : o.file.hash = call[c].ctas.format
    /\ Resolved(c) /\ Op(c) = "raw_buckets" => call[c].slots = request[c].buckets /\ call[c].slots > 0

\* It looks in the right place, and claims what is true.
LocatedOf(c) ==
    call[c].pc = "list" =>
        \E by \in OwnQueries(c) :
            /\ by # <<>> => queries[by].state = "succeeded" /\ NameOf(by) # NoTable
            /\ call[c].location = PlaceRead(c, by)
            /\ Op(c) = "open" => \A o \in Source(c, by) : TrueOf(call[c].claim, o.file)

\* It reads one after another the files listed, each once, all of its own and
\* all there are of them.
OwnFile(c, o) ==
    /\ o.by \in OwnQueries(c) /\ o \in Source(c, o.by)
    /\ Op(c) \in Unloads \cup {"open"} => TrueOf(Claimed(c), o.file)
ReadAs(c, i) ==
    LET file == call[c].files[i]
    IN  [slot |-> IF Op(c) \in PerBucket THEN Slot(file.file, i - 1, call[c].slots) ELSE i - 1, object |-> file]
ReadingOf(c) ==
    call[c].pc = "read" =>
        /\ call[c].files \in Seq(Objects) /\ IsInjective(call[c].files)
        /\ Len(call[c].read) < Len(call[c].files)
        /\ \A i \in 1..Len(call[c].read) : call[c].read[i] = ReadAs(c, i)
        /\ \A o \in ToSet(call[c].files) : OwnFile(c, o)
        /\ Op(c) # "open" /\ ~Emptied(TableOf(c)) => ToSet(call[c].files) = Data(queries[QueryOf(c)].wrote)
        /\ Op(c) \in PerBucket => call[c].slots = request[c].buckets /\ call[c].slots > 0

AnswerOf(c) == Answered(c) => TrueAnswer(c)

\* The cause of a failure, as it will stay.
Cause(c) ==
    \/ Hopeless(c) \/ Refused(c)
    \/ /\ QueryOf(c) \in DOMAIN queries
       /\ \/ queries[QueryOf(c)].state = "failed"
          \/ call[c].waited > MaxPollDuration
          \/ /\ queries[QueryOf(c)].state = "succeeded"
             /\ \/ Data(queries[QueryOf(c)].wrote) = {}
                \/ \E o \in queries[QueryOf(c)].wrote : o.file.hash # call[c].ctas.format
    \/ \E t \in closer.taken : t.table = TableOf(c)
CauseOf(c) == Over(c) /\ call[c].failed => call[c].denied \/ Cause(c)

\* A call that has failed is over.
Ended == \A c \in Calls : call[c].failed => Over(c)

CallInv(c) == CheckedOf(c) /\ LocatedOf(c) /\ ReadingOf(c) /\ AnswerOf(c) /\ CauseOf(c)
FilesInv == Origins /\ Ended /\ \A c \in Calls : CallInv(c)
=============================================================================
