-------------------------- MODULE AthenaFilesProofs --------------------------
(***************************************************************************)
(* Theorems about what the calls of Athena answer and why they fail, where *)
(* the callers keep their names and places apart and say what is true of   *)
(* the tables of others.                                                   *)
(***************************************************************************)
EXTENDS AthenaProofs

-----------------------------------------------------------------------------
(* Sequences without repetition. *)

LEMMA OneToOneRange ==
    ASSUME NEW S, IsFiniteSet(S), NEW f \in Seq(S), IsInjective(f)
    PROVE  Len(f) <= Cardinality(S) /\ (Len(f) = Cardinality(S) => ToSet(f) = S)
  <1> DEFINE D == 1..Len(f)
  <1>1. Len(f) \in Nat /\ DOMAIN f = D /\ f \in [D -> S]
    OBVIOUS
  <1>2. f \in Injection(D, S)
    BY <1>1 DEF Injection
  <1>3. IsFiniteSet(D) /\ Cardinality(D) = Len(f)
    <2>1. Cardinality(D) = IF 1 > Len(f) THEN 0 ELSE Len(f) - 1 + 1
      BY <1>1, FS_Interval
    <2>2. IsFiniteSet(D)
      BY <1>1, FS_Interval
    <2> QED
      BY <1>1, <2>1, <2>2
  <1> HIDE DEF D
  <1>4. Cardinality(D) <= Cardinality(S) /\ (Cardinality(D) = Cardinality(S) => f \in Surjection(D, S))
    BY <1>2, FS_Injection
  <1>5. f \in Surjection(D, S) => ToSet(f) = S
    BY <1>1 DEF Surjection, ToSet
  <1> QED
    BY <1>3, <1>4, <1>5

(* What a listing of a finite set is. *)
LEMMA ListingIs ==
    ASSUME NEW S, IsFiniteSet(S), NEW f \in SetToSeqs(S)
    PROVE  f \in Seq(S) /\ IsInjective(f) /\ ToSet(f) = S /\ Len(f) = Cardinality(S)
  <1> DEFINE n == Cardinality(S)
  <1>1. n \in Nat
    BY FS_CardinalityType
  <1>2. f \in [1..n -> S] /\ \A i, j \in 1..n : i # j => f[i] # f[j]
    BY DEF SetToSeqs
  <1> HIDE DEF n
  <1>3. f \in Seq(S) /\ Len(f) = n /\ DOMAIN f = 1..n
    BY <1>1, <1>2
  <1>4. IsInjective(f)
    BY <1>2, <1>3 DEF IsInjective
  <1> QED
    BY <1>3, <1>4, OneToOneRange DEF n

LEMMA ImageFinite ==
    ASSUME NEW f, IsFiniteSet(DOMAIN f)
    PROVE  LET T == {f[x] : x \in DOMAIN f}
           IN  IsFiniteSet(T) /\ Cardinality(T) <= Cardinality(DOMAIN f)
  <1> DEFINE S == DOMAIN f
             T == {f[x] : x \in S}
             g == [x \in S |-> f[x]]
  <1>1. g \in Surjection(S, T)
    BY DEF Surjection
  <1> HIDE DEF g, T
  <1> QED
    BY <1>1, FS_Surjection DEF T

-----------------------------------------------------------------------------
(* What a query writes. *)

Parts(q, ctas) == IF ctas.format = "select" THEN {0} ELSE request[q[1]].rows
Part(q, ctas, l, b) == [dir |-> WithSlash(l), by |-> q, file |-> File(ctas, Shape(ctas), b)]

LEMMA DataShapes ==
    ASSUME NEW ctas
    PROVE  /\ Shape(ctas) \in {"result", "plain", "iceberg", "v2", "hive"}
           /\ \A b : File(ctas, Shape(ctas), b).shape = Shape(ctas) /\ File(ctas, Shape(ctas), b).bucket = b
  BY DEF Shape, File

(* Every file a query writes is its own, in its place, of its statement. *)
LEMMA WrittenIs2 ==
    ASSUME NEW q, NEW ctas, NEW l, NEW o \in Written(q, ctas, l)
    PROVE  /\ o.by = q /\ o.dir = WithSlash(l)
           /\ o.file.hash = ctas.format /\ o.file.columns = ctas.columns
           /\ ctas.format = "iceberg" => o.file.sortedBy = ctas.order
           /\ o.file.shape \in {Shape(ctas), "metadata", "manifest"}
  <1>1. PICK s, b : o = [dir |-> WithSlash(l), by |-> q, file |-> File(ctas, s, b)] /\ s \in {Shape(ctas), "metadata", "manifest"}
    BY DEF Written
  <1> QED
    BY <1>1 DEF File

LEMMA DataWritten ==
    ASSUME NEW q, NEW ctas, NEW l
    PROVE  Data(Written(q, ctas, l)) = {Part(q, ctas, l, b) : b \in Parts(q, ctas)}
  <1> DEFINE sidecar(s) == [dir |-> WithSlash(l), by |-> q, file |-> File(ctas, s, 0)]
  <1>1. \A s \in {"metadata", "manifest"} : ~IsCTASDataKey(sidecar(s).file)
    BY DEF File, IsCTASDataKey
  <1>2. \A b : IsCTASDataKey(Part(q, ctas, l, b).file)
    <2> TAKE b
    <2>1. Part(q, ctas, l, b).file.shape \in {"result", "plain", "iceberg", "v2", "hive"}
      BY DataShapes DEF Part
    <2> QED
      BY <2>1 DEF IsCTASDataKey
  <1>3. PICK sides : /\ sides \subseteq {"metadata", "manifest"}
                     /\ Written(q, ctas, l) = {Part(q, ctas, l, b) : b \in Parts(q, ctas)} \cup {sidecar(s) : s \in sides}
    <2> DEFINE sides == IF ctas.format = "iceberg" THEN {"metadata"} ELSE IF ctas.format = "hive" THEN {"manifest"} ELSE {}
    <2>1. Written(q, ctas, l) = {Part(q, ctas, l, b) : b \in Parts(q, ctas)} \cup {sidecar(s) : s \in sides}
      BY DEF Written, Part, Parts
    <2> QED
      BY <2>1
  <1> HIDE DEF sidecar
  <1> QED
    BY <1>1, <1>2, <1>3 DEF Data

(* The rows of a query fill as many files as there are buckets, or fewer. *)
LEMMA WrittenFinite ==
    ASSUME NEW q, NEW ctas, NEW l, IsFiniteSet(request[q[1]].rows)
    PROVE  /\ IsFiniteSet(Written(q, ctas, l)) /\ IsFiniteSet(Data(Written(q, ctas, l)))
           /\ Cardinality(Data(Written(q, ctas, l))) <= Cardinality(Parts(q, ctas))
  <1>1. IsFiniteSet(Parts(q, ctas))
    BY FS_Singleton DEF Parts
  <1> DEFINE f == [b \in Parts(q, ctas) |-> Part(q, ctas, l, b)]
             T == {f[b] : b \in DOMAIN f}
  <1>2. DOMAIN f = Parts(q, ctas) /\ T = Data(Written(q, ctas, l))
    BY DataWritten
  <1>3. IsFiniteSet(T) /\ Cardinality(T) <= Cardinality(Parts(q, ctas))
    <2> HIDE DEF f
    <2> QED
      BY <1>1, <1>2, ImageFinite
  <1> DEFINE sides == IF ctas.format = "iceberg" THEN {"metadata"} ELSE IF ctas.format = "hive" THEN {"manifest"} ELSE {}
             sidecar(s) == [dir |-> WithSlash(l), by |-> q, file |-> File(ctas, s, 0)]
             U == {sidecar(s) : s \in sides}
  <1>4. IsFiniteSet(U)
    <2>1. U \subseteq {sidecar("metadata")} \cup {sidecar("manifest")}
      OBVIOUS
    <2> HIDE DEF U, sidecar
    <2>2. IsFiniteSet({sidecar("metadata")} \cup {sidecar("manifest")})
      BY FS_Singleton, FS_Union
    <2> QED
      BY <2>1, <2>2, FS_Subset
  <1>5. Written(q, ctas, l) = T \cup U
    BY DEF Written, Part, Parts
  <1> HIDE DEF T, U
  <1>6. IsFiniteSet(Written(q, ctas, l))
    BY <1>3, <1>4, <1>5, FS_Union
  <1> QED
    BY <1>2, <1>3, <1>6

-----------------------------------------------------------------------------
(* Places, where the callers keep theirs apart. *)

RawCalls == {c \in Calls : request[c].op \in Raws /\ request[c].location # <<>>}

(* A query writes in the part of the bucket that is composed for it, or where *)
(* a raw call says.                                                           *)
LEMMA TargetBegins ==
    ASSUME TypeOK, NEW q, Askable(q), NEW ctas, ctas.location = PlaceOf(q)
    PROVE  /\ Target(q, ctas) \in Path /\ WithSlash(Target(q, ctas)) \in Path
           /\ \/ WithSlash(Target(q, ctas)) # <<>> /\ WithSlash(Target(q, ctas))[1] \in {"results", "workgroup"}
              \/ q[1] \in RawCalls /\ Target(q, ctas) = request[q[1]].location
  <1>1. q \in Query /\ q[1] \in Calls /\ q[2] \in 0..2 /\ PlaceOf(q) \in Path
    BY PlaceIs DEF Askable, Query
  <1>2. Target(q, ctas) \in Path /\ WithSlash(Target(q, ctas)) \in Path
    <2>1. Target(q, ctas) \in Path
      BY <1>1, Names DEF Target
    <2> QED
      BY <2>1, WithSlashIs
  <1>3. CASE workgroup.enforced
    <2>1. WithSlash(Target(q, ctas)) = <<"workgroup", "/", q[1], Attempts[q[2]], "/">>
      BY <1>3, Slashed DEF Target
    <2> QED
      BY <1>2, <2>1
  <1>4. CASE ~workgroup.enforced
    <2>1. Target(q, ctas) = PlaceOf(q)
      BY <1>4 DEF Target
    <2>2. CASE q[2] = 0 \/ Op(q[1]) = "query"
      <3>1. WithSlash(Target(q, ctas)) = <<"results", "/">>
        BY <2>1, <2>2, Slashed DEF PlaceOf
      <3> QED
        BY <1>2, <3>1
    <2>3. CASE ~(q[2] = 0 \/ Op(q[1]) = "query") /\ Op(q[1]) \in Unloads
      <3>1. WithSlash(Target(q, ctas)) = <<"results", "/", q[1], Attempts[q[2]], "/">>
        BY <2>1, <2>3, Slashed DEF PlaceOf
      <3> QED
        BY <1>2, <3>1
    <2>4. CASE ~(q[2] = 0 \/ Op(q[1]) = "query") /\ Op(q[1]) \notin Unloads
      <3>1. Op(q[1]) \in Raws /\ Target(q, ctas) = request[q[1]].location
        BY <1>1, <2>1, <2>4, OpIs DEF PlaceOf, Askable
      <3>2. q[1] \in RawCalls
        BY <1>1, <3>1 DEF RawCalls, Askable, Refused, Op, Raws
      <3> QED
        BY <1>2, <3>1, <3>2
    <2> QED
      BY <2>2, <2>3, <2>4
  <1> QED
    BY <1>3, <1>4

(* No query writes under the place where another's table is. *)
LEMMA TargetsDiffer ==
    ASSUME TypeOK, NamesApart(request), NEW q, NEW e, Askable(q), Making(e),
           NEW cq, cq.location = PlaceOf(q), NEW ce, ce.location = PlaceOf(e),
           IsPrefix(WithSlash(Target(e, ce)), WithSlash(Target(q, cq)))
    PROVE  q = e
  <1>1. CASE ~workgroup.enforced
    <2>1. Target(e, ce) = PlaceOf(e)
      BY <1>1 DEF Target
    <2> QED
      BY <2>1, PlacesDiffer
  <1>2. CASE workgroup.enforced
    <2>1. /\ q = <<q[1], q[2]>> /\ e = <<e[1], e[2]>> /\ q[2] \in 0..2 /\ e[2] \in 0..2
          /\ q[1] \in Calls /\ e[1] \in Calls
      BY DEF Askable, Making, Query
    <2> DEFINE s == <<"workgroup", "/", e[1], Attempts[e[2]], "/">>
               t == <<"workgroup", "/", q[1], Attempts[q[2]], "/">>
    <2>2. WithSlash(Target(e, ce)) = s /\ WithSlash(Target(q, cq)) = t
      BY <1>2, Slashed DEF Target
    <2>3. s \in Path /\ t \in Path
      BY <2>1, Names
    <2>4. \A i \in 1..Len(s) : s[i] = t[i]
      BY <2>2, <2>3, PrefixAgrees DEF Path
    <2>5. e[1] = q[1] /\ Attempts[e[2]] = Attempts[q[2]]
      BY <2>4
    <2>6. e[2] = q[2]
      BY <2>1, <2>5, AttemptsDiffer
    <2> QED
      BY <2>1, <2>5, <2>6
  <1> QED
    BY <1>1, <1>2

LEMMA OthersAre ==
    /\ \A o \in External.objects : o \in Objects /\ o.dir \in Path
    /\ \A name \in DOMAIN External.catalog :
         External.catalog[name] \in GlueEntries /\ External.catalog[name].location \in Path
    /\ IsFiniteSet(External.objects)
  BY AthenaAssumption DEF Objects, GlueEntries

(* The files of others are under no query's place. *)
LEMMA OthersFilesElsewhere ==
    ASSUME TypeOK, PlacesApart(request), NEW q, Askable(q), NEW ctas, ctas.location = PlaceOf(q),
           NEW o \in External.objects
    PROVE  ~IsPrefix(WithSlash(Target(q, ctas)), o.dir)
  <1> SUFFICES ASSUME IsPrefix(WithSlash(Target(q, ctas)), o.dir) PROVE FALSE
    OBVIOUS
  <1>1. /\ o.dir # <<>> /\ o.dir[1] \notin {"results", "workgroup"}
        /\ \A c \in RawCalls : ~IsPrefix(WithSlash(request[c].location), o.dir)
    BY DEF PlacesApart, RawCalls
  <1>2. o.dir \in Path /\ WithSlash(Target(q, ctas)) \in Path
    BY OthersAre, TargetBegins
  <1>3. CASE WithSlash(Target(q, ctas)) # <<>> /\ WithSlash(Target(q, ctas))[1] \in {"results", "workgroup"}
    BY <1>1, <1>2, <1>3, PrefixBegins DEF Path
  <1>4. CASE q[1] \in RawCalls /\ Target(q, ctas) = request[q[1]].location
    BY <1>1, <1>4
  <1> QED
    BY <1>3, <1>4, TargetBegins

(* No query writes under the place of a table of others. *)
LEMMA OthersPlacesElsewhere ==
    ASSUME TypeOK, PlacesApart(request), NEW q, Askable(q), NEW ctas, ctas.location = PlaceOf(q),
           NEW name \in DOMAIN External.catalog
    PROVE  ~IsPrefix(WithSlash(External.catalog[name].location), WithSlash(Target(q, ctas)))
  <1> DEFINE location == External.catalog[name].location
  <1> SUFFICES ASSUME IsPrefix(WithSlash(location), WithSlash(Target(q, ctas))) PROVE FALSE
    OBVIOUS
  <1>1. /\ location # <<>> /\ location[1] \notin {"results", "workgroup"}
        /\ \A c \in RawCalls : ~IsPrefix(WithSlash(location), WithSlash(request[c].location))
    BY DEF PlacesApart, RawCalls
  <1>2. location \in Path /\ WithSlash(Target(q, ctas)) \in Path
    BY OthersAre, TargetBegins
  <1> HIDE DEF location
  <1>3. WithSlash(location) \in Path /\ WithSlash(location) # <<>> /\ WithSlash(location)[1] = location[1]
    BY <1>1, <1>2, SlashIs
  <1>4. CASE WithSlash(Target(q, ctas)) # <<>> /\ WithSlash(Target(q, ctas))[1] \in {"results", "workgroup"}
    BY <1>1, <1>2, <1>3, <1>4, PrefixBegins DEF Path
  <1>5. CASE q[1] \in RawCalls /\ Target(q, ctas) = request[q[1]].location
    BY <1>1, <1>5
  <1> QED
    BY <1>4, <1>5, TargetBegins

-----------------------------------------------------------------------------
(* The invariant, and what it says of the files there are. *)

Fit == \A c \in Calls : RowsFit(request[c])
LInv == KInv /\ PlacesApart(request) /\ OthersAreTrue(request) /\ Fit /\ FilesInv

LEMMA InvParts ==
    ASSUME LInv
    PROVE  /\ TypeOK /\ Issued /\ Asked /\ Accounted /\ Backed /\ ClosePhase /\ OtherTablesKept /\ SlotsApart
           /\ OtherFilesKept /\ NamesApart(request) /\ PlacesApart(request) /\ OthersAreTrue(request) /\ Fit
           /\ Origins /\ Ended /\ \A c \in Calls : CallInv(c)
  BY DEF LInv, KInv, IInv, FilesInv

(* A query that is there. *)
LEMMA QueryIs ==
    ASSUME LInv, NEW q \in DOMAIN queries
    PROVE  /\ Askable(q) /\ q \in Query /\ q[1] \in Calls /\ q[2] \in 0..2 /\ q = <<q[1], q[2]>>
           /\ queries[q].ctas \in Statements
           /\ queries[q].ctas.table = NameOf(q) /\ queries[q].ctas.location = PlaceOf(q)
           /\ LeftBy(q) /\ IsFiniteSet(request[q[1]].rows)
           /\ NameOf(q) # NoTable => Making(q)
  <1>1. Askable(q)
    BY InvParts, QueriesAskable
  <1>2. q \in Query /\ q[1] \in Calls /\ q[2] \in 0..2 /\ q = <<q[1], q[2]>>
    BY <1>1 DEF Askable, Query
  <1>3. queries[q] \in QuerySet /\ AskedOf(q) /\ LeftBy(q) /\ RowsFit(request[q[1]]) /\ TypeOK
    BY <1>2, InvParts, TypesAre DEF Asked, Origins, Fit
  <1>4. NameOf(q) # NoTable => Making(q)
    BY <1>1, <1>2, <1>3, OpIs DEF NameOf, Making, Askable
  <1> QED
    BY <1>1, <1>2, <1>3, <1>4 DEF QuerySet, AskedOf, RowsFit

(* What a query that succeeded left. *)
LEMMA MadeIs ==
    ASSUME LInv, NEW q \in DOMAIN queries, NEW f, MadeAs(q, f)
    PROVE  LET ctas == queries[q].ctas
           IN  /\ \A o \in queries[q].wrote :
                    /\ o.by = q /\ o.dir = WithSlash(Target(q, ctas)) /\ o.file.hash = f
                    /\ o.file.columns = ctas.columns /\ (f = "iceberg" => o.file.sortedBy = ctas.order)
                    /\ o.file.shape # "marker"
               /\ IsFiniteSet(queries[q].wrote) /\ IsFiniteSet(Data(queries[q].wrote))
  <1> DEFINE ctas == queries[q].ctas
             made == [ctas EXCEPT !.format = f]
             l == Target(q, ctas)
  <1>1. ctas \in Statements /\ IsFiniteSet(request[q[1]].rows)
    BY QueryIs
  <1>2. made.format = f /\ made.columns = ctas.columns /\ made.order = ctas.order
    BY <1>1 DEF Statements
  <1>3. queries[q].wrote = Written(q, made, l)
    BY DEF MadeAs
  <1> HIDE DEF made
  <1>4. \A o \in Written(q, made, l) :
           /\ o.by = q /\ o.dir = WithSlash(l) /\ o.file.hash = made.format /\ o.file.columns = made.columns
           /\ made.format = "iceberg" => o.file.sortedBy = made.order
           /\ o.file.shape \in {Shape(made), "metadata", "manifest"}
    BY WrittenIs2
  <1>5. IsFiniteSet(Written(q, made, l)) /\ IsFiniteSet(Data(Written(q, made, l)))
    BY <1>1, WrittenFinite
  <1>6. Shape(made) # "marker"
    BY DataShapes
  <1> QED
    BY <1>2, <1>3, <1>4, <1>5, <1>6

(* A file of a query is of one that succeeded, and in its place. *)
LEMMA WroteIs ==
    ASSUME LInv, NEW q \in DOMAIN queries, NEW o \in queries[q].wrote
    PROVE  /\ queries[q].state = "succeeded"
           /\ o.by = q /\ o.dir = WithSlash(Target(q, queries[q].ctas)) /\ o \in Objects
  <1>1. queries[q].state = "succeeded" /\ \E f \in Formats : MadeAs(q, f)
    BY QueryIs DEF LeftBy
  <1>2. o \in Objects
    BY InvParts, TypesAre DEF QuerySet
  <1> QED
    BY <1>1, <1>2, MadeIs

LEMMA SlashPrefix ==
    ASSUME LInv, NEW q \in DOMAIN queries
    PROVE  LET place == WithSlash(Target(q, queries[q].ctas)) IN place \in Path /\ IsPrefix(place, place)
  BY InvParts, QueryIs, TargetBegins, PrefixOfItself DEF Path

(* A listing of the place of a query's table finds the query's own files. *)
LEMMA OwnListing ==
    ASSUME LInv, NEW q \in DOMAIN queries, Making(q)
    PROVE  Found(Target(q, queries[q].ctas)) = Data(queries[q].wrote) \cap objects
  <1> DEFINE place == WithSlash(Target(q, queries[q].ctas))
  <1>1. ASSUME NEW o \in objects, IsPrefix(place, o.dir) PROVE o \in queries[q].wrote
    <2>1. o \notin External.objects
      BY <1>1, InvParts, QueryIs, OthersFilesElsewhere
    <2>2. PICK p \in DOMAIN queries : o \in queries[p].wrote
      BY <2>1, InvParts DEF Origins
    <2>3. o.dir = WithSlash(Target(p, queries[p].ctas))
      BY <2>2, WroteIs
    <2>4. p = q
      BY <1>1, <2>3, InvParts, QueryIs, TargetsDiffer
    <2> QED
      BY <2>2, <2>4
  <1>2. ASSUME NEW o \in queries[q].wrote PROVE IsPrefix(place, o.dir)
    BY WroteIs, SlashPrefix
  <1> QED
    BY <1>1, <1>2 DEF Found, Data, Under, ListingPrefix

(* A listing of the place of a table of others finds the files that are there. *)
LEMMA OthersListing ==
    ASSUME LInv, NEW name \in DOMAIN External.catalog
    PROVE  Found(External.catalog[name].location) = FilesOf(name)
  <1> DEFINE place == WithSlash(External.catalog[name].location)
  <1>1. ASSUME NEW o \in objects, IsPrefix(place, o.dir) PROVE o \in External.objects
    <2> SUFFICES ASSUME o \notin External.objects PROVE FALSE
      OBVIOUS
    <2>1. PICK p \in DOMAIN queries : o \in queries[p].wrote
      BY InvParts DEF Origins
    <2>2. o.dir = WithSlash(Target(p, queries[p].ctas))
      BY <2>1, WroteIs
    <2> QED
      BY <1>1, <2>2, InvParts, QueryIs, OthersPlacesElsewhere
  <1>2. External.objects \subseteq objects
    BY InvParts DEF Origins
  <1> QED
    BY <1>1, <1>2 DEF Found, FilesOf, Data, Under, ListingPrefix

-----------------------------------------------------------------------------
(* What a step leaves as it was. *)

\* The requests stay, queries are only added to and ended, Close only takes more.
Extended ==
    /\ UNCHANGED workgroup /\ UNCHANGED request /\ closer.taken \subseteq closer'.taken
    /\ \A q \in DOMAIN queries :
         /\ q \in DOMAIN queries' /\ queries'[q].ctas = queries[q].ctas
         /\ queries[q].state # "running" => queries'[q] = queries[q]

SameCall(d) ==
    /\ call'[d].pc = call[d].pc /\ call'[d].attempt = call[d].attempt /\ call'[d].ctas = call[d].ctas
    /\ call'[d].waited = call[d].waited /\ call'[d].denied = call[d].denied
    /\ call'[d].succeeded = call[d].succeeded /\ call'[d].failed = call[d].failed
    /\ call'[d].location = call[d].location /\ call'[d].slots = call[d].slots
    /\ call'[d].files = call[d].files /\ call'[d].read = call[d].read /\ call'[d].claim = call[d].claim

LEMMA Rigid ==
    ASSUME UNCHANGED request, UNCHANGED workgroup
    PROVE  /\ \A q, ctas : Target(q, ctas)' = Target(q, ctas) /\ (Phrased(q, ctas)' <=> Phrased(q, ctas))
           /\ \A q, ctas, l : Written(q, ctas, l)' = Written(q, ctas, l)
           /\ \A q : NameOf(q)' = NameOf(q) /\ PlaceOf(q)' = PlaceOf(q)
           /\ \A c : /\ Op(c)' = Op(c) /\ (Refused(c)' <=> Refused(c)) /\ (Hopeless(c)' <=> Hopeless(c))
                     /\ (Composable(c)' <=> Composable(c))
  <1>1. \A c : Op(c)' = Op(c) /\ (Refused(c)' <=> Refused(c)) /\ (Composable(c)' <=> Composable(c))
    BY DEF Op, Refused, Composable
  <1>2. \A c : Hopeless(c)' <=> Hopeless(c)
    BY <1>1 DEF Hopeless
  <1>3. \A q : NameOf(q)' = NameOf(q) /\ PlaceOf(q)' = PlaceOf(q)
    BY <1>1 DEF NameOf, PlaceOf
  <1>4. \A q, ctas : Target(q, ctas)' = Target(q, ctas)
    BY DEF Target
  <1>5. \A q, ctas : Phrased(q, ctas)' <=> Phrased(q, ctas)
    <2>1. \A c, a, f : ComposeCTAS(c, a, f)' = ComposeCTAS(c, a, f) /\ RawCTAS(c)' = RawCTAS(c)
      BY DEF ComposeCTAS, RawCTAS
    <2> QED
      BY <1>1, <2>1 DEF Phrased
  <1>6. \A q, ctas, l : Written(q, ctas, l)' = Written(q, ctas, l)
    <2>1. \A ctas : Shape(ctas)' = Shape(ctas)
      BY DEF Shape
    <2> QED
      BY <2>1 DEF Written
  <1> QED
    BY <1>1, <1>2, <1>3, <1>4, <1>5, <1>6

(* What a query left stays, while its table does. *)
LEMMA LeftStays ==
    ASSUME UNCHANGED request, UNCHANGED workgroup, NEW q, LeftBy(q), queries'[q] = queries[q],
           NameOf(q) \in DOMAIN catalog' => NameOf(q) \in DOMAIN catalog /\ catalog'[NameOf(q)] = catalog[NameOf(q)]
    PROVE  LeftBy(q)'
  <1>1. ASSUME NEW f, MadeAs(q, f) PROVE MadeAs(q, f)'
    BY <1>1, Rigid DEF MadeAs
  <1> QED
    BY <1>1, Rigid DEF LeftBy

LEMMA WroteGrows ==
    ASSUME LInv, Extended, NEW q \in DOMAIN queries
    PROVE  queries[q].wrote \subseteq queries'[q].wrote
  BY WroteIs DEF Extended

(* What is said of a call that did not move. *)
LEMMA CallSays ==
    ASSUME LInv, Extended, NEW d \in Calls, SameCall(d)
    PROVE  /\ QueryOf(d)' = QueryOf(d) /\ TableOf(d)' = TableOf(d) /\ Claimed(d)' = Claimed(d)
           /\ (Answered(d)' <=> Answered(d)) /\ (Resolved(d)' <=> Resolved(d)) /\ (Over(d)' <=> Over(d))
           /\ \A i : ReadAs(d, i)' = ReadAs(d, i)
           /\ OwnQueries(d) \subseteq OwnQueries(d)'
           /\ \A table : Emptied(table) => Emptied(table)'
  <1>1. QueryOf(d)' = QueryOf(d) /\ Op(d)' = Op(d)
    BY Rigid DEF Extended, SameCall, QueryOf
  <1>2. TableOf(d)' = TableOf(d) /\ Claimed(d)' = Claimed(d)
    BY <1>1 DEF Extended, SameCall, TableOf, Claimed
  <1>3. (Over(d)' <=> Over(d)) /\ (Answered(d)' <=> Answered(d)) /\ (Resolved(d)' <=> Resolved(d))
    BY DEF SameCall, Over, At, Answered, Resolved
  <1>4. \A i : ReadAs(d, i)' = ReadAs(d, i)
    BY <1>1 DEF SameCall, ReadAs
  <1>5. OwnQueries(d) \subseteq OwnQueries(d)'
    BY <1>1 DEF Extended, OwnQueries
  <1>6. \A table : Emptied(table) => Emptied(table)'
    BY DEF Extended, Emptied
  <1> QED
    BY <1>1, <1>2, <1>3, <1>4, <1>5, <1>6

(* The queries a call may read from are there, or others have made its table. *)
LEMMA OwnIs ==
    ASSUME LInv, NEW d \in Calls, NEW by \in OwnQueries(d)
    PROVE  /\ by = <<>> => Op(d) = "open" /\ request[d].table \in DOMAIN External.catalog
           /\ by # <<>> /\ Op(d) = "open" => by \in DOMAIN queries /\ queries[by].ctas.table = request[d].table
           /\ Op(d) # "open" => by = QueryOf(d) /\ by # <<>>
  <1>1. QueryOf(d) # <<>>
    BY DEF QueryOf
  <1>2. \A q \in DOMAIN queries : q # <<>>
    BY QueryIs
  <1>3. CASE Op(d) # "open"
    BY <1>1, <1>3 DEF OwnQueries
  <1>4. CASE Op(d) = "open" /\ request[d].table \in DOMAIN External.catalog
    BY <1>4 DEF OwnQueries
  <1>5. CASE Op(d) = "open" /\ request[d].table \notin DOMAIN External.catalog
    BY <1>2, <1>5 DEF OwnQueries
  <1> QED
    BY <1>3, <1>4, <1>5

LEMMA SourceStays ==
    ASSUME LInv, Extended, NEW d \in Calls, SameCall(d), NEW by
    PROVE  /\ by = <<>> => Source(d, by)' = Source(d, by) /\ PlaceRead(d, by)' = PlaceRead(d, by)
           /\ by \in DOMAIN queries => Source(d, by) \subseteq Source(d, by)' /\ PlaceRead(d, by)' = PlaceRead(d, by)
           /\ by \in DOMAIN queries /\ queries[by].state = "succeeded" => Source(d, by)' = Source(d, by)
  <1>1. by = <<>> => Source(d, by)' = Source(d, by) /\ PlaceRead(d, by)' = PlaceRead(d, by)
    BY DEF Source, PlaceRead, Extended
  <1>2. ASSUME by \in DOMAIN queries, by # <<>>
        PROVE  Source(d, by) \subseteq Source(d, by)' /\ PlaceRead(d, by)' = PlaceRead(d, by)
    BY <1>2, WroteGrows, Rigid DEF Source, PlaceRead, Data, Extended
  <1>3. ASSUME by \in DOMAIN queries, queries[by].state = "succeeded"
        PROVE  Source(d, by)' = Source(d, by)
    BY <1>1, <1>3 DEF Source, Extended
  <1> QED
    BY <1>1, <1>2, <1>3

(* A call that saw its query succeed knows the files that it wrote. *)
LEMMA SawSuccess ==
    ASSUME LInv, NEW d \in Calls, call[d].succeeded
    PROVE  /\ QueryOf(d) \in DOMAIN queries /\ queries[QueryOf(d)].state = "succeeded"
           /\ queries[QueryOf(d)].ctas = call[d].ctas /\ call[d].attempt # 0
  BY InvParts DEF Issued, IssuedOf

LEMMA ResolvedIs ==
    ASSUME LInv, NEW d \in Calls, Resolved(d), Op(d) # "open"
    PROVE  /\ call[d].succeeded /\ QueryOf(d) \in DOMAIN queries /\ queries[QueryOf(d)].state = "succeeded"
           /\ queries[QueryOf(d)].ctas = call[d].ctas /\ call[d].attempt # 0
  BY InvParts, SawSuccess DEF CallInv, CheckedOf

LEMMA CheckedStays ==
    ASSUME LInv, Extended, NEW d \in Calls, SameCall(d)
    PROVE  CheckedOf(d)'
  <1>1. CheckedOf(d)
    BY InvParts DEF CallInv
  <1>2. /\ QueryOf(d)' = QueryOf(d) /\ (Resolved(d)' <=> Resolved(d)) /\ Op(d)' = Op(d)
        /\ UNCHANGED request /\ \A q, ctas : Phrased(q, ctas)' <=> Phrased(q, ctas)
    BY CallSays, Rigid DEF Extended
  <1>3. Resolved(d) /\ Op(d) \in Unloads =>
           queries'[QueryOf(d)].wrote = queries[QueryOf(d)].wrote
    BY ResolvedIs DEF Extended, Unloads
  <1> QED
    BY <1>1, <1>2, <1>3 DEF CheckedOf, SameCall

LEMMA LocatedStays ==
    ASSUME LInv, Extended, NEW d \in Calls, SameCall(d)
    PROVE  LocatedOf(d)'
  <1> SUFFICES ASSUME call'[d].pc = "list"
               PROVE  \E by \in OwnQueries(d)' :
                        /\ by # <<>> => queries'[by].state = "succeeded" /\ NameOf(by)' # NoTable
                        /\ call'[d].location = PlaceRead(d, by)'
                        /\ Op(d)' = "open" => \A o \in Source(d, by)' : TrueOf(call'[d].claim, o.file)
    BY DEF LocatedOf
  <1>1. call[d].pc = "list" /\ LocatedOf(d)
    BY InvParts DEF SameCall, CallInv
  <1>2. PICK by \in OwnQueries(d) :
           /\ by # <<>> => queries[by].state = "succeeded" /\ NameOf(by) # NoTable
           /\ call[d].location = PlaceRead(d, by)
           /\ Op(d) = "open" => \A o \in Source(d, by) : TrueOf(call[d].claim, o.file)
    BY <1>1 DEF LocatedOf
  <1>3. Op(d) # "open" => Resolved(d)
    BY <1>1 DEF Resolved
  <1>4. by # <<>> => by \in DOMAIN queries
    BY <1>1, <1>3, OwnIs, ResolvedIs DEF Resolved
  <1>5. by # <<>> => queries'[by] = queries[by]
    BY <1>2, <1>4 DEF Extended
  <1>6. Source(d, by)' = Source(d, by) /\ PlaceRead(d, by)' = PlaceRead(d, by)
    BY <1>2, <1>4, SourceStays
  <1>7. by \in OwnQueries(d)' /\ NameOf(by)' = NameOf(by) /\ Op(d)' = Op(d)
    BY CallSays, Rigid DEF Extended
  <1> QED
    BY <1>2, <1>5, <1>6, <1>7 DEF SameCall

LEMMA OwnFileStays ==
    ASSUME LInv, Extended, NEW d \in Calls, SameCall(d), call[d].pc = "read", NEW o, OwnFile(d, o)
    PROVE  OwnFile(d, o)'
  <1>1. o.by \in OwnQueries(d) /\ o.by \in OwnQueries(d)' /\ Claimed(d)' = Claimed(d) /\ Op(d)' = Op(d)
    BY CallSays, Rigid DEF OwnFile, Extended
  <1>2. Op(d) # "open" => QueryOf(d) \in DOMAIN queries
    BY ResolvedIs DEF Resolved
  <1>3. o.by # <<>> => o.by \in DOMAIN queries
    BY <1>1, <1>2, OwnIs
  <1>4. o \in Source(d, o.by)'
    BY <1>3, SourceStays DEF OwnFile
  <1> QED
    BY <1>1, <1>4 DEF OwnFile

LEMMA ReadingStays ==
    ASSUME LInv, Extended, NEW d \in Calls, SameCall(d)
    PROVE  ReadingOf(d)'
  <1> SUFFICES ASSUME call[d].pc = "read"
               PROVE  ReadingOf(d)'
    BY DEF ReadingOf, SameCall
  <1>1. ReadingOf(d)
    BY InvParts DEF CallInv
  <1>2. /\ QueryOf(d)' = QueryOf(d) /\ TableOf(d)' = TableOf(d) /\ Op(d)' = Op(d)
        /\ \A i : ReadAs(d, i)' = ReadAs(d, i)
        /\ \A table : Emptied(table) => Emptied(table)'
        /\ UNCHANGED request
    BY CallSays, Rigid DEF Extended
  <1>3. Op(d) # "open" => queries'[QueryOf(d)].wrote = queries[QueryOf(d)].wrote
    BY ResolvedIs DEF Resolved, Extended
  <1>4. \A o \in ToSet(call[d].files) : OwnFile(d, o)'
    BY <1>1, OwnFileStays DEF ReadingOf
  <1> QED
    BY <1>1, <1>2, <1>3, <1>4 DEF ReadingOf, SameCall

LEMMA AnswerStays ==
    ASSUME LInv, Extended, NEW d \in Calls, SameCall(d)
    PROVE  AnswerOf(d)'
  <1>1. AnswerOf(d)
    BY InvParts DEF CallInv
  <1>2. /\ QueryOf(d)' = QueryOf(d) /\ TableOf(d)' = TableOf(d) /\ Op(d)' = Op(d)
        /\ (Answered(d)' <=> Answered(d)) /\ OwnQueries(d) \subseteq OwnQueries(d)'
        /\ \A table : Emptied(table) => Emptied(table)'
    BY CallSays, Rigid DEF Extended
  <1>3. Answered(d) /\ Op(d) # "open" => queries'[QueryOf(d)].wrote = queries[QueryOf(d)].wrote
    BY ResolvedIs DEF Resolved, Extended
  <1> SUFFICES ASSUME Answered(d) PROVE TrueAnswer(d)'
    BY <1>2 DEF AnswerOf
  <1>4. TrueAnswer(d)
    BY <1>1 DEF AnswerOf
  <1> QED
    BY <1>2, <1>3, <1>4 DEF TrueAnswer, SameCall

LEMMA CauseStays ==
    ASSUME LInv, Extended, NEW d \in Calls, Cause(d),
           QueryOf(d)' = QueryOf(d), TableOf(d)' = TableOf(d),
           call'[d].waited = call[d].waited, call'[d].ctas = call[d].ctas
    PROVE  Cause(d)'
  <1>1. (Hopeless(d)' <=> Hopeless(d)) /\ (Refused(d)' <=> Refused(d))
    BY Rigid DEF Extended
  <1>2. ASSUME QueryOf(d) \in DOMAIN queries
        PROVE  /\ QueryOf(d) \in DOMAIN queries'
               /\ queries[QueryOf(d)].state \in {"failed", "succeeded"} => queries'[QueryOf(d)] = queries[QueryOf(d)]
    BY <1>2 DEF Extended
  <1> QED
    BY <1>1, <1>2 DEF Cause, Extended

LEMMA CallStays ==
    ASSUME LInv, Extended, NEW d \in Calls, SameCall(d)
    PROVE  CallInv(d)'
  <1>1. CauseOf(d)'
    <2>1. CauseOf(d) /\ (Over(d)' <=> Over(d)) /\ QueryOf(d)' = QueryOf(d) /\ TableOf(d)' = TableOf(d)
      BY InvParts, CallSays DEF CallInv
    <2>2. Cause(d) => Cause(d)'
      BY <2>1, CauseStays DEF SameCall
    <2> QED
      BY <2>1, <2>2 DEF CauseOf, SameCall
  <1> QED
    BY <1>1, CheckedStays, LocatedStays, ReadingStays, AnswerStays DEF CallInv

-----------------------------------------------------------------------------
(* The steps of the services and of Close. *)

LEMMA HypothesesStay ==
    ASSUME LInv, UNCHANGED request
    PROVE  PlacesApart(request)' /\ OthersAreTrue(request)' /\ Fit'
  <1>1. PlacesApart(request)'
    BY InvParts DEF PlacesApart
  <1>2. OthersAreTrue(request)'
    BY InvParts DEF OthersAreTrue
  <1>3. Fit'
    BY InvParts DEF Fit, RowsFit
  <1> QED
    BY <1>1, <1>2, <1>3

\* Nothing new is in the catalog or among the files, and nothing of others is lost.
Shrinks ==
    /\ UNCHANGED workgroup /\ UNCHANGED request /\ UNCHANGED call /\ UNCHANGED queries
    /\ closer.taken \subseteq closer'.taken
    /\ DOMAIN External.catalog \subseteq DOMAIN catalog' /\ DOMAIN catalog' \subseteq DOMAIN catalog
    /\ \A name \in DOMAIN catalog' : catalog'[name] = catalog[name]
    /\ External.objects \subseteq objects' /\ objects' \subseteq objects

LEMMA ShrinksKeeps ==
    ASSUME LInv, Shrinks
    PROVE  Origins' /\ \A d \in Calls : CallInv(d)'
  <1>1. Extended /\ \A d \in Calls : SameCall(d)
    BY DEF Shrinks, Extended, SameCall
  <1>2. \A d \in Calls : CallInv(d)'
    BY <1>1, CallStays
  <1>3. \A q \in DOMAIN queries' : LeftBy(q)'
    BY InvParts, LeftStays DEF Shrinks, Origins
  <1>4. IsFiniteSet(objects')
    BY InvParts, FS_Subset DEF Shrinks, Origins
  <1>5. \A q : NameOf(q)' = NameOf(q)
    BY Rigid DEF Shrinks
  <1>6. Origins
    BY InvParts
  <1> QED
    BY <1>2, <1>3, <1>4, <1>5, <1>6 DEF Shrinks, Origins

LEMMA OthersAreThere ==
    ASSUME LInv
    PROVE  /\ DOMAIN External.catalog \subseteq DOMAIN catalog /\ External.objects \subseteq objects
           /\ \A name \in DOMAIN External.catalog : catalog[name] = External.catalog[name]
           /\ NoTable \notin DOMAIN catalog
  <1>1. DOMAIN External.catalog \subseteq DOMAIN catalog
    BY InvParts DEF OtherTablesKept
  <1>2. NoTable \notin DOMAIN External.catalog
    BY AthenaAssumption
  <1> QED
    BY <1>1, <1>2, InvParts DEF Origins

LEMMA CancelLeaves ==
    ASSUME LInv, NEW c \in Calls, Cancel(c)
    PROVE  Origins' /\ \A d \in Calls : CallInv(d)'
  <1>1. /\ UNCHANGED workgroup /\ UNCHANGED request /\ UNCHANGED queries /\ UNCHANGED catalog
        /\ UNCHANGED objects /\ UNCHANGED closer
    BY DEF Cancel, services
  <1>2. \A d \in Calls : SameCall(d)
    <2>1. Recorded(call[c]) /\ call' = [call EXCEPT ![c].cancelled = TRUE] /\ call = [d \in Calls |-> call[d]]
      BY InvParts, Asking DEF Cancel, TypeOK
    <2> QED
      BY <2>1 DEF SameCall, Recorded
  <1>3. Extended
    BY <1>1 DEF Extended
  <1>4. \A d \in Calls : CallInv(d)'
    BY <1>2, <1>3, CallStays
  <1>5. \A q \in DOMAIN queries' : LeftBy(q)'
    BY <1>1, InvParts, LeftStays DEF Origins
  <1>6. Origins /\ \A q : NameOf(q)' = NameOf(q)
    BY <1>1, InvParts, Rigid
  <1> QED
    BY <1>1, <1>4, <1>5, <1>6 DEF Origins

LEMMA CloseBeginsLeaves ==
    ASSUME LInv, CloseBegins
    PROVE  Origins' /\ \A d \in Calls : CallInv(d)'
  <1>1. Shrinks
    BY InvParts, CloseBeginsDoes, OthersAreThere DEF Shrinks
  <1> QED
    BY <1>1, ShrinksKeeps

LEMMA CloseReturnsLeaves ==
    ASSUME LInv, CloseReturns
    PROVE  Origins' /\ \A d \in Calls : CallInv(d)'
  <1>1. Shrinks
    BY InvParts, CloseReturnsDoes, OthersAreThere DEF Shrinks
  <1> QED
    BY <1>1, ShrinksKeeps

LEMMA DropTableLeaves ==
    ASSUME LInv, DropTable
    PROVE  Origins' /\ \A d \in Calls : CallInv(d)'
  <1>1. OtherTablesKept'
    BY InvParts, DropTablesKept
  <1>2. /\ closer'.taken = closer.taken /\ Deals(Head(closer.todo))
        /\ UNCHANGED workgroup /\ UNCHANGED request /\ UNCHANGED call /\ UNCHANGED queries /\ UNCHANGED objects
    BY InvParts, DropTableDoes
  <1>3. UNCHANGED catalog \/ \E t : catalog' = [name \in DOMAIN catalog \ {t} |-> catalog[name]]
    BY <1>2 DEF Deals
  <1>4. DOMAIN catalog' \subseteq DOMAIN catalog /\ \A name \in DOMAIN catalog' : catalog'[name] = catalog[name]
    BY <1>3
  <1>5. DOMAIN External.catalog \subseteq DOMAIN catalog'
    BY <1>1 DEF OtherTablesKept
  <1>6. Shrinks
    BY <1>2, <1>4, <1>5, OthersAreThere DEF Shrinks
  <1> QED
    BY <1>6, ShrinksKeeps

(* What Close is to delete ends in a slash. *)
LEMMA EntryEnds ==
    ASSUME LInv, NEW e \in closer.taken, e.cleanup = "all"
    PROVE  /\ WithSlash(e.location) = e.location /\ Last(e.location) = "/"
           /\ \A o \in External.objects : ~IsPrefix(e.location, o.dir)
  <1>1. PICK q \in DOMAIN queries : EntryOf(e, q)
    BY InvParts DEF Backed
  <1>2. /\ Making(q) /\ e.location = PlaceOf(q) /\ Cleanup(q[1]) = "all" /\ q[1] \in Calls /\ q[2] # 0
    BY <1>1, QueryIs DEF EntryOf, Making
  <1>3. CASE Op(q[1]) \in Unloads
    <2>1. e.location = <<"results", "/", q[1], Attempts[q[2]], "/">>
      BY <1>2, <1>3 DEF PlaceOf, Unloads
    <2>2. WithSlash(e.location) = e.location /\ Last(e.location) = "/"
      BY <2>1 DEF WithSlash, Last
    <2>3. e.location \in Path /\ e.location # <<>> /\ e.location[1] = "results"
      <3>1. q[1] \in Calls /\ q[2] \in 0..2
        BY QueryIs
      <3>2. e.location \in Path
        BY <2>1, <3>1, Names
      <3> QED
        BY <2>1, <3>2
    <2>4. ASSUME NEW o \in External.objects, IsPrefix(e.location, o.dir) PROVE FALSE
      <3>1. o.dir \in Path /\ o.dir[1] # "results"
        BY InvParts, OthersAre DEF PlacesApart
      <3> QED
        BY <2>3, <2>4, <3>1, PrefixBegins DEF Path
    <2> QED
      BY <2>2, <2>4
  <1>4. CASE Op(q[1]) \in Raws
    <2>1. e.location = request[q[1]].location /\ q[1] \in RawCalls
      BY <1>2, <1>4 DEF PlaceOf, Unloads, Raws, RawCalls, Op, Making, Askable, Refused
    <2>2. Last(e.location) = "/"
      BY <1>2, <2>1, InvParts DEF PlacesApart, RawCalls, Cleanup
    <2>3. WithSlash(e.location) = e.location
      BY <2>2 DEF WithSlash
    <2>4. \A o \in External.objects : ~IsPrefix(WithSlash(request[q[1]].location), o.dir)
      BY <2>1, InvParts DEF PlacesApart, RawCalls
    <2> QED
      BY <2>1, <2>2, <2>3, <2>4
  <1> QED
    BY <1>2, <1>3, <1>4 DEF Making

LEMMA DeletePrefixLeaves ==
    ASSUME LInv, DeletePrefix
    PROVE  Origins' /\ \A d \in Calls : CallInv(d)'
  <1> DEFINE t == Head(closer.todo)
  <1>1. /\ closer'.taken = closer.taken /\ Deletes(t) /\ closer.todo # <<>> /\ t.cleanup = "all"
        /\ UNCHANGED workgroup /\ UNCHANGED request /\ UNCHANGED call /\ UNCHANGED queries /\ UNCHANGED catalog
    BY InvParts, DeletePrefixDoes
  <1>2. t \in closer.taken
    BY <1>1, InvParts, CloseHead
  <1>3. objects' \subseteq objects /\ objects \ objects' \subseteq Under(t.location)
    BY <1>1 DEF Deletes
  <1>4. External.objects \cap Under(t.location) = {}
    BY <1>1, <1>2, EntryEnds DEF Under
  <1>5. Shrinks
    BY <1>1, <1>3, <1>4, OthersAreThere DEF Shrinks
  <1> QED
    BY <1>5, ShrinksKeeps

LEMMA StutterLeaves ==
    ASSUME LInv, UNCHANGED vars
    PROVE  Origins' /\ \A d \in Calls : CallInv(d)'
  <1>1. Shrinks
    BY OthersAreThere DEF Shrinks, vars, client, services
  <1> QED
    BY <1>1, ShrinksKeeps

LEMMA QueryFailsLeaves ==
    ASSUME LInv, NEW q \in DOMAIN queries, QueryFails(q)
    PROVE  Origins' /\ \A d \in Calls : CallInv(d)'
  <1>1. /\ Ends(q) /\ queries'[q].state = "failed" /\ queries'[q].wrote = queries[q].wrote
        /\ UNCHANGED catalog /\ UNCHANGED objects
    BY InvParts, QueryFailsDoes
  <1>2. Extended /\ \A d \in Calls : SameCall(d)
    BY <1>1 DEF Ends, Extended, SameCall
  <1>3. \A d \in Calls : CallInv(d)'
    BY <1>2, CallStays
  <1>4. ASSUME NEW p \in DOMAIN queries' PROVE LeftBy(p)'
    <2>1. p \in DOMAIN queries /\ LeftBy(p)
      BY <1>1, InvParts DEF Ends, Origins
    <2>2. CASE p # q
      BY <1>1, <2>1, <2>2, LeftStays DEF Ends
    <2>3. CASE p = q
      <3>1. queries[q].wrote = {} /\ Phrased(q, queries[q].ctas)
        BY <1>1, <2>1, <2>3 DEF Ends, LeftBy
      <3>2. Phrased(q, queries[q].ctas)'
        BY <1>1, <3>1, Rigid DEF Ends
      <3> QED
        BY <1>1, <2>3, <3>1, <3>2 DEF LeftBy
    <2> QED
      BY <2>2, <2>3
  <1>5. /\ \A p : NameOf(p)' = NameOf(p)
        /\ \A p \in DOMAIN queries : p # q => queries'[p] = queries[p]
    BY <1>1, Rigid DEF Ends
  <1>6. Origins
    BY InvParts
  <1>7. /\ queries'[q].wrote = queries[q].wrote /\ queries[q].state = "running" /\ DOMAIN queries' = DOMAIN queries
        /\ UNCHANGED catalog /\ UNCHANGED objects
    BY <1>1 DEF Ends
  <1>8. \A name \in DOMAIN catalog \ DOMAIN External.catalog :
           name # NoTable /\ \E p \in DOMAIN queries : queries'[p].state = "succeeded" /\ NameOf(p) = name
    BY <1>5, <1>6, <1>7 DEF Origins
  <1>9. \A o \in objects \ External.objects : \E p \in DOMAIN queries : o \in queries'[p].wrote
    BY <1>5, <1>6, <1>7 DEF Origins
  <1> QED
    BY <1>3, <1>4, <1>5, <1>6, <1>7, <1>8, <1>9 DEF Origins

LEMMA QuerySucceedsLeaves ==
    ASSUME LInv, NEW q \in DOMAIN queries, QuerySucceeds(q)
    PROVE  Origins' /\ \A d \in Calls : CallInv(d)'
  <1> DEFINE asked == queries[q].ctas
             place == Target(q, asked)
  <1>1. /\ Ends(q) /\ queries'[q].state = "succeeded" /\ queries' = [p \in DOMAIN queries |-> queries'[p]]
        /\ objects' = objects \cup queries'[q].wrote /\ asked.table \notin DOMAIN catalog
    BY InvParts, QuerySucceedsDoes
  <1>2. PICK f \in {asked.format} \cup (IF asked.format = "iceberg" /\ faults < MaxFaults THEN {"hive"} ELSE {}) :
           LET ctas == [asked EXCEPT !.format = f]
               wrote == Written(q, ctas, place)
           IN  /\ queries' = [queries EXCEPT ![q].state = "succeeded", ![q].wrote = wrote]
               /\ objects' = objects \cup wrote
               /\ catalog' = IF asked.table = NoTable THEN catalog
                             ELSE With(catalog, asked.table, Entry(ctas, place))
               /\ faults' = IF f = asked.format THEN faults ELSE faults + 1
    BY DEF QuerySucceeds
  <1> DEFINE made == [asked EXCEPT !.format = f]
             wrote == Written(q, made, place)
             entry == Entry(made, place)
  <1>3. asked \in Statements /\ asked.table = NameOf(q) /\ LeftBy(q) /\ queries[q] \in QuerySet
    BY QueryIs, InvParts, TypesAre
  <1>4. f \in Formats /\ (f = asked.format \/ (asked.format = "iceberg" /\ f = "hive"))
    BY <1>2, <1>3 DEF Statements, Formats
  <1>5. queries' = [queries EXCEPT ![q].state = "succeeded", ![q].wrote = wrote]
    BY <1>2
  <1>6. catalog' = IF asked.table = NoTable THEN catalog ELSE With(catalog, asked.table, entry)
    BY <1>2
  <1> HIDE DEF made, wrote, entry
  <1>7. queries'[q].wrote = wrote
    BY <1>3, <1>5 DEF QuerySet
  <1>8. /\ DOMAIN catalog \subseteq DOMAIN catalog' /\ DOMAIN catalog' \subseteq DOMAIN catalog \cup {asked.table}
        /\ \A name \in DOMAIN catalog : catalog'[name] = catalog[name]
        /\ asked.table \in DOMAIN catalog' => asked.table # NoTable /\ catalog'[asked.table] = entry
    <2>1. CASE asked.table = NoTable
      BY <1>1, <1>6, <2>1
    <2>2. CASE asked.table # NoTable
      <3> DEFINE name == asked.table
      <3>1. catalog' = With(catalog, name, entry) /\ name \notin DOMAIN catalog /\ name # NoTable
        BY <1>1, <1>6, <2>2
      <3> HIDE DEF name
      <3>2. /\ DOMAIN catalog' = DOMAIN catalog \cup {name} /\ catalog'[name] = entry
            /\ \A y \in DOMAIN catalog \ {name} : catalog'[y] = catalog[y]
        BY <3>1 DEF With
      <3>3. /\ DOMAIN catalog \subseteq DOMAIN catalog' /\ DOMAIN catalog' \subseteq DOMAIN catalog \cup {name}
            /\ \A y \in DOMAIN catalog : catalog'[y] = catalog[y]
            /\ name \in DOMAIN catalog' => name # NoTable /\ catalog'[name] = entry
        BY <3>1, <3>2
      <3> QED
        BY <3>3 DEF name
    <2> QED
      BY <2>1, <2>2
  <1>9. Extended /\ \A d \in Calls : SameCall(d)
    BY <1>1 DEF Ends, Extended, SameCall
  <1>10. \A d \in Calls : CallInv(d)'
    BY <1>9, CallStays
  <1>11. UNCHANGED request /\ UNCHANGED workgroup /\ queries'[q].ctas = asked
    BY <1>1 DEF Ends
  <1>12. LeftBy(q)'
    <2>1. MadeAs(q, f)'
      <3>1. Target(q, asked)' = place /\ \A l, s : Written(q, s, l)' = Written(q, s, l)
        BY <1>11, Rigid
      <3>2. NameOf(q)' = asked.table
        BY <1>3, <1>11, Rigid
      <3> QED
        BY <1>4, <1>7, <1>8, <1>11, <3>1, <3>2 DEF MadeAs, made, wrote, entry
    <2>2. Phrased(q, queries[q].ctas)'
      BY <1>3, <1>11, Rigid DEF LeftBy
    <2> QED
      BY <1>1, <1>4, <2>1, <2>2 DEF LeftBy
  <1>13. ASSUME NEW p \in DOMAIN queries', p # q PROVE LeftBy(p)'
    <2>1. p \in DOMAIN queries /\ LeftBy(p) /\ queries'[p] = queries[p]
      BY <1>1, <1>13, InvParts DEF Ends, Origins
    <2>2. NameOf(p) = asked.table => NameOf(p) \notin DOMAIN catalog'
      <3> SUFFICES ASSUME NameOf(p) = asked.table, asked.table \in DOMAIN catalog' PROVE FALSE
        OBVIOUS
      <3>1. asked.table # NoTable
        BY <1>8
      <3>2. Making(q) /\ Askable(p) /\ NameOf(p) = NameOf(q)
        BY <1>3, <2>1, <3>1, QueryIs
      <3> QED
        BY <1>13, <3>2, InvParts, NamesDiffer
    <2> QED
      BY <1>8, <1>11, <2>1, <2>2, LeftStays
  <1>14. /\ \A p : NameOf(p)' = NameOf(p)
         /\ \A p \in DOMAIN queries : p # q => queries'[p] = queries[p]
         /\ DOMAIN queries' = DOMAIN queries /\ queries[q].state = "running" /\ queries[q].wrote = {}
    BY <1>1, <1>3, <1>11, Rigid DEF Ends, LeftBy
  <1>15. Origins /\ asked.table \notin DOMAIN External.catalog
    BY <1>1, InvParts, OthersAreThere
  <1>16. \A name \in DOMAIN catalog' \ DOMAIN External.catalog :
           name # NoTable /\ \E p \in DOMAIN queries : queries'[p].state = "succeeded" /\ NameOf(p) = name
    <2> SUFFICES ASSUME NEW name \in DOMAIN catalog' \ DOMAIN External.catalog
                 PROVE  name # NoTable /\ \E p \in DOMAIN queries : queries'[p].state = "succeeded" /\ NameOf(p) = name
      OBVIOUS
    <2>1. CASE name = asked.table
      BY <1>1, <1>3, <1>8, <2>1
    <2>2. CASE name # asked.table
      BY <1>8, <1>14, <1>15, <2>2 DEF Origins
    <2> QED
      BY <2>1, <2>2
  <1>17. \A o \in objects' \ External.objects : \E p \in DOMAIN queries : o \in queries'[p].wrote
    BY <1>1, <1>14, <1>15 DEF Origins
  <1>18. IsFiniteSet(objects')
    <2>1. IsFiniteSet(wrote)
      <3>1. IsFiniteSet(request[q[1]].rows)
        BY QueryIs
      <3> QED
        BY <3>1, WrittenFinite DEF wrote
    <2> QED
      BY <1>1, <1>7, <1>15, <2>1, FS_Union DEF Origins
  <1>19. \A name \in DOMAIN External.catalog : catalog'[name] = External.catalog[name]
    BY <1>8, OthersAreThere
  <1>20. External.objects \subseteq objects'
    BY <1>1, OthersAreThere
  <1>21. \A p \in DOMAIN queries' : LeftBy(p)'
    BY <1>12, <1>13
  <1> QED
    BY <1>10, <1>14, <1>16, <1>17, <1>18, <1>19, <1>20, <1>21 DEF Origins

-----------------------------------------------------------------------------
(* A step of a call: what it leaves to the others. *)

LEMMA StepExtends ==
    ASSUME LInv, NEW c \in Calls, Step(c)
    PROVE  /\ Extended /\ UNCHANGED closer /\ UNCHANGED catalog /\ UNCHANGED objects
           /\ \A d \in Calls \ {c} : call'[d] = call[d]
           /\ \A q \in DOMAIN queries : q \in DOMAIN queries' /\ queries'[q] = queries[q]
           /\ \A q \in DOMAIN queries' \ DOMAIN queries :
                q = QueryOf(c) /\ call[c].pc = "submit" /\ queries'[q] = Submitted(call[c].ctas)
  <1>1. StepOf(c) /\ UNCHANGED workgroup /\ UNCHANGED request
    BY InvParts, ReadyNow, StepDoes DEF LInv, KInv
  <1>2. /\ \A q \in DOMAIN queries : q \in DOMAIN queries' /\ queries'[q] = queries[q]
        /\ \A q \in DOMAIN queries' \ DOMAIN queries :
             q = QueryOf(c) /\ call[c].pc = "submit" /\ queries'[q] = Submitted(call[c].ctas)
    BY <1>1, InvParts, StepKeeps
  <1>3. UNCHANGED closer /\ UNCHANGED catalog /\ UNCHANGED objects /\ \A d \in Calls \ {c} : call'[d] = call[d]
    BY <1>1 DEF StepOf, Alone
  <1> QED
    BY <1>1, <1>2, <1>3 DEF Extended

LEMMA StepLeavesOthers ==
    ASSUME LInv, NEW c \in Calls, Step(c)
    PROVE  Origins' /\ \A d \in Calls \ {c} : CallInv(d)'
  <1>1. \A d \in Calls \ {c} : CallInv(d)'
    BY StepExtends, CallStays DEF SameCall
  <1>2. UNCHANGED request /\ UNCHANGED workgroup
    BY StepExtends DEF Extended
  <1>3. ASSUME NEW q \in DOMAIN queries' PROVE LeftBy(q)'
    <2>1. CASE q \in DOMAIN queries
      BY <1>2, <2>1, InvParts, StepExtends, LeftStays DEF Origins
    <2>2. CASE q \notin DOMAIN queries
      <3>1. q = QueryOf(c) /\ call[c].pc = "submit" /\ queries'[q] = Submitted(call[c].ctas)
        BY <2>2, StepExtends
      <3>2. Phrased(QueryOf(c), call[c].ctas)
        BY <3>1, InvParts DEF CallInv, CheckedOf
      <3>3. queries'[q].ctas = call[c].ctas /\ queries'[q].state # "succeeded" /\ queries'[q].wrote = {}
        BY <3>1 DEF Submitted
      <3>4. Phrased(q, queries[q].ctas)'
        BY <1>2, <3>1, <3>2, <3>3, Rigid
      <3> QED
        BY <3>3, <3>4 DEF LeftBy
    <2> QED
      BY <2>1, <2>2
  <1>4. /\ \A q : NameOf(q)' = NameOf(q)
        /\ Origins /\ UNCHANGED catalog /\ UNCHANGED objects
        /\ \A q \in DOMAIN queries : q \in DOMAIN queries' /\ queries'[q] = queries[q]
    BY <1>2, InvParts, Rigid, StepExtends
  <1> QED
    BY <1>1, <1>3, <1>4 DEF Origins

-----------------------------------------------------------------------------
(* A step of a call: what it leaves itself. *)

LEMMA CallKnown ==
    ASSUME LInv, NEW c \in Calls
    PROVE  /\ TypeOK /\ CheckedOf(c) /\ LocatedOf(c) /\ ReadingOf(c) /\ AnswerOf(c) /\ CauseOf(c) /\ IssuedOf(c)
           /\ Recorded(call[c]) /\ request[c] \in Requests /\ call[c].attempt \in 0..2 /\ call[c].ctas \in Statements
           /\ call[c].pc \notin {"read", "done"} => call[c].read = <<>>
  BY InvParts, Asking DEF CallInv, Issued, SlotsApart

(* It ends badly, by the services or for a cause. *)
LEMMA EndsFailed ==
    ASSUME LInv, Extended, NEW c \in Calls, NEW r, call' = [call EXCEPT ![c] = r],
           \/ r = Failed(c) /\ Cause(c)
           \/ r = [Failed(c) EXCEPT !.denied = TRUE]
    PROVE  CallInv(c)'
  <1>1. call'[c] = r /\ Recorded(call[c])
    BY CallKnown, OneCall
  <1>2. /\ call'[c].pc = "done" /\ call'[c].failed /\ call'[c].attempt = call[c].attempt
        /\ call'[c].ctas = call[c].ctas /\ call'[c].waited = call[c].waited
        /\ call'[c].denied \/ Cause(c)
    <2> DEFINE none == <<>>
               no == NoClaim
               f == [call[c] EXCEPT !.pc = "done", !.failed = TRUE, !.files = none, !.read = none, !.claim = no]
    <2>1. Failed(c) = f
      BY DEF Failed
    <2> HIDE DEF none, no
    <2>2. /\ f.pc = "done" /\ f.failed /\ f.attempt = call[c].attempt /\ f.ctas = call[c].ctas /\ f.waited = call[c].waited
          /\ LET u == [f EXCEPT !.denied = TRUE]
             IN  /\ u.pc = "done" /\ u.failed /\ u.attempt = call[c].attempt /\ u.ctas = call[c].ctas
                 /\ u.waited = call[c].waited /\ u.denied
      BY <1>1 DEF Recorded
    <2> HIDE DEF f
    <2> QED
      BY <1>1, <2>1, <2>2
  <1>3. QueryOf(c)' = QueryOf(c) /\ TableOf(c)' = TableOf(c) /\ Op(c)' = Op(c)
    BY <1>2, Rigid DEF Extended, QueryOf, TableOf
  <1>4. Cause(c) => Cause(c)'
    BY <1>2, <1>3, CauseStays
  <1>5. ~Answered(c)' /\ ~Resolved(c)'
    BY <1>2 DEF Answered, Resolved
  <1>6. CheckedOf(c)'
    BY <1>2, <1>5 DEF CheckedOf
  <1> QED
    BY <1>2, <1>4, <1>5, <1>6 DEF CallInv, LocatedOf, ReadingOf, AnswerOf, CauseOf

(* It asks a query, or is about to. *)
LEMMA Asks ==
    ASSUME LInv, Extended, NEW c \in Calls, call'[c].pc \in {"submit", "poll", "columns"},
           Phrased(<<c, call'[c].attempt>>, call'[c].ctas), call'[c].attempt = 0 => request[c].prepass,
           Op(c) # "open", call'[c].pc = "columns" => Op(c) # "query"
    PROVE  CallInv(c)'
  <1>1. Op(c)' = Op(c) /\ UNCHANGED request /\ ~Answered(c)' /\ ~Resolved(c)' /\ ~Over(c)'
    BY Rigid DEF Extended, Answered, Resolved, Over, At
  <1>2. Phrased(QueryOf(c), call[c].ctas)'
    BY Rigid DEF Extended, QueryOf
  <1>3. CheckedOf(c)'
    BY <1>1, <1>2 DEF CheckedOf
  <1> QED
    BY <1>1, <1>3 DEF CallInv, LocatedOf, ReadingOf, AnswerOf, CauseOf

(* It is past its query, and has nothing listed. *)
LEMMA GoesOn ==
    ASSUME LInv, Extended, NEW c \in Calls, call'[c].pc \in {"verify", "buckets", "resolve", "open"},
           call'[c].pc = "open" => Op(c) = "open",
           call'[c].pc # "open" => Op(c) \notin {"open", "query"} /\ call'[c].succeeded,
           call'[c].pc = "buckets" => Op(c) = "raw_buckets",
           call'[c].pc = "resolve" /\ Op(c) = "raw_buckets" => call'[c].slots = request[c].buckets /\ call'[c].slots > 0,
           call'[c].pc = "resolve" /\ Op(c) \in Unloads =>
               \A o \in queries'[QueryOf(c)'].wrote : o.file.hash = call'[c].ctas.format
    PROVE  CallInv(c)'
  <1>1. Op(c)' = Op(c) /\ UNCHANGED request /\ ~Answered(c)' /\ ~Over(c)' /\ (Resolved(c)' <=> call'[c].pc = "resolve")
    BY Rigid DEF Extended, Answered, Resolved, Over, At
  <1>2. CheckedOf(c)'
    BY <1>1 DEF CheckedOf
  <1> QED
    BY <1>1, <1>2 DEF CallInv, LocatedOf, ReadingOf, AnswerOf, CauseOf

LEMMA FailsWell ==
    ASSUME LInv, Extended, NEW c \in Calls, (Fails(c) /\ Cause(c)) \/ FailsBy(c)
    PROVE  CallInv(c)'
  BY EndsFailed DEF Fails, FailsBy

(* A statement is chosen. *)
LEMMA Phrases ==
    ASSUME LInv, Extended, NEW c \in Calls, NEW a \in 0..2, NEW s, Phrased(<<c, a>>, s),
           call' = [call EXCEPT ![c] = [call[c] EXCEPT !.pc = "submit", !.attempt = a, !.ctas = s]],
           a = 0 => request[c].prepass, Op(c) # "open"
    PROVE  CallInv(c)'
  <1> DEFINE t == [call[c] EXCEPT !.pc = "submit", !.attempt = a, !.ctas = s]
  <1>1. t.pc = "submit" /\ t.attempt = a /\ t.ctas = s
    BY CallKnown DEF Recorded
  <1> HIDE DEF t
  <1>2. call'[c] = t
    BY CallKnown, OneCall DEF t
  <1> QED
    BY <1>1, <1>2, Asks

LEMMA ComposesWell ==
    ASSUME LInv, Extended, NEW c \in Calls, Composes(c), Op(c) # "open"
    PROVE  CallInv(c)'
  <1>0. TypeOK
    BY InvParts
  <1>1. CASE Op(c) \in Unloads /\ Composable(c)
    <2> DEFINE f == IF UseHive(c) THEN "hive" ELSE "iceberg"
               a == 1
               s == ComposeCTAS(c, a, f)
    <2>1. f \in {"hive", "iceberg"} /\ a \in 0..2 /\ a # 0
      OBVIOUS
    <2>2. call' = [call EXCEPT ![c] = [call[c] EXCEPT !.pc = "submit", !.attempt = a, !.ctas = s]]
      BY <1>0, <1>1 DEF Composes, TypeOK
    <2> HIDE DEF f, a
    <2>3. Phrased(<<c, a>>, s)
      BY <1>1, <2>1 DEF Phrased, Unloads
    <2> HIDE DEF s
    <2> QED
      BY <2>1, <2>2, <2>3, Phrases
  <1>2. CASE Op(c) \in Unloads /\ ~Composable(c)
    <2>1. Hopeless(c)
      BY <1>2 DEF Hopeless, Unloads
    <2> QED
      BY <1>2, <2>1, EndsFailed DEF Composes, Cause
  <1>3. CASE Op(c) \notin Unloads
    <2> DEFINE s == IF Op(c) = "query" THEN Select ELSE RawCTAS(c)
               a == 1
    <2>1. /\ call' = [call EXCEPT ![c] = [call[c] EXCEPT !.pc = "submit", !.attempt = a, !.ctas = s]]
          /\ a \in 0..2 /\ a # 0
      BY <1>0, <1>3 DEF Composes, TypeOK
    <2> HIDE DEF a
    <2>2. Phrased(<<c, a>>, s)
      BY <1>3, <2>1 DEF Phrased
    <2> HIDE DEF s
    <2> QED
      BY <2>1, <2>2, Phrases
  <1> QED
    BY <1>1, <1>2, <1>3

LEMMA BeginWell ==
    ASSUME LInv, Extended, NEW c \in Calls, Begin(c)
    PROVE  CallInv(c)'
  <1>0. TypeOK
    BY InvParts
  <1>1. CASE Refused(c) /\ Fails(c)
    BY <1>1, FailsWell DEF Cause
  <1>2. CASE Op(c) = "open" /\ Goes(c, "open")
    <2> DEFINE t == [call[c] EXCEPT !.pc = "open"]
    <2>1. call' = [call EXCEPT ![c] = t] /\ t.pc = "open"
      BY <1>0, <1>2, CallKnown DEF Goes, TypeOK, Recorded
    <2> HIDE DEF t
    <2>2. call'[c] = t
      BY <1>0, <2>1, OneCall
    <2> QED
      BY <1>2, <2>1, <2>2, GoesOn
  <1>3. CASE /\ Op(c) \in Unloads /\ request[c].prepass
             /\ call' = [call EXCEPT ![c].pc = "submit", ![c].attempt = 0, ![c].ctas = Select]
    <2> DEFINE a == 0
    <2>1. call' = [call EXCEPT ![c] = [call[c] EXCEPT !.pc = "submit", !.attempt = a, !.ctas = Select]]
      BY <1>0, <1>3 DEF TypeOK
    <2>4. a \in 0..2
      OBVIOUS
    <2>2. Phrased(<<c, a>>, Select)
      BY DEF Phrased
    <2> HIDE DEF a
    <2>3. Op(c) # "open"
      BY <1>3 DEF Unloads
    <2> QED
      BY <1>3, <2>1, <2>2, <2>3, <2>4, Phrases
  <1>4. CASE Op(c) # "open" /\ Composes(c)
    BY <1>4, ComposesWell
  <1> QED
    BY <1>1, <1>2, <1>3, <1>4 DEF Begin

LEMMA AttemptedWell ==
    ASSUME LInv, Extended, NEW c \in Calls, NEW words, NEW denied \in BOOLEAN, Attempted(c, words, denied),
           ~denied => Cause(c)
    PROVE  CallInv(c)'
  <1>0. TypeOK
    BY InvParts
  <1>1. CASE FallsBack(c, words)
    <2> DEFINE f == "hive"
               a == 2
               s == ComposeCTAS(c, a, f)
    <2>1. /\ call' = [call EXCEPT ![c] = [call[c] EXCEPT !.pc = "submit", !.attempt = a, !.ctas = s]]
          /\ a \in 0..2 /\ a # 0 /\ f \in {"hive", "iceberg"}
      BY <1>0, <1>1 DEF Attempted, TypeOK
    <2>2. Op(c) \in Unloads
      BY <1>1 DEF FallsBack
    <2> HIDE DEF f, a
    <2>3. Phrased(<<c, a>>, s)
      BY <2>1, <2>2 DEF Phrased, Unloads
    <2> HIDE DEF s
    <2> QED
      BY <2>1, <2>2, <2>3, Phrases DEF Unloads
  <1>2. CASE ~FallsBack(c, words)
    <2>1. (Fails(c) /\ Cause(c)) \/ FailsBy(c)
      BY <1>2 DEF Attempted
    <2> QED
      BY <2>1, FailsWell
  <1> QED
    BY <1>1, <1>2

LEMMA SubmitWell ==
    ASSUME LInv, Extended, NEW c \in Calls, Submit(c)
    PROVE  CallInv(c)'
  <1>1. /\ call[c].pc = "submit" /\ TypeOK /\ Op(c) # "open"
        /\ Phrased(QueryOf(c), call[c].ctas) /\ (call[c].attempt = 0 => request[c].prepass)
    BY CallKnown DEF Submit, At, CheckedOf, IssuedOf
  <1>2. CASE call' = [call EXCEPT ![c].pc = "poll", ![c].waited = 0, ![c].interval = PollInterval]
    <2> DEFINE n == 0
               t == [call[c] EXCEPT !.pc = "poll", !.waited = n, !.interval = PollInterval]
    <2>1. call' = [call EXCEPT ![c] = t]
      BY <1>1, <1>2 DEF TypeOK
    <2> HIDE DEF n
    <2>2. t.pc = "poll" /\ t.attempt = call[c].attempt /\ t.ctas = call[c].ctas
      BY CallKnown DEF Recorded
    <2> HIDE DEF t
    <2>3. call'[c] = t
      BY <1>1, <2>1, OneCall
    <2> QED
      BY <1>1, <2>2, <2>3, Asks DEF QueryOf
  <1>3. CASE \E words \in Words : Attempted(c, words, TRUE)
    BY <1>3, AttemptedWell
  <1> QED
    BY <1>2, <1>3 DEF Submit

LEMMA ColumnsWell ==
    ASSUME LInv, Extended, NEW c \in Calls, Columns(c)
    PROVE  CallInv(c)'
  <1>1. call[c].pc = "columns" /\ TypeOK /\ Op(c) \in Unloads /\ Op(c) # "open" /\ request[c].prepass
    <2>1. call[c].pc = "columns" /\ TypeOK /\ IssuedOf(c) /\ CheckedOf(c)
      BY CallKnown DEF Columns, At
    <2>2. call[c].attempt = 0 /\ request[c].prepass
      BY <2>1 DEF CheckedOf, IssuedOf
    <2>3. Op(c) \in Unloads /\ Op(c) # "open"
      BY <2>1, <2>2 DEF IssuedOf
    <2> QED
      BY <2>1, <2>2, <2>3
  <1>2. CASE Composes(c)
    BY <1>1, <1>2, ComposesWell
  <1>3. CASE ~(ToSet(request[c].columns) \subseteq request[c].projected) /\ call' = [call EXCEPT ![c] = Failed(c)]
    <2>1. Cause(c)
      BY <1>1, <1>3 DEF Cause, Hopeless, Unloads
    <2> QED
      BY <1>3, <2>1, EndsFailed
  <1>4. CASE FailsBy(c)
    BY <1>4, FailsWell
  <1> QED
    BY <1>2, <1>3, <1>4 DEF Columns

(* A SELECT writes nothing but what a listing finds. *)
LEMMA SelectWrote ==
    ASSUME LInv, NEW q \in DOMAIN queries, Op(q[1]) = "query"
    PROVE  Data(queries[q].wrote) = queries[q].wrote /\ IsFiniteSet(queries[q].wrote)
  <1>1. CASE queries[q].state # "succeeded"
    <2>1. queries[q].wrote = {}
      BY <1>1, QueryIs DEF LeftBy
    <2> QED
      BY <2>1, FS_EmptySet DEF Data
  <1>2. CASE queries[q].state = "succeeded"
    <2>1. queries[q].ctas = Select
      BY QueryIs DEF LeftBy, Phrased
    <2>2. PICK f \in Formats : MadeAs(q, f)
      BY <1>2, QueryIs DEF LeftBy
    <2> DEFINE made == [queries[q].ctas EXCEPT !.format = f]
               l == Target(q, queries[q].ctas)
    <2>3. f = "select"
      BY <2>1, <2>2 DEF MadeAs, Select
    <2>4. made.format = "select"
      BY <2>1, <2>3 DEF Select
    <2>5. queries[q].wrote = Written(q, made, l)
      BY <2>2 DEF MadeAs
    <2> HIDE DEF made
    <2>6. Written(q, made, l) = {Part(q, made, l, b) : b \in Parts(q, made)}
      BY <2>4 DEF Written, Part, Parts
    <2> QED
      <3>1. IsFiniteSet(queries[q].wrote)
        BY <2>2, MadeIs
      <3>2. Data(Written(q, made, l)) = Written(q, made, l)
        BY <2>6, DataWritten
      <3> QED
        BY <2>5, <3>1, <3>2
  <1> QED
    BY <1>1, <1>2

(* The files to read are listed. *)
LEMMA StartsReading ==
    ASSUME LInv, Extended, NEW c \in Calls, UNCHANGED queries, UNCHANGED closer,
           call'[c].pc = "read", call'[c].read = <<>>, call'[c].attempt = call[c].attempt, call'[c].ctas = call[c].ctas,
           call[c].claim = call'[c].claim,
           Op(c) # "open" => call'[c].succeeded,
           NEW S, S # {}, S \subseteq Objects, call'[c].files \in Seq(S), IsInjective(call'[c].files), ToSet(call'[c].files) = S,
           \A o \in S : OwnFile(c, o),
           Op(c) # "open" /\ ~Emptied(TableOf(c)) => S = Data(queries[QueryOf(c)].wrote),
           Op(c) \in PerBucket => call'[c].slots = request[c].buckets /\ call'[c].slots > 0,
           Op(c) \in Unloads => \A o \in queries[QueryOf(c)].wrote : o.file.hash = call[c].ctas.format
    PROVE  CallInv(c)'
  <1>1. /\ Op(c)' = Op(c) /\ UNCHANGED request /\ ~Over(c)' /\ ~Answered(c)' /\ QueryOf(c)' = QueryOf(c)
        /\ TableOf(c)' = TableOf(c) /\ Claimed(c)' = Claimed(c)
    <2>1. Op(c)' = Op(c) /\ UNCHANGED request
      BY Rigid DEF Extended
    <2> QED
      BY <2>1 DEF Over, At, Answered, QueryOf, TableOf, Claimed
  <1>2. \A o : OwnFile(c, o) => OwnFile(c, o)'
    <2>1. OwnQueries(c)' = OwnQueries(c)
      BY <1>1 DEF OwnQueries
    <2>2. \A by : Source(c, by)' = Source(c, by)
      BY <1>1 DEF Source
    <2> QED
      BY <1>1, <2>1, <2>2 DEF OwnFile
  <1>3. \A table : Emptied(table)' <=> Emptied(table)
    BY DEF Emptied
  <1>4. CheckedOf(c)'
    BY <1>1 DEF CheckedOf, PerBucket
  <1>5. ReadingOf(c)'
    <2>1. call'[c].files \in Seq(Objects) /\ Len(call'[c].files) \in Nat /\ Len(call'[c].read) = 0
      OBVIOUS
    <2>2. call'[c].files # <<>>
      BY ToSetEmpty
    <2>3. Len(call'[c].read) < Len(call'[c].files) /\ 1..Len(call'[c].read) = {}
      BY <2>1, <2>2
    <2> QED
      BY <1>1, <1>2, <1>3, <2>1, <2>3 DEF ReadingOf
  <1> QED
    BY <1>1, <1>4, <1>5 DEF CallInv, LocatedOf, AnswerOf, CauseOf

LEMMA SucceededWell ==
    ASSUME LInv, Extended, NEW c \in Calls, call[c].pc = "poll", queries[QueryOf(c)].state = "succeeded",
           Succeeded(c), UNCHANGED queries, UNCHANGED closer
    PROVE  CallInv(c)'
  <1>1. /\ TypeOK /\ Op(c) # "open" /\ QueryOf(c) \in DOMAIN queries /\ call[c].read = <<>>
        /\ Phrased(QueryOf(c), call[c].ctas) /\ (call[c].attempt = 0 => request[c].prepass /\ Op(c) \in Unloads)
        /\ queries[QueryOf(c)].ctas = call[c].ctas
    <2>1. IssuedOf(c) /\ CheckedOf(c) /\ TypeOK /\ call[c].read = <<>>
      BY CallKnown
    <2>2. call[c].attempt = 0 => Op(c) \in Unloads
      BY <2>1 DEF IssuedOf
    <2>3. /\ Op(c) # "open" /\ QueryOf(c) \in DOMAIN queries /\ queries[QueryOf(c)].ctas = call[c].ctas
      BY <2>1 DEF IssuedOf
    <2>4. Phrased(QueryOf(c), call[c].ctas) /\ (call[c].attempt = 0 => request[c].prepass)
      BY <2>1 DEF CheckedOf
    <2> QED
      BY <2>1, <2>2, <2>3, <2>4
  <1>2. CASE call[c].attempt = 0 /\ PrepassSucceeded(c)
    <2> DEFINE n == 0
               t == [call[c] EXCEPT !.pc = "columns", !.waited = n, !.interval = PollInterval]
    <2>1. call' = [call EXCEPT ![c] = t]
      BY <1>1, <1>2 DEF TypeOK, PrepassSucceeded
    <2> HIDE DEF n
    <2>2. t.pc = "columns" /\ t.attempt = call[c].attempt /\ t.ctas = call[c].ctas
      BY CallKnown DEF Recorded
    <2> HIDE DEF t
    <2>3. call'[c] = t
      BY <1>1, <2>1, OneCall
    <2> QED
      BY <1>1, <1>2, <2>2, <2>3, Asks DEF QueryOf, Unloads
  <1>3. CASE call[c].attempt # 0 /\ QuerySucceeded(c)
    <2> DEFINE S == queries[QueryOf(c)].wrote
    <2>1. PICK files \in SetToSeqs(S) : call' = [call EXCEPT ![c] = [Proceeds(c, "read") EXCEPT !.files = files]]
      BY <1>3 DEF QuerySucceeded
    <2> DEFINE n == 0
               p == [call[c] EXCEPT !.pc = "read", !.succeeded = TRUE, !.waited = n, !.interval = PollInterval]
               t == [p EXCEPT !.files = files]
    <2>2. call' = [call EXCEPT ![c] = t]
      BY <2>1 DEF Proceeds
    <2> HIDE DEF n
    <2>3. /\ t.pc = "read" /\ t.succeeded /\ t.attempt = call[c].attempt /\ t.ctas = call[c].ctas
          /\ t.read = call[c].read /\ t.claim = call[c].claim /\ t.files = files
      BY CallKnown DEF Recorded
    <2> HIDE DEF t
    <2>4. call'[c] = t /\ Op(c) = "query"
      BY <1>1, <1>3, <2>2, OneCall DEF QuerySucceeded
    <2>5. QueryOf(c)[1] = c /\ QueryOf(c) # <<>>
      BY DEF QueryOf
    <2>6. S = Data(S) /\ IsFiniteSet(S) /\ \A o \in S : o \in Objects /\ o.by = QueryOf(c)
      BY <1>1, <2>4, <2>5, SelectWrote, WroteIs
    <2>7. S # {}
      <3>1. PICK f \in Formats : MadeAs(QueryOf(c), f)
        BY <1>1, QueryIs DEF LeftBy
      <3>2. call[c].ctas = Select
        BY <1>1, <2>4, <2>5 DEF Phrased
      <3>3. f = "select" /\ S = Written(QueryOf(c), [Select EXCEPT !.format = f], Target(QueryOf(c), Select))
        BY <1>1, <3>1, <3>2 DEF MadeAs, Select
      <3>4. [Select EXCEPT !.format = f].format = "select"
        BY <3>3 DEF Select
      <3> QED
        BY <3>3, <3>4 DEF Written
    <2>8. files \in Seq(S) /\ IsInjective(files) /\ ToSet(files) = S
      BY <2>6, ListingIs
    <2>9. \A o \in S : OwnFile(c, o)
      BY <2>4, <2>5, <2>6 DEF OwnFile, OwnQueries, Source, Unloads
    <2>10. Op(c) \notin PerBucket /\ Op(c) \notin Unloads /\ Op(c) # "open"
      BY <2>4 DEF PerBucket, Unloads
    <2> HIDE DEF S
    <2>11. call'[c].files \in Seq(S) /\ IsInjective(call'[c].files) /\ ToSet(call'[c].files) = S /\ S \subseteq Objects
      BY <2>3, <2>4, <2>6, <2>8
    <2>12. S = Data(queries[QueryOf(c)].wrote)
      BY <2>6 DEF S
    <2> QED
      BY <1>1, <2>3, <2>4, <2>7, <2>9, <2>10, <2>11, <2>12, StartsReading
  <1>4. ASSUME NEW pc \in {"verify", "resolve", "buckets"}, NEW cl,
               call' = [call EXCEPT ![c] = [Proceeds(c, pc) EXCEPT !.claim = cl]] \/ call' = [call EXCEPT ![c] = Proceeds(c, pc)],
               Op(c) \in Unloads \cup Raws,
               pc = "resolve" => Op(c) = "raw", pc = "buckets" => Op(c) = "raw_buckets"
        PROVE  CallInv(c)'
    <2> DEFINE n == 0
               p == [call[c] EXCEPT !.pc = pc, !.succeeded = TRUE, !.waited = n, !.interval = PollInterval]
               t == [p EXCEPT !.claim = cl]
    <2>1. call' = [call EXCEPT ![c] = t] \/ call' = [call EXCEPT ![c] = p]
      BY <1>4 DEF Proceeds
    <2> HIDE DEF n
    <2>2. t.pc = pc /\ t.succeeded /\ p.pc = pc /\ p.succeeded
      BY CallKnown DEF Recorded
    <2> HIDE DEF t, p
    <2>3. call'[c] = t \/ call'[c] = p
      BY <1>1, <2>1, OneCall
    <2> QED
      BY <1>4, <2>2, <2>3, GoesOn DEF Unloads, Raws
  <1>5. CASE call[c].attempt # 0 /\ UnloadSucceeded(c)
    BY <1>4, <1>5 DEF UnloadSucceeded
  <1>6. CASE call[c].attempt # 0 /\ RawSucceeded(c)
    BY <1>4, <1>6 DEF RawSucceeded, Raws
  <1>7. CASE call[c].attempt # 0 /\ RawBucketsSucceeded(c)
    BY <1>4, <1>7 DEF RawBucketsSucceeded, Raws
  <1> QED
    BY <1>2, <1>3, <1>5, <1>6, <1>7 DEF Succeeded

LEMMA PollWell ==
    ASSUME LInv, Extended, NEW c \in Calls, Poll(c)
    PROVE  CallInv(c)'
  <1> DEFINE query == queries[QueryOf(c)]
  <1>1. /\ call[c].pc = "poll" /\ TypeOK /\ Op(c) # "open" /\ QueryOf(c) \in DOMAIN queries
        /\ Phrased(QueryOf(c), call[c].ctas) /\ (call[c].attempt = 0 => request[c].prepass)
        /\ UNCHANGED queries /\ UNCHANGED closer
    BY CallKnown DEF Poll, At, IssuedOf, CheckedOf, services
  <1>2. CASE query.state = "succeeded" /\ Succeeded(c)
    BY <1>1, <1>2, SucceededWell
  <1>3. CASE query.state = "failed" /\ Attempted(c, query.words, FALSE)
    BY <1>1, <1>3, AttemptedWell DEF Cause
  <1>4. CASE PastDeadline(c) /\ Attempted(c, {}, FALSE)
    BY <1>1, <1>4, AttemptedWell DEF Cause, PastDeadline
  <1>5. CASE call' = [call EXCEPT ![c].waited = Waited(@ + call[c].interval),
                             ![c].interval = IF 2 * @ < PollMax THEN 2 * @ ELSE IF @ < PollMax THEN PollMax ELSE @]
    <2> DEFINE now == call[c].interval
               w == Waited(call[c].waited + now)
               i == IF 2 * now < PollMax THEN 2 * now ELSE IF now < PollMax THEN PollMax ELSE now
               t == [call[c] EXCEPT !.waited = w, !.interval = i]
    <2>1. call' = [call EXCEPT ![c] = t]
      BY <1>1, <1>5 DEF TypeOK
    <2> HIDE DEF w, i
    <2>2. t.pc = "poll" /\ t.attempt = call[c].attempt /\ t.ctas = call[c].ctas
      BY <1>1, CallKnown DEF Recorded
    <2> HIDE DEF t
    <2>3. call'[c] = t
      BY <1>1, <2>1, OneCall
    <2> QED
      BY <1>1, <2>2, <2>3, Asks DEF QueryOf
  <1>6. CASE \E words \in Words : Attempted(c, words, TRUE)
    BY <1>6, AttemptedWell
  <1> QED
    BY <1>2, <1>3, <1>4, <1>5, <1>6 DEF Poll

(* A call that has seen its table made. *)
LEMMA TableMade ==
    ASSUME LInv, NEW c \in Calls, call[c].succeeded, Op(c) \in Unloads \cup Raws
    PROVE  /\ QueryOf(c) \in DOMAIN queries /\ queries[QueryOf(c)].state = "succeeded"
           /\ queries[QueryOf(c)].ctas = call[c].ctas
           /\ Making(QueryOf(c)) /\ NameOf(QueryOf(c)) # NoTable
           /\ TableOf(c) = NameOf(QueryOf(c)) /\ call[c].ctas.table = NameOf(QueryOf(c))
           /\ Phrased(QueryOf(c), call[c].ctas) /\ \E f \in Formats : MadeAs(QueryOf(c), f)
  <1> DEFINE q == QueryOf(c)
  <1>1. q \in DOMAIN queries /\ queries[q].state = "succeeded" /\ queries[q].ctas = call[c].ctas /\ call[c].attempt # 0
    BY SawSuccess
  <1>2. q[1] = c /\ q[2] # 0
    BY <1>1 DEF QueryOf
  <1>3. /\ Askable(q) /\ call[c].ctas.table = NameOf(q) /\ Phrased(q, call[c].ctas)
        /\ \E f \in Formats : MadeAs(q, f)
    BY <1>1, QueryIs DEF LeftBy
  <1> HIDE DEF q
  <1>4. NameOf(q) # NoTable
    <2>1. CASE Op(c) \in Unloads
      BY <1>2, <2>1 DEF NameOf, NoTable, Unloads
    <2>2. CASE Op(c) \in Raws
      <3>1. NameOf(q) = request[c].table
        BY <1>2, <2>2 DEF NameOf, Raws, Unloads
      <3>2. c \in RawCalls
        BY <1>2, <1>3, <2>2 DEF Askable, Refused, RawCalls, Op, Raws
      <3> QED
        BY <3>1, <3>2, InvParts DEF NamesApart, RawCalls
    <2> QED
      BY <2>1, <2>2
  <1>5. Making(q)
    BY <1>2, <1>3 DEF Making
  <1>6. TableOf(c) = NameOf(q)
    BY <1>3 DEF TableOf, Unloads, Raws
  <1> QED
    BY <1>1, <1>3, <1>4, <1>5, <1>6 DEF q

(* What Glue says of the table of a query, as long as it is there. *)
LEMMA TableSays ==
    ASSUME LInv, NEW q \in DOMAIN queries, NEW f, MadeAs(q, f), NameOf(q) \in DOMAIN catalog
    PROVE  LET ctas == queries[q].ctas
               entry == catalog[NameOf(q)]
           IN  /\ entry.location = Target(q, ctas)
               /\ IF f = "hive"
                  THEN entry.format = "hive" /\ entry.buckets = ctas.buckets /\ (ctas.buckets > 0 => entry.columns = ctas.columns)
                  ELSE entry.format = "iceberg" /\ entry.buckets = 0
  <1> DEFINE made == [queries[q].ctas EXCEPT !.format = f]
             l == Target(q, queries[q].ctas)
  <1>1. catalog[NameOf(q)] = Entry(made, l)
    BY DEF MadeAs
  <1>2. made.format = f /\ made.buckets = queries[q].ctas.buckets /\ made.columns = queries[q].ctas.columns
    BY QueryIs DEF Statements
  <1> HIDE DEF made, l
  <1>3. Entry(made, l).location = l
    BY DEF Entry
  <1>4. CASE f = "hive"
    BY <1>1, <1>2, <1>3, <1>4 DEF Entry, l
  <1>5. CASE f # "hive"
    BY <1>1, <1>2, <1>3, <1>5 DEF Entry, l
  <1> QED
    BY <1>4, <1>5

LEMMA TableGone ==
    ASSUME LInv, NEW c \in Calls, call[c].succeeded, Op(c) \in Unloads \cup Raws,
           call[c].ctas.table \notin DOMAIN catalog
    PROVE  Cause(c)
  BY TableMade, InvParts DEF OtherTablesKept, Meant, Cause

LEMMA VerifyWell ==
    ASSUME LInv, Extended, NEW c \in Calls, Verify(c)
    PROVE  CallInv(c)'
  <1> DEFINE q == QueryOf(c)
  <1>1. /\ call[c].pc = "verify" /\ TypeOK /\ call[c].succeeded /\ Op(c) \in Unloads /\ UNCHANGED queries
        /\ Op(c) \in Unloads \cup Raws /\ Op(c) \notin {"open", "query", "raw_buckets"}
    BY CallKnown DEF Verify, At, IssuedOf, services, Unloads
  <1>2. PICK f \in Formats : MadeAs(q, f)
    BY <1>1, TableMade
  <1>3. /\ q \in DOMAIN queries /\ queries[q].state = "succeeded" /\ queries[q].ctas = call[c].ctas
        /\ call[c].ctas.table = NameOf(q) /\ Phrased(q, call[c].ctas)
    BY <1>1, TableMade
  <1>4. call[c].ctas.format \in {"hive", "iceberg"}
    <2>1. q[1] = c /\ q[2] = call[c].attempt /\ call[c].attempt # 0
      BY <1>1, SawSuccess DEF QueryOf
    <2> HIDE DEF q
    <2>2. PICK g \in {"hive", "iceberg"} : call[c].ctas = ComposeCTAS(q[1], q[2], g)
      BY <1>1, <1>3, <2>1 DEF Phrased
    <2> QED
      BY <2>2 DEF ComposeCTAS
  <1>5. \A o \in queries[q].wrote : o.file.hash = f
    BY <1>2, <1>3, MadeIs
  <1>6. f = call[c].ctas.format \/ (call[c].ctas.format = "iceberg" /\ f = "hive")
    BY <1>2, <1>3 DEF MadeAs
  <1>7. NameOf(q) \in DOMAIN catalog =>
           ((catalog[NameOf(q)].format = "iceberg") <=> (f # "hive"))
    BY <1>2, <1>3, TableSays
  <1>8. CASE Verifies(c) /\ call' = [call EXCEPT ![c].pc = "resolve"]
    <2> DEFINE t == [call[c] EXCEPT !.pc = "resolve"]
    <2>1. call' = [call EXCEPT ![c] = t]
      BY <1>1, <1>8 DEF TypeOK
    <2>2. t.pc = "resolve" /\ t.succeeded = call[c].succeeded /\ t.attempt = call[c].attempt /\ t.ctas = call[c].ctas
      BY CallKnown DEF Recorded
    <2> HIDE DEF t
    <2>3. call'[c] = t
      BY <1>1, <2>1, OneCall
    <2>4. f = call[c].ctas.format
      BY <1>3, <1>4, <1>6, <1>7, <1>8 DEF Verifies
    <2>5. QueryOf(c)' = QueryOf(c)
      BY <2>2, <2>3 DEF QueryOf
    <2> QED
      BY <1>1, <1>5, <2>2, <2>3, <2>4, <2>5, GoesOn
  <1>9. CASE ~Verifies(c) /\ call' = [call EXCEPT ![c] = Failed(c)]
    <2>1. CASE NameOf(q) \notin DOMAIN catalog
      BY <1>1, <1>3, <1>9, <2>1, TableGone, EndsFailed
    <2>2. CASE NameOf(q) \in DOMAIN catalog
      <3>1. call[c].ctas.format = "iceberg" /\ f = "hive"
        BY <1>3, <1>4, <1>6, <1>7, <1>9, <2>2 DEF Verifies
      <3>2. \E o \in queries[q].wrote : TRUE
        <4> DEFINE made == [queries[q].ctas EXCEPT !.format = f]
        <4>1. queries[q].wrote = Written(q, made, Target(q, queries[q].ctas)) /\ made.format = "hive"
          BY <1>2, <1>3, <3>1, QueryIs DEF MadeAs, Statements
        <4> HIDE DEF made
        <4> QED
          BY <4>1 DEF Written
      <3>3. \E o \in queries[q].wrote : o.file.hash # call[c].ctas.format
        BY <1>5, <3>1, <3>2
      <3> QED
        BY <1>3, <1>9, <3>3, EndsFailed DEF Cause
    <2> QED
      BY <2>1, <2>2
  <1>10. CASE call' = [call EXCEPT ![c] = [Failed(c) EXCEPT !.denied = TRUE]]
    BY <1>10, EndsFailed
  <1> QED
    BY <1>8, <1>9, <1>10 DEF Verify

LEMMA BucketsWell ==
    ASSUME LInv, Extended, NEW c \in Calls, Buckets(c)
    PROVE  CallInv(c)'
  <1> DEFINE q == QueryOf(c)
             table == call[c].ctas.table
  <1>1. /\ call[c].pc = "buckets" /\ TypeOK /\ Op(c) = "raw_buckets" /\ call[c].succeeded /\ UNCHANGED queries
        /\ Op(c) \in Unloads \cup Raws
    BY CallKnown DEF Buckets, At, CheckedOf, services, Raws
  <1>2. PICK f \in Formats : MadeAs(q, f)
    BY <1>1, TableMade
  <1>3. q \in DOMAIN queries /\ queries[q].ctas = call[c].ctas /\ table = NameOf(q)
    BY <1>1, TableMade
  <1>4. call[c].ctas.buckets = request[c].buckets /\ call[c].ctas.format = request[c].format
    <2>1. q[1] = c /\ q[2] # 0
      BY <1>1, SawSuccess DEF QueryOf
    <2>2. Phrased(q, call[c].ctas)
      BY <1>1, TableMade
    <2> HIDE DEF q
    <2>3. call[c].ctas = RawCTAS(c)
      BY <1>1, <2>1, <2>2 DEF Phrased, Unloads
    <2> QED
      BY <2>3 DEF RawCTAS
  <1>5. table \in DOMAIN catalog =>
           IF f = "hive" THEN catalog[table].buckets = request[c].buckets ELSE catalog[table].buckets = 0
    BY <1>2, <1>3, <1>4, TableSays
  <1>6. request[c].format = "hive" => f = "hive"
    BY <1>2, <1>3, <1>4 DEF MadeAs
  <1>7. CASE /\ table \in DOMAIN catalog /\ catalog[table].buckets > 0
             /\ call' = [call EXCEPT ![c].pc = "resolve", ![c].slots = catalog[table].buckets]
    <2> DEFINE n == catalog[table].buckets
               t == [call[c] EXCEPT !.pc = "resolve", !.slots = n]
    <2>1. call' = [call EXCEPT ![c] = t]
      BY <1>1, <1>7 DEF TypeOK
    <2>2. n = request[c].buckets /\ n > 0
      BY <1>5, <1>7
    <2> HIDE DEF n
    <2>3. t.pc = "resolve" /\ t.succeeded = call[c].succeeded /\ t.slots = n
      BY CallKnown DEF Recorded
    <2> HIDE DEF t
    <2>4. call'[c] = t
      BY <1>1, <2>1, OneCall
    <2> QED
      BY <1>1, <2>2, <2>3, <2>4, GoesOn DEF Unloads
  <1>8. CASE ~(table \in DOMAIN catalog /\ catalog[table].buckets > 0) /\ Fails(c)
    <2>1. CASE table \notin DOMAIN catalog
      BY <1>1, <1>8, <2>1, TableGone, FailsWell
    <2>2. CASE table \in DOMAIN catalog
      <3>1. request[c].format # "hive" \/ request[c].buckets <= 0
        <4>1. request[c].buckets \in Int
          BY CallKnown DEF Requests
        <4> QED
          BY <1>5, <1>6, <1>8, <2>2, <4>1
      <3>2. Hopeless(c)
        BY <1>1, <3>1 DEF Hopeless, Unloads
      <3> QED
        BY <1>8, <3>2, FailsWell DEF Cause
    <2> QED
      BY <2>1, <2>2
  <1>9. CASE FailsBy(c)
    BY <1>9, FailsWell
  <1> QED
    BY <1>7, <1>8, <1>9 DEF Buckets

(* It knows where to look. *)
LEMMA KnowsWhere ==
    ASSUME LInv, Extended, NEW c \in Calls, UNCHANGED queries,
           call'[c].pc = "list", call'[c].attempt = call[c].attempt, call'[c].ctas = call[c].ctas,
           Op(c) # "open" => call'[c].succeeded /\ Op(c) # "query",
           Op(c) \in Unloads => \A o \in queries[QueryOf(c)].wrote : o.file.hash = call[c].ctas.format,
           Op(c) = "raw_buckets" => call'[c].slots = request[c].buckets /\ call'[c].slots > 0,
           NEW by \in OwnQueries(c), by # <<>> => queries[by].state = "succeeded" /\ NameOf(by) # NoTable,
           call'[c].location = PlaceRead(c, by),
           Op(c) = "open" => \A o \in Source(c, by) : TrueOf(call'[c].claim, o.file)
    PROVE  CallInv(c)'
  <1>1. /\ Op(c)' = Op(c) /\ UNCHANGED request /\ ~Over(c)' /\ ~Answered(c)' /\ QueryOf(c)' = QueryOf(c)
        /\ NameOf(by)' = NameOf(by)
    <2>1. Op(c)' = Op(c) /\ UNCHANGED request /\ NameOf(by)' = NameOf(by)
      BY Rigid DEF Extended
    <2> QED
      BY <2>1 DEF Over, At, Answered, QueryOf
  <1>2. OwnQueries(c)' = OwnQueries(c)
    BY <1>1 DEF OwnQueries
  <1>3. Source(c, by)' = Source(c, by) /\ PlaceRead(c, by)' = PlaceRead(c, by)
    <2>1. Target(by, queries[by].ctas)' = Target(by, queries[by].ctas)
      BY Rigid DEF Extended
    <2> QED
      BY <1>1, <2>1 DEF Source, PlaceRead
  <1>4. CheckedOf(c)'
    BY <1>1 DEF CheckedOf
  <1>5. LocatedOf(c)'
    BY <1>1, <1>2, <1>3 DEF LocatedOf
  <1> QED
    BY <1>1, <1>4, <1>5 DEF CallInv, ReadingOf, AnswerOf, CauseOf

LEMMA ResolveWell ==
    ASSUME LInv, Extended, NEW c \in Calls, Resolve(c)
    PROVE  CallInv(c)'
  <1> DEFINE q == QueryOf(c)
             table == call[c].ctas.table
  <1>1. /\ call[c].pc = "resolve" /\ TypeOK /\ UNCHANGED queries
        /\ Op(c) \in Unloads \cup Raws /\ Op(c) \notin {"open", "query"} /\ call[c].succeeded
        /\ Op(c) \in Unloads => \A o \in queries[q].wrote : o.file.hash = call[c].ctas.format
        /\ Op(c) = "raw_buckets" => call[c].slots = request[c].buckets /\ call[c].slots > 0
    <2>1. call[c].pc = "resolve" /\ UNCHANGED queries
      BY DEF Resolve, At, services
    <2>2. Op(c) \in Ops
      BY CallKnown DEF Requests, Op
    <2> QED
      BY <2>1, <2>2, CallKnown DEF CheckedOf, Resolved, Ops, Unloads, Raws
  <1>2. PICK f \in Formats : MadeAs(q, f)
    BY <1>1, TableMade
  <1>3. /\ q \in DOMAIN queries /\ queries[q].state = "succeeded" /\ queries[q].ctas = call[c].ctas
        /\ table = NameOf(q) /\ NameOf(q) # NoTable
    BY <1>1, TableMade
  <1>4. CASE /\ table \in DOMAIN catalog
             /\ call' = [call EXCEPT ![c].pc = "list", ![c].location = catalog[table].location]
    <2> DEFINE l == catalog[table].location
               t == [call[c] EXCEPT !.pc = "list", !.location = l]
    <2>1. call' = [call EXCEPT ![c] = t]
      BY <1>1, <1>4 DEF TypeOK
    <2>2. l = Target(q, queries[q].ctas)
      BY <1>2, <1>3, <1>4, TableSays
    <2> HIDE DEF l
    <2>3. /\ t.pc = "list" /\ t.location = l /\ t.attempt = call[c].attempt /\ t.ctas = call[c].ctas
          /\ t.slots = call[c].slots /\ t.succeeded = call[c].succeeded
      BY CallKnown DEF Recorded
    <2> HIDE DEF t
    <2>4. call'[c] = t
      BY <1>1, <2>1, OneCall
    <2>5. q \in OwnQueries(c) /\ q # <<>> /\ PlaceRead(c, q) = Target(q, queries[q].ctas)
      BY <1>1 DEF OwnQueries, PlaceRead, QueryOf
    <2> QED
      BY <1>1, <1>3, <2>2, <2>3, <2>4, <2>5, KnowsWhere
  <1>5. CASE table \notin DOMAIN catalog /\ Fails(c)
    BY <1>1, <1>5, TableGone, FailsWell
  <1>6. CASE FailsBy(c)
    BY <1>6, FailsWell
  <1> QED
    BY <1>4, <1>5, <1>6 DEF Resolve

(* What is claimed of a query's table because Glue says so is true of its files. *)
LEMMA ToldIsTrue ==
    ASSUME LInv, NEW q \in DOMAIN queries, queries[q].state = "succeeded",
           NameOf(q) \in DOMAIN catalog, Tells(catalog[NameOf(q)])
    PROVE  /\ catalog[NameOf(q)].location = Target(q, queries[q].ctas)
           /\ \A o \in Data(queries[q].wrote) : TrueOf(DeriveHivePartitionMetadata(catalog[NameOf(q)]), o.file)
  <1> DEFINE entry == catalog[NameOf(q)]
             claim == DeriveHivePartitionMetadata(entry)
  <1>1. PICK f \in Formats : MadeAs(q, f)
    BY QueryIs DEF LeftBy
  <1>2. /\ entry.location = Target(q, queries[q].ctas)
        /\ IF f = "hive" THEN entry.buckets = queries[q].ctas.buckets
                              /\ (queries[q].ctas.buckets > 0 => entry.columns = queries[q].ctas.columns)
           ELSE entry.format = "iceberg"
    BY <1>1, TableSays
  <1>3. f = "hive" /\ entry.columns = queries[q].ctas.columns
    BY <1>2 DEF Tells
  <1>4. claim.columns = entry.columns /\ claim.hash = HashTagFor("hive") /\ claim.enforced = FALSE
    BY DEF DeriveHivePartitionMetadata
  <1>5. \A o \in Data(queries[q].wrote) : o.file.hash = f /\ o.file.columns = queries[q].ctas.columns
    <2>1. \A o \in queries[q].wrote : o.file.hash = f /\ o.file.columns = queries[q].ctas.columns
      BY <1>1, MadeIs
    <2>2. Data(queries[q].wrote) \subseteq queries[q].wrote
      BY DEF Data
    <2> QED
      BY <2>1, <2>2
  <1> HIDE DEF entry, claim
  <1>6. \A o \in Data(queries[q].wrote) : TrueOf(claim, o.file)
    BY <1>3, <1>4, <1>5 DEF TrueOf
  <1> QED
    BY <1>2, <1>6 DEF entry, claim

LEMMA OpenWell ==
    ASSUME LInv, Extended, NEW c \in Calls, Open(c)
    PROVE  CallInv(c)'
  <1> DEFINE table == request[c].table
             own == request[c].claim # NoClaim
             said == IF own THEN request[c].claim ELSE DeriveHivePartitionMetadata(catalog[table])
  <1>1. /\ call[c].pc = "open" /\ TypeOK /\ UNCHANGED queries /\ Op(c) = "open" /\ request[c].op = "open"
        /\ Op(c) \notin Unloads /\ Op(c) # "raw_buckets"
    BY CallKnown DEF Open, At, services, CheckedOf, Op, Unloads
  <1>2. /\ \A name \in DOMAIN External.catalog : catalog[name] = External.catalog[name]
        /\ DOMAIN External.catalog \subseteq DOMAIN catalog
    BY OthersAreThere
  <1>3. CASE /\ table \in DOMAIN catalog /\ (own \/ Tells(catalog[table]))
             /\ call' = [call EXCEPT ![c].pc = "list", ![c].location = catalog[table].location, ![c].claim = said]
    <2> DEFINE l == catalog[table].location
               t == [call[c] EXCEPT !.pc = "list", !.location = l, !.claim = said]
    <2>1. call' = [call EXCEPT ![c] = t]
      BY <1>1, <1>3 DEF TypeOK
    <2>2. \E by \in OwnQueries(c) :
            /\ by # <<>> => queries[by].state = "succeeded" /\ NameOf(by) # NoTable
            /\ l = PlaceRead(c, by)
            /\ \A o \in Source(c, by) : TrueOf(said, o.file)
      <3>1. CASE table \in DOMAIN External.catalog
        <4> DEFINE by == <<>>
        <4>1. by \in OwnQueries(c)
          BY <1>1, <3>1 DEF OwnQueries
        <4>2. l = PlaceRead(c, by)
          BY <1>2, <3>1 DEF PlaceRead
        <4>3. Source(c, by) = FilesOf(table)
          BY DEF Source
        <4>4. \A o \in FilesOf(table) : TrueOf(said, o.file)
          BY <1>1, <1>2, <1>3, <3>1, InvParts DEF OthersAreTrue
        <4> HIDE DEF l, said
        <4> QED
          BY <4>1, <4>2, <4>3, <4>4
      <3>2. CASE table \notin DOMAIN External.catalog
        <4>1. ~own
          BY <1>1, <3>2, InvParts DEF OthersAreTrue
        <4>2. PICK q \in DOMAIN queries : queries[q].state = "succeeded" /\ NameOf(q) = table
          BY <1>3, <3>2, InvParts DEF Origins
        <4>3. table # NoTable
          BY <1>3, <3>2, InvParts DEF Origins
        <4>4. /\ l = Target(q, queries[q].ctas)
              /\ \A o \in Data(queries[q].wrote) : TrueOf(DeriveHivePartitionMetadata(catalog[table]), o.file)
          BY <1>3, <4>1, <4>2, ToldIsTrue
        <4>5. queries[q].ctas.table = table /\ q # <<>>
          BY <4>2, QueryIs
        <4>6. q \in OwnQueries(c)
          BY <1>1, <3>2, <4>5 DEF OwnQueries
        <4>7. PlaceRead(c, q) = Target(q, queries[q].ctas) /\ Source(c, q) = Data(queries[q].wrote)
          BY <4>5 DEF PlaceRead, Source
        <4>8. said = DeriveHivePartitionMetadata(catalog[table])
          BY <4>1
        <4> HIDE DEF l, said, own
        <4> QED
          BY <4>2, <4>3, <4>4, <4>6, <4>7, <4>8
      <3> QED
        BY <3>1, <3>2
    <2> HIDE DEF l, said
    <2>3. /\ t.pc = "list" /\ t.location = l /\ t.attempt = call[c].attempt /\ t.ctas = call[c].ctas /\ t.claim = said
      BY CallKnown DEF Recorded
    <2> HIDE DEF t
    <2>4. call'[c] = t
      BY <1>1, <2>1, OneCall
    <2> QED
      BY <1>1, <2>2, <2>3, <2>4, KnowsWhere
  <1>4. CASE ~(table \in DOMAIN catalog /\ (own \/ Tells(catalog[table]))) /\ Fails(c)
    <2>1. Hopeless(c)
      BY <1>1, <1>2, <1>4 DEF Hopeless
    <2> QED
      BY <1>4, <2>1, FailsWell DEF Cause
  <1>5. CASE FailsBy(c)
    BY <1>5, FailsWell
  <1> QED
    BY <1>3, <1>4, <1>5 DEF Open

(* The files of a query's table are there, until a Close deletes them. *)
LEMMA FilesThere ==
    ASSUME LInv, NEW q \in DOMAIN queries, ~Emptied(queries[q].ctas.table)
    PROVE  queries[q].wrote \subseteq objects
  <1>1. \A e \in closer.taken : e.cleanup = "all" => Last(e.location) = "/"
    BY EntryEnds
  <1> QED
    BY <1>1, InvParts DEF OtherFilesKept, Emptied, Meant

(* What a verified unload claims is true of every file of its query. *)
LEMMA UnloadIsTrue ==
    ASSUME LInv, NEW c \in Calls, Op(c) \in Unloads, Resolved(c), NEW o \in queries[QueryOf(c)].wrote
    PROVE  TrueOf(Claimed(c), o.file)
  <1> DEFINE q == QueryOf(c)
             ctas == call[c].ctas
             claim == ClaimFor(ctas)
  <1>1. q \in DOMAIN queries /\ queries[q].ctas = ctas /\ queries[q].state = "succeeded"
    BY ResolvedIs DEF Unloads
  <1>2. PICK f \in Formats : MadeAs(q, f)
    BY <1>1, QueryIs DEF LeftBy
  <1>3. o.file.hash = f /\ o.file.columns = ctas.columns /\ (f = "iceberg" => o.file.sortedBy = ctas.order)
    BY <1>1, <1>2, MadeIs
  <1>4. o.file.hash = ctas.format
    BY CallKnown DEF CheckedOf
  <1>5. /\ claim.columns = ctas.columns /\ claim.hash = HashTagFor(ctas.format) /\ claim.sortedBy = ctas.order
        /\ claim.enforced => ctas.format = "iceberg"
    BY DEF ClaimFor
  <1>6. Claimed(c) = claim
    BY DEF Claimed, Unloads, Raws
  <1> HIDE DEF claim, ctas
  <1> QED
    BY <1>3, <1>4, <1>5, <1>6 DEF TrueOf

(* What is listed is what there is of the table, and nothing else. *)
LEMMA ListsOwn ==
    ASSUME LInv, NEW c \in Calls, call[c].pc = "list"
    PROVE  LET S == Found(call[c].location)
           IN  /\ S \subseteq Objects /\ IsFiniteSet(S) /\ \A o \in S : OwnFile(c, o)
               /\ Op(c) # "open" => S = Data(queries[QueryOf(c)].wrote) \cap objects
               /\ Op(c) = "open" => S # {} \/ request[c].table \notin DOMAIN External.catalog
  <1> DEFINE S == Found(call[c].location)
  <1>1. Resolved(c)
    BY DEF Resolved
  <1>2. S \subseteq objects /\ S \subseteq Objects /\ IsFiniteSet(S)
    <2>1. S \subseteq objects
      BY DEF Found, Data, Under
    <2>2. objects \subseteq Objects /\ IsFiniteSet(objects)
      BY InvParts DEF TypeOK, Origins
    <2> QED
      BY <2>1, <2>2, FS_Subset
  <1>3. PICK by \in OwnQueries(c) :
          /\ by # <<>> => queries[by].state = "succeeded" /\ NameOf(by) # NoTable
          /\ call[c].location = PlaceRead(c, by)
          /\ Op(c) = "open" => \A o \in Source(c, by) : TrueOf(call[c].claim, o.file)
    BY CallKnown DEF LocatedOf
  <1>4. CASE by = <<>>
    <2>1. Op(c) = "open" /\ request[c].table \in DOMAIN External.catalog
      BY <1>3, <1>4, OwnIs
    <2>2. S = FilesOf(request[c].table) /\ Source(c, by) = FilesOf(request[c].table)
      BY <1>3, <1>4, <2>1, OthersListing DEF PlaceRead, Source
    <2>3. S # {} /\ \A o \in S : o.by = by
      BY <1>4, <2>1, <2>2, InvParts DEF OthersAreTrue, Op
    <2>4. Claimed(c) = call[c].claim
      BY <2>1 DEF Claimed, Unloads
    <2> HIDE DEF S
    <2>5. \A o \in S : OwnFile(c, o)
      BY <1>3, <2>2, <2>3, <2>4, <2>1 DEF OwnFile, Unloads
    <2> QED
      BY <1>2, <2>1, <2>3, <2>5 DEF S
  <1>5. CASE by # <<>>
    <2>1. by \in DOMAIN queries
      BY <1>1, <1>3, <1>5, OwnIs, ResolvedIs
    <2>2. Making(by)
      BY <1>3, <1>5, <2>1, QueryIs
    <2>3. S = Data(queries[by].wrote) \cap objects
      BY <1>3, <1>5, <2>1, <2>2, OwnListing DEF PlaceRead
    <2>4. Source(c, by) = Data(queries[by].wrote)
      BY <1>5 DEF Source
    <2>5. \A o \in Data(queries[by].wrote) : o \in queries[by].wrote
      BY DEF Data
    <2>6. \A o \in S : o.by = by
      BY <2>1, <2>3, <2>5, WroteIs
    <2> HIDE DEF S
    <2>7. CASE Op(c) = "open"
      <3>1. Claimed(c) = call[c].claim
        BY <2>7 DEF Claimed, Unloads
      <3>2. \A o \in S : OwnFile(c, o)
        BY <1>3, <2>3, <2>4, <2>6, <2>7, <3>1 DEF OwnFile, Unloads
      <3>3. request[c].table \notin DOMAIN External.catalog
        BY <1>3, <1>5, <2>7 DEF OwnQueries
      <3> QED
        BY <1>2, <2>7, <3>2, <3>3 DEF S
    <2>8. CASE Op(c) # "open"
      <3>1. by = QueryOf(c)
        BY <1>3, <2>8, OwnIs
      <3>2. Op(c) \in Unloads => \A o \in S : TrueOf(Claimed(c), o.file)
        BY <1>1, <2>3, <2>5, <3>1, UnloadIsTrue
      <3>3. \A o \in S : OwnFile(c, o)
        BY <1>3, <2>3, <2>4, <2>6, <2>8, <3>2 DEF OwnFile
      <3> QED
        BY <1>2, <2>3, <2>8, <3>1, <3>3 DEF S
    <2> QED
      BY <2>7, <2>8
  <1> QED
    BY <1>4, <1>5

LEMMA ListWell ==
    ASSUME LInv, Extended, NEW c \in Calls, List(c)
    PROVE  CallInv(c)'
  <1> DEFINE S == Found(call[c].location)
             q == QueryOf(c)
  <1>1. /\ call[c].pc = "list" /\ TypeOK /\ UNCHANGED queries /\ UNCHANGED closer /\ Resolved(c)
        /\ Op(c) \in Ops /\ Op(c) # "query" /\ call[c].read = <<>>
    BY CallKnown DEF List, At, services, CheckedOf, Resolved, Requests, Op
  <1>2. /\ S \subseteq Objects /\ IsFiniteSet(S) /\ \A o \in S : OwnFile(c, o)
        /\ Op(c) # "open" => S = Data(queries[q].wrote) \cap objects
        /\ Op(c) = "open" => S # {} \/ request[c].table \notin DOMAIN External.catalog
    BY <1>1, ListsOwn
  <1>3. Op(c) # "open" => /\ call[c].succeeded /\ q \in DOMAIN queries /\ queries[q].state = "succeeded"
                          /\ TableOf(c) = queries[q].ctas.table
    BY <1>1, ResolvedIs DEF TableOf
  <1>4. Op(c) # "open" /\ ~Emptied(TableOf(c)) => S = Data(queries[q].wrote)
    <2>1. Op(c) # "open" /\ ~Emptied(TableOf(c)) => queries[q].wrote \subseteq objects
      BY <1>3, FilesThere
    <2> HIDE DEF S
    <2> QED
      BY <1>2, <2>1 DEF Data
  <1> HIDE DEF S
  <1>5. CASE /\ S # {}
             /\ \E files \in ListBucketFiles(call[c].location) :
                   call' = [call EXCEPT ![c].pc = "read", ![c].files = files,
                                        ![c].slots = IF Op(c) = "unload_buckets" THEN request[c].buckets ELSE @]
    <2>1. PICK files \in SetToSeqs(S) :
             call' = [call EXCEPT ![c].pc = "read", ![c].files = files,
                                  ![c].slots = IF Op(c) = "unload_buckets" THEN request[c].buckets ELSE @]
      BY <1>5 DEF ListBucketFiles, S
    <2>2. files \in Seq(S) /\ IsInjective(files) /\ ToSet(files) = S
      BY <1>2, ListingIs
    <2> DEFINE n == IF Op(c) = "unload_buckets" THEN request[c].buckets ELSE call[c].slots
               t == [call[c] EXCEPT !.pc = "read", !.files = files, !.slots = n]
    <2>3. call' = [call EXCEPT ![c] = t]
      BY <1>1, <2>1 DEF TypeOK
    <2>4. Op(c) \in PerBucket => n = request[c].buckets /\ n > 0
      <3>1. CASE Op(c) = "unload_buckets"
        <4>1. ~Refused(c)
          BY <1>3, <3>1, QueryIs DEF Askable, QueryOf
        <4> QED
          BY <3>1, <4>1, CallKnown DEF Refused, Requests
      <3>2. CASE Op(c) = "raw_buckets"
        BY <1>1, <3>2, CallKnown DEF CheckedOf
      <3> QED
        BY <3>1, <3>2 DEF PerBucket
    <2> HIDE DEF n
    <2>5. /\ t.pc = "read" /\ t.files = files /\ t.slots = n /\ t.read = call[c].read /\ t.attempt = call[c].attempt
          /\ t.ctas = call[c].ctas /\ t.claim = call[c].claim /\ t.succeeded = call[c].succeeded
      BY CallKnown DEF Recorded
    <2> HIDE DEF t
    <2>6. call'[c] = t
      BY <1>1, <2>3, OneCall
    <2>7. Op(c) \in Unloads => \A o \in queries[q].wrote : o.file.hash = call[c].ctas.format
      BY <1>1, CallKnown DEF CheckedOf
    <2> HIDE DEF q
    <2> QED
      BY <1>1, <1>2, <1>3, <1>4, <1>5, <2>2, <2>4, <2>5, <2>6, <2>7, StartsReading DEF q
  <1>6. CASE S = {} /\ Fails(c)
    <2>1. CASE Op(c) = "open"
      <3>1. Hopeless(c)
        BY <1>2, <1>6, <2>1 DEF Hopeless, Unloads
      <3> QED
        BY <1>6, <3>1, FailsWell DEF Cause
    <2>2. CASE Op(c) # "open" /\ ~Emptied(TableOf(c))
      BY <1>3, <1>4, <1>6, <2>2, FailsWell DEF Cause
    <2>3. CASE Emptied(TableOf(c))
      BY <1>6, <2>3, FailsWell DEF Cause, Emptied
    <2> QED
      BY <2>1, <2>2, <2>3
  <1>7. CASE FailsBy(c)
    BY <1>7, FailsWell
  <1> QED
    BY <1>5, <1>6, <1>7 DEF List, S

-----------------------------------------------------------------------------
(* What the calls by bucket read. *)

(* The files of a bucketed table: one for each bucket that holds rows, all named in one way. *)
LEMMA BucketFiles ==
    ASSUME LInv, NEW c \in Calls, Op(c) \in PerBucket, QueryOf(c) \in DOMAIN queries,
           queries[QueryOf(c)].state = "succeeded", queries[QueryOf(c)].ctas = call[c].ctas, call[c].attempt # 0,
           NEW slots, slots = request[c].buckets, slots > 0
    PROVE  LET D == Data(queries[QueryOf(c)].wrote)
           IN  /\ IsFiniteSet(D) /\ Cardinality(D) <= slots
               /\ \A o \in D : o.file.bucket \in 0 .. slots - 1
               /\ \A o, p \in D : o.file.bucket = p.file.bucket => o = p
               /\ \/ \A o \in D : o.file.shape = "v2"
                  \/ \A o \in D : o.file.shape \in {"iceberg", "hive"}
  <1> DEFINE q == QueryOf(c)
             ctas == call[c].ctas
             D == Data(queries[q].wrote)
             rows == request[c].rows
  <1>1. PICK f \in Formats : MadeAs(q, f)
    BY QueryIs DEF LeftBy
  <1> DEFINE made == [ctas EXCEPT !.format = f]
             place == Target(q, ctas)
  <1>2. queries[q].wrote = Written(q, made, place)
    BY <1>1 DEF MadeAs
  <1>3. q[1] = c /\ q[2] # 0 /\ Op(c) \in Unloads \cup Raws /\ Op(c) # "query"
    BY DEF QueryOf, PerBucket, Unloads, Raws
  <1>4. ctas.buckets = slots /\ ctas.format # "select" /\ ctas \in Statements
    <2>1. Phrased(q, ctas)
      BY QueryIs DEF LeftBy
    <2>2. CASE Op(c) \in Unloads
      <3> HIDE DEF q
      <3>1. \E g \in {"hive", "iceberg"} : ctas = ComposeCTAS(q[1], q[2], g)
        BY <1>3, <2>1, <2>2 DEF Phrased
      <3> QED
        BY <1>3, <3>1, CallKnown DEF ComposeCTAS
    <2>3. CASE Op(c) \notin Unloads
      <3> HIDE DEF q
      <3>1. ctas = RawCTAS(c)
        BY <1>3, <2>1, <2>3 DEF Phrased
      <3>2. request[c].format # "select"
        BY CallKnown DEF Requests
      <3> QED
        BY <3>1, <3>2, CallKnown DEF RawCTAS
    <2> QED
      BY <2>2, <2>3
  <1>5. made.buckets = slots /\ made.format = f /\ f # "select"
    <2>1. made.buckets = ctas.buckets /\ made.format = f
      BY <1>4 DEF Statements
    <2>2. f = ctas.format \/ f = "hive"
      BY <1>1 DEF MadeAs
    <2> QED
      BY <1>4, <2>1, <2>2
  <1>6. slots \in Nat /\ rows \subseteq 0 .. slots - 1 /\ IsFiniteSet(rows)
    <2>1. request[c].buckets \in Int
      BY CallKnown DEF Requests
    <2> QED
      BY <2>1, InvParts DEF Fit, RowsFit
  <1> HIDE DEF made, place, q, ctas, rows
  <1>7. Parts(q, made) = rows
    BY <1>3, <1>5 DEF Parts, rows
  <1>8. D = {Part(q, made, place, b) : b \in rows}
    BY <1>2, <1>7, DataWritten
  <1>9. IsFiniteSet(D) /\ Cardinality(D) <= Cardinality(rows)
    BY <1>2, <1>3, <1>6, <1>7, WrittenFinite DEF rows
  <1>10. Cardinality(rows) <= slots
    <2>1. IsFiniteSet(0 .. slots - 1) /\ Cardinality(0 .. slots - 1) = slots
      <3> DEFINE a == 0
                 b == slots - 1
      <3>1. a \in Int /\ b \in Int /\ (IF a > b THEN 0 ELSE b - a + 1) = slots
        BY <1>6
      <3> HIDE DEF a, b
      <3>2. IsFiniteSet(a .. b) /\ Cardinality(a .. b) = slots
        BY <3>1, FS_Interval
      <3> QED
        BY <3>2 DEF a, b
    <2> DEFINE S == 0 .. slots - 1
    <2>2. rows \in SUBSET S /\ IsFiniteSet(S) /\ Cardinality(S) = slots
      BY <1>6, <2>1
    <2> HIDE DEF S
    <2> QED
      BY <2>2, FS_Subset
  <1>11. Cardinality(D) <= slots
    BY <1>6, <1>9, <1>10, FS_CardinalityType
  <1>12. \A b : Part(q, made, place, b).file.bucket = b /\ Part(q, made, place, b).file.shape = Shape(made)
    BY DataShapes DEF Part
  <1>13. Shape(made) \in {"v2", "iceberg", "hive"}
    BY <1>5 DEF Shape
  <1> QED
    BY <1>6, <1>8, <1>9, <1>11, <1>12, <1>13 DEF q

(* What a call reads is its own, and goes into a slot of its own. *)
LEMMA ReadsApart ==
    ASSUME LInv, NEW c \in Calls, call[c].pc = "read"
    PROVE  LET n == Len(call[c].files)
               slot(i) == ReadAs(c, i).slot
           IN  \A i \in 1..n :
                 /\ slot(i) \in Nat /\ \A j \in 1..n : i # j => slot(i) # slot(j)
                 /\ Op(c) \in PerBucket /\ call[c].files[i].file.shape # "v2" => slot(i) = call[c].files[i].file.bucket
  <1> DEFINE files == call[c].files
             n == Len(files)
             slots == call[c].slots
             q == QueryOf(c)
             D == Data(queries[q].wrote)
             slot(i) == ReadAs(c, i).slot
  <1>1. files \in Seq(Objects) /\ IsInjective(files) /\ n \in Nat /\ DOMAIN files = 1..n
    BY CallKnown DEF ReadingOf
  <1>2. CASE Op(c) \notin PerBucket
    <2>1. \A i \in 1..n : slot(i) = i - 1
      BY <1>2 DEF ReadAs
    <2> HIDE DEF slot, files
    <2> QED
      BY <1>1, <1>2, <2>1 DEF slot, files
  <1>3. CASE Op(c) \in PerBucket
    <2>1. slots = request[c].buckets /\ slots > 0 /\ slots \in Nat /\ slots <= 20240101
      <3>1. slots = request[c].buckets /\ slots > 0
        BY <1>3, CallKnown DEF ReadingOf
      <3>2. request[c].buckets \in Int /\ request[c].buckets <= 20240101
        BY CallKnown, InvParts DEF Requests, OthersAreTrue
      <3> QED
        BY <3>1, <3>2
    <2>2. /\ q \in DOMAIN queries /\ queries[q].state = "succeeded" /\ queries[q].ctas = call[c].ctas
          /\ call[c].attempt # 0 /\ Op(c) # "open"
      BY <1>3, ResolvedIs DEF Resolved, PerBucket
    <2>3. \A i \in 1..n : files[i] \in D
      <3>1. \A o \in ToSet(files) : OwnFile(c, o)
        BY CallKnown DEF ReadingOf
      <3>2. \A i \in 1..n : OwnFile(c, files[i])
        BY <1>1, <3>1 DEF ToSet
      <3>3. q # <<>> /\ OwnQueries(c) = {q}
        BY <2>2 DEF OwnQueries, QueryOf
      <3> HIDE DEF files, q
      <3>4. Source(c, q) = D
        BY <3>3 DEF Source
      <3> HIDE DEF D
      <3> QED
        BY <3>2, <3>3, <3>4 DEF OwnFile
    <2>4. /\ IsFiniteSet(D) /\ Cardinality(D) <= slots
          /\ \A o \in D : o.file.bucket \in 0 .. slots - 1
          /\ \A o, p \in D : o.file.bucket = p.file.bucket => o = p
          /\ \/ \A o \in D : o.file.shape = "v2"
             \/ \A o \in D : o.file.shape \in {"iceberg", "hive"}
      BY <1>3, <2>1, <2>2, BucketFiles
    <2>5. \A i \in 1..n : slot(i) = Slot(files[i].file, i - 1, slots)
      BY <1>3 DEF ReadAs
    <2> HIDE DEF files, D, slots, slot
    <2>6. n <= slots
      <3>1. files \in Seq(D)
        BY <1>1, <2>3
      <3>2. n <= Cardinality(D)
        BY <1>1, <2>4, <3>1, OneToOneRange
      <3> QED
        BY <1>1, <2>1, <2>4, <3>2, FS_CardinalityType
    <2>7. CASE \A o \in D : o.file.shape = "v2"
      <3>1. \A i \in 1..n : slot(i) = i - 1 /\ files[i].file.shape = "v2"
        BY <1>1, <2>1, <2>3, <2>5, <2>6, <2>7 DEF Slot, BucketIndexFromURI
      <3> QED
        BY <1>1, <3>1 DEF files, slot
    <2>8. CASE \A o \in D : o.file.shape \in {"iceberg", "hive"}
      <3>1. \A i \in 1..n : slot(i) = files[i].file.bucket /\ slot(i) \in Nat
        BY <1>1, <2>1, <2>3, <2>4, <2>5, <2>8 DEF Slot, BucketIndexFromURI
      <3>2. \A i, j \in 1..n : files[i].file.bucket = files[j].file.bucket => i = j
        BY <1>1, <2>3, <2>4 DEF IsInjective
      <3> QED
        BY <3>1, <3>2 DEF files, slot
    <2> QED
      BY <2>4, <2>7, <2>8
  <1> QED
    BY <1>2, <1>3

(* A file still to be read is there, or a Close is deleting its table's. *)
LEMMA NextIsThere ==
    ASSUME LInv, NEW c \in Calls, call[c].pc = "read", NEW o \in ToSet(call[c].files), o \notin objects
    PROVE  Cause(c)
  <1>1. OwnFile(c, o)
    BY CallKnown DEF ReadingOf
  <1>2. CASE o.by = <<>>
    <2>1. request[c].table \in DOMAIN External.catalog
      BY <1>1, <1>2, OwnIs DEF OwnFile
    <2>2. o \in FilesOf(request[c].table)
      BY <1>1, <1>2 DEF OwnFile, Source
    <2>3. o \in External.objects
      BY <2>2 DEF FilesOf, Data
    <2> QED
      BY <2>3, OthersAreThere
  <1>3. CASE o.by # <<>> /\ Op(c) = "open"
    <2>1. request[c].table \notin DOMAIN External.catalog
      BY <1>1, <1>3 DEF OwnFile, OwnQueries
    <2>2. Hopeless(c)
      BY <1>3, <2>1 DEF Hopeless, Unloads
    <2> QED
      BY <2>2 DEF Cause
  <1>4. CASE Op(c) # "open"
    <2> DEFINE q == QueryOf(c)
    <2>1. q \in DOMAIN queries /\ queries[q].ctas = call[c].ctas
      BY <1>4, ResolvedIs DEF Resolved
    <2>2. o.by = q /\ q # <<>>
      BY <1>1, <1>4, OwnIs DEF OwnFile
    <2>3. o \in Data(queries[q].wrote)
      BY <1>1, <2>2 DEF OwnFile, Source
    <2>4. Emptied(queries[q].ctas.table)
      BY <2>1, <2>3, FilesThere DEF Data
    <2>5. TableOf(c) = queries[q].ctas.table
      BY <1>4, <2>1 DEF TableOf
    <2> QED
      BY <2>4, <2>5 DEF Emptied, Cause
  <1> QED
    BY <1>2, <1>3, <1>4

(* The last file read makes the answer. *)
LEMMA AnswersWell ==
    ASSUME LInv, Extended, SlotsApart', NEW c \in Calls, call[c].pc = "read", UNCHANGED queries, UNCHANGED closer,
           call'[c].pc = "done", call'[c].failed = FALSE, call'[c].attempt = call[c].attempt, call'[c].ctas = call[c].ctas,
           call'[c].slots = call[c].slots, call'[c].claim = Claimed(c), call'[c].succeeded = call[c].succeeded,
           call'[c].read \in Seq([slot : Int, object : Objects]),
           Len(call'[c].read) = Len(call[c].files), \A i \in 1..Len(call[c].files) : call'[c].read[i] = ReadAs(c, i)
    PROVE  CallInv(c)'
  <1> DEFINE files == call[c].files
             n == Len(files)
             read == ToSet(call'[c].read)
             q == QueryOf(c)
  <1>1. /\ Op(c)' = Op(c) /\ UNCHANGED request /\ QueryOf(c)' = QueryOf(c) /\ TableOf(c)' = TableOf(c)
    <2>1. Op(c)' = Op(c) /\ UNCHANGED request
      BY Rigid DEF Extended
    <2> QED
      BY <2>1 DEF QueryOf, TableOf
  <1>2. OwnQueries(c)' = OwnQueries(c) /\ \A table : Emptied(table)' <=> Emptied(table)
    BY <1>1 DEF OwnQueries, Emptied
  <1>3. /\ files \in Seq(Objects) /\ n \in Nat /\ DOMAIN files = 1..n
        /\ \A o \in ToSet(files) : OwnFile(c, o)
        /\ Op(c) # "open" /\ ~Emptied(TableOf(c)) => ToSet(files) = Data(queries[q].wrote)
    BY CallKnown DEF ReadingOf
  <1>4. read = {ReadAs(c, i) : i \in 1..n}
    <2>1. DOMAIN call'[c].read = 1..n
      OBVIOUS
    <2> QED
      BY <2>1 DEF ToSet
  <1>5. \A i \in 1..n : ReadAs(c, i).object = files[i]
    BY DEF ReadAs
  <1>6. ToSet(files) = {files[i] : i \in 1..n}
    BY <1>3 DEF ToSet
  <1> HIDE DEF files, n, read
  <1>7. {r.object : r \in read} = ToSet(files)
    BY <1>4, <1>5, <1>6
  <1>8. \A r \in read : OwnFile(c, r.object)
    BY <1>3, <1>7
  <1>9. Resolved(c) /\ Resolved(c)' /\ Answered(c)' /\ Over(c)'
    BY DEF Resolved, Answered, Over, At
  <1>10. CheckedOf(c)'
    BY <1>1, <1>9, CallKnown DEF CheckedOf
  <1>11. Len(call'[c].read) = Cardinality({r.slot : r \in read})
    BY DEF SlotsApart, SlotsOf, read
  <1>12. Op(c) # "open" /\ ~Emptied(TableOf(c)) =>
           {r.object : r \in read} = {o \in queries[q].wrote : o.file.shape \notin {"metadata", "manifest"}}
    <2> SUFFICES ASSUME Op(c) # "open", ~Emptied(TableOf(c))
                 PROVE  Data(queries[q].wrote) = {o \in queries[q].wrote : o.file.shape \notin {"metadata", "manifest"}}
      BY <1>3, <1>7
    <2>1. q \in DOMAIN queries /\ queries[q].state = "succeeded"
      BY <1>9, ResolvedIs
    <2>2. PICK f \in Formats : MadeAs(q, f)
      BY <2>1, QueryIs DEF LeftBy
    <2>3. \A o \in queries[q].wrote : o.file.shape # "marker"
      BY <2>1, <2>2, MadeIs
    <2> HIDE DEF q
    <2> QED
      BY <2>3 DEF Data, IsCTASDataKey
  <1>13. Op(c) \in PerBucket => \A r \in read :
           r.slot \in 0 .. call[c].slots - 1 /\ (r.object.file.shape # "v2" => r.slot = r.object.file.bucket)
    <2>1. Op(c) \in PerBucket => \A r \in read : r.slot \in 0 .. call[c].slots - 1
      BY <1>1 DEF SlotsApart, SlotsOf, read
    <2>2. \A i \in 1..n : Op(c) \in PerBucket /\ files[i].file.shape # "v2" => ReadAs(c, i).slot = files[i].file.bucket
      BY ReadsApart DEF files, n
    <2> QED
      BY <1>4, <1>5, <2>1, <2>2
  <1>14. Op(c) \in Unloads \cup {"open"} => \A r \in read : TrueOf(call'[c].claim, r.object.file)
    BY <1>8 DEF OwnFile
  <1>15. \A r \in read : r.object.by \in OwnQueries(c)
    BY <1>8 DEF OwnFile
  <1>16. TrueAnswer(c)'
    BY <1>1, <1>2, <1>11, <1>12, <1>13, <1>14, <1>15 DEF TrueAnswer, read, q
  <1> QED
    BY <1>9, <1>10, <1>16 DEF CallInv, LocatedOf, ReadingOf, AnswerOf, CauseOf

(* A file is read, and there are more. *)
LEMMA ReadsOn ==
    ASSUME LInv, Extended, NEW c \in Calls, call[c].pc = "read", UNCHANGED queries, UNCHANGED closer,
           call'[c].pc = "read", call'[c].attempt = call[c].attempt, call'[c].ctas = call[c].ctas,
           call'[c].slots = call[c].slots, call'[c].claim = Claimed(c), call'[c].succeeded = call[c].succeeded,
           call'[c].files = call[c].files, Len(call'[c].read) < Len(call[c].files),
           \A i \in 1..Len(call'[c].read) : call'[c].read[i] = ReadAs(c, i)
    PROVE  CallInv(c)'
  <1>1. /\ Op(c)' = Op(c) /\ UNCHANGED request /\ ~Over(c)' /\ ~Answered(c)' /\ QueryOf(c)' = QueryOf(c)
        /\ TableOf(c)' = TableOf(c) /\ Resolved(c) /\ Resolved(c)'
    <2>1. Op(c)' = Op(c) /\ UNCHANGED request
      BY Rigid DEF Extended
    <2> QED
      BY <2>1 DEF Over, At, Answered, QueryOf, TableOf, Resolved
  <1>2. Claimed(c)' = Claimed(c)
    BY <1>1 DEF Claimed, Unloads, Raws
  <1>3. \A o : OwnFile(c, o) => OwnFile(c, o)'
    <2>1. OwnQueries(c)' = OwnQueries(c)
      BY <1>1 DEF OwnQueries
    <2>2. \A by : Source(c, by)' = Source(c, by)
      BY <1>1 DEF Source
    <2> QED
      BY <1>1, <1>2, <2>1, <2>2 DEF OwnFile
  <1>4. \A i : ReadAs(c, i)' = ReadAs(c, i)
    BY <1>1 DEF ReadAs
  <1>5. \A table : Emptied(table)' <=> Emptied(table)
    BY DEF Emptied
  <1>6. CheckedOf(c)'
    BY <1>1, CallKnown DEF CheckedOf
  <1>7. ReadingOf(c)'
    BY <1>1, <1>3, <1>4, <1>5, CallKnown DEF ReadingOf
  <1> QED
    BY <1>1, <1>6, <1>7 DEF CallInv, LocatedOf, AnswerOf, CauseOf

LEMMA ReadWell ==
    ASSUME LInv, Extended, SlotsApart', NEW c \in Calls, Read(c), call[c].failed = FALSE
    PROVE  CallInv(c)'
  <1> DEFINE files == call[c].files
             k == Len(call[c].read)
             slot == IF Op(c) \in PerBucket THEN SlotOf(c) ELSE k
             taken == {r.slot : r \in ToSet(call[c].read)}
             last == k + 1 = Len(files)
             r == [slot |-> slot, object |-> NextFile(c)]
  <1>1. call[c].pc = "read" /\ TypeOK /\ UNCHANGED queries /\ UNCHANGED closer
    BY CallKnown DEF Read, At, services
  <1>2. /\ files \in Seq(Objects) /\ k \in Nat /\ Len(files) \in Nat /\ DOMAIN files = 1..Len(files) /\ k < Len(files)
        /\ \A i \in 1..k : call[c].read[i] = ReadAs(c, i)
        /\ call[c].read \in Seq([slot : Int, object : Objects]) /\ DOMAIN call[c].read = 1..k
    <2>1. call[c].read \in Seq([slot : Int, object : Objects])
      BY CallKnown DEF Recorded, Reads
    <2> QED
      BY <1>1, <2>1, CallKnown DEF ReadingOf
  <1>3. k + 1 \in 1..Len(files) /\ NextFile(c) = files[k + 1] /\ NextFile(c) \in ToSet(files) /\ NextFile(c) \in Objects
    <2>1. NextFile(c) = files[k + 1]
      BY DEF NextFile
    <2>2. k + 1 \in 1..Len(files)
      BY <1>2
    <2> DEFINE i == k + 1
    <2> HIDE DEF i, files
    <2>3. i \in DOMAIN files /\ files \in Seq(Objects)
      BY <1>2, <2>2 DEF i
    <2>4. files[i] \in ToSet(files) /\ files[i] \in Objects
      BY <2>3 DEF ToSet
    <2> QED
      BY <2>1, <2>2, <2>4 DEF i
  <1>4. r = ReadAs(c, k + 1)
    BY <1>2, <1>3 DEF ReadAs, SlotOf
  <1>5. slot = ReadAs(c, k + 1).slot
    BY <1>4 DEF ReadAs
  <1>6. slot \in Nat /\ slot \notin taken
    <2>1. slot \in Nat /\ \A i \in 1..k : ReadAs(c, i).slot # slot
      <3>1. \A i \in 1..Len(files) : ReadAs(c, i).slot \in Nat
              /\ \A j \in 1..Len(files) : i # j => ReadAs(c, i).slot # ReadAs(c, j).slot
        BY <1>1, ReadsApart
      <3>2. \A i \in 1..k : i \in 1..Len(files) /\ i # k + 1
        BY <1>2
      <3> HIDE DEF files, k, slot
      <3> QED
        BY <1>3, <1>5, <3>1, <3>2
    <2>2. ToSet(call[c].read) = {call[c].read[i] : i \in 1..k}
      BY <1>2 DEF ToSet
    <2> HIDE DEF k, slot
    <2> QED
      BY <1>2, <2>1, <2>2
  <1>7. CASE call' = [call EXCEPT ![c].read = Append(@, r), ![c].claim = Claimed(c),
                                  ![c].files = IF last THEN <<>> ELSE @, ![c].location = <<>>,
                                  ![c].pc = IF last THEN "done" ELSE "read"]
    <2> DEFINE none == <<>>
               fs == IF last THEN none ELSE files
               pc == IF last THEN "done" ELSE "read"
               read == Append(call[c].read, r)
               t == [call[c] EXCEPT !.read = read, !.claim = Claimed(c), !.files = fs, !.location = none, !.pc = pc]
    <2>1. call' = [call EXCEPT ![c] = t]
      BY <1>1, <1>7 DEF TypeOK
    <2>2. /\ read \in Seq([slot : Int, object : Objects]) /\ Len(read) = k + 1
          /\ \A i \in 1..k : read[i] = call[c].read[i]
          /\ read[k + 1] = r
      <3>1. r \in [slot : Int, object : Objects]
        BY <1>3, <1>6
      <3> HIDE DEF r
      <3> QED
        BY <1>2, <3>1
    <2>3. \A i \in 1..(k + 1) : read[i] = ReadAs(c, i)
      <3>1. k \in Nat
        BY <1>2
      <3> HIDE DEF r, read, k
      <3>2. \A i \in 1..(k + 1) : i \in 1..k \/ i = k + 1
        BY <3>1
      <3> QED
        BY <1>2, <1>4, <2>2, <3>2
    <2> HIDE DEF none, fs, pc, read
    <2>4. /\ t.read = read /\ t.claim = Claimed(c) /\ t.files = fs /\ t.pc = pc /\ t.attempt = call[c].attempt
          /\ t.ctas = call[c].ctas /\ t.slots = call[c].slots /\ t.succeeded = call[c].succeeded /\ t.failed = call[c].failed
      BY CallKnown DEF Recorded
    <2> HIDE DEF t
    <2>5. call'[c] = t
      BY <1>1, <2>1, OneCall
    <2>6. CASE last
      <3>1. pc = "done" /\ Len(files) = k + 1
        BY <2>6 DEF pc
      <3> QED
        BY <1>1, <2>2, <2>3, <2>4, <2>5, <3>1, AnswersWell
    <2>7. CASE ~last
      <3>1. pc = "read" /\ fs = files /\ k + 1 < Len(files)
        BY <1>2, <2>7 DEF pc, fs
      <3> QED
        BY <1>1, <2>2, <2>3, <2>4, <2>5, <3>1, ReadsOn
    <2> QED
      BY <2>6, <2>7
  <1>8. CASE (NextFile(c) \notin objects \/ slot \in taken \cup {-1}) /\ Fails(c)
    <2>1. NextFile(c) \notin objects
      BY <1>6, <1>8
    <2> QED
      BY <1>1, <1>3, <1>8, <2>1, NextIsThere, FailsWell
  <1>9. CASE FailsBy(c)
    BY <1>9, FailsWell
  <1> QED
    BY <1>7, <1>8, <1>9 DEF Read

-----------------------------------------------------------------------------
(* The steps together. *)

EndsIfFailed(c) == call'[c].failed => call'[c].pc = "done"

LEMMA FailingEnds ==
    ASSUME TypeOK, NEW c \in Calls, Fails(c) \/ FailsBy(c) \/ call' = [call EXCEPT ![c] = Failed(c)]
                                    \/ call' = [call EXCEPT ![c] = [Failed(c) EXCEPT !.denied = TRUE]]
    PROVE  EndsIfFailed(c)
  <1>1. Recorded(call[c])
    BY Asking
  <1>2. Failed(c).pc = "done" /\ [Failed(c) EXCEPT !.denied = TRUE].pc = "done"
    BY <1>1 DEF Failed, Recorded
  <1> QED
    BY <1>2, OneCall DEF Fails, FailsBy, EndsIfFailed

LEMMA GoingOn ==
    ASSUME TypeOK, Ended, NEW c \in Calls, call[c].pc # "done", NEW r, call' = [call EXCEPT ![c] = r],
           r.failed = call[c].failed
    PROVE  EndsIfFailed(c)
  BY OneCall DEF Ended, Over, At, EndsIfFailed

LEMMA ComposingEnds ==
    ASSUME TypeOK, Ended, NEW c \in Calls, call[c].pc # "done", Composes(c)
    PROVE  EndsIfFailed(c)
  <1>1. Recorded(call[c]) /\ call = [d \in Calls |-> call[d]]
    BY Asking DEF TypeOK
  <1>2. CASE call' = [call EXCEPT ![c] = Failed(c)]
    BY <1>2, FailingEnds
  <1>3. ASSUME NEW s, call' = [call EXCEPT ![c].pc = "submit", ![c].attempt = 1, ![c].ctas = s]
        PROVE  EndsIfFailed(c)
    <2> DEFINE t == [call[c] EXCEPT !.pc = "submit", !.attempt = 1, !.ctas = s]
    <2>1. call' = [call EXCEPT ![c] = t] /\ t.failed = call[c].failed
      BY <1>1, <1>3 DEF Recorded
    <2> HIDE DEF t
    <2> QED
      BY <2>1, GoingOn
  <1> QED
    BY <1>2, <1>3 DEF Composes

LEMMA AttemptingEnds ==
    ASSUME TypeOK, Ended, NEW c \in Calls, call[c].pc # "done", NEW words, NEW denied \in BOOLEAN,
           Attempted(c, words, denied)
    PROVE  EndsIfFailed(c)
  <1>1. Recorded(call[c]) /\ call = [d \in Calls |-> call[d]]
    BY Asking DEF TypeOK
  <1>2. CASE FallsBack(c, words)
    <2> DEFINE s == ComposeCTAS(c, 2, "hive")
               t == [call[c] EXCEPT !.pc = "submit", !.attempt = 2, !.ctas = s]
    <2>1. call' = [call EXCEPT ![c] = t]
      BY <1>1, <1>2 DEF Attempted
    <2> HIDE DEF s
    <2>2. t.failed = call[c].failed
      BY <1>1 DEF Recorded
    <2> HIDE DEF t
    <2> QED
      BY <2>1, <2>2, GoingOn
  <1>3. CASE ~FallsBack(c, words)
    BY <1>3, FailingEnds DEF Attempted
  <1> QED
    BY <1>2, <1>3

LEMMA SucceedingEnds ==
    ASSUME TypeOK, Ended, NEW c \in Calls, call[c].pc # "done", Succeeded(c)
    PROVE  EndsIfFailed(c)
  <1>1. Recorded(call[c]) /\ call = [d \in Calls |-> call[d]]
    BY Asking DEF TypeOK
  <1>2. CASE PrepassSucceeded(c)
    <2> DEFINE n == 0
               t == [call[c] EXCEPT !.pc = "columns", !.waited = n, !.interval = PollInterval]
    <2>1. call' = [call EXCEPT ![c] = t]
      BY <1>1, <1>2 DEF PrepassSucceeded
    <2> HIDE DEF n
    <2>2. t.failed = call[c].failed
      BY <1>1 DEF Recorded
    <2> HIDE DEF t
    <2> QED
      BY <2>1, <2>2, GoingOn
  <1>3. ASSUME NEW pc, NEW x
        PROVE  LET p == Proceeds(c, pc)
               IN  p.failed = call[c].failed /\ [p EXCEPT !.files = x].failed = call[c].failed
                   /\ [p EXCEPT !.claim = x].failed = call[c].failed
    <2> DEFINE n == 0
               p == [call[c] EXCEPT !.pc = pc, !.succeeded = TRUE, !.waited = n, !.interval = PollInterval]
    <2>1. Proceeds(c, pc) = p
      BY DEF Proceeds
    <2> HIDE DEF n
    <2>2. p.failed = call[c].failed
      BY <1>1 DEF Recorded
    <2>3. [p EXCEPT !.files = x].failed = call[c].failed
      BY <1>1 DEF Recorded
    <2>4. [p EXCEPT !.claim = x].failed = call[c].failed
      BY <1>1 DEF Recorded
    <2> HIDE DEF p
    <2> QED
      BY <2>1, <2>2, <2>3, <2>4
  <1>4. CASE UnloadSucceeded(c)
    BY <1>3, <1>4, GoingOn DEF UnloadSucceeded
  <1>5. CASE QuerySucceeded(c)
    BY <1>3, <1>5, GoingOn DEF QuerySucceeded
  <1>6. CASE RawSucceeded(c)
    BY <1>3, <1>6, GoingOn DEF RawSucceeded
  <1>7. CASE RawBucketsSucceeded(c)
    BY <1>3, <1>7, GoingOn DEF RawBucketsSucceeded
  <1> QED
    BY <1>2, <1>4, <1>5, <1>6, <1>7 DEF Succeeded

LEMMA StepEnds ==
    ASSUME TypeOK, Ended, NEW c \in Calls, Step(c)
    PROVE  EndsIfFailed(c)
  <1>1. Recorded(call[c]) /\ call = [d \in Calls |-> call[d]]
    BY Asking DEF TypeOK
  <1>2. ASSUME NEW pc, call' = [call EXCEPT ![c].pc = pc], call[c].pc # "done"
        PROVE  EndsIfFailed(c)
    <2> DEFINE t == [call[c] EXCEPT !.pc = pc]
    <2>1. call' = [call EXCEPT ![c] = t] /\ t.failed = call[c].failed
      BY <1>1, <1>2 DEF Recorded
    <2> HIDE DEF t
    <2> QED
      BY <1>2, <2>1, GoingOn
  <1>3. CASE Begin(c)
    <2>1. call[c].pc # "done"
      BY <1>3 DEF Begin, At
    <2>2. CASE call' = [call EXCEPT ![c].pc = "submit", ![c].attempt = 0, ![c].ctas = Select]
      <3> DEFINE n == 0
                 t == [call[c] EXCEPT !.pc = "submit", !.attempt = n, !.ctas = Select]
      <3>1. call' = [call EXCEPT ![c] = t]
        BY <1>1, <2>2
      <3> HIDE DEF n
      <3>2. t.failed = call[c].failed
        BY <1>1 DEF Recorded
      <3> HIDE DEF t
      <3> QED
        BY <2>1, <3>1, <3>2, GoingOn
    <2> QED
      BY <1>2, <1>3, <2>1, <2>2, FailingEnds, ComposingEnds DEF Begin, Goes
  <1>4. CASE Submit(c)
    <2>1. call[c].pc # "done"
      BY <1>4 DEF Submit, At
    <2>2. CASE call' = [call EXCEPT ![c].pc = "poll", ![c].waited = 0, ![c].interval = PollInterval]
      <3> DEFINE n == 0
                 t == [call[c] EXCEPT !.pc = "poll", !.waited = n, !.interval = PollInterval]
      <3>1. call' = [call EXCEPT ![c] = t]
        BY <1>1, <2>2
      <3> HIDE DEF n
      <3>2. t.failed = call[c].failed
        BY <1>1 DEF Recorded
      <3> HIDE DEF t
      <3> QED
        BY <2>1, <3>1, <3>2, GoingOn
    <2> QED
      BY <1>4, <2>1, <2>2, AttemptingEnds DEF Submit
  <1>5. CASE Poll(c)
    <2>1. call[c].pc # "done"
      BY <1>5 DEF Poll, At
    <2>2. ASSUME NEW w, NEW n, call' = [call EXCEPT ![c].waited = w, ![c].interval = n]
          PROVE  EndsIfFailed(c)
      <3> DEFINE t == [call[c] EXCEPT !.waited = w, !.interval = n]
      <3>1. call' = [call EXCEPT ![c] = t] /\ t.failed = call[c].failed
        BY <1>1, <2>2 DEF Recorded
      <3> HIDE DEF t
      <3> QED
        BY <2>1, <3>1, GoingOn
    <2>3. CASE call' = [call EXCEPT ![c].waited = Waited(@ + call[c].interval),
                                    ![c].interval = IF 2 * @ < PollMax THEN 2 * @ ELSE IF @ < PollMax THEN PollMax ELSE @]
      BY <2>2, <2>3
    <2> QED
      BY <1>5, <2>1, <2>3, AttemptingEnds, SucceedingEnds DEF Poll
  <1>6. CASE Columns(c)
    BY <1>6, FailingEnds, ComposingEnds DEF Columns, At
  <1>7. CASE Verify(c)
    BY <1>2, <1>7, FailingEnds DEF Verify, At
  <1>8. CASE Buckets(c)
    <2>1. call[c].pc # "done"
      BY <1>8 DEF Buckets, At
    <2>2. ASSUME NEW n, call' = [call EXCEPT ![c].pc = "resolve", ![c].slots = n]
          PROVE  EndsIfFailed(c)
      <3> DEFINE t == [call[c] EXCEPT !.pc = "resolve", !.slots = n]
      <3>1. call' = [call EXCEPT ![c] = t] /\ t.failed = call[c].failed
        BY <1>1, <2>2 DEF Recorded
      <3> HIDE DEF t
      <3> QED
        BY <2>1, <3>1, GoingOn
    <2> QED
      BY <1>8, <2>2, FailingEnds DEF Buckets
  <1>9. CASE Resolve(c)
    <2>1. call[c].pc # "done"
      BY <1>9 DEF Resolve, At
    <2>2. ASSUME NEW l, call' = [call EXCEPT ![c].pc = "list", ![c].location = l]
          PROVE  EndsIfFailed(c)
      <3> DEFINE t == [call[c] EXCEPT !.pc = "list", !.location = l]
      <3>1. call' = [call EXCEPT ![c] = t] /\ t.failed = call[c].failed
        BY <1>1, <2>2 DEF Recorded
      <3> HIDE DEF t
      <3> QED
        BY <2>1, <3>1, GoingOn
    <2> QED
      BY <1>9, <2>2, FailingEnds DEF Resolve
  <1>10. CASE Open(c)
    <2>1. call[c].pc # "done"
      BY <1>10 DEF Open, At
    <2>2. ASSUME NEW l, NEW said, call' = [call EXCEPT ![c].pc = "list", ![c].location = l, ![c].claim = said]
          PROVE  EndsIfFailed(c)
      <3> DEFINE t == [call[c] EXCEPT !.pc = "list", !.location = l, !.claim = said]
      <3>1. call' = [call EXCEPT ![c] = t] /\ t.failed = call[c].failed
        BY <1>1, <2>2 DEF Recorded
      <3> HIDE DEF t
      <3> QED
        BY <2>1, <3>1, GoingOn
    <2> QED
      BY <1>10, <2>2, FailingEnds DEF Open
  <1>11. CASE List(c)
    <2>1. call[c].pc # "done"
      BY <1>11 DEF List, At
    <2>2. ASSUME NEW fs, NEW n, call' = [call EXCEPT ![c].pc = "read", ![c].files = fs, ![c].slots = n]
          PROVE  EndsIfFailed(c)
      <3> DEFINE t == [call[c] EXCEPT !.pc = "read", !.files = fs, !.slots = n]
      <3>1. call' = [call EXCEPT ![c] = t] /\ t.failed = call[c].failed
        BY <1>1, <2>2 DEF Recorded
      <3> HIDE DEF t
      <3> QED
        BY <2>1, <3>1, GoingOn
    <2>3. CASE \E files \in ListBucketFiles(call[c].location) :
                  call' = [call EXCEPT ![c].pc = "read", ![c].files = files,
                                       ![c].slots = IF Op(c) = "unload_buckets" THEN request[c].buckets ELSE @]
      BY <2>2, <2>3
    <2> QED
      BY <1>11, <2>3, FailingEnds DEF List
  <1>12. CASE Read(c)
    <2>1. call[c].pc # "done"
      BY <1>12 DEF Read, At
    <2>2. ASSUME NEW rs, NEW said, NEW fs, NEW l, NEW pc,
                 call' = [call EXCEPT ![c].read = rs, ![c].claim = said, ![c].files = fs, ![c].location = l, ![c].pc = pc]
          PROVE  EndsIfFailed(c)
      <3> DEFINE t == [call[c] EXCEPT !.read = rs, !.claim = said, !.files = fs, !.location = l, !.pc = pc]
      <3>1. call' = [call EXCEPT ![c] = t] /\ t.failed = call[c].failed
        BY <1>1, <2>2 DEF Recorded
      <3> HIDE DEF t
      <3> QED
        BY <2>1, <3>1, GoingOn
    <2> DEFINE last == Len(call[c].read) + 1 = Len(call[c].files)
               slot == IF Op(c) \in PerBucket THEN SlotOf(c) ELSE Len(call[c].read)
               r == [slot |-> slot, object |-> NextFile(c)]
    <2>3. CASE call' = [call EXCEPT ![c].read = Append(@, r), ![c].claim = Claimed(c),
                                    ![c].files = IF last THEN <<>> ELSE @, ![c].location = <<>>,
                                    ![c].pc = IF last THEN "done" ELSE "read"]
      <3> DEFINE rs == Append(call[c].read, r)
                 said == Claimed(c)
                 fs == IF last THEN <<>> ELSE call[c].files
                 l == <<>>
                 pc == IF last THEN "done" ELSE "read"
      <3>1. call' = [call EXCEPT ![c].read = rs, ![c].claim = said, ![c].files = fs, ![c].location = l, ![c].pc = pc]
        BY <1>1, <2>3
      <3> HIDE DEF rs, said, fs, l, pc
      <3> QED
        BY <2>2, <3>1
    <2>4. CASE Fails(c) \/ FailsBy(c)
      BY <2>4, FailingEnds
    <2> QED
      BY <1>12, <2>3, <2>4 DEF Read
  <1> QED
    BY <1>3, <1>4, <1>5, <1>6, <1>7, <1>8, <1>9, <1>10, <1>11, <1>12 DEF Step

LEMMA StepWell ==
    ASSUME LInv, KInv', NEW c \in Calls, Step(c)
    PROVE  FilesInv'
  <1>1. Origins' /\ (\A d \in Calls \ {c} : CallInv(d)') /\ Extended /\ (\A d \in Calls \ {c} : call'[d] = call[d])
    BY StepLeavesOthers, StepExtends
  <1>2. TypeOK /\ Ended /\ SlotsApart'
    BY InvParts DEF KInv, IInv
  <1>3. CallInv(c)'
    <2>1. Read(c) => call[c].failed = FALSE
      BY <1>2, CallKnown DEF Read, At, Ended, Over, Recorded
    <2> QED
      BY <1>1, <1>2, <2>1, BeginWell, SubmitWell, PollWell, ColumnsWell, VerifyWell, BucketsWell, ResolveWell,
         OpenWell, ListWell, ReadWell
      DEF Step
  <1>4. Ended'
    <2>1. EndsIfFailed(c)
      BY <1>2, StepEnds
    <2> QED
      BY <1>1, <1>2, <2>1 DEF Ended, Over, At, EndsIfFailed
  <1> QED
    BY <1>1, <1>3, <1>4 DEF FilesInv

LEMMA LInit ==
    ASSUME Init, \A s \in Scenarios : NamesApart(s.request) /\ PlacesApart(s.request) /\ OthersAreTrue(s.request)
    PROVE  LInv
  <1>1. KInv
    BY KInit
  <1>2. PICK s \in Scenarios : request = s.request
    BY DEF Init
  <1>3. PlacesApart(request) /\ OthersAreTrue(request) /\ Fit
    BY <1>2, AthenaAssumption DEF Fit
  <1>4. /\ \A c \in Calls : call[c].pc = "idle" /\ call[c].failed = FALSE
        /\ DOMAIN queries = {} /\ catalog = External.catalog /\ objects = External.objects
    BY DEF Init
  <1>5. Origins
    BY <1>4, OthersAre DEF Origins
  <1>6. ASSUME NEW c \in Calls
        PROVE  CallInv(c)
    <2>1. ~Over(c) /\ ~Answered(c) /\ ~Resolved(c) /\ call[c].pc = "idle"
      BY <1>4 DEF Over, At, Answered, Resolved
    <2> QED
      BY <2>1 DEF CallInv, CheckedOf, LocatedOf, ReadingOf, AnswerOf, CauseOf
  <1>7. Ended
    BY <1>4 DEF Ended
  <1> QED
    BY <1>1, <1>3, <1>5, <1>6, <1>7 DEF LInv, FilesInv

(* No other step moves a call. *)
LEMMA EndedStays ==
    ASSUME LInv, UNCHANGED call
    PROVE  Ended'
  BY InvParts DEF Ended, Over, At

LEMMA LNext == LInv /\ [Next]_vars => LInv'
  <1> SUFFICES ASSUME LInv, [Next]_vars PROVE LInv'
    OBVIOUS
  <1>1. KInv'
    BY KNext DEF LInv
  <1>2. FilesInv' /\ UNCHANGED request
    <2>1. CASE \E c \in Calls : Step(c)
      BY <1>1, <2>1, StepWell DEF Step
    <2>2. ASSUME NEW c \in Calls, Cancel(c)
          PROVE  FilesInv' /\ UNCHANGED request
      <3>1. TypeOK /\ Ended /\ Recorded(call[c]) /\ call[c].pc # "done" /\ UNCHANGED request
        BY <2>2, CallKnown, InvParts DEF Cancel
      <3> DEFINE t == [call[c] EXCEPT !.cancelled = TRUE]
      <3>2. call' = [call EXCEPT ![c] = t] /\ t.failed = call[c].failed
        BY <2>2, <3>1 DEF Cancel, TypeOK, Recorded
      <3> HIDE DEF t
      <3>3. EndsIfFailed(c) /\ \A d \in Calls \ {c} : call'[d] = call[d]
        BY <3>1, <3>2, GoingOn, OneCall
      <3>4. Ended'
        BY <3>1, <3>3 DEF Ended, Over, At, EndsIfFailed
      <3> QED
        BY <2>2, <3>1, <3>4, CancelLeaves DEF FilesInv
    <2>3. ASSUME NEW q \in DOMAIN queries, QuerySucceeds(q) \/ QueryFails(q)
          PROVE  FilesInv' /\ UNCHANGED request
      <3>1. UNCHANGED call /\ UNCHANGED request
        BY <2>3 DEF QuerySucceeds, QueryFails, client
      <3> QED
        BY <2>3, <3>1, EndedStays, QuerySucceedsLeaves, QueryFailsLeaves DEF FilesInv
    <2>4. ASSUME CloseBegins \/ DropTable \/ DeletePrefix \/ CloseReturns \/ UNCHANGED vars
          PROVE  FilesInv' /\ UNCHANGED request
      <3>1. UNCHANGED call /\ UNCHANGED request
        BY <2>4 DEF CloseBegins, DropTable, DeletePrefix, CloseReturns, client, vars
      <3> QED
        BY <2>4, <3>1, EndedStays, CloseBeginsLeaves, DropTableLeaves, DeletePrefixLeaves, CloseReturnsLeaves,
           StutterLeaves
        DEF FilesInv
    <2> QED
      BY <2>1, <2>2, <2>3, <2>4 DEF Next
  <1> QED
    BY <1>1, <1>2, HypothesesStay DEF LInv

-----------------------------------------------------------------------------
(* The theorems. *)

\* Every answer is what it claims to be, beside any other calls and any Close, if
\* callers keep their names and places apart (NamesApart, PlacesApart) and the
\* tables of others are as Glue and those who open them say (OthersAreTrue); the
\* code checks none of the three.  It is read from the files of its own table and
\* of no neighbour, from all of them unless a Close deletes them; by bucket each
\* file has a slot of its own, its bucket's where the name tells the bucket, as
\* engine v2's does not (unload.go:985); and the hash and the order it says were
\* enforced are those of the rows (unload.go: UnloadAndReadBuckets,
\* populateBucketResults; open.go: OpenPartitionedTable).
THEOREM AnswersAreWhatTheyClaim ==
    ASSUME \A s \in Scenarios : NamesApart(s.request) /\ PlacesApart(s.request) /\ OthersAreTrue(s.request)
    PROVE  Spec => []AnswersAreTrue
  <1>1. Init => LInv
    BY LInit
  <1>2. LInv => AnswersAreTrue
    BY InvParts DEF CallInv, AnswerOf, AnswersAreTrue
  <1> QED
    BY <1>1, <1>2, LNext, PTL DEF Spec

\* No call fails by itself, under the same three assumptions: a service or the
\* caller's context failed it, its query failed, ran past the deadline, made
\* another kind of table or no rows, a Close took its table, or what it asks
\* cannot be met (query.go: pollUntilDone;
\* s3_reader.go: listBucketFiles; unload.go: verifyCTASOutput, populateBucketResults).
THEOREM FailuresHaveACause ==
    ASSUME \A s \in Scenarios : NamesApart(s.request) /\ PlacesApart(s.request) /\ OthersAreTrue(s.request)
    PROVE  Spec => []FailsForACause
  <1>1. Init => LInv
    BY LInit
  <1>2. ASSUME LInv, NEW q \in DOMAIN queries, queries[q].state = "succeeded", Data(queries[q].wrote) = {}
        PROVE  \A o \in queries[q].wrote : o.file.shape \in {"metadata", "manifest"}
    <2>1. PICK f \in Formats : MadeAs(q, f)
      BY <1>2, QueryIs DEF LeftBy
    <2>2. \A o \in queries[q].wrote : o.file.shape # "marker"
      BY <1>2, <2>1, MadeIs
    <2> QED
      BY <1>2, <2>2 DEF Data, IsCTASDataKey
  <1>3. ASSUME LInv, NEW c \in Calls, Over(c), ~Answered(c)
        PROVE  call[c].denied \/ Cause(c)
    BY <1>3, InvParts DEF CallInv, CauseOf, Answered
  <1>4. LInv => FailsForACause
    BY <1>2, <1>3 DEF FailsForACause, Cause
  <1> QED
    BY <1>1, <1>4, LNext, PTL DEF Spec
=============================================================================
