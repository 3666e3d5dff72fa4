----------------------------- MODULE AthenaProofs -----------------------------
(***************************************************************************)
(* Theorems about Athena for every set of calls and requests, every        *)
(* catalog made by others, every polling schedule and any number of        *)
(* failures and of calls of Close.                                         *)
(***************************************************************************)
EXTENDS Athena, SequenceTheorems, FiniteSetTheorems, TLAPS

-----------------------------------------------------------------------------
(* Sequences, functions and records. *)

LEMMA ToSetEmpty == ToSet(<<>>) = {}
  BY DEF ToSet

LEMMA ToSetAppend ==
    ASSUME NEW S, NEW s \in Seq(S), NEW e \in S
    PROVE  Append(s, e) \in Seq(S) /\ ToSet(Append(s, e)) = ToSet(s) \cup {e}
  <1>1. /\ Append(s, e) \in Seq(S) /\ Len(s) \in Nat
        /\ DOMAIN s = 1..Len(s) /\ DOMAIN Append(s, e) = 1..(Len(s) + 1)
        /\ \A i \in 1..Len(s) : Append(s, e)[i] = s[i]
        /\ Append(s, e)[Len(s) + 1] = e
    OBVIOUS
  <1>2. ToSet(Append(s, e)) \subseteq ToSet(s) \cup {e}
    BY <1>1 DEF ToSet
  <1>3. ToSet(s) \subseteq ToSet(Append(s, e))
    BY <1>1 DEF ToSet
  <1>4. e \in ToSet(Append(s, e))
    <2>1. Len(s) + 1 \in 1..(Len(s) + 1)
      BY <1>1
    <2> QED
      BY <1>1, <2>1 DEF ToSet
  <1> QED
    BY <1>1, <1>2, <1>3, <1>4

LEMMA ToSetInside ==
    ASSUME NEW S, NEW s \in Seq(S)
    PROVE  ToSet(s) \subseteq S
  BY DEF ToSet

LEMMA HeadAndRest ==
    ASSUME NEW S, NEW s \in Seq(S), s # <<>>
    PROVE  /\ Head(s) \in ToSet(s) /\ Tail(s) \in Seq(S)
           /\ ToSet(s) = {Head(s)} \cup ToSet(Tail(s))
  <1>1. /\ Len(s) \in Nat \ {0} /\ DOMAIN s = 1..Len(s) /\ Head(s) = s[1]
        /\ Tail(s) \in Seq(S) /\ Len(Tail(s)) = Len(s) - 1 /\ DOMAIN Tail(s) = 1..(Len(s) - 1)
        /\ \A i \in 1..(Len(s) - 1) : Tail(s)[i] = s[i + 1]
    OBVIOUS
  <1>2. Head(s) \in ToSet(s)
    BY <1>1 DEF ToSet
  <1>3. ToSet(Tail(s)) \subseteq ToSet(s)
    <2> SUFFICES ASSUME NEW i \in DOMAIN Tail(s) PROVE Tail(s)[i] \in ToSet(s)
      BY DEF ToSet
    <2>1. i + 1 \in DOMAIN s /\ Tail(s)[i] = s[i + 1]
      BY <1>1
    <2> QED
      BY <2>1 DEF ToSet
  <1>4. ToSet(s) \subseteq {Head(s)} \cup ToSet(Tail(s))
    <2> SUFFICES ASSUME NEW i \in DOMAIN s, i # 1 PROVE s[i] \in ToSet(Tail(s))
      BY <1>1 DEF ToSet
    <2>1. i - 1 \in DOMAIN Tail(s) /\ Tail(s)[i - 1] = s[i]
      BY <1>1
    <2> QED
      BY <2>1 DEF ToSet
  <1> QED
    BY <1>1, <1>2, <1>3, <1>4

LEMMA Pair == ASSUME NEW S, NEW a \in S, NEW b \in S PROVE <<a, b>> \in Seq(S)
  OBVIOUS
LEMMA Triple == ASSUME NEW S, NEW a \in S, NEW b \in S, NEW c \in S PROVE <<a, b, c>> \in Seq(S)
  OBVIOUS
LEMMA Quintuple ==
    ASSUME NEW S, NEW a \in S, NEW b \in S, NEW c \in S, NEW d \in S, NEW e \in S
    PROVE  <<a, b, c, d, e>> \in Seq(S)
  OBVIOUS

-----------------------------------------------------------------------------
(* The record of a call: what each of its updates leaves. *)

LEMMA OneCall ==
    ASSUME TypeOK, NEW c \in Calls, NEW r, call' = [call EXCEPT ![c] = r]
    PROVE  /\ call'[c] = r /\ \A d \in Calls \ {c} : call'[d] = call[d]
           /\ call' = [d \in Calls |-> call'[d]]
  BY DEF TypeOK

Like(r, s) == r.attempt = s.attempt /\ r.ctas = s.ctas /\ r.succeeded = s.succeeded

LEMMA Filing ==
    ASSUME NEW r, Recorded(r), NEW fs, NEW t, t = [r EXCEPT !.files = fs]
    PROVE  Recorded(t) /\ Like(t, r) /\ t.pc = r.pc /\ t.read = r.read
  BY DEF Recorded, Like

LEMMA Claiming ==
    ASSUME NEW r, Recorded(r), NEW cl, NEW t, t = [r EXCEPT !.claim = cl]
    PROVE  Recorded(t) /\ Like(t, r) /\ t.pc = r.pc /\ t.read = r.read
  BY DEF Recorded, Like

LEMMA Blaming ==
    ASSUME NEW r, Recorded(r), NEW t, t = [r EXCEPT !.denied = TRUE]
    PROVE  Recorded(t) /\ Like(t, r) /\ t.pc = r.pc /\ t.read = r.read
  BY DEF Recorded, Like

-----------------------------------------------------------------------------
(* What the queries are asked. *)

LEMMA Asking ==
    ASSUME TypeOK, NEW c \in Calls
    PROVE  /\ request[c] \in Requests /\ Recorded(call[c]) /\ call[c].attempt \in 0..2
           /\ call[c].ctas \in Statements /\ call[c].pc \in Stages
           /\ QueryOf(c) \in Calls \X (0..2)
           /\ QueryOf(c)[1] = c /\ QueryOf(c)[2] = call[c].attempt
  BY DEF TypeOK, Recorded, QueryOf

LEMMA Names ==
    ASSUME NEW c \in Calls, NEW a \in 0..2
    PROVE  /\ Attempts[a] \in Tokens
           /\ <<"gobi", c, Attempts[a]>> \in Path
           /\ <<"results", "/">> \in Path /\ <<"results", "/", c, Attempts[a], "/">> \in Path
           /\ <<"workgroup", "/", c, Attempts[a], "/">> \in Path
           /\ <<>> \in Path
  <1>1. {"gobi", "results", "workgroup", "/", "prepass", "first", "second", c} \subseteq Tokens
    BY AthenaAssumption
  <1>2. Attempts[a] \in {"prepass", "first", "second"}
    BY DEF Attempts
  <1>3. Attempts[a] \in Tokens
    BY <1>1, <1>2
  <1> HIDE DEF Attempts
  <1>4. <<"gobi", c, Attempts[a]>> \in Path
    BY <1>1, <1>3, Triple DEF Path
  <1>5. <<"results", "/">> \in Path
    BY <1>1, Pair DEF Path
  <1>6. <<"results", "/", c, Attempts[a], "/">> \in Path
    BY <1>1, <1>3, Quintuple DEF Path
  <1>7. <<"workgroup", "/", c, Attempts[a], "/">> \in Path
    BY <1>1, <1>3, Quintuple DEF Path
  <1> QED
    BY <1>3, <1>4, <1>5, <1>6, <1>7 DEF Path

LEMMA SelectIsStatement == Select \in Statements
  <1>1. <<"results", "/">> \in Path
    <2>1. {"results", "/"} \subseteq Tokens
      BY AthenaAssumption
    <2> QED
      BY <2>1, Pair DEF Path
  <1>2. <<>> \in Path /\ <<>> \in Orderings
    BY DEF Path, Orderings
  <1> QED
    BY <1>1, <1>2 DEF Select, Statements, NoTable, Formats

LEMMA ComposedIsStatement ==
    ASSUME TypeOK, NEW c \in Calls, NEW a \in 0..2, NEW f \in {"hive", "iceberg"}
    PROVE  ComposeCTAS(c, a, f) \in Statements
  <1>1. request[c] \in Requests
    BY Asking
  <1>2. request[c].columns \in Path /\ request[c].buckets \in Int /\ request[c].order \in Orderings
    BY <1>1 DEF Requests
  <1>3. <<"gobi", c, Attempts[a]>> \in Path /\ <<"results", "/", c, Attempts[a], "/">> \in Path
    BY Names
  <1>4. f \in Formats
    BY DEF Formats
  <1> QED
    BY <1>2, <1>3, <1>4 DEF ComposeCTAS, Statements

LEMMA RawIsStatement ==
    ASSUME TypeOK, NEW c \in Calls
    PROVE  RawCTAS(c) \in Statements
  <1>1. request[c] \in Requests
    BY Asking
  <1> QED
    BY <1>1 DEF RawCTAS, Requests, Statements, Formats

-----------------------------------------------------------------------------
(* The steps of a call, by what they do to its attempt, its success and the *)
(* ledger.                                                                  *)

\* An attempt is composed, the first or a later one.
Chooses(c) ==
    /\ call[c].pc \in {"idle", "submit", "poll", "columns"} /\ Op(c) # "open" /\ ~Refused(c)
    /\ call'[c].pc = "submit" /\ call'[c].succeeded = call[c].succeeded
    /\ call[c].pc # "idle" => call[c].attempt < call'[c].attempt
    /\ call'[c].attempt # 1 => Op(c) \in Unloads
    /\ call'[c].ctas.table = NameOf(<<c, call'[c].attempt>>)
    /\ call'[c].ctas.location = PlaceOf(<<c, call'[c].attempt>>)
    /\ UNCHANGED <<ledger, queries>>
\* It is submitted.
Submits(c) ==
    /\ call[c].pc = "submit" /\ call'[c].pc = "poll" /\ Like(call'[c], call[c])
    /\ queries' = With(queries, QueryOf(c), Submitted(call[c].ctas)) /\ UNCHANGED ledger
\* The prepass ended well.
Prepared(c) ==
    /\ call[c].pc = "poll" /\ call'[c].pc = "columns" /\ Like(call'[c], call[c])
    /\ call[c].attempt = 0
    /\ UNCHANGED <<ledger, queries>>
\* The query ended well.
Learns(c) ==
    /\ call[c].pc = "poll" /\ call[c].attempt # 0 /\ queries[QueryOf(c)].state = "succeeded"
    /\ call'[c].attempt = call[c].attempt /\ call'[c].ctas = call[c].ctas /\ call'[c].succeeded
    /\ \/ Op(c) = "query" /\ call'[c].pc = "read" /\ UNCHANGED ledger
       \/ Op(c) \in Unloads /\ call'[c].pc = "verify" /\ UNCHANGED ledger
       \/ Op(c) \in Raws /\ call'[c].pc \in {"resolve", "buckets"} /\ ledger' = Append(ledger, Tracked(c))
    /\ UNCHANGED queries
\* The table is looked at and registered.
Registers(c) ==
    /\ call[c].pc = "verify" /\ call'[c].pc \in {"resolve", "done"} /\ Like(call'[c], call[c])
    /\ ledger' = Append(ledger, Tracked(c))
    /\ UNCHANGED queries
\* The call goes on or ends.
Moves(c) ==
    /\ call[c].pc # "verify" /\ Like(call'[c], call[c])
    /\ \/ call'[c].pc \in {"open", "resolve", "list", "read", "done"}
       \/ call[c].pc = "poll" /\ call'[c].pc = "poll"
    /\ UNCHANGED <<ledger, queries>>

Kind(c) == Chooses(c) \/ Submits(c) \/ Prepared(c) \/ Learns(c) \/ Registers(c) \/ Moves(c)

\* A file is read into a slot that was free.
ReadsOne(c) ==
    /\ call[c].pc = "read" /\ call'[c].pc \in {"read", "done"} /\ call'[c].slots = call[c].slots
    /\ \E r \in [slot : Int, object : Objects] :
         /\ call'[c].read = Append(call[c].read, r) /\ r.slot \notin SlotsOf(c)
         /\ Op(c) \in PerBucket => r.slot \in 0 .. call[c].slots - 1
\* No file has been read, or what was read is thrown away.
ReadsNone(c) == call'[c].read = <<>>

\* Only c changes, and what it records stays what it may record.
Alone(c) ==
    /\ \A d \in Calls : Recorded(call'[d])
    /\ \A d \in Calls \ {c} : call'[d] = call[d]
    /\ call' = [d \in Calls |-> call'[d]]

StepOf(c) ==
    /\ Alone(c) /\ Kind(c) /\ (ReadsNone(c) \/ ReadsOne(c))
    /\ hiveFallbackOnly' \in BOOLEAN /\ faults' \in 0..MaxFaults
    /\ UNCHANGED <<closer, catalog, objects>>

LEMMA IsAlone ==
    ASSUME TypeOK, NEW c \in Calls, NEW r, Recorded(r), call' = [call EXCEPT ![c] = r]
    PROVE  Alone(c) /\ call'[c] = r
  <1>1. call'[c] = r /\ (\A d \in Calls \ {c} : call'[d] = call[d]) /\ call' = [d \in Calls |-> call'[d]]
    BY OneCall
  <1>2. \A d \in Calls : Recorded(call[d])
    BY DEF TypeOK
  <1> QED
    BY <1>1, <1>2 DEF Alone

LEMMA FaultsBounded ==
    ASSUME TypeOK, NEW c \in Calls, Granted(c) \/ Denied(c)
    PROVE  faults' \in 0..MaxFaults
  BY AthenaAssumption DEF TypeOK, Granted, Denied

LEMMA FailedIs ==
    ASSUME TypeOK, NEW c \in Calls
    PROVE  /\ Recorded(Failed(c)) /\ Like(Failed(c), call[c]) /\ Failed(c).pc = "done" /\ Failed(c).read = <<>>
           /\ LET u == [Failed(c) EXCEPT !.denied = TRUE]
              IN  Recorded(u) /\ Like(u, call[c]) /\ u.pc = "done" /\ u.read = <<>>
  <1>1. Recorded(call[c])
    BY Asking
  <1>2. "done" \in Stages /\ TRUE \in BOOLEAN /\ <<>> \in Reads
    BY DEF Stages, Reads
  <1>3. Failed(c) = [call[c] EXCEPT !.pc = "done", !.failed = TRUE, !.files = <<>>, !.read = <<>>, !.claim = NoClaim]
    BY DEF Failed
  <1>4. Recorded(Failed(c)) /\ Like(Failed(c), call[c]) /\ Failed(c).pc = "done" /\ Failed(c).read = <<>>
    <2> DEFINE r == call[c]
               f == Failed(c)
               none == <<>>
               no == NoClaim
    <2>1. f = [r EXCEPT !.pc = "done", !.failed = TRUE, !.files = none, !.read = none, !.claim = no]
      BY <1>3
    <2>2. Recorded(r) /\ none \in Reads
      BY <1>1, <1>2
    <2> HIDE DEF r, f, none, no
    <2>3. Recorded(f) /\ Like(f, r) /\ f.pc = "done" /\ f.read = none
      BY <1>2, <2>1, <2>2 DEF Recorded, Like, Reads
    <2> QED
      BY <2>3 DEF r, f, none, no
  <1> DEFINE u == [Failed(c) EXCEPT !.denied = TRUE]
  <1>5. Recorded(u) /\ Like(u, Failed(c)) /\ u.pc = Failed(c).pc /\ u.read = Failed(c).read
    BY <1>2, <1>4, Blaming, Zenon
  <1> QED
    BY <1>4, <1>5 DEF Like

(* A failed call has moved to its end. *)
LEMMA Failing ==
    ASSUME TypeOK, NEW c \in Calls, Fails(c) \/ FailsBy(c), call[c].pc # "verify", UNCHANGED queries
    PROVE  Alone(c) /\ Moves(c) /\ ReadsNone(c) /\ hiveFallbackOnly' \in BOOLEAN
  <1>1. hiveFallbackOnly' \in BOOLEAN /\ UNCHANGED ledger
    BY DEF Fails, FailsBy, TypeOK
  <1> DEFINE u == [Failed(c) EXCEPT !.denied = TRUE]
  <1>2. call' = [call EXCEPT ![c] = Failed(c)] \/ call' = [call EXCEPT ![c] = u]
    BY DEF Fails, FailsBy
  <1>3. /\ Recorded(Failed(c)) /\ Like(Failed(c), call[c]) /\ Failed(c).pc = "done" /\ Failed(c).read = <<>>
        /\ Recorded(u) /\ Like(u, call[c]) /\ u.pc = "done" /\ u.read = <<>>
    BY FailedIs
  <1> HIDE DEF u
  <1>4. Alone(c) /\ (call'[c] = Failed(c) \/ call'[c] = u)
    BY <1>2, <1>3, IsAlone
  <1> QED
    <2>1. CASE call'[c] = Failed(c)
      <3>1. Like(call'[c], call[c]) /\ call'[c].pc = "done" /\ call'[c].read = <<>>
        BY <1>3, <2>1
      <3> QED
        BY <1>1, <1>4, <3>1 DEF Moves, ReadsNone
    <2>2. CASE call'[c] = u
      <3>1. Like(call'[c], call[c]) /\ call'[c].pc = "done" /\ call'[c].read = <<>>
        BY <1>3, <2>2
      <3> QED
        BY <1>1, <1>4, <3>1 DEF Moves, ReadsNone
    <2> QED
      BY <1>4, <2>1, <2>2

LEMMA Choosing ==
    ASSUME TypeOK, NEW c \in Calls, NEW a \in 0..2, NEW s \in Statements, UNCHANGED <<ledger, queries>>,
           call' = [call EXCEPT ![c] = [call[c] EXCEPT !.pc = "submit", !.attempt = a, !.ctas = s]],
           call[c].pc \in {"idle", "submit", "poll", "columns"}, Op(c) # "open", ~Refused(c),
           call[c].pc # "idle" => call[c].attempt < a, a # 1 => Op(c) \in Unloads, call[c].read = <<>>,
           s.table = NameOf(<<c, a>>), s.location = PlaceOf(<<c, a>>)
    PROVE  Alone(c) /\ Chooses(c) /\ ReadsNone(c)
  <1> DEFINE t == [call[c] EXCEPT !.pc = "submit", !.attempt = a, !.ctas = s]
  <1>1. Recorded(call[c]) /\ "submit" \in Stages
    BY Asking DEF Stages
  <1>2. /\ Recorded(t) /\ t.pc = "submit" /\ t.attempt = a /\ t.ctas = s
        /\ t.succeeded = call[c].succeeded /\ t.read = call[c].read
    BY <1>1 DEF Recorded
  <1> HIDE DEF t
  <1>3. call' = [call EXCEPT ![c] = t]
    BY DEF t
  <1>4. Alone(c) /\ call'[c] = t
    BY <1>2, <1>3, IsAlone
  <1>5. UNCHANGED ledger /\ UNCHANGED queries
    OBVIOUS
  <1> QED
    BY <1>2, <1>4, <1>5 DEF Chooses, ReadsNone

LEMMA StatementNames ==
    ASSUME NEW c \in Calls
    PROVE  /\ Select.table = NameOf(<<c, 0>>) /\ Select.location = PlaceOf(<<c, 0>>)
           /\ Op(c) = "query" => Select.table = NameOf(<<c, 1>>) /\ Select.location = PlaceOf(<<c, 1>>)
           /\ Op(c) \in Raws => RawCTAS(c).table = NameOf(<<c, 1>>) /\ RawCTAS(c).location = PlaceOf(<<c, 1>>)
           /\ Op(c) \in Unloads => \A a \in 1..2, f \in {"hive", "iceberg"} :
                /\ ComposeCTAS(c, a, f).table = NameOf(<<c, a>>)
                /\ ComposeCTAS(c, a, f).location = PlaceOf(<<c, a>>)
  BY DEF Select, NameOf, PlaceOf, NoTable, Op, Raws, Unloads, RawCTAS, ComposeCTAS

LEMMA OpIs ==
    ASSUME TypeOK, NEW c \in Calls, Op(c) # "open", Op(c) \notin Unloads, Op(c) # "query"
    PROVE  Op(c) \in Raws
  BY Asking DEF Requests, Ops, Op, Unloads, Raws

LEMMA ComposesDoes ==
    ASSUME TypeOK, NEW c \in Calls, UNCHANGED <<ledger, queries, hiveFallbackOnly>>, Composes(c),
           call[c].pc \in {"idle", "columns"}, Op(c) # "open", ~Refused(c),
           call[c].pc = "columns" => call[c].attempt = 0, call[c].read = <<>>
    PROVE  Alone(c) /\ (Chooses(c) \/ Moves(c)) /\ ReadsNone(c)
  <1>0. UNCHANGED ledger /\ UNCHANGED queries /\ UNCHANGED hiveFallbackOnly /\ UNCHANGED <<ledger, queries>>
    OBVIOUS
  <1>1. CASE Op(c) \in Unloads /\ Composable(c)
    <2> DEFINE f == IF UseHive(c) THEN "hive" ELSE "iceberg"
               a == 1
               s == ComposeCTAS(c, a, f)
    <2>1. f \in {"hive", "iceberg"} /\ a \in 1..2 /\ a \in 0..2 /\ a = 1 /\ (call[c].pc # "idle" => call[c].attempt < a)
      OBVIOUS
    <2>2. call' = [call EXCEPT ![c] = [call[c] EXCEPT !.pc = "submit", !.attempt = a, !.ctas = s]]
      BY <1>1 DEF Composes, TypeOK
    <2> HIDE DEF f, a
    <2>3. s \in Statements /\ s.table = NameOf(<<c, a>>) /\ s.location = PlaceOf(<<c, a>>)
      BY <1>1, <2>1, ComposedIsStatement, StatementNames
    <2> HIDE DEF s
    <2> QED
      BY <1>0, <2>1, <2>2, <2>3, Choosing
  <1>2. CASE Op(c) \in Unloads /\ ~Composable(c)
    <2>1. Fails(c)
      BY <1>0, <1>2 DEF Composes, Fails
    <2> QED
      BY <1>0, <2>1, Failing
  <1>3. CASE Op(c) \notin Unloads
    <2> DEFINE s == IF Op(c) = "query" THEN Select ELSE RawCTAS(c)
               a == 1
    <2>1. /\ call' = [call EXCEPT ![c] = [call[c] EXCEPT !.pc = "submit", !.attempt = a, !.ctas = s]]
          /\ a \in 0..2 /\ a = 1 /\ (call[c].pc # "idle" => call[c].attempt < a)
      BY <1>3 DEF Composes, TypeOK
    <2>2. s \in Statements /\ s.table = NameOf(<<c, a>>) /\ s.location = PlaceOf(<<c, a>>)
      <3>1. CASE Op(c) = "query"
        BY <3>1, SelectIsStatement, StatementNames
      <3>2. CASE Op(c) # "query"
        BY <1>3, <3>2, OpIs, RawIsStatement, StatementNames
      <3> QED
        BY <3>1, <3>2
    <2> HIDE DEF s, a
    <2> QED
      BY <1>0, <2>1, <2>2, Choosing
  <1> QED
    BY <1>1, <1>2, <1>3

\* The attempts that have not begun: nothing is read, and a call in its prepass
\* has made no other.
Ready == \A c \in Calls :
    /\ call[c].pc \notin {"read", "done"} => call[c].read = <<>>
    /\ call[c].pc = "columns" => call[c].attempt = 0
    /\ call[c].pc \in {"submit", "poll", "columns"} => Op(c) # "open" /\ ~Refused(c)

LEMMA BeginDoes ==
    ASSUME TypeOK, Ready, NEW c \in Calls, Begin(c)
    PROVE  StepOf(c)
  <1>1. /\ call[c].pc = "idle" /\ call[c].read = <<>>
        /\ UNCHANGED closer /\ UNCHANGED queries /\ UNCHANGED catalog /\ UNCHANGED objects /\ UNCHANGED faults
    BY DEF Begin, At, Ready, services
  <1>2. faults' \in 0..MaxFaults /\ hiveFallbackOnly \in BOOLEAN
    BY <1>1 DEF TypeOK
  <1>3. CASE Fails(c)
    BY <1>1, <1>2, <1>3, Failing DEF StepOf, Kind
  <1>4. CASE ~Refused(c) /\ Op(c) = "open" /\ Goes(c, "open")
    <2> DEFINE t == [call[c] EXCEPT !.pc = "open"]
    <2>1. call' = [call EXCEPT ![c] = t] /\ UNCHANGED ledger /\ UNCHANGED hiveFallbackOnly
      BY <1>4 DEF Goes, TypeOK
    <2>2. Recorded(t) /\ Like(t, call[c]) /\ t.pc = "open" /\ t.read = call[c].read
      BY Asking DEF Recorded, Like, Stages
    <2> HIDE DEF t
    <2>3. Alone(c) /\ call'[c] = t
      BY <2>1, <2>2, IsAlone
    <2>4. Moves(c) /\ ReadsNone(c)
      BY <1>1, <2>1, <2>2, <2>3 DEF Moves, ReadsNone
    <2> QED
      BY <1>1, <1>2, <2>1, <2>3, <2>4 DEF StepOf, Kind
  <1>5. CASE /\ ~Refused(c) /\ Op(c) \in Unloads /\ request[c].prepass
             /\ call' = [call EXCEPT ![c].pc = "submit", ![c].attempt = 0, ![c].ctas = Select]
             /\ UNCHANGED <<ledger, hiveFallbackOnly>>
    <2> DEFINE a == 0
    <2>1. call' = [call EXCEPT ![c] = [call[c] EXCEPT !.pc = "submit", !.attempt = a, !.ctas = Select]]
      BY <1>5 DEF TypeOK
    <2>a. a \in 0..2
      OBVIOUS
    <2>b. Select.table = NameOf(<<c, a>>) /\ Select.location = PlaceOf(<<c, a>>)
      BY StatementNames, Zenon
    <2> HIDE DEF a
    <2>2. Op(c) # "open" /\ UNCHANGED <<ledger, queries>> /\ UNCHANGED hiveFallbackOnly
      BY <1>1, <1>5 DEF Unloads
    <2>3. Alone(c) /\ Chooses(c) /\ ReadsNone(c)
      BY <1>1, <1>5, <2>1, <2>2, <2>a, <2>b, SelectIsStatement, Choosing
    <2> QED
      BY <1>1, <1>2, <2>2, <2>3 DEF StepOf, Kind
  <1>6. CASE /\ ~Refused(c) /\ Op(c) # "open" /\ Composes(c) /\ UNCHANGED <<ledger, hiveFallbackOnly>>
    <2>1. Alone(c) /\ (Chooses(c) \/ Moves(c)) /\ ReadsNone(c)
      BY <1>1, <1>6, ComposesDoes
    <2> QED
      BY <1>1, <1>2, <1>6, <2>1 DEF StepOf, Kind
  <1> QED
    BY <1>3, <1>4, <1>5, <1>6 DEF Begin

LEMMA AttemptedDoes ==
    ASSUME TypeOK, Ready, NEW c \in Calls, NEW words, NEW denied \in BOOLEAN, Attempted(c, words, denied),
           call[c].pc \in {"submit", "poll"}, UNCHANGED queries
    PROVE  Alone(c) /\ (Chooses(c) \/ Moves(c)) /\ ReadsNone(c) /\ hiveFallbackOnly' \in BOOLEAN
  <1>0. call[c].read = <<>> /\ Op(c) # "open" /\ ~Refused(c)
    BY DEF Ready
  <1>1. CASE FallsBack(c, words)
    <2> DEFINE f == "hive"
               a == 2
               s == ComposeCTAS(c, a, f)
    <2>1. /\ call' = [call EXCEPT ![c] = [call[c] EXCEPT !.pc = "submit", !.attempt = a, !.ctas = s]]
          /\ hiveFallbackOnly' = TRUE /\ UNCHANGED ledger
      BY <1>1 DEF Attempted, TypeOK
    <2>2. Op(c) \in Unloads /\ call[c].attempt < a /\ a \in 0..2 /\ a \in 1..2 /\ f \in {"hive", "iceberg"}
      BY <1>1 DEF FallsBack
    <2> HIDE DEF f, a
    <2>3. s \in Statements /\ s.table = NameOf(<<c, a>>) /\ s.location = PlaceOf(<<c, a>>)
      BY <2>2, ComposedIsStatement, StatementNames
    <2> HIDE DEF s
    <2>4. Alone(c) /\ Chooses(c) /\ ReadsNone(c)
      BY <1>0, <2>1, <2>2, <2>3, Choosing
    <2> QED
      BY <2>1, <2>4
  <1>2. CASE ~FallsBack(c, words)
    <2>1. Fails(c) \/ FailsBy(c)
      BY <1>2 DEF Attempted
    <2> QED
      BY <2>1, Failing
  <1> QED
    BY <1>1, <1>2

LEMMA SubmitDoes ==
    ASSUME TypeOK, Ready, NEW c \in Calls, Submit(c)
    PROVE  StepOf(c)
  <1>1. /\ call[c].pc = "submit" /\ call[c].read = <<>>
        /\ UNCHANGED closer /\ UNCHANGED catalog /\ UNCHANGED objects
    BY DEF Submit, At, Ready
  <1>2. faults' \in 0..MaxFaults /\ hiveFallbackOnly \in BOOLEAN
    BY FaultsBounded DEF Submit, TypeOK
  <1>3. CASE /\ call' = [call EXCEPT ![c].pc = "poll", ![c].waited = 0, ![c].interval = PollInterval]
             /\ queries' = With(queries, QueryOf(c), Submitted(call[c].ctas))
             /\ UNCHANGED <<ledger, hiveFallbackOnly>>
    <2> DEFINE n == 0
               t == [call[c] EXCEPT !.pc = "poll", !.waited = n, !.interval = PollInterval]
    <2>1. call' = [call EXCEPT ![c] = t] /\ UNCHANGED ledger /\ UNCHANGED hiveFallbackOnly
      BY <1>3 DEF TypeOK
    <2>2. n \in Nat /\ PollInterval \in Nat \ {0} /\ Recorded(call[c]) /\ "poll" \in Stages
      BY AthenaAssumption, Asking DEF Stages
    <2> HIDE DEF n
    <2>3. Recorded(t) /\ Like(t, call[c]) /\ t.pc = "poll" /\ t.read = call[c].read
      BY <2>2 DEF Recorded, Like
    <2> HIDE DEF t
    <2>4. Alone(c) /\ call'[c] = t
      BY <2>1, <2>3, IsAlone
    <2>5. Submits(c) /\ ReadsNone(c)
      BY <1>1, <1>3, <2>1, <2>3, <2>4 DEF Submits, ReadsNone
    <2> QED
      BY <1>1, <1>2, <2>1, <2>4, <2>5 DEF StepOf, Kind
  <1>4. CASE Denied(c) /\ UNCHANGED queries /\ \E words \in Words : Attempted(c, words, TRUE)
    <2>1. PICK words \in Words : Attempted(c, words, TRUE)
      BY <1>4
    <2>2. Alone(c) /\ (Chooses(c) \/ Moves(c)) /\ ReadsNone(c) /\ hiveFallbackOnly' \in BOOLEAN
      BY <1>1, <1>4, <2>1, AttemptedDoes
    <2> QED
      BY <1>1, <1>2, <2>2 DEF StepOf, Kind
  <1> QED
    BY <1>3, <1>4 DEF Submit

LEMMA ColumnsDoes ==
    ASSUME TypeOK, Ready, NEW c \in Calls, Columns(c)
    PROVE  StepOf(c)
  <1>1. /\ call[c].pc = "columns" /\ call[c].read = <<>> /\ Op(c) # "open" /\ ~Refused(c) /\ call[c].attempt = 0
        /\ UNCHANGED closer /\ UNCHANGED queries /\ UNCHANGED catalog /\ UNCHANGED objects
    BY DEF Columns, At, Ready, services
  <1>2. faults' \in 0..MaxFaults /\ hiveFallbackOnly \in BOOLEAN
    BY FaultsBounded DEF Columns, TypeOK
  <1>3. CASE Fails(c) \/ FailsBy(c)
    BY <1>1, <1>2, <1>3, Failing DEF StepOf, Kind
  <1>4. CASE Composes(c) /\ UNCHANGED <<ledger, hiveFallbackOnly>>
    <2>1. Alone(c) /\ (Chooses(c) \/ Moves(c)) /\ ReadsNone(c)
      BY <1>1, <1>4, ComposesDoes
    <2> QED
      BY <1>1, <1>2, <1>4, <2>1 DEF StepOf, Kind
  <1> QED
    BY <1>3, <1>4 DEF Columns, Fails

\* The record of a call whose query ended well.
LEMMA ProceedsIs ==
    ASSUME TypeOK, NEW c \in Calls, NEW p \in Stages
    PROVE  /\ Recorded(Proceeds(c, p)) /\ Proceeds(c, p).pc = p /\ Proceeds(c, p).succeeded
           /\ Proceeds(c, p).attempt = call[c].attempt /\ Proceeds(c, p).ctas = call[c].ctas
           /\ Proceeds(c, p).read = call[c].read
  <1> DEFINE n == 0
  <1>1. n \in Nat /\ PollInterval \in Nat \ {0} /\ Recorded(call[c])
    BY AthenaAssumption, Asking
  <1>2. Proceeds(c, p) = [call[c] EXCEPT !.pc = p, !.succeeded = TRUE, !.waited = n, !.interval = PollInterval]
    BY DEF Proceeds
  <1> HIDE DEF n
  <1> QED
    BY <1>1, <1>2 DEF Recorded

LEMMA SucceededDoes ==
    ASSUME TypeOK, Ready, NEW c \in Calls, call[c].pc = "poll", queries[QueryOf(c)].state = "succeeded",
           Succeeded(c), UNCHANGED queries
    PROVE  Alone(c) /\ Kind(c) /\ ReadsNone(c) /\ UNCHANGED hiveFallbackOnly
  <1>1. UNCHANGED hiveFallbackOnly /\ call[c].read = <<>> /\ {"read", "verify", "resolve", "buckets", "columns"} \subseteq Stages
    BY DEF Succeeded, Ready, Stages
  <1>2. CASE call[c].attempt = 0 /\ PrepassSucceeded(c)
    <2> DEFINE n == 0
               t == [call[c] EXCEPT !.pc = "columns", !.waited = n, !.interval = PollInterval]
    <2>1. call' = [call EXCEPT ![c] = t] /\ UNCHANGED ledger
      BY <1>2 DEF TypeOK, PrepassSucceeded
    <2>2. n \in Nat /\ PollInterval \in Nat \ {0} /\ Recorded(call[c])
      BY AthenaAssumption, Asking
    <2> HIDE DEF n
    <2>3. Recorded(t) /\ Like(t, call[c]) /\ t.pc = "columns" /\ t.read = call[c].read
      BY <1>1, <2>2 DEF Recorded, Like
    <2> HIDE DEF t
    <2>4. Alone(c) /\ call'[c] = t
      BY <2>1, <2>3, IsAlone
    <2> QED
      BY <1>1, <1>2, <2>1, <2>3, <2>4 DEF Prepared, Kind, ReadsNone
  <1>3. CASE call[c].attempt # 0 /\ QuerySucceeded(c)
    <2>0. PICK files : /\ call' = [call EXCEPT ![c] = [Proceeds(c, "read") EXCEPT !.files = files]]
                       /\ UNCHANGED ledger /\ Op(c) = "query"
      BY <1>3 DEF QuerySucceeded
    <2> DEFINE t == [Proceeds(c, "read") EXCEPT !.files = files]
    <2>1. call' = [call EXCEPT ![c] = t] /\ UNCHANGED ledger /\ Op(c) = "query"
      BY <2>0
    <2>2. /\ Recorded(t) /\ Like(t, Proceeds(c, "read")) /\ t.pc = Proceeds(c, "read").pc
          /\ t.read = Proceeds(c, "read").read
      <3>1. Recorded(Proceeds(c, "read"))
        BY <1>1, ProceedsIs
      <3>2. t = [Proceeds(c, "read") EXCEPT !.files = files]
        OBVIOUS
      <3> HIDE DEF t
      <3> QED
        BY <3>1, <3>2, Filing
    <2> HIDE DEF t
    <2>3. Alone(c) /\ call'[c] = t
      BY <2>1, <2>2, IsAlone
    <2>4. t.attempt = call[c].attempt /\ t.ctas = call[c].ctas /\ t.succeeded /\ t.pc = "read" /\ t.read = <<>>
      BY <1>1, <2>2, ProceedsIs DEF Like
    <2> QED
      BY <1>1, <1>3, <2>1, <2>3, <2>4 DEF Learns, Kind, ReadsNone
  <1>4. CASE call[c].attempt # 0 /\ UnloadSucceeded(c)
    <2> DEFINE t == Proceeds(c, "verify")
    <2>1. call' = [call EXCEPT ![c] = t] /\ UNCHANGED ledger /\ Op(c) \in Unloads
      BY <1>4 DEF UnloadSucceeded
    <2>2. Recorded(t) /\ t.attempt = call[c].attempt /\ t.ctas = call[c].ctas /\ t.succeeded /\ t.pc = "verify" /\ t.read = <<>>
      BY <1>1, ProceedsIs
    <2> HIDE DEF t
    <2>3. Alone(c) /\ call'[c] = t
      BY <2>1, <2>2, IsAlone
    <2> QED
      BY <1>1, <1>4, <2>1, <2>2, <2>3 DEF Learns, Kind, ReadsNone
  <1>5. CASE call[c].attempt # 0 /\ (RawSucceeded(c) \/ RawBucketsSucceeded(c))
    <2>1. PICK p \in {"resolve", "buckets"} :
              /\ call' = [call EXCEPT ![c] = [Proceeds(c, p) EXCEPT !.claim = request[c].claim]]
              /\ ledger' = Append(ledger, Tracked(c)) /\ Op(c) \in Raws
      BY <1>5 DEF RawSucceeded, RawBucketsSucceeded, Raws
    <2> DEFINE t == [Proceeds(c, p) EXCEPT !.claim = request[c].claim]
    <2>2. p \in Stages
      BY <1>1
    <2>3. /\ Recorded(t) /\ Like(t, Proceeds(c, p)) /\ t.pc = Proceeds(c, p).pc /\ t.read = Proceeds(c, p).read
      <3>1. Recorded(Proceeds(c, p))
        BY <2>2, ProceedsIs
      <3>2. t = [Proceeds(c, p) EXCEPT !.claim = request[c].claim]
        OBVIOUS
      <3> HIDE DEF t
      <3> QED
        BY <3>1, <3>2, Claiming
    <2>4. call' = [call EXCEPT ![c] = t]
      BY <2>1
    <2> HIDE DEF t
    <2>5. Alone(c) /\ call'[c] = t
      BY <2>3, <2>4, IsAlone
    <2>6. t.attempt = call[c].attempt /\ t.ctas = call[c].ctas /\ t.succeeded /\ t.pc = p /\ t.read = <<>>
      BY <1>1, <2>2, <2>3, ProceedsIs DEF Like
    <2> QED
      BY <1>1, <1>5, <2>1, <2>5, <2>6 DEF Learns, Kind, ReadsNone
  <1> QED
    BY <1>2, <1>3, <1>4, <1>5 DEF Succeeded

LEMMA PollDoes ==
    ASSUME TypeOK, Ready, NEW c \in Calls, Poll(c)
    PROVE  StepOf(c)
  <1> DEFINE query == queries[QueryOf(c)]
  <1>1. /\ call[c].pc = "poll" /\ call[c].read = <<>>
        /\ UNCHANGED closer /\ UNCHANGED queries /\ UNCHANGED catalog /\ UNCHANGED objects
    BY DEF Poll, At, Ready, services
  <1>2. faults' \in 0..MaxFaults /\ hiveFallbackOnly \in BOOLEAN
    BY FaultsBounded DEF Poll, TypeOK
  <1>3. CASE query.state = "succeeded" /\ Succeeded(c)
    BY <1>1, <1>2, <1>3, SucceededDoes DEF StepOf
  <1>4. CASE \E words : Attempted(c, words, TRUE) \/ Attempted(c, words, FALSE)
    <2>1. PICK words : Attempted(c, words, TRUE) \/ Attempted(c, words, FALSE)
      BY <1>4
    <2>2. Alone(c) /\ (Chooses(c) \/ Moves(c)) /\ ReadsNone(c) /\ hiveFallbackOnly' \in BOOLEAN
      BY <1>1, <2>1, AttemptedDoes
    <2> QED
      BY <1>1, <1>2, <2>2 DEF StepOf, Kind
  <1>5. CASE /\ call' = [call EXCEPT ![c].waited = Waited(@ + call[c].interval),
                               ![c].interval = IF 2 * @ < PollMax THEN 2 * @ ELSE IF @ < PollMax THEN PollMax ELSE @]
             /\ UNCHANGED <<ledger, hiveFallbackOnly>>
    <2> DEFINE now == call[c].interval
               w == Waited(call[c].waited + now)
               i == IF 2 * now < PollMax THEN 2 * now ELSE IF now < PollMax THEN PollMax ELSE now
               t == [call[c] EXCEPT !.waited = w, !.interval = i]
    <2>1. call' = [call EXCEPT ![c] = t] /\ UNCHANGED ledger /\ UNCHANGED hiveFallbackOnly
      BY <1>5 DEF TypeOK
    <2>2. Recorded(call[c]) /\ call[c].waited \in Nat /\ now \in Nat \ {0} /\ PollMax \in Nat /\ MaxPollDuration \in Nat
      BY AthenaAssumption, Asking DEF Recorded
    <2>3. w \in Nat /\ i \in Nat \ {0}
      BY <2>2 DEF Waited
    <2> HIDE DEF w, i
    <2>4. Recorded(t) /\ Like(t, call[c]) /\ t.pc = call[c].pc /\ t.read = call[c].read
      BY <2>2, <2>3 DEF Recorded, Like
    <2> HIDE DEF t
    <2>5. Alone(c) /\ call'[c] = t
      BY <2>1, <2>4, IsAlone
    <2>6. Moves(c) /\ ReadsNone(c)
      BY <1>1, <2>1, <2>4, <2>5 DEF Moves, ReadsNone
    <2> QED
      BY <1>1, <1>2, <2>1, <2>5, <2>6 DEF StepOf, Kind
  <1> QED
    BY <1>3, <1>4, <1>5 DEF Poll

LEMMA VerifyDoes ==
    ASSUME TypeOK, Ready, NEW c \in Calls, Verify(c)
    PROVE  StepOf(c)
  <1>1. /\ call[c].pc = "verify" /\ call[c].read = <<>> /\ Recorded(call[c])
        /\ UNCHANGED closer /\ UNCHANGED queries /\ UNCHANGED catalog /\ UNCHANGED objects /\ UNCHANGED hiveFallbackOnly
    BY Asking DEF Verify, At, Ready, services
  <1>2. faults' \in 0..MaxFaults /\ hiveFallbackOnly \in BOOLEAN
    BY FaultsBounded DEF Verify, TypeOK
  <1>3. ledger' = Append(ledger, Tracked(c))
    BY DEF Verify, Registered
  <1>4. PICK t : /\ call' = [call EXCEPT ![c] = t] /\ Recorded(t) /\ Like(t, call[c])
                 /\ t.pc \in {"resolve", "done"} /\ t.read = <<>>
    <2>1. CASE call' = [call EXCEPT ![c].pc = "resolve"]
      <3> DEFINE t == [call[c] EXCEPT !.pc = "resolve"]
      <3>1. call' = [call EXCEPT ![c] = t]
        BY <2>1 DEF TypeOK
      <3>2. Recorded(t) /\ Like(t, call[c]) /\ t.pc = "resolve" /\ t.read = <<>>
        BY <1>1 DEF Recorded, Like, Stages
      <3> HIDE DEF t
      <3> QED
        BY <3>1, <3>2
    <2>2. CASE call' = [call EXCEPT ![c] = Failed(c)] \/ call' = [call EXCEPT ![c] = [Failed(c) EXCEPT !.denied = TRUE]]
      <3> DEFINE u == [Failed(c) EXCEPT !.denied = TRUE]
      <3>1. /\ Recorded(Failed(c)) /\ Like(Failed(c), call[c]) /\ Failed(c).pc = "done" /\ Failed(c).read = <<>>
            /\ Recorded(u) /\ Like(u, call[c]) /\ u.pc = "done" /\ u.read = <<>>
        BY FailedIs
      <3>2. call' = [call EXCEPT ![c] = Failed(c)] \/ call' = [call EXCEPT ![c] = u]
        BY <2>2
      <3> HIDE DEF u
      <3> QED
        BY <3>1, <3>2
    <2> QED
      BY <2>1, <2>2 DEF Verify
  <1>5. Alone(c) /\ call'[c] = t
    BY <1>4, IsAlone
  <1>6. Registers(c) /\ ReadsNone(c)
    BY <1>1, <1>3, <1>4, <1>5 DEF Registers, ReadsNone
  <1> QED
    BY <1>1, <1>2, <1>5, <1>6 DEF StepOf, Kind

(* A call that looks for its files goes on to the next look. *)
LEMMA Looking ==
    ASSUME TypeOK, Ready, NEW c \in Calls, call[c].pc \in {"buckets", "resolve", "open", "list"},
           Granted(c) \/ Denied(c), UNCHANGED <<closer, services>>,
           \/ Fails(c) \/ FailsBy(c)
           \/ /\ \E t : /\ call' = [call EXCEPT ![c] = t] /\ Recorded(t) /\ Like(t, call[c])
                        /\ t.pc \in {"resolve", "list", "read"} /\ t.read = call[c].read
              /\ UNCHANGED <<ledger, hiveFallbackOnly>>
    PROVE  StepOf(c)
  <1>1. /\ call[c].read = <<>> /\ UNCHANGED closer /\ UNCHANGED queries /\ UNCHANGED catalog /\ UNCHANGED objects
    BY DEF Ready, services
  <1>2. faults' \in 0..MaxFaults /\ hiveFallbackOnly \in BOOLEAN
    BY FaultsBounded DEF TypeOK
  <1>3. CASE Fails(c) \/ FailsBy(c)
    BY <1>1, <1>2, <1>3, Failing DEF StepOf, Kind
  <1>4. CASE /\ \E t : /\ call' = [call EXCEPT ![c] = t] /\ Recorded(t) /\ Like(t, call[c])
                       /\ t.pc \in {"resolve", "list", "read"} /\ t.read = call[c].read
             /\ UNCHANGED <<ledger, hiveFallbackOnly>>
    <2>1. PICK t : /\ call' = [call EXCEPT ![c] = t] /\ Recorded(t) /\ Like(t, call[c])
                   /\ t.pc \in {"resolve", "list", "read"} /\ t.read = call[c].read
      BY <1>4
    <2>2. Alone(c) /\ call'[c] = t
      BY <2>1, IsAlone
    <2>3. UNCHANGED ledger /\ UNCHANGED hiveFallbackOnly
      BY <1>4
    <2>4. Moves(c) /\ ReadsNone(c)
      BY <1>1, <2>1, <2>2, <2>3 DEF Moves, ReadsNone
    <2> QED
      BY <1>1, <1>2, <2>2, <2>3, <2>4 DEF StepOf, Kind
  <1> QED
    BY <1>3, <1>4

LEMMA GlueSays ==
    ASSUME TypeOK, NEW name \in DOMAIN catalog
    PROVE  catalog[name].location \in Path /\ catalog[name].buckets \in Int
  <1>1. catalog[name] \in GlueEntries
    BY DEF TypeOK
  <1> QED
    BY <1>1 DEF GlueEntries

LEMMA BucketsDoes ==
    ASSUME TypeOK, Ready, NEW c \in Calls, Buckets(c)
    PROVE  StepOf(c)
  <1> DEFINE table == call[c].ctas.table
             n == catalog[table].buckets
             t == [call[c] EXCEPT !.pc = "resolve", !.slots = n]
  <1>1. call[c].pc = "buckets" /\ Recorded(call[c]) /\ "resolve" \in Stages
    BY Asking DEF Buckets, At, Stages
  <1>2. CASE Fails(c) \/ FailsBy(c)
    BY <1>1, <1>2, Looking DEF Buckets
  <1>3. CASE /\ table \in DOMAIN catalog /\ call' = [call EXCEPT ![c].pc = "resolve", ![c].slots = n]
             /\ UNCHANGED <<ledger, hiveFallbackOnly>>
    <2>1. call' = [call EXCEPT ![c] = t]
      BY <1>3 DEF TypeOK
    <2>2. n \in Int
      BY <1>3, GlueSays
    <2> HIDE DEF n
    <2>3. Recorded(t) /\ Like(t, call[c]) /\ t.pc = "resolve" /\ t.read = call[c].read
      BY <1>1, <2>2 DEF Recorded, Like
    <2> HIDE DEF t
    <2>4. (Granted(c) \/ Denied(c)) /\ UNCHANGED <<closer, services>>
      BY DEF Buckets
    <2> QED
      BY <1>1, <1>3, <2>1, <2>3, <2>4, Looking
  <1> QED
    BY <1>2, <1>3 DEF Buckets

LEMMA ResolveDoes ==
    ASSUME TypeOK, Ready, NEW c \in Calls, Resolve(c)
    PROVE  StepOf(c)
  <1> DEFINE table == call[c].ctas.table
             l == catalog[table].location
             t == [call[c] EXCEPT !.pc = "list", !.location = l]
  <1>1. call[c].pc = "resolve" /\ Recorded(call[c]) /\ "list" \in Stages
    BY Asking DEF Resolve, At, Stages
  <1>2. CASE Fails(c) \/ FailsBy(c)
    BY <1>1, <1>2, Looking DEF Resolve
  <1>3. CASE /\ table \in DOMAIN catalog /\ call' = [call EXCEPT ![c].pc = "list", ![c].location = l]
             /\ UNCHANGED <<ledger, hiveFallbackOnly>>
    <2>1. call' = [call EXCEPT ![c] = t]
      BY <1>3 DEF TypeOK
    <2>2. l \in Path
      BY <1>3, GlueSays
    <2> HIDE DEF l
    <2>3. Recorded(t) /\ Like(t, call[c]) /\ t.pc = "list" /\ t.read = call[c].read
      BY <1>1, <2>2 DEF Recorded, Like
    <2> HIDE DEF t
    <2>4. (Granted(c) \/ Denied(c)) /\ UNCHANGED <<closer, services>>
      BY DEF Resolve
    <2> QED
      BY <1>1, <1>3, <2>1, <2>3, <2>4, Looking
  <1> QED
    BY <1>2, <1>3 DEF Resolve

LEMMA OpenDoes ==
    ASSUME TypeOK, Ready, NEW c \in Calls, Open(c)
    PROVE  StepOf(c)
  <1> DEFINE table == request[c].table
             l == catalog[table].location
             cl == IF request[c].claim # NoClaim THEN request[c].claim ELSE DeriveHivePartitionMetadata(catalog[table])
             t == [call[c] EXCEPT !.pc = "list", !.location = l, !.claim = cl]
  <1>1. call[c].pc = "open" /\ Recorded(call[c]) /\ "list" \in Stages
    BY Asking DEF Open, At, Stages
  <1>2. CASE Fails(c) \/ FailsBy(c)
    BY <1>1, <1>2, Looking DEF Open
  <1>3. CASE /\ table \in DOMAIN catalog
             /\ call' = [call EXCEPT ![c].pc = "list", ![c].location = l, ![c].claim = cl]
             /\ UNCHANGED <<ledger, hiveFallbackOnly>>
    <2> HIDE DEF cl
    <2>1. call' = [call EXCEPT ![c] = t]
      BY <1>3 DEF TypeOK
    <2>2. l \in Path
      BY <1>3, GlueSays
    <2> HIDE DEF l
    <2>3. Recorded(t) /\ Like(t, call[c]) /\ t.pc = "list" /\ t.read = call[c].read
      BY <1>1, <2>2 DEF Recorded, Like
    <2> HIDE DEF t
    <2>4. (Granted(c) \/ Denied(c)) /\ UNCHANGED <<closer, services>>
      BY DEF Open
    <2> QED
      BY <1>1, <1>3, <2>1, <2>3, <2>4, Looking
  <1> QED
    BY <1>2, <1>3 DEF Open

LEMMA ListDoes ==
    ASSUME TypeOK, Ready, NEW c \in Calls, List(c)
    PROVE  StepOf(c)
  <1>1. call[c].pc = "list" /\ Recorded(call[c]) /\ "read" \in Stages /\ request[c] \in Requests
    BY Asking DEF List, At, Stages
  <1>2. CASE Fails(c) \/ FailsBy(c)
    BY <1>1, <1>2, Looking DEF List
  <1>3. ASSUME NEW files,
               call' = [call EXCEPT ![c].pc = "read", ![c].files = files,
                                    ![c].slots = IF Op(c) = "unload_buckets" THEN request[c].buckets ELSE @],
               UNCHANGED <<ledger, hiveFallbackOnly>>
        PROVE  StepOf(c)
    <2> DEFINE n == IF Op(c) = "unload_buckets" THEN request[c].buckets ELSE call[c].slots
               t == [call[c] EXCEPT !.pc = "read", !.files = files, !.slots = n]
    <2>1. call' = [call EXCEPT ![c] = t]
      BY <1>3 DEF TypeOK
    <2>2. n \in Int
      BY <1>1 DEF Recorded, Requests
    <2> HIDE DEF n
    <2>3. Recorded(t) /\ Like(t, call[c]) /\ t.pc = "read" /\ t.read = call[c].read
      BY <1>1, <2>2 DEF Recorded, Like
    <2> HIDE DEF t
    <2>4. (Granted(c) \/ Denied(c)) /\ UNCHANGED <<closer, services>>
      BY DEF List
    <2> QED
      BY <1>1, <1>3, <2>1, <2>3, <2>4, Looking
  <1> QED
    BY <1>2, <1>3 DEF List

LEMMA SlotIs ==
    ASSUME TypeOK, NEW c \in Calls, SlotOf(c) # -1
    PROVE  SlotOf(c) \in 0 .. call[c].slots - 1
  <1>1. call[c].slots \in Int /\ Len(call[c].read) \in Nat
    BY Asking DEF Recorded, Reads
  <1> QED
    BY <1>1 DEF SlotOf, Slot

LEMMA ReadDoes ==
    ASSUME TypeOK, Ready, NEW c \in Calls, Read(c)
    PROVE  StepOf(c)
  <1> DEFINE last == Len(call[c].read) + 1 = Len(call[c].files)
             slot == IF Op(c) \in PerBucket THEN SlotOf(c) ELSE Len(call[c].read)
             rec == [slot |-> slot, object |-> NextFile(c)]
             rd == Append(call[c].read, rec)
             cl == Claimed(c)
             fs == IF last THEN <<>> ELSE call[c].files
             p == IF last THEN "done" ELSE "read"
             none == <<>>
             t == [call[c] EXCEPT !.read = rd, !.claim = cl, !.files = fs, !.location = none, !.pc = p]
  <1>1. /\ call[c].pc = "read" /\ Recorded(call[c])
        /\ UNCHANGED closer /\ UNCHANGED queries /\ UNCHANGED catalog /\ UNCHANGED objects
    BY Asking DEF Read, At, services
  <1>2. faults' \in 0..MaxFaults /\ hiveFallbackOnly \in BOOLEAN
    BY FaultsBounded DEF Read, TypeOK
  <1>3. CASE Fails(c) \/ FailsBy(c)
    BY <1>1, <1>2, <1>3, Failing DEF StepOf, Kind
  <1>4. CASE /\ NextFile(c) \in objects /\ slot \notin {r.slot : r \in ToSet(call[c].read)} \cup {-1}
             /\ call' = [call EXCEPT ![c].read = Append(@, rec), ![c].claim = cl,
                                     ![c].files = IF last THEN <<>> ELSE @, ![c].location = <<>>,
                                     ![c].pc = IF last THEN "done" ELSE "read"]
             /\ UNCHANGED <<ledger, hiveFallbackOnly>>
    <2>1. Len(call[c].read) \in Nat /\ call[c].read \in Reads
      BY <1>1 DEF Recorded, Reads
    <2>2. slot # -1 /\ slot \notin SlotsOf(c) /\ UNCHANGED ledger /\ UNCHANGED hiveFallbackOnly
      BY <1>4 DEF SlotsOf
    <2>3. slot \in Int /\ (Op(c) \in PerBucket => slot \in 0 .. call[c].slots - 1)
      BY <1>1, <2>1, <2>2, SlotIs DEF Recorded
    <2>4. NextFile(c) \in Objects
      BY <1>4 DEF TypeOK
    <2> HIDE DEF slot
    <2>5. rec \in [slot : Int, object : Objects] /\ rec.slot = slot
      BY <2>3, <2>4
    <2> HIDE DEF rec, cl
    <2>6. rd \in Reads
      BY <2>1, <2>5 DEF Reads
    <2>7. call' = [call EXCEPT ![c] = t]
      BY <1>4 DEF TypeOK
    <2>8. p \in {"read", "done"} /\ p \in Stages /\ none \in Path
      BY DEF Stages, Path
    <2> HIDE DEF fs, p, none
    <2> DEFINE rr == rd
    <2>9. t = [call[c] EXCEPT !.read = rr, !.claim = cl, !.files = fs, !.location = none, !.pc = p] /\ rr \in Reads
      BY <2>6
    <2> HIDE DEF rr, t
    <2>10. Recorded(t) /\ Like(t, call[c]) /\ t.pc = p /\ t.read = rr /\ t.slots = call[c].slots
      BY <1>1, <2>8, <2>9 DEF Recorded, Like, Reads
    <2>11. Alone(c) /\ call'[c] = t
      BY <2>7, <2>10, IsAlone
    <2>12. Moves(c)
      BY <1>1, <2>2, <2>8, <2>10, <2>11 DEF Moves
    <2>13. ReadsOne(c)
      <3>1. call'[c].read = Append(call[c].read, rec) /\ call'[c].slots = call[c].slots
        BY <2>10, <2>11 DEF rr
      <3> QED
        BY <1>1, <2>2, <2>3, <2>5, <2>8, <2>10, <2>11, <3>1 DEF ReadsOne
    <2> QED
      BY <1>1, <1>2, <2>2, <2>11, <2>12, <2>13 DEF StepOf, Kind
  <1> QED
    BY <1>3, <1>4 DEF Read

(* Every step of a call does one of these things. *)
LEMMA StepDoes ==
    ASSUME TypeOK, Ready, NEW c \in Calls, Step(c)
    PROVE  StepOf(c) /\ UNCHANGED workgroup /\ UNCHANGED request
  BY BeginDoes, SubmitDoes, PollDoes, ColumnsDoes, VerifyDoes, BucketsDoes, ResolveDoes, OpenDoes,
     ListDoes, ReadDoes DEF Step

(* A call whose context ends is as it was. *)
LEMMA CancelDoes ==
    ASSUME TypeOK, NEW c \in Calls, Cancel(c)
    PROVE  /\ Alone(c) /\ Like(call'[c], call[c]) /\ call'[c].pc = call[c].pc
           /\ call'[c].read = call[c].read /\ call'[c].slots = call[c].slots
           /\ faults' \in 0..MaxFaults
           /\ UNCHANGED workgroup /\ UNCHANGED request /\ UNCHANGED ledger /\ UNCHANGED hiveFallbackOnly
           /\ UNCHANGED closer /\ UNCHANGED queries /\ UNCHANGED catalog /\ UNCHANGED objects
  <1> DEFINE t == [call[c] EXCEPT !.cancelled = TRUE]
  <1>1. call' = [call EXCEPT ![c] = t]
    BY DEF Cancel, TypeOK
  <1>2. Recorded(call[c])
    BY Asking
  <1>3. Recorded(t) /\ Like(t, call[c]) /\ t.pc = call[c].pc /\ t.read = call[c].read /\ t.slots = call[c].slots
    BY <1>2 DEF Recorded, Like
  <1> HIDE DEF t
  <1>4. Alone(c) /\ call'[c] = t
    BY <1>1, <1>3, IsAlone
  <1>5. faults' \in 0..MaxFaults
    BY AthenaAssumption DEF Cancel, TypeOK
  <1> QED
    BY <1>3, <1>4, <1>5 DEF Cancel, services

-----------------------------------------------------------------------------
(* The steps of the services. *)

LEMMA WithSlashIs ==
    ASSUME NEW l \in Path
    PROVE  WithSlash(l) \in Path
  BY AthenaAssumption DEF WithSlash, Path

LEMMA TargetIs ==
    ASSUME TypeOK, NEW q \in DOMAIN queries
    PROVE  Target(q, queries[q].ctas) \in Path
  <1>1. queries[q].ctas.location \in Path /\ q[1] \in Calls /\ q[2] \in 0..2
    BY DEF TypeOK, Statements
  <1> QED
    BY <1>1, Names DEF Target

LEMMA FileIs ==
    ASSUME NEW ctas \in Statements, NEW s \in Shapes, NEW b \in Int
    PROVE  File(ctas, s, b) \in Files
  <1>1. ctas.format \in Formats /\ ctas.columns \in Path /\ ctas.order \in Orderings /\ <<>> \in Orderings
    BY DEF Statements, Orderings
  <1> QED
    BY <1>1 DEF File, Files

LEMMA WrittenIs ==
    ASSUME TypeOK, NEW q \in DOMAIN queries, NEW ctas \in Statements, NEW l \in Path
    PROVE  /\ Written(q, ctas, l) \subseteq Objects
           /\ \A o \in Written(q, ctas, l) : o.dir = WithSlash(l)
  <1>1. q \in Calls \X (0..2) /\ request[q[1]] \in Requests /\ request[q[1]].rows \subseteq Int
    <2>1. q \in Calls \X (0..2)
      BY DEF TypeOK
    <2> QED
      BY <2>1, Asking DEF Requests
  <1>2. WithSlash(l) \in Path
    BY WithSlashIs
  <1> DEFINE d == WithSlash(l)
             obj(f) == [dir |-> d, by |-> q, file |-> f]
  <1>3. \A f \in Files : obj(f) \in Objects /\ obj(f).dir = d
    BY <1>1, <1>2 DEF Objects
  <1>4. Shape(ctas) \in Shapes /\ "metadata" \in Shapes /\ "manifest" \in Shapes
    BY DEF Shape, Shapes
  <1>5. \A b \in request[q[1]].rows \cup {0} : File(ctas, Shape(ctas), b) \in Files
    BY <1>1, <1>4, FileIs
  <1>6. File(ctas, "metadata", 0) \in Files /\ File(ctas, "manifest", 0) \in Files
    <2>1. \A s \in Shapes, b \in Int : File(ctas, s, b) \in Files
      BY FileIs
    <2>2. 0 \in Int
      OBVIOUS
    <2> QED
      BY <1>4, <2>1, <2>2, Zenon
  <1>7. Written(q, ctas, l) \subseteq {obj(f) : f \in Files}
    <2> SUFFICES ASSUME NEW o \in Written(q, ctas, l)
                 PROVE  \E f \in Files : o = obj(f)
      OBVIOUS
    <2>1. CASE \E b \in request[q[1]].rows \cup {0} : o = obj(File(ctas, Shape(ctas), b))
      BY <1>5, <2>1
    <2>2. CASE o = obj(File(ctas, "metadata", 0)) \/ o = obj(File(ctas, "manifest", 0))
      BY <1>6, <2>2
    <2> DEFINE parts == IF ctas.format = "select" THEN {0} ELSE request[q[1]].rows
    <2>3. parts \subseteq request[q[1]].rows \cup {0}
      OBVIOUS
    <2>4. \/ \E b \in parts : o = obj(File(ctas, Shape(ctas), b))
          \/ o = obj(File(ctas, "metadata", 0)) \/ o = obj(File(ctas, "manifest", 0))
      BY DEF Written
    <2> QED
      BY <2>1, <2>2, <2>3, <2>4
  <1> HIDE DEF obj
  <1> QED
    BY <1>3, <1>7

LEMMA EntryIs ==
    ASSUME NEW ctas \in Statements, NEW l \in Path
    PROVE  Entry(ctas, l) \in GlueEntries
  <1>1. ctas.columns \in Path /\ ctas.order \in Orderings /\ ctas.buckets \in Int /\ <<>> \in Path
    BY DEF Statements, Path
  <1>2. Sorts(ctas) \in Seq([column : Tokens, order : Int]) /\ <<>> \in Seq([column : Tokens, order : Int])
    <2> DEFINE R == [column : Tokens, order : Int]
               n == Len(ctas.order)
    <2>1. n \in Nat /\ DOMAIN ctas.order = 1..n /\ \A i \in 1..n : ctas.order[i].column \in Tokens
      <3> DEFINE O == [column : Tokens, descending : BOOLEAN]
      <3>1. ctas.order \in Seq(O) /\ \A o \in O : o.column \in Tokens
        BY <1>1 DEF Orderings
      <3> HIDE DEF O
      <3>2. n \in Nat /\ DOMAIN ctas.order = 1..n /\ \A i \in 1..n : ctas.order[i] \in O
        BY <3>1
      <3> QED
        BY <3>1, <3>2
    <2>2. \A i \in 1..n : [column |-> ctas.order[i].column, order |-> IF ctas.order[i].descending THEN 0 ELSE 1] \in R
      BY <2>1
    <2>3. Sorts(ctas) \in [1..n -> R]
      BY <2>1, <2>2 DEF Sorts
    <2> HIDE DEF n, R
    <2>4. Sorts(ctas) \in Seq(R) /\ <<>> \in Seq(R)
      BY <2>1, <2>3
    <2> QED
      BY <2>4 DEF R
  <1> QED
    BY <1>1, <1>2 DEF Entry, GlueEntries

\* A query ends: nothing else that is asked of it changes.
Ends(q) ==
    /\ queries[q].state = "running"
    /\ DOMAIN queries' = DOMAIN queries /\ \A p \in DOMAIN queries \ {q} : queries'[p] = queries[p]
    /\ queries'[q].ctas = queries[q].ctas
    /\ faults' \in 0..MaxFaults
    /\ UNCHANGED workgroup /\ UNCHANGED request /\ UNCHANGED call /\ UNCHANGED ledger
    /\ UNCHANGED hiveFallbackOnly /\ UNCHANGED closer

LEMMA QuerySucceedsDoes ==
    ASSUME TypeOK, NEW q \in DOMAIN queries, QuerySucceeds(q)
    PROVE  LET table == queries[q].ctas.table
               place == Target(q, queries[q].ctas)
           IN  /\ Ends(q) /\ queries'[q].state = "succeeded"
               /\ queries' = [p \in DOMAIN queries |-> queries'[p]]
               /\ queries'[q] \in [state : {"running", "succeeded", "failed"}, words : SUBSET Says,
                                   wrote : SUBSET Objects, ctas : Statements]
               /\ \A o \in queries'[q].wrote : o.dir = WithSlash(place)
               /\ objects' = objects \cup queries'[q].wrote
               /\ table \notin DOMAIN catalog
               /\ IF table = NoTable THEN UNCHANGED catalog
                  ELSE \E e \in GlueEntries : catalog' = With(catalog, table, e)
  <1> DEFINE asked == queries[q].ctas
             place == Target(q, asked)
  <1>1. /\ queries[q].state = "running" /\ asked.table \notin DOMAIN catalog
        /\ UNCHANGED workgroup /\ UNCHANGED request /\ UNCHANGED call /\ UNCHANGED ledger
        /\ UNCHANGED hiveFallbackOnly /\ UNCHANGED closer
    BY DEF QuerySucceeds, client
  <1>2. PICK made \in {asked.format} \cup (IF asked.format = "iceberg" /\ faults < MaxFaults THEN {"hive"} ELSE {}) :
              LET ctas == [asked EXCEPT !.format = made]
                  wrote == Written(q, ctas, place)
              IN  /\ queries' = [queries EXCEPT ![q].state = "succeeded", ![q].wrote = wrote]
                  /\ objects' = objects \cup wrote
                  /\ catalog' = IF asked.table = NoTable THEN catalog
                                ELSE With(catalog, asked.table, Entry(ctas, place))
                  /\ faults' = IF made = asked.format THEN faults ELSE faults + 1
    BY DEF QuerySucceeds
  <1> DEFINE ctas == [asked EXCEPT !.format = made]
             wrote == Written(q, ctas, place)
  <1>3. asked \in Statements /\ made \in Formats /\ place \in Path
    <2>1. asked \in Statements
      BY DEF TypeOK
    <2>2. asked.format \in Formats /\ "hive" \in Formats
      BY <2>1 DEF Statements, Formats
    <2> QED
      BY <1>2, <2>1, <2>2, TargetIs
  <1>4. ctas \in Statements
    BY <1>3 DEF Statements
  <1> HIDE DEF ctas, place
  <1>5. wrote \subseteq Objects /\ \A o \in wrote : o.dir = WithSlash(place)
    BY <1>3, <1>4, WrittenIs
  <1>6. Entry(ctas, place) \in GlueEntries
    BY <1>3, <1>4, EntryIs
  <1> HIDE DEF wrote
  <1>7. /\ queries' = [queries EXCEPT ![q].state = "succeeded", ![q].wrote = wrote]
        /\ objects' = objects \cup wrote
        /\ catalog' = IF asked.table = NoTable THEN catalog ELSE With(catalog, asked.table, Entry(ctas, place))
    BY <1>2 DEF ctas, wrote, place
  <1>8. queries[q] \in [state : {"running", "succeeded", "failed"}, words : SUBSET Says,
                        wrote : SUBSET Objects, ctas : Statements]
    BY DEF TypeOK
  <1>9. /\ DOMAIN queries' = DOMAIN queries /\ \A p \in DOMAIN queries \ {q} : queries'[p] = queries[p]
        /\ queries' = [p \in DOMAIN queries |-> queries'[p]]
        /\ queries'[q] = [queries[q] EXCEPT !.state = "succeeded", !.wrote = wrote]
    BY <1>7 DEF TypeOK
  <1>10. /\ queries'[q] \in [state : {"running", "succeeded", "failed"}, words : SUBSET Says,
                             wrote : SUBSET Objects, ctas : Statements]
         /\ queries'[q].state = "succeeded" /\ queries'[q].wrote = wrote /\ queries'[q].ctas = queries[q].ctas
    BY <1>5, <1>8, <1>9
  <1>11. faults' \in 0..MaxFaults
    BY <1>2, AthenaAssumption DEF TypeOK
  <1>12. Ends(q)
    BY <1>1, <1>9, <1>10, <1>11 DEF Ends
  <1>13. IF asked.table = NoTable THEN UNCHANGED catalog
         ELSE \E e \in GlueEntries : catalog' = With(catalog, asked.table, e)
    BY <1>6, <1>7
  <1> QED
    BY <1>1, <1>5, <1>7, <1>9, <1>10, <1>12, <1>13 DEF place

LEMMA QueryFailsDoes ==
    ASSUME TypeOK, NEW q \in DOMAIN queries, QueryFails(q)
    PROVE  /\ Ends(q) /\ queries'[q].state = "failed" /\ queries'[q].wrote = queries[q].wrote
           /\ queries' = [p \in DOMAIN queries |-> queries'[p]]
           /\ queries'[q] \in [state : {"running", "succeeded", "failed"}, words : SUBSET Says,
                               wrote : SUBSET Objects, ctas : Statements]
           /\ UNCHANGED catalog /\ UNCHANGED objects
  <1>1. /\ queries[q].state = "running" /\ UNCHANGED catalog /\ UNCHANGED objects
        /\ UNCHANGED workgroup /\ UNCHANGED request /\ UNCHANGED call /\ UNCHANGED ledger
        /\ UNCHANGED hiveFallbackOnly /\ UNCHANGED closer
    BY DEF QueryFails, client
  <1>2. PICK words \in SUBSET Says : queries' = [queries EXCEPT ![q].state = "failed", ![q].words = words]
    BY DEF QueryFails, Says
  <1>3. queries[q] \in [state : {"running", "succeeded", "failed"}, words : SUBSET Says,
                        wrote : SUBSET Objects, ctas : Statements]
    BY DEF TypeOK
  <1>4. /\ DOMAIN queries' = DOMAIN queries /\ \A p \in DOMAIN queries \ {q} : queries'[p] = queries[p]
        /\ queries' = [p \in DOMAIN queries |-> queries'[p]]
        /\ queries'[q] = [queries[q] EXCEPT !.state = "failed", !.words = words]
    BY <1>2 DEF TypeOK
  <1>5. /\ queries'[q] \in [state : {"running", "succeeded", "failed"}, words : SUBSET Says,
                            wrote : SUBSET Objects, ctas : Statements]
        /\ queries'[q].state = "failed" /\ queries'[q].wrote = queries[q].wrote /\ queries'[q].ctas = queries[q].ctas
    BY <1>3, <1>4
  <1>6. faults' \in 0..MaxFaults
    <2> DEFINE iceberg == workgroup.engine = "v2" /\ queries[q].ctas.format = "iceberg"
               exists == queries[q].ctas.table \in DOMAIN catalog
    <2>0. /\ iceberg \/ exists \/ faults < MaxFaults
          /\ faults' = IF iceberg \/ exists THEN faults ELSE faults + 1
      BY Zenon DEF QueryFails
    <2> HIDE DEF iceberg, exists
    <2>1. faults' = faults \/ (faults < MaxFaults /\ faults' = faults + 1)
      BY <2>0
    <2> QED
      BY <2>1, AthenaAssumption DEF TypeOK
  <1> QED
    BY <1>1, <1>4, <1>5, <1>6 DEF Ends

-----------------------------------------------------------------------------
(* The steps of Close. *)

\* The entry at the head of what Close has to do is dealt with, or reported.
LEMMA CloseHead ==
    ASSUME TypeOK, ClosePhase, closer.todo # <<>>
    PROVE  /\ Head(closer.todo) \in Entries /\ Head(closer.todo) \in ToSet(closer.todo)
           /\ Head(closer.todo) \in closer.taken
           /\ Tail(closer.todo) \in Seq(Entries)
           /\ ToSet(closer.todo) = {Head(closer.todo)} \cup ToSet(Tail(closer.todo))
  <1>1. closer.todo \in Seq(Entries)
    BY DEF TypeOK
  <1>2. /\ Head(closer.todo) \in ToSet(closer.todo) /\ Tail(closer.todo) \in Seq(Entries)
        /\ ToSet(closer.todo) = {Head(closer.todo)} \cup ToSet(Tail(closer.todo))
    BY <1>1, HeadAndRest
  <1>3. ToSet(closer.todo) \subseteq Entries
    BY <1>1, ToSetInside
  <1> QED
    BY <1>2, <1>3 DEF ClosePhase

CloserSet == [pc : {"idle", "drop", "delete"}, runs : Nat, todo : Seq(Entries),
              taken : SUBSET Entries, failed : SUBSET Entries,
              passed : SUBSET Objects, kept : SUBSET Objects]

\* What Close has passed over, and what S3 kept, after a step of it.
SameWalk == closer'.passed = closer.passed /\ closer'.kept = closer.kept
Walks == /\ closer.kept \subseteq closer'.kept
         /\ closer.passed \subseteq closer.kept => closer'.passed \subseteq closer'.kept

LEMMA CloseBeginsDoes ==
    ASSUME TypeOK, CloseBegins
    PROVE  /\ closer' \in CloserSet /\ closer.pc = "idle" /\ closer'.pc = "drop" /\ closer'.todo = ledger
           /\ closer'.taken = closer.taken \cup ToSet(ledger) /\ closer'.failed = closer.failed
           /\ SameWalk /\ ledger' = <<>>
           /\ UNCHANGED workgroup /\ UNCHANGED request /\ UNCHANGED call /\ UNCHANGED hiveFallbackOnly
           /\ UNCHANGED queries /\ UNCHANGED catalog /\ UNCHANGED objects /\ UNCHANGED faults
  <1>1. closer \in CloserSet /\ ledger \in Seq(Entries)
    BY DEF TypeOK, CloserSet
  <1>2. ToSet(ledger) \subseteq Entries
    BY <1>1, ToSetInside
  <1> DEFINE news == ToSet(ledger)
             n == closer.runs + 1
  <1>3. n \in Nat
    BY <1>1 DEF CloserSet
  <1>4. closer' = [closer EXCEPT !.pc = "drop", !.runs = n, !.todo = ledger, !.taken = closer.taken \cup news]
    BY <1>1 DEF CloseBegins, CloserSet
  <1> HIDE DEF n, news
  <1>5. /\ closer' \in CloserSet /\ closer'.pc = "drop" /\ closer'.todo = ledger
        /\ closer'.taken = closer.taken \cup news /\ closer'.failed = closer.failed /\ SameWalk
    BY <1>1, <1>2, <1>3, <1>4 DEF CloserSet, news, SameWalk
  <1> QED
    BY <1>5 DEF CloseBegins, services, news

\* What Close does to the head of its work, in the catalog and among the objects.
Deals(t) ==
    \/ /\ t.cleanup = "none" /\ closer'.pc = "drop" /\ closer'.todo = Tail(closer.todo)
       /\ closer'.failed = closer.failed /\ UNCHANGED catalog /\ UNCHANGED faults
    \/ /\ t.cleanup # "none"
       /\ catalog' = [name \in DOMAIN catalog \ {t.table} |-> catalog[name]]
       /\ closer'.failed = closer.failed
       /\ IF t.cleanup = "all" THEN closer'.pc = "delete" /\ closer'.todo = closer.todo
          ELSE closer'.pc = "drop" /\ closer'.todo = Tail(closer.todo)
       /\ UNCHANGED faults
    \/ /\ closer'.pc = "drop" /\ closer'.todo = Tail(closer.todo)
       /\ closer'.failed = closer.failed \cup {t} /\ UNCHANGED catalog

LEMMA DropTableDoes ==
    ASSUME TypeOK, ClosePhase, DropTable
    PROVE  /\ closer' \in CloserSet /\ closer'.taken = closer.taken /\ Walks
           /\ closer.pc = "drop" /\ closer.todo # <<>>
           /\ Deals(Head(closer.todo)) /\ faults' \in 0..MaxFaults
           /\ UNCHANGED workgroup /\ UNCHANGED request /\ UNCHANGED call /\ UNCHANGED ledger
           /\ UNCHANGED hiveFallbackOnly /\ UNCHANGED queries /\ UNCHANGED objects
  <1> DEFINE t == Head(closer.todo)
             rest == Tail(closer.todo)
  <1>1. closer.pc = "drop" /\ closer.todo # <<>>
    BY DEF DropTable
  <1>2. closer \in CloserSet /\ t \in Entries /\ rest \in Seq(Entries)
    BY <1>1, CloseHead DEF TypeOK, CloserSet
  <1>3. /\ UNCHANGED workgroup /\ UNCHANGED request /\ UNCHANGED call /\ UNCHANGED ledger
        /\ UNCHANGED hiveFallbackOnly /\ UNCHANGED queries /\ UNCHANGED objects
    BY DEF DropTable, client
  <1>4. CASE t.cleanup = "none" /\ closer' = [closer EXCEPT !.todo = Tail(@)] /\ UNCHANGED <<catalog, faults>>
    <2>1. closer' = [closer EXCEPT !.todo = rest]
      BY <1>2, <1>4 DEF CloserSet
    <2> HIDE DEF t, rest
    <2>2. /\ closer' \in CloserSet /\ closer'.taken = closer.taken /\ closer'.failed = closer.failed
          /\ closer'.pc = closer.pc /\ closer'.todo = rest /\ Walks
      BY <1>2, <2>1 DEF CloserSet, Walks
    <2>3. faults' \in 0..MaxFaults /\ UNCHANGED catalog /\ UNCHANGED faults
      BY <1>4 DEF TypeOK
    <2> QED
      BY <1>1, <1>3, <1>4, <2>2, <2>3 DEF Deals, t, rest
  <1>5. CASE /\ t.cleanup # "none"
             /\ catalog' = [name \in DOMAIN catalog \ {t.table} |-> catalog[name]]
             /\ closer' = IF t.cleanup = "all" THEN [closer EXCEPT !.pc = "delete", !.passed = {}]
                          ELSE [closer EXCEPT !.todo = Tail(@)]
             /\ UNCHANGED faults
    <2>1. closer' = IF t.cleanup = "all" THEN [closer EXCEPT !.pc = "delete", !.passed = {}]
                   ELSE [closer EXCEPT !.todo = rest]
      BY <1>2, <1>5 DEF CloserSet
    <2> HIDE DEF t, rest
    <2>2. /\ closer' \in CloserSet /\ closer'.taken = closer.taken /\ closer'.failed = closer.failed
          /\ IF t.cleanup = "all" THEN closer'.pc = "delete" /\ closer'.todo = closer.todo
             ELSE closer'.pc = closer.pc /\ closer'.todo = rest
          /\ Walks
      BY <1>2, <2>1 DEF CloserSet, Walks
    <2>3. faults' \in 0..MaxFaults
      BY <1>5 DEF TypeOK
    <2> QED
      BY <1>1, <1>3, <1>5, <2>2, <2>3 DEF Deals, t, rest
  <1>6. CASE faults < MaxFaults /\ faults' = faults + 1 /\ UNCHANGED catalog /\ Failure(t)
    <2> DEFINE bad == closer.failed \cup {t}
    <2>1. closer' = [closer EXCEPT !.pc = "drop", !.todo = rest, !.failed = bad]
      BY <1>2, <1>6 DEF CloserSet, Failure, AfterError
    <2>2. bad \in SUBSET Entries
      BY <1>2 DEF CloserSet
    <2> HIDE DEF t, rest, bad
    <2>3. /\ closer' \in CloserSet /\ closer'.taken = closer.taken /\ closer'.failed = bad
          /\ closer'.pc = "drop" /\ closer'.todo = rest /\ Walks
      BY <1>2, <2>1, <2>2 DEF CloserSet, Walks
    <2>4. faults' \in 0..MaxFaults
      BY <1>6, AthenaAssumption DEF TypeOK
    <2> QED
      BY <1>1, <1>3, <1>6, <2>3, <2>4 DEF Deals, t, rest, bad
  <1> QED
    BY <1>4, <1>5, <1>6 DEF DropTable

\* A page of what lies under the location goes.
Deletes(t) ==
    /\ closer'.todo = Tail(closer.todo) \/ closer'.todo = closer.todo
    /\ closer'.pc = "drop" <=> closer'.todo = Tail(closer.todo)
    /\ closer'.pc = "delete" \/ closer'.pc = "drop"
    /\ \/ closer'.failed = closer.failed \cup {t} /\ UNCHANGED objects
       \/ /\ closer'.failed = closer.failed
          /\ objects' \subseteq objects /\ objects \ objects' \subseteq Under(t.location)
          /\ closer'.pc = "drop" => objects' \cap Under(t.location) \subseteq closer.passed \cup closer'.kept

LEMMA DeletePrefixDoes ==
    ASSUME TypeOK, ClosePhase, DeletePrefix
    PROVE  /\ closer' \in CloserSet /\ closer'.taken = closer.taken /\ Walks
           /\ closer.pc = "delete" /\ closer.todo # <<>> /\ Head(closer.todo).cleanup = "all"
           /\ Deletes(Head(closer.todo)) /\ faults' \in 0..MaxFaults
           /\ UNCHANGED workgroup /\ UNCHANGED request /\ UNCHANGED call /\ UNCHANGED ledger
           /\ UNCHANGED hiveFallbackOnly /\ UNCHANGED queries /\ UNCHANGED catalog
  <1> DEFINE t == Head(closer.todo)
             rest == Tail(closer.todo)
             found == Under(t.location) \ closer.passed
  <1>1. closer.pc = "delete" /\ closer.todo # <<>> /\ t.cleanup = "all"
    BY DEF DeletePrefix, ClosePhase
  <1>2. closer \in CloserSet /\ t \in Entries /\ rest \in Seq(Entries) /\ rest # closer.todo
    <2>1. closer \in CloserSet /\ t \in Entries /\ rest \in Seq(Entries) /\ closer.todo \in Seq(Entries)
      BY <1>1, CloseHead DEF TypeOK, CloserSet
    <2>2. Len(rest) = Len(closer.todo) - 1 /\ Len(closer.todo) \in Nat
      BY <1>1, <2>1
    <2>3. Len(rest) # Len(closer.todo)
      BY <2>2
    <2>4. rest # closer.todo
      BY <2>3, Zenon
    <2> QED
      BY <2>1, <2>4
  <1>3. /\ UNCHANGED workgroup /\ UNCHANGED request /\ UNCHANGED call /\ UNCHANGED ledger
        /\ UNCHANGED hiveFallbackOnly /\ UNCHANGED queries /\ UNCHANGED catalog
    BY DEF DeletePrefix, client
  <1>4. ASSUME NEW page \in SUBSET found, NEW kept \in SUBSET page,
               kept # {} => faults < MaxFaults,
               faults' = IF kept = {} THEN faults ELSE faults + 1,
               objects' = objects \ (page \ kept),
               closer' = LET walked == [closer EXCEPT !.passed = @ \cup kept, !.kept = @ \cup kept]
                         IN  IF page = found THEN [walked EXCEPT !.pc = "drop", !.todo = Tail(@)] ELSE walked
        PROVE  closer' \in CloserSet /\ closer'.taken = closer.taken /\ Walks /\ Deletes(t) /\ faults' \in 0..MaxFaults
    <2> DEFINE passing == closer.passed \cup kept
               keeping == closer.kept \cup kept
    <2>1. closer' = IF page = found
                    THEN [closer EXCEPT !.passed = passing, !.kept = keeping, !.pc = "drop", !.todo = rest]
                    ELSE [closer EXCEPT !.passed = passing, !.kept = keeping]
      BY <1>2, <1>4 DEF CloserSet
    <2>2. found \subseteq objects /\ objects \subseteq Objects
      BY DEF TypeOK, Under
    <2>3. passing \in SUBSET Objects /\ keeping \in SUBSET Objects
      BY <1>2, <2>2 DEF CloserSet
    <2> HIDE DEF t, rest, found, passing, keeping
    <2>4. /\ closer' \in CloserSet /\ closer'.taken = closer.taken /\ closer'.failed = closer.failed
          /\ closer'.passed = passing /\ closer'.kept = keeping
          /\ IF page = found THEN closer'.pc = "drop" /\ closer'.todo = rest
             ELSE closer'.pc = "delete" /\ closer'.todo = closer.todo
      BY <1>1, <1>2, <2>1, <2>3 DEF CloserSet
    <2>5. /\ objects' \subseteq objects /\ objects \ objects' \subseteq Under(t.location)
          /\ page = found => objects' \cap Under(t.location) \subseteq closer.passed \cup keeping
      BY <1>4 DEF found, Under, keeping
    <2>6. faults' \in 0..MaxFaults
      BY <1>4, AthenaAssumption DEF TypeOK
    <2>7. Walks
      BY <2>4 DEF Walks, passing, keeping
    <2>8. Deletes(t)
      BY <1>2, <2>4, <2>5 DEF Deletes, rest
    <2> QED
      BY <2>4, <2>6, <2>7, <2>8
  <1>5. ASSUME faults < MaxFaults, faults' = faults + 1, UNCHANGED objects, Failure(t)
        PROVE  closer' \in CloserSet /\ closer'.taken = closer.taken /\ Walks /\ Deletes(t) /\ faults' \in 0..MaxFaults
    <2> DEFINE bad == closer.failed \cup {t}
    <2>1. closer' = [closer EXCEPT !.pc = "drop", !.todo = rest, !.failed = bad]
      BY <1>2, <1>5 DEF CloserSet, Failure, AfterError
    <2>2. bad \in SUBSET Entries
      BY <1>2 DEF CloserSet
    <2> HIDE DEF t, rest, bad
    <2>3. /\ closer' \in CloserSet /\ closer'.taken = closer.taken /\ closer'.failed = bad
          /\ closer'.pc = "drop" /\ closer'.todo = rest /\ Walks
      BY <1>2, <2>1, <2>2 DEF CloserSet, Walks
    <2>4. faults' \in 0..MaxFaults
      BY <1>5, AthenaAssumption DEF TypeOK
    <2>5. Deletes(t)
      BY <1>5, <2>3 DEF Deletes, bad, rest
    <2> QED
      BY <2>3, <2>4, <2>5 DEF t
  <1>6. closer' \in CloserSet /\ closer'.taken = closer.taken /\ Walks /\ Deletes(t) /\ faults' \in 0..MaxFaults
    <2>1. CASE \E page \in SUBSET found : \E kept \in SUBSET page :
                 /\ kept # {} => faults < MaxFaults
                 /\ faults' = IF kept = {} THEN faults ELSE faults + 1
                 /\ objects' = objects \ (page \ kept)
                 /\ closer' = LET walked == [closer EXCEPT !.passed = @ \cup kept, !.kept = @ \cup kept]
                              IN  IF page = found THEN [walked EXCEPT !.pc = "drop", !.todo = Tail(@)] ELSE walked
      BY <1>4, <2>1
    <2> QED
      BY <1>5, <2>1 DEF DeletePrefix
  <1> QED
    BY <1>1, <1>3, <1>6

LEMMA CloseReturnsDoes ==
    ASSUME TypeOK, CloseReturns
    PROVE  /\ closer' \in CloserSet /\ closer'.taken = closer.taken /\ closer'.failed = closer.failed
           /\ SameWalk /\ closer.todo = <<>> /\ closer'.todo = <<>> /\ closer'.pc = "idle"
           /\ UNCHANGED workgroup /\ UNCHANGED request /\ UNCHANGED call /\ UNCHANGED ledger
           /\ UNCHANGED hiveFallbackOnly /\ UNCHANGED queries /\ UNCHANGED catalog /\ UNCHANGED objects
           /\ UNCHANGED faults
  <1>1. closer \in CloserSet
    BY DEF TypeOK, CloserSet
  <1>2. closer.todo = <<>> /\ closer' = [closer EXCEPT !.pc = "idle"]
    BY DEF CloseReturns
  <1>3. /\ closer' \in CloserSet /\ closer'.taken = closer.taken /\ closer'.failed = closer.failed
        /\ closer'.todo = closer.todo /\ closer'.pc = "idle"
    BY <1>1, <1>2 DEF CloserSet
  <1>4. SameWalk
    BY <1>1, <1>2 DEF CloserSet, SameWalk
  <1> QED
    BY <1>2, <1>3, <1>4 DEF CloseReturns, client, services

-----------------------------------------------------------------------------
(* Types. *)

LEMMA TrackedIs ==
    ASSUME TypeOK, NEW c \in Calls
    PROVE  Tracked(c) \in Entries
  <1>1. request[c] \in Requests /\ call[c].ctas \in Statements
    BY Asking
  <1>2. Cleanup(c) \in Cleanups
    BY <1>1, AthenaAssumption DEF Cleanup, Requests
  <1>3. call[c].ctas.table \in Path /\ call[c].ctas.location \in Path
    BY <1>1 DEF Statements
  <1> QED
    BY <1>2, <1>3 DEF Tracked, Entries

QuerySet == [state : {"running", "succeeded", "failed"}, words : SUBSET Says,
             wrote : SUBSET Objects, ctas : Statements]

(* The types, taken apart. *)
LEMMA TypesAre ==
    TypeOK <=> /\ request \in [Calls -> Requests]
               /\ call = [c \in Calls |-> call[c]] /\ \A c \in Calls : Recorded(call[c])
               /\ ledger \in Seq(Entries) /\ hiveFallbackOnly \in BOOLEAN /\ closer \in CloserSet
               /\ queries = [q \in DOMAIN queries |-> queries[q]]
               /\ \A q \in DOMAIN queries : q \in Calls \X (0..2) /\ queries[q] \in QuerySet
               /\ catalog = [name \in DOMAIN catalog |-> catalog[name]]
               /\ \A name \in DOMAIN catalog : catalog[name] \in GlueEntries
               /\ objects \subseteq Objects /\ faults \in 0..MaxFaults
  BY DEF TypeOK, CloserSet, QuerySet

LEMMA TypeInit == Init => TypeOK
  <1> SUFFICES ASSUME Init PROVE TypeOK
    OBVIOUS
  <1>1. request \in [Calls -> Requests]
    BY AthenaAssumption DEF Init
  <1>2. call = [c \in Calls |-> call[c]]
    BY DEF Init
  <1>3. ASSUME NEW c \in Calls
        PROVE  Recorded(call[c])
    <2> DEFINE n == 0
               none == <<>>
               cl == NoClaim
    <2>1. /\ n \in Nat /\ n \in Int /\ n \in 0..2 /\ none \in Reads /\ none \in Path
          /\ PollInterval \in Nat \ {0} /\ Select \in Statements /\ "idle" \in Stages
      BY AthenaAssumption, SelectIsStatement DEF Reads, Path, Stages
    <2>2. call[c] = [pc |-> "idle", attempt |-> n, ctas |-> Select, waited |-> n, interval |-> PollInterval,
                     cancelled |-> FALSE, denied |-> FALSE, succeeded |-> FALSE, location |-> none,
                     slots |-> n, files |-> none, read |-> none, claim |-> cl, failed |-> FALSE]
      BY DEF Init
    <2> HIDE DEF n, none, cl
    <2> QED
      BY <2>1, <2>2 DEF Recorded
  <1>4. ledger \in Seq(Entries) /\ hiveFallbackOnly \in BOOLEAN
    <2>1. ledger \in Seq(Entries)
      BY DEF Init
    <2>2. hiveFallbackOnly \in BOOLEAN
      BY Zenon DEF Init
    <2> QED
      BY <2>1, <2>2
  <1>5. closer \in CloserSet
    BY DEF Init, CloserSet
  <1>6. queries = [q \in DOMAIN queries |-> queries[q]] /\ DOMAIN queries = {}
    BY DEF Init
  <1>7. /\ catalog = [name \in DOMAIN catalog |-> catalog[name]]
        /\ \A name \in DOMAIN catalog : catalog[name] \in GlueEntries
    BY AthenaAssumption DEF Init
  <1>8. objects \subseteq Objects /\ faults \in 0..MaxFaults
    BY AthenaAssumption DEF Init
  <1> QED
    BY <1>1, <1>2, <1>3, <1>4, <1>5, <1>6, <1>7, <1>8, TypesAre

(* What a call's step leaves of the queries and of the ledger. *)
LEMMA StepKeeps ==
    ASSUME TypeOK, Issued, NEW c \in Calls, StepOf(c), UNCHANGED request
    PROVE  /\ \A q \in DOMAIN queries : q \in DOMAIN queries' /\ queries'[q] = queries[q]
           /\ \A q \in DOMAIN queries' \ DOMAIN queries :
                q = QueryOf(c) /\ call[c].pc = "submit" /\ queries'[q] = Submitted(call[c].ctas)
           /\ queries' = [q \in DOMAIN queries' |-> queries'[q]]
           /\ ledger' \in Seq(Entries) /\ ToSet(ledger) \subseteq ToSet(ledger')
           /\ ToSet(ledger') \subseteq ToSet(ledger) \cup {Tracked(c)}
  <1>1. ledger \in Seq(Entries) /\ queries = [q \in DOMAIN queries |-> queries[q]] /\ Tracked(c) \in Entries
    BY TypesAre, TrackedIs
  <1>2. /\ ledger' \in Seq(Entries) /\ ToSet(ledger) \subseteq ToSet(ledger')
        /\ ToSet(ledger') \subseteq ToSet(ledger) \cup {Tracked(c)}
    <2>1. UNCHANGED ledger \/ ledger' = Append(ledger, Tracked(c))
      BY DEF StepOf, Kind, Chooses, Submits, Prepared, Learns, Registers, Moves
    <2>2. CASE UNCHANGED ledger
      BY <1>1, <2>2
    <2>3. CASE ledger' = Append(ledger, Tracked(c))
      BY <1>1, <2>3, ToSetAppend
    <2> QED
      BY <2>1, <2>2, <2>3
  <1>3. CASE UNCHANGED queries
    BY <1>1, <1>2, <1>3
  <1>4. CASE Submits(c)
    <2>1. QueryOf(c) \notin DOMAIN queries
      <3>1. IssuedOf(c) /\ call[c].pc = "submit" /\ call[c].attempt \in 0..2
        BY <1>4, Asking DEF Issued, Submits
      <3> QED
        BY <3>1 DEF IssuedOf, QueryOf
    <2>2. queries' = With(queries, QueryOf(c), Submitted(call[c].ctas)) /\ call[c].pc = "submit"
      BY <1>4 DEF Submits
    <2> DEFINE x == QueryOf(c)
               v == Submitted(call[c].ctas)
    <2>3. queries' = With(queries, x, v) /\ x \notin DOMAIN queries
      BY <2>1, <2>2
    <2> HIDE DEF x, v
    <2>4. /\ \A q \in DOMAIN queries : q \in DOMAIN queries' /\ queries'[q] = queries[q]
          /\ \A q \in DOMAIN queries' \ DOMAIN queries : q = x /\ queries'[q] = v
          /\ queries' = [q \in DOMAIN queries' |-> queries'[q]]
      <3>1. queries' = [y \in DOMAIN queries \cup {x} |-> IF y = x THEN v ELSE queries[y]]
        BY <2>3 DEF With
      <3>2. DOMAIN queries' = DOMAIN queries \cup {x} /\ queries' = [q \in DOMAIN queries' |-> queries'[q]]
        BY <3>1
      <3> QED
        BY <2>3, <3>1, <3>2
    <2> QED
      BY <1>2, <2>2, <2>4 DEF x, v
  <1> QED
    BY <1>3, <1>4 DEF StepOf, Kind, Chooses, Prepared, Learns, Registers, Moves

LEMMA StepTyped ==
    ASSUME TypeOK, Issued, NEW c \in Calls, StepOf(c), UNCHANGED request
    PROVE  TypeOK'
  <1>1. \A q \in DOMAIN queries' : q \in Calls \X (0..2) /\ queries'[q] \in QuerySet
    <2> SUFFICES ASSUME NEW q \in DOMAIN queries' PROVE q \in Calls \X (0..2) /\ queries'[q] \in QuerySet
      OBVIOUS
    <2>1. CASE q \in DOMAIN queries
      BY <2>1, StepKeeps, TypesAre
    <2>2. CASE q \notin DOMAIN queries
      <3>1. q = QueryOf(c) /\ queries'[q] = Submitted(call[c].ctas)
        BY <2>2, StepKeeps
      <3>2. QueryOf(c) \in Calls \X (0..2) /\ call[c].ctas \in Statements
        BY Asking
      <3>3. Submitted(call[c].ctas) \in QuerySet
        BY <3>2 DEF Submitted, QuerySet
      <3> QED
        BY <3>1, <3>2, <3>3
    <2> QED
      BY <2>1, <2>2
  <1>2. queries' = [q \in DOMAIN queries' |-> queries'[q]] /\ ledger' \in Seq(Entries)
    BY StepKeeps
  <1>3. /\ request \in [Calls -> Requests] /\ closer \in CloserSet
        /\ catalog = [name \in DOMAIN catalog |-> catalog[name]]
        /\ \A name \in DOMAIN catalog : catalog[name] \in GlueEntries
        /\ objects \subseteq Objects
    BY TypesAre
  <1>4. /\ call' = [d \in Calls |-> call'[d]] /\ \A d \in Calls : Recorded(call'[d])
        /\ hiveFallbackOnly' \in BOOLEAN /\ faults' \in 0..MaxFaults
        /\ UNCHANGED closer /\ UNCHANGED catalog /\ UNCHANGED objects
    BY DEF StepOf, Alone
  <1> QED
    BY <1>1, <1>2, <1>3, <1>4 DEF TypeOK, CloserSet, QuerySet

-----------------------------------------------------------------------------
(* What the calls know of their queries. *)

(* What is asked does not change. *)
LEMMA RequestsStay ==
    ASSUME UNCHANGED request
    PROVE  /\ \A d \in Calls : Op(d)' = Op(d) /\ Refused(d)' = Refused(d) /\ Cleanup(d)' = Cleanup(d)
           /\ \A q \in Calls \X (0..2) : NameOf(q)' = NameOf(q) /\ PlaceOf(q)' = PlaceOf(q)
  BY DEF Op, Refused, Cleanup, NameOf, PlaceOf

(* A call that did not move, among queries that are kept, knows what it knew. *)
LEMMA IssuedStays ==
    ASSUME TypeOK, UNCHANGED request, NEW d \in Calls, IssuedOf(d),
           Like(call'[d], call[d]), call'[d].pc = call[d].pc,
           \A a \in 0..2 : <<d, a>> \in DOMAIN queries' <=> <<d, a>> \in DOMAIN queries,
           \A a \in 0..2 : <<d, a>> \in DOMAIN queries =>
               /\ queries'[<<d, a>>].ctas = queries[<<d, a>>].ctas
               /\ queries[<<d, a>>].state = "succeeded" => queries'[<<d, a>>].state = "succeeded"
    PROVE  IssuedOf(d)'
  <1>1. QueryOf(d)' = QueryOf(d) /\ QueryOf(d) = <<d, call[d].attempt>> /\ call[d].attempt \in 0..2
    BY Asking DEF QueryOf, Like
  <1>2. /\ Op(d)' = Op(d) /\ Refused(d)' = Refused(d)
        /\ NameOf(QueryOf(d))' = NameOf(QueryOf(d)) /\ PlaceOf(QueryOf(d))' = PlaceOf(QueryOf(d))
    BY <1>1, RequestsStay DEF NameOf, PlaceOf, Op
  <1> QED
    BY <1>1, <1>2 DEF IssuedOf, Like

LEMMA StepIssued ==
    ASSUME TypeOK, Issued, NEW c \in Calls, StepOf(c), UNCHANGED request
    PROVE  Issued'
  <1>1. \A q \in DOMAIN queries : q \in DOMAIN queries' /\ queries'[q] = queries[q]
    BY StepKeeps
  <1>2. \A q \in DOMAIN queries' \ DOMAIN queries : q = QueryOf(c) /\ call[c].pc = "submit"
    BY StepKeeps
  <1>3. ASSUME NEW d \in Calls \ {c}
        PROVE  IssuedOf(d)'
    <2>1. call'[d] = call[d]
      BY DEF StepOf, Alone
    <2>2. \A a \in 0..2 : <<d, a>> # QueryOf(c)
      BY DEF QueryOf
    <2> QED
      <3>1. \A a \in 0..2 : <<d, a>> \in DOMAIN queries' <=> <<d, a>> \in DOMAIN queries
        BY <1>1, <1>2, <2>2
      <3>2. \A a \in 0..2 : <<d, a>> \in DOMAIN queries => queries'[<<d, a>>] = queries[<<d, a>>]
        BY <1>1
      <3>3. IssuedOf(d) /\ Like(call'[d], call[d]) /\ call'[d].pc = call[d].pc
        BY <2>1 DEF Issued, Like
      <3> QED
        BY <3>1, <3>2, <3>3, IssuedStays
  <1>4. IssuedOf(c)'
    <2> DEFINE old == call[c].attempt
               new == call'[c].attempt
    <2>1. /\ IssuedOf(c) /\ old \in 0..2 /\ new \in 0..2 /\ QueryOf(c) = <<c, old>> /\ QueryOf(c)' = <<c, new>>
          /\ Op(c)' = Op(c) /\ Refused(c)' = Refused(c)
      BY Asking, RequestsStay DEF Issued, QueryOf, StepOf, Alone, Recorded
    <2>2. \A a \in 0..2 : NameOf(<<c, a>>)' = NameOf(<<c, a>>) /\ PlaceOf(<<c, a>>)' = PlaceOf(<<c, a>>)
      BY RequestsStay
    <2>3. NameOf(QueryOf(c))' = NameOf(<<c, new>>) /\ PlaceOf(QueryOf(c))' = PlaceOf(<<c, new>>)
      BY <2>1, <2>2 DEF NameOf, PlaceOf, Op
    <2>4. CASE Chooses(c)
      BY <1>1, <2>1, <2>3, <2>4 DEF Chooses, IssuedOf
    <2>5. CASE Submits(c)
      <3>1. /\ DOMAIN queries' = DOMAIN queries \cup {QueryOf(c)}
            /\ queries'[QueryOf(c)].ctas = call[c].ctas
        BY <2>5 DEF Submits, With, Submitted
      <3> QED
        BY <1>1, <2>1, <2>3, <2>5, <3>1 DEF Submits, IssuedOf, Like
    <2>6. CASE Prepared(c)
      BY <1>1, <2>1, <2>3, <2>6 DEF Prepared, IssuedOf, Like
    <2>7. CASE Learns(c)
      BY <1>1, <2>1, <2>3, <2>7 DEF Learns, IssuedOf
    <2>8. CASE Registers(c)
      BY <1>1, <2>1, <2>3, <2>8 DEF Registers, IssuedOf, Like
    <2>9. CASE Moves(c)
      BY <1>1, <2>1, <2>3, <2>9 DEF Moves, IssuedOf, Like
    <2> QED
      BY <2>4, <2>5, <2>6, <2>7, <2>8, <2>9 DEF StepOf, Kind
  <1> QED
    BY <1>3, <1>4 DEF Issued

LEMMA EndsIssued ==
    ASSUME TypeOK, Issued, NEW q \in DOMAIN queries, Ends(q)
    PROVE  Issued'
  <1> SUFFICES ASSUME NEW d \in Calls PROVE IssuedOf(d)'
    BY DEF Issued
  <1>1. call'[d] = call[d] /\ UNCHANGED request
    BY DEF Ends
  <1>2. \A p \in DOMAIN queries : /\ p \in DOMAIN queries' /\ queries'[p].ctas = queries[p].ctas
                                  /\ queries[p].state = "succeeded" => queries'[p].state = "succeeded"
    BY DEF Ends
  <1>3. DOMAIN queries' = DOMAIN queries
    BY DEF Ends
  <1> QED
    BY <1>1, <1>2, <1>3, IssuedStays DEF Issued, Like

LEMMA CancelIssued ==
    ASSUME TypeOK, Issued, NEW c \in Calls, Cancel(c)
    PROVE  Issued'
  <1> SUFFICES ASSUME NEW d \in Calls PROVE IssuedOf(d)'
    BY DEF Issued
  <1>1. Like(call'[d], call[d]) /\ call'[d].pc = call[d].pc /\ UNCHANGED request /\ UNCHANGED queries
    BY CancelDoes DEF Alone, Like
  <1> QED
    BY <1>1, IssuedStays DEF Issued

-----------------------------------------------------------------------------
(* What the queries were asked, and the ledger. *)

LEMMA AskedStays ==
    ASSUME TypeOK, UNCHANGED request, UNCHANGED workgroup, NEW q \in DOMAIN queries, AskedOf(q),
           queries'[q].ctas = queries[q].ctas,
           queries'[q].wrote = queries[q].wrote \/ \A o \in queries'[q].wrote : o.dir = WithSlash(Target(q, queries[q].ctas)),
           queries'[q].state = "succeeded" => queries[q].state = "succeeded" \/ NameOf(q) \notin DOMAIN External.catalog
    PROVE  AskedOf(q)'
  <1>1. q \in Calls \X (0..2)
    BY TypesAre
  <1>2. NameOf(q)' = NameOf(q) /\ PlaceOf(q)' = PlaceOf(q)
    BY <1>1, RequestsStay
  <1>3. Target(q, queries[q].ctas)' = Target(q, queries[q].ctas)
    BY DEF Target
  <1>4. WithSlash(Target(q, queries[q].ctas))' = WithSlash(Target(q, queries[q].ctas))
    BY <1>3 DEF WithSlash
  <1> QED
    BY <1>2, <1>4 DEF AskedOf

LEMMA StepAsked ==
    ASSUME TypeOK, Issued, Asked, NEW c \in Calls, StepOf(c), UNCHANGED request, UNCHANGED workgroup
    PROVE  Asked'
  <1> SUFFICES ASSUME NEW q \in DOMAIN queries' PROVE AskedOf(q)'
    BY DEF Asked
  <1>1. CASE q \in DOMAIN queries
    <2>1. queries'[q] = queries[q] /\ AskedOf(q)
      BY <1>1, StepKeeps DEF Asked
    <2> QED
      BY <1>1, <2>1, AskedStays
  <1>2. CASE q \notin DOMAIN queries
    <2>1. q = QueryOf(c) /\ call[c].pc = "submit" /\ queries'[q] = Submitted(call[c].ctas)
      BY <1>2, StepKeeps
    <2>2. queries'[q].ctas = call[c].ctas /\ queries'[q].state = "running" /\ queries'[q].wrote = {}
      BY <2>1 DEF Submitted
    <2>3. call[c].ctas.table = NameOf(q) /\ call[c].ctas.location = PlaceOf(q)
      BY <2>1 DEF Issued, IssuedOf
    <2>4. NameOf(q)' = NameOf(q) /\ PlaceOf(q)' = PlaceOf(q)
      BY <2>1, Asking, RequestsStay
    <2> QED
      BY <2>2, <2>3, <2>4 DEF AskedOf
  <1> QED
    BY <1>1, <1>2

LEMMA EndsAsked ==
    ASSUME TypeOK, Asked, OtherTablesKept, NEW q \in DOMAIN queries, QuerySucceeds(q) \/ QueryFails(q)
    PROVE  Asked'
  <1> SUFFICES ASSUME NEW p \in DOMAIN queries' PROVE AskedOf(p)'
    BY DEF Asked
  <1>1. Ends(q)
    BY QuerySucceedsDoes, QueryFailsDoes
  <1>2. /\ p \in DOMAIN queries /\ AskedOf(p) /\ UNCHANGED request /\ UNCHANGED workgroup
        /\ queries'[p].ctas = queries[p].ctas
    BY <1>1 DEF Ends, Asked
  <1>3. CASE p # q
    <2>1. queries'[p] = queries[p]
      BY <1>1, <1>2, <1>3 DEF Ends
    <2> QED
      BY <1>2, <2>1, AskedStays
  <1>4. CASE p = q /\ QuerySucceeds(q)
    <2>1. /\ \A o \in queries'[q].wrote : o.dir = WithSlash(Target(q, queries[q].ctas))
          /\ queries[q].ctas.table \notin DOMAIN catalog
      BY <1>4, QuerySucceedsDoes
    <2>2. NameOf(q) \notin DOMAIN External.catalog
      BY <1>2, <1>4, <2>1 DEF AskedOf, OtherTablesKept
    <2> QED
      BY <1>2, <1>4, <2>1, <2>2, AskedStays
  <1>5. CASE p = q /\ QueryFails(q)
    <2>1. queries'[q].wrote = queries[q].wrote /\ queries'[q].state = "failed"
      BY <1>5, QueryFailsDoes
    <2> QED
      BY <1>2, <1>5, <2>1, AskedStays
  <1> QED
    BY <1>3, <1>4, <1>5

(* The tables of the calls stay in the ledger until Close takes them. *)
LEMMA StepAccounted ==
    ASSUME TypeOK, Issued, Accounted, NEW c \in Calls, StepOf(c), UNCHANGED request
    PROVE  Accounted'
  <1> SUFFICES ASSUME NEW d \in Calls, call'[d].succeeded, Op(d) # "query", call'[d].pc # "verify"
               PROVE  Tracked(d)' \in ToSet(ledger') \cup closer'.taken
    BY RequestsStay DEF Accounted
  <1>1. ToSet(ledger) \subseteq ToSet(ledger') /\ UNCHANGED closer /\ Cleanup(d)' = Cleanup(d)
    BY StepKeeps, RequestsStay DEF StepOf
  <1>2. ASSUME call'[d].ctas = call[d].ctas
        PROVE  Tracked(d)' = Tracked(d)
    BY <1>1, <1>2 DEF Tracked
  <1>3. CASE d # c
    <2>1. call'[d] = call[d]
      BY <1>3 DEF StepOf, Alone
    <2>2. Tracked(d) \in ToSet(ledger) \cup closer.taken
      BY <2>1 DEF Accounted
    <2> QED
      BY <1>1, <1>2, <2>1, <2>2
  <1>4. CASE d = c
    <2>0. IssuedOf(c) /\ ledger \in Seq(Entries) /\ Tracked(c) \in Entries
      BY TypesAre, TrackedIs DEF Issued
    <2>1. CASE ledger' = Append(ledger, Tracked(c)) /\ call'[c].ctas = call[c].ctas
      <3>1. Tracked(c) \in ToSet(ledger')
        BY <2>0, <2>1, ToSetAppend
      <3> QED
        BY <1>2, <1>4, <2>1, <3>1
    <2>2. CASE Moves(c)
      <3>1. call[c].succeeded /\ call[c].pc # "verify" /\ call'[c].ctas = call[c].ctas
        BY <1>4, <2>2 DEF Moves, Like
      <3>2. Tracked(c) \in ToSet(ledger) \cup closer.taken
        BY <1>4, <3>1 DEF Accounted
      <3> QED
        BY <1>1, <1>2, <1>4, <3>1, <3>2
    <2>3. ~Chooses(c) /\ ~Submits(c) /\ ~Prepared(c)
      BY <1>4, <2>0 DEF Chooses, Submits, Prepared, IssuedOf, Like
    <2>4. Learns(c) \/ Registers(c) => ledger' = Append(ledger, Tracked(c)) /\ call'[c].ctas = call[c].ctas
      BY <1>4 DEF Learns, Registers, Like, Unloads, Raws
    <2> QED
      BY <2>1, <2>2, <2>3, <2>4 DEF StepOf, Kind
  <1> QED
    BY <1>3, <1>4

(* A query that succeeded stays so. *)
LEMMA EntryStays ==
    ASSUME TypeOK, UNCHANGED request, NEW e, NEW q \in DOMAIN queries, EntryOf(e, q),
           queries'[q].state = "succeeded"
    PROVE  EntryOf(e, q)'
  <1>1. q \in Calls \X (0..2)
    BY TypesAre
  <1>2. /\ NameOf(q)' = NameOf(q) /\ PlaceOf(q)' = PlaceOf(q)
        /\ Op(q[1])' = Op(q[1]) /\ Cleanup(q[1])' = Cleanup(q[1])
    BY <1>1, RequestsStay
  <1> QED
    BY <1>2 DEF EntryOf

LEMMA StepBacked ==
    ASSUME TypeOK, Issued, Asked, Backed, NEW c \in Calls, StepOf(c), UNCHANGED request
    PROVE  Backed'
  <1> SUFFICES ASSUME NEW e \in ToSet(ledger') \cup closer'.taken
               PROVE  \E q \in DOMAIN queries' : EntryOf(e, q)'
    BY DEF Backed
  <1>1. \A q \in DOMAIN queries : q \in DOMAIN queries' /\ queries'[q] = queries[q]
    BY StepKeeps
  <1>2. SUFFICES \E q \in DOMAIN queries : EntryOf(e, q)
    <2> SUFFICES ASSUME NEW q \in DOMAIN queries, EntryOf(e, q)
                 PROVE  q \in DOMAIN queries' /\ EntryOf(e, q)'
      BY <1>2
    <2> QED
      BY <1>1, EntryStays DEF EntryOf
  <1>3. CASE e \in ToSet(ledger) \cup closer.taken
    BY <1>3 DEF Backed
  <1>4. CASE e \notin ToSet(ledger) \cup closer.taken
    <2>1. UNCHANGED closer /\ IssuedOf(c) /\ e = Tracked(c) /\ ToSet(ledger') # ToSet(ledger)
      BY <1>4, StepKeeps DEF StepOf, Issued
    <2>2. Registers(c) \/ (Learns(c) /\ Op(c) \in Raws)
      BY <2>1 DEF StepOf, Kind, Chooses, Submits, Prepared, Learns, Moves
    <2>3. /\ QueryOf(c) \in DOMAIN queries /\ queries[QueryOf(c)].ctas = call[c].ctas
          /\ queries[QueryOf(c)].state = "succeeded" /\ call[c].attempt # 0 /\ Op(c) \in Unloads \cup Raws
      BY <2>1, <2>2 DEF Registers, Learns, IssuedOf
    <2>4. e = [table |-> NameOf(QueryOf(c)), location |-> PlaceOf(QueryOf(c)), cleanup |-> Cleanup(c)]
      BY <2>1, <2>3 DEF Tracked, Asked, AskedOf
    <2>5. EntryOf(e, QueryOf(c))
      BY <2>3, <2>4, Asking DEF EntryOf
    <2> QED
      BY <2>3, <2>5
  <1> QED
    BY <1>3, <1>4

(* The tables that are there stay there, and a new one is there. *)
LEMMA TablesStay ==
    ASSUME OtherTablesKept, DOMAIN catalog \subseteq DOMAIN catalog', closer.taken \subseteq closer'.taken,
           \A q \in DOMAIN queries' : queries'[q].state = "succeeded" =>
               \/ q \in DOMAIN queries /\ queries[q].state = "succeeded" /\ queries'[q].ctas = queries[q].ctas
               \/ queries'[q].ctas.table \in DOMAIN catalog' \cup {NoTable}
    PROVE  OtherTablesKept'
  <1>1. ASSUME NEW q \in DOMAIN queries', queries'[q].state = "succeeded", queries'[q].ctas.table # NoTable,
               Meant(queries[q].ctas.table)' = {}
        PROVE  queries'[q].ctas.table \in DOMAIN catalog'
    <2>1. CASE q \in DOMAIN queries /\ queries[q].state = "succeeded" /\ queries'[q].ctas = queries[q].ctas
      <3>1. Meant(queries[q].ctas.table) \subseteq Meant(queries[q].ctas.table)'
        BY <2>1 DEF Meant
      <3> QED
        BY <1>1, <2>1, <3>1 DEF OtherTablesKept
    <2> QED
      BY <1>1, <2>1
  <1>2. \A name \in DOMAIN External.catalog : name \in DOMAIN catalog'
    BY DEF OtherTablesKept
  <1> QED
    BY <1>1, <1>2 DEF OtherTablesKept

LEMMA StepTablesKept ==
    ASSUME TypeOK, Issued, OtherTablesKept, NEW c \in Calls, StepOf(c), UNCHANGED request
    PROVE  OtherTablesKept'
  <1>1. DOMAIN catalog \subseteq DOMAIN catalog' /\ closer.taken \subseteq closer'.taken
    BY DEF StepOf
  <1>2. ASSUME NEW q \in DOMAIN queries', queries'[q].state = "succeeded"
        PROVE  q \in DOMAIN queries /\ queries'[q] = queries[q]
    <2>1. ~(q \in DOMAIN queries' \ DOMAIN queries)
      BY <1>2, StepKeeps DEF Submitted
    <2> QED
      BY <2>1, StepKeeps
  <1> QED
    BY <1>1, <1>2, TablesStay

LEMMA EndsTablesKept ==
    ASSUME TypeOK, OtherTablesKept, NEW q \in DOMAIN queries, QuerySucceeds(q) \/ QueryFails(q)
    PROVE  OtherTablesKept'
  <1>1. Ends(q)
    BY QuerySucceedsDoes, QueryFailsDoes
  <1>2. closer.taken \subseteq closer'.taken
    BY <1>1 DEF Ends
  <1>3. CASE QuerySucceeds(q)
    <2>1. /\ DOMAIN catalog \subseteq DOMAIN catalog'
          /\ queries[q].ctas.table \in DOMAIN catalog' \cup {NoTable}
      <3>1. IF queries[q].ctas.table = NoTable THEN UNCHANGED catalog
            ELSE \E e \in GlueEntries : catalog' = With(catalog, queries[q].ctas.table, e)
        BY <1>3, QuerySucceedsDoes
      <3> QED
        BY <3>1 DEF With
    <2>2. ASSUME NEW p \in DOMAIN queries', queries'[p].state = "succeeded"
          PROVE  \/ p \in DOMAIN queries /\ queries[p].state = "succeeded" /\ queries'[p].ctas = queries[p].ctas
                 \/ queries'[p].ctas.table \in DOMAIN catalog' \cup {NoTable}
      BY <1>1, <2>1, <2>2 DEF Ends
    <2> QED
      BY <1>2, <2>1, <2>2, TablesStay
  <1>4. CASE QueryFails(q)
    <2>1. UNCHANGED catalog /\ queries'[q].state = "failed"
      BY <1>4, QueryFailsDoes
    <2>2. ASSUME NEW p \in DOMAIN queries', queries'[p].state = "succeeded"
          PROVE  p \in DOMAIN queries /\ queries[p].state = "succeeded" /\ queries'[p].ctas = queries[p].ctas
      BY <1>1, <2>1, <2>2 DEF Ends
    <2> QED
      BY <1>2, <2>1, <2>2, TablesStay
  <1> QED
    BY <1>3, <1>4

LEMMA DropTablesKept ==
    ASSUME TypeOK, Asked, Backed, ClosePhase, OtherTablesKept, DropTable
    PROVE  OtherTablesKept'
  <1> DEFINE t == Head(closer.todo)
  <1>1. /\ closer'.taken = closer.taken /\ Deals(t) /\ t \in closer.taken /\ UNCHANGED queries
    BY DropTableDoes, CloseHead
  <1>2. CASE UNCHANGED catalog
    BY <1>1, <1>2, TablesStay
  <1>3. CASE ~UNCHANGED catalog
    <2>1. t.cleanup # "none" /\ DOMAIN catalog' = DOMAIN catalog \ {t.table}
      BY <1>1, <1>3 DEF Deals
    <2>2. t.table \notin DOMAIN External.catalog
      <3>1. PICK q \in DOMAIN queries : EntryOf(t, q)
        BY <1>1 DEF Backed
      <3> QED
        BY <3>1 DEF EntryOf, Asked, AskedOf
    <2>3. \A table : Meant(table)' = Meant(table)
      BY <1>1 DEF Meant
    <2>4. \A table : Meant(table) = {} => table # t.table
      BY <1>1, <2>1 DEF Meant
    <2>5. ASSUME NEW q \in DOMAIN queries', queries'[q].state = "succeeded", queries'[q].ctas.table # NoTable,
                 Meant(queries[q].ctas.table)' = {}
          PROVE  queries'[q].ctas.table \in DOMAIN catalog'
      <3>1. Meant(queries[q].ctas.table) = {}
        BY <1>1, <2>5 DEF Meant
      <3> QED
        BY <1>1, <2>1, <2>4, <2>5, <3>1 DEF OtherTablesKept
    <2>6. \A name \in DOMAIN External.catalog : name \in DOMAIN catalog'
      BY <2>1, <2>2 DEF OtherTablesKept
    <2> QED
      BY <2>5, <2>6 DEF OtherTablesKept
  <1> QED
    BY <1>2, <1>3

-----------------------------------------------------------------------------
(* The slots. *)

SlotsOfApart(c) ==
    /\ Len(call[c].read) = Cardinality(SlotsOf(c)) /\ IsFiniteSet(SlotsOf(c))
    /\ Op(c) \in PerBucket => SlotsOf(c) \subseteq 0 .. call[c].slots - 1
    /\ call[c].pc \notin {"read", "done"} => call[c].read = <<>>

LEMMA NoSlots ==
    ASSUME NEW c \in Calls, call'[c].read = <<>>
    PROVE  SlotsOfApart(c)'
  <1>1. SlotsOf(c)' = {}
    BY DEF SlotsOf, ToSet
  <1>2. Cardinality(SlotsOf(c)') = 0 /\ IsFiniteSet(SlotsOf(c)')
    BY <1>1, FS_EmptySet
  <1>3. Len(call'[c].read) = 0
    OBVIOUS
  <1> QED
    BY <1>1, <1>2, <1>3 DEF SlotsOfApart

LEMMA SameSlots ==
    ASSUME UNCHANGED request, NEW c \in Calls, SlotsOfApart(c), call'[c].read = call[c].read,
           call'[c].slots = call[c].slots, call'[c].pc = call[c].pc
    PROVE  SlotsOfApart(c)'
  <1>1. SlotsOf(c)' = SlotsOf(c) /\ Op(c)' = Op(c)
    BY DEF SlotsOf, Op
  <1> QED
    BY <1>1 DEF SlotsOfApart

LEMMA StepSlots ==
    ASSUME TypeOK, SlotsApart, NEW c \in Calls, StepOf(c), UNCHANGED request
    PROVE  SlotsApart'
  <1>0. \A d \in Calls : SlotsOfApart(d)
    BY DEF SlotsApart, SlotsOfApart
  <1> SUFFICES ASSUME NEW d \in Calls PROVE SlotsOfApart(d)'
    BY DEF SlotsApart, SlotsOfApart
  <1>1. CASE d # c
    <2>1. call'[d] = call[d]
      BY <1>1 DEF StepOf, Alone
    <2> QED
      BY <1>0, <2>1, SameSlots
  <1>2. CASE d = c /\ ReadsNone(c)
    BY <1>2, NoSlots DEF ReadsNone
  <1>3. CASE d = c /\ ReadsOne(c)
    <2>1. call[c].pc = "read" /\ call'[c].slots = call[c].slots /\ Op(c)' = Op(c)
      BY <1>3, RequestsStay DEF ReadsOne
    <2>2. PICK r \in [slot : Int, object : Objects] :
             /\ call'[c].read = Append(call[c].read, r) /\ r.slot \notin SlotsOf(c)
             /\ Op(c) \in PerBucket => r.slot \in 0 .. call[c].slots - 1
      BY <1>3 DEF ReadsOne
    <2>3. call[c].read \in Reads /\ call[c].read \in Seq([slot : Int, object : Objects])
      BY Asking DEF Recorded, Reads
    <2>4. ToSet(call'[c].read) = ToSet(call[c].read) \cup {r}
      <3> DEFINE S == [slot : Int, object : Objects]
                 s == call[c].read
      <3>1. s \in Seq(S) /\ r \in S /\ call'[c].read = Append(s, r)
        BY <2>2, <2>3
      <3> HIDE DEF S, s
      <3>2. ToSet(Append(s, r)) = ToSet(s) \cup {r}
        BY <3>1, ToSetAppend
      <3> QED
        BY <3>1, <3>2 DEF s
    <2>5. SlotsOf(c)' = SlotsOf(c) \cup {r.slot}
      BY <2>4 DEF SlotsOf
    <2>6. Len(call'[c].read) = Len(call[c].read) + 1
      BY <2>2, <2>3
    <2>7. SlotsOfApart(c)
      BY <1>0
    <2>8. /\ Cardinality(SlotsOf(c) \cup {r.slot}) = Cardinality(SlotsOf(c)) + 1
          /\ IsFiniteSet(SlotsOf(c) \cup {r.slot})
      BY <2>2, <2>7, FS_AddElement DEF SlotsOfApart
    <2>9. call'[c].pc \in {"read", "done"}
      BY <1>3 DEF ReadsOne
    <2> QED
      BY <1>3, <2>1, <2>2, <2>5, <2>6, <2>7, <2>8, <2>9 DEF SlotsOfApart
  <1> QED
    BY <1>1, <1>2, <1>3 DEF StepOf

-----------------------------------------------------------------------------
(* The inductive invariant. *)

LEMMA ReadyNow == IInv => Ready
  BY DEF IInv, Issued, IssuedOf, SlotsApart, Ready

LEMMA InvInit == Init => IInv
  <1> SUFFICES ASSUME Init PROVE IInv
    OBVIOUS
  <1>1. TypeOK
    BY TypeInit
  <1>2. /\ \A c \in Calls : call[c].pc = "idle" /\ call[c].succeeded = FALSE /\ call[c].read = <<>>
        /\ ledger = <<>> /\ closer.pc = "idle" /\ closer.todo = <<>> /\ closer.taken = {}
        /\ closer.passed = {} /\ DOMAIN queries = {} /\ catalog = External.catalog
    BY DEF Init
  <1>3. ToSet(ledger) = {} /\ ToSet(closer.todo) = {}
    BY <1>2, ToSetEmpty
  <1>4. Issued
    BY <1>2 DEF Issued, IssuedOf
  <1>5. Asked /\ Accounted /\ Backed /\ ClosePhase /\ OtherTablesKept
    BY <1>2, <1>3 DEF Asked, Accounted, Backed, ClosePhase, OtherTablesKept
  <1>6. ASSUME NEW c \in Calls
        PROVE  SlotsOfApart(c)
    <2>1. SlotsOf(c) = {}
      BY <1>2, ToSetEmpty DEF SlotsOf
    <2>2. Cardinality(SlotsOf(c)) = 0 /\ IsFiniteSet(SlotsOf(c))
      BY <2>1, FS_EmptySet
    <2>3. Len(call[c].read) = 0 /\ call[c].read = <<>>
      BY <1>2
    <2> QED
      BY <2>1, <2>2, <2>3 DEF SlotsOfApart
  <1>7. SlotsApart
    BY <1>6 DEF SlotsApart, SlotsOfApart
  <1> QED
    BY <1>1, <1>4, <1>5, <1>7 DEF IInv

LEMMA StepInv ==
    ASSUME IInv, NEW c \in Calls, Step(c)
    PROVE  IInv'
  <1>1. StepOf(c) /\ UNCHANGED workgroup /\ UNCHANGED request
    BY ReadyNow, StepDoes DEF IInv
  <1>2. TypeOK' /\ Issued' /\ Asked' /\ Accounted' /\ Backed' /\ OtherTablesKept' /\ SlotsApart'
    BY <1>1, StepTyped, StepIssued, StepAsked, StepAccounted, StepBacked, StepTablesKept, StepSlots DEF IInv
  <1>3. ClosePhase'
    BY <1>1 DEF IInv, StepOf, ClosePhase
  <1> QED
    BY <1>2, <1>3 DEF IInv

(* What the other actors do to the calls, the ledger and Close: nothing. *)
LEMMA OthersKeep ==
    ASSUME IInv, UNCHANGED request, UNCHANGED ledger, UNCHANGED closer,
           \A c \in Calls : /\ Like(call'[c], call[c]) /\ call'[c].pc = call[c].pc
                            /\ call'[c].read = call[c].read /\ call'[c].slots = call[c].slots,
           \A q \in DOMAIN queries : q \in DOMAIN queries' /\ (queries[q].state = "succeeded" => queries'[q].state = "succeeded")
    PROVE  Accounted' /\ Backed' /\ ClosePhase' /\ SlotsApart'
  <1>1. Accounted'
    <2> SUFFICES ASSUME NEW c \in Calls, call'[c].succeeded, Op(c) # "query", call'[c].pc # "verify"
                 PROVE  Tracked(c)' \in ToSet(ledger) \cup closer.taken
      BY RequestsStay DEF Accounted
    <2>1. Tracked(c) \in ToSet(ledger) \cup closer.taken
      BY DEF IInv, Accounted, Like
    <2>2. Tracked(c)' = Tracked(c)
      BY RequestsStay DEF Tracked, Like
    <2> QED
      BY <2>1, <2>2
  <1>2. Backed'
    <2> SUFFICES ASSUME NEW e \in ToSet(ledger) \cup closer.taken
                 PROVE  \E q \in DOMAIN queries' : EntryOf(e, q)'
      BY DEF Backed
    <2>1. PICK q \in DOMAIN queries : EntryOf(e, q)
      BY DEF IInv, Backed
    <2>2. q \in DOMAIN queries' /\ queries'[q].state = "succeeded"
      BY <2>1 DEF EntryOf
    <2> QED
      BY <2>1, <2>2, EntryStays DEF IInv
  <1>3. ClosePhase'
    BY DEF IInv, ClosePhase
  <1>4. SlotsApart'
    <2> SUFFICES ASSUME NEW c \in Calls PROVE SlotsOfApart(c)'
      BY DEF SlotsApart, SlotsOfApart
    <2>1. SlotsOfApart(c)
      BY DEF IInv, SlotsApart, SlotsOfApart
    <2> QED
      BY <2>1, SameSlots
  <1> QED
    BY <1>1, <1>2, <1>3, <1>4

LEMMA CancelInv ==
    ASSUME IInv, NEW c \in Calls, Cancel(c)
    PROVE  IInv'
  <1>1. /\ TypeOK /\ Alone(c) /\ Like(call'[c], call[c]) /\ call'[c].pc = call[c].pc
        /\ call'[c].read = call[c].read /\ call'[c].slots = call[c].slots /\ faults' \in 0..MaxFaults
        /\ UNCHANGED workgroup /\ UNCHANGED request /\ UNCHANGED ledger /\ UNCHANGED hiveFallbackOnly
        /\ UNCHANGED closer /\ UNCHANGED queries /\ UNCHANGED catalog /\ UNCHANGED objects
    BY CancelDoes DEF IInv
  <1>2. TypeOK'
    BY <1>1 DEF Alone, TypeOK
  <1>3. Issued'
    BY CancelIssued DEF IInv
  <1>4. Asked'
    <2> SUFFICES ASSUME NEW q \in DOMAIN queries PROVE AskedOf(q)'
      BY <1>1 DEF Asked
    <2> QED
      BY <1>1, AskedStays DEF IInv, Asked
  <1>5. Accounted' /\ Backed' /\ ClosePhase' /\ SlotsApart'
    BY <1>1, OthersKeep DEF Alone, Like
  <1>6. OtherTablesKept'
    BY <1>1, TablesStay DEF IInv
  <1> QED
    BY <1>2, <1>3, <1>4, <1>5, <1>6 DEF IInv

LEMMA EndsInv ==
    ASSUME IInv, NEW q \in DOMAIN queries, QuerySucceeds(q) \/ QueryFails(q)
    PROVE  IInv'
  <1>1. TypeOK /\ Ends(q)
    BY QuerySucceedsDoes, QueryFailsDoes DEF IInv
  <1>2. TypeOK'
    <2>1. /\ queries' = [p \in DOMAIN queries |-> queries'[p]] /\ queries'[q] \in QuerySet
      BY <1>1, QuerySucceedsDoes, QueryFailsDoes DEF QuerySet
    <2>2. \A p \in DOMAIN queries' : p \in Calls \X (0..2) /\ queries'[p] \in QuerySet
      <3>1. \A p \in DOMAIN queries : p \in Calls \X (0..2) /\ queries[p] \in QuerySet
        BY <1>1, TypesAre
      <3> QED
        BY <1>1, <2>1, <3>1 DEF Ends
    <2>3. /\ catalog' = [name \in DOMAIN catalog' |-> catalog'[name]]
          /\ \A name \in DOMAIN catalog' : catalog'[name] \in GlueEntries
      <3>1. /\ catalog = [name \in DOMAIN catalog |-> catalog[name]]
            /\ \A name \in DOMAIN catalog : catalog[name] \in GlueEntries
        BY <1>1, TypesAre
      <3>2. UNCHANGED catalog \/ \E e \in GlueEntries : catalog' = With(catalog, queries[q].ctas.table, e)
        <4>1. CASE QuerySucceeds(q)
          <5>1. IF queries[q].ctas.table = NoTable THEN UNCHANGED catalog
                ELSE \E e \in GlueEntries : catalog' = With(catalog, queries[q].ctas.table, e)
            BY <1>1, <4>1, QuerySucceedsDoes
          <5> QED
            BY <5>1
        <4>2. CASE QueryFails(q)
          BY <1>1, <4>2, QueryFailsDoes
        <4> QED
          BY <4>1, <4>2
      <3> QED
        BY <3>1, <3>2 DEF With
    <2>4. objects' \subseteq Objects
      <3>1. objects \subseteq Objects
        BY <1>1, TypesAre
      <3>2. UNCHANGED objects \/ objects' = objects \cup queries'[q].wrote
        BY <1>1, QuerySucceedsDoes, QueryFailsDoes
      <3> QED
        BY <2>1, <3>1, <3>2 DEF QuerySet
    <2>5. /\ request' \in [Calls -> Requests] /\ call' = [c \in Calls |-> call'[c]] /\ \A c \in Calls : Recorded(call'[c])
          /\ ledger' \in Seq(Entries) /\ hiveFallbackOnly' \in BOOLEAN /\ closer' \in CloserSet
          /\ faults' \in 0..MaxFaults
      BY <1>1, TypesAre DEF Ends
    <2> QED
      BY <2>1, <2>2, <2>3, <2>4, <2>5 DEF TypeOK, QuerySet, CloserSet, Ends
  <1>3. Issued'
    BY <1>1, EndsIssued DEF IInv
  <1>4. Asked'
    BY EndsAsked DEF IInv
  <1>5. Accounted' /\ Backed' /\ ClosePhase' /\ SlotsApart'
    BY <1>1, OthersKeep DEF Ends, Like
  <1>6. OtherTablesKept'
    BY EndsTablesKept DEF IInv
  <1> QED
    BY <1>2, <1>3, <1>4, <1>5, <1>6 DEF IInv

(* What Close leaves of the calls and of the queries: everything. *)
LEMMA CloseKeeps ==
    ASSUME IInv, UNCHANGED workgroup, UNCHANGED request, UNCHANGED call, UNCHANGED hiveFallbackOnly,
           UNCHANGED queries, closer' \in CloserSet, faults' \in 0..MaxFaults,
           ledger' \in Seq(Entries), ToSet(ledger') \cup closer'.taken = ToSet(ledger) \cup closer.taken,
           objects' \subseteq objects,
           UNCHANGED catalog \/ \E t : catalog' = [name \in DOMAIN catalog \ {t} |-> catalog[name]]
    PROVE  TypeOK' /\ Issued' /\ Asked' /\ Accounted' /\ Backed' /\ SlotsApart'
  <1>1. TypeOK'
    <2>1. /\ catalog' = [name \in DOMAIN catalog' |-> catalog'[name]]
          /\ \A name \in DOMAIN catalog' : catalog'[name] \in GlueEntries
      <3>1. /\ catalog = [name \in DOMAIN catalog |-> catalog[name]]
            /\ \A name \in DOMAIN catalog : catalog[name] \in GlueEntries
        BY TypesAre DEF IInv
      <3> QED
        BY <3>1
    <2>2. /\ request' \in [Calls -> Requests] /\ call' = [c \in Calls |-> call'[c]] /\ \A c \in Calls : Recorded(call'[c])
          /\ hiveFallbackOnly' \in BOOLEAN /\ queries' = [q \in DOMAIN queries' |-> queries'[q]]
          /\ \A q \in DOMAIN queries' : q \in Calls \X (0..2) /\ queries'[q] \in QuerySet
          /\ objects' \subseteq Objects
      BY TypesAre DEF IInv
    <2> QED
      BY <2>1, <2>2 DEF TypeOK, QuerySet, CloserSet
  <1>2. Issued'
    <2> SUFFICES ASSUME NEW d \in Calls PROVE IssuedOf(d)'
      BY DEF Issued
    <2> QED
      BY IssuedStays DEF IInv, Issued, Like
  <1>3. Asked'
    <2> SUFFICES ASSUME NEW q \in DOMAIN queries PROVE AskedOf(q)'
      BY DEF Asked
    <2> QED
      BY AskedStays DEF IInv, Asked
  <1>4. Accounted'
    <2> SUFFICES ASSUME NEW c \in Calls, call[c].succeeded, Op(c) # "query", call[c].pc # "verify"
                 PROVE  Tracked(c)' \in ToSet(ledger') \cup closer'.taken
      BY RequestsStay DEF Accounted
    <2>1. Tracked(c) \in ToSet(ledger) \cup closer.taken
      BY DEF IInv, Accounted
    <2>2. Tracked(c)' = Tracked(c)
      BY RequestsStay DEF Tracked
    <2> QED
      BY <2>1, <2>2
  <1>5. Backed'
    <2> SUFFICES ASSUME NEW e \in ToSet(ledger) \cup closer.taken
                 PROVE  \E q \in DOMAIN queries' : EntryOf(e, q)'
      BY DEF Backed
    <2>1. PICK q \in DOMAIN queries : EntryOf(e, q)
      BY DEF IInv, Backed
    <2>2. EntryOf(e, q)'
      BY <2>1, EntryStays DEF IInv, EntryOf
    <2> QED
      BY <2>1, <2>2
  <1>6. SlotsApart'
    <2> SUFFICES ASSUME NEW c \in Calls PROVE SlotsOfApart(c)'
      BY DEF SlotsApart, SlotsOfApart
    <2> QED
      BY SameSlots DEF IInv, SlotsApart, SlotsOfApart
  <1> QED
    BY <1>1, <1>2, <1>3, <1>4, <1>5, <1>6

LEMMA CloseBeginsInv ==
    ASSUME IInv, CloseBegins
    PROVE  IInv'
  <1>1. /\ closer' \in CloserSet /\ closer'.pc = "drop" /\ closer'.todo = ledger /\ SameWalk
        /\ closer'.taken = closer.taken \cup ToSet(ledger) /\ ledger' = <<>>
        /\ UNCHANGED workgroup /\ UNCHANGED request /\ UNCHANGED call /\ UNCHANGED hiveFallbackOnly
        /\ UNCHANGED queries /\ UNCHANGED catalog /\ UNCHANGED objects /\ UNCHANGED faults
    BY CloseBeginsDoes DEF IInv
  <1>2. ToSet(ledger') = {} /\ ledger' \in Seq(Entries) /\ faults' \in 0..MaxFaults
    BY <1>1, ToSetEmpty, TypesAre DEF IInv
  <1>3. TypeOK' /\ Issued' /\ Asked' /\ Accounted' /\ Backed' /\ SlotsApart'
    BY <1>1, <1>2, CloseKeeps
  <1>4. ClosePhase'
    BY <1>1 DEF IInv, ClosePhase, SameWalk
  <1>5. OtherTablesKept'
    BY <1>1, TablesStay DEF IInv
  <1> QED
    BY <1>3, <1>4, <1>5 DEF IInv

LEMMA DropTableInv ==
    ASSUME IInv, DropTable
    PROVE  IInv'
  <1> DEFINE t == Head(closer.todo)
  <1>1. /\ closer' \in CloserSet /\ closer'.taken = closer.taken /\ Walks
        /\ closer.pc = "drop" /\ closer.todo # <<>> /\ Deals(t) /\ faults' \in 0..MaxFaults
        /\ UNCHANGED workgroup /\ UNCHANGED request /\ UNCHANGED call /\ UNCHANGED ledger
        /\ UNCHANGED hiveFallbackOnly /\ UNCHANGED queries /\ UNCHANGED objects
    BY DropTableDoes DEF IInv
  <1>2. ToSet(closer.todo) = {t} \cup ToSet(Tail(closer.todo)) /\ t \in closer.taken
    BY <1>1, CloseHead DEF IInv
  <1>3. UNCHANGED catalog \/ \E name \in {t.table} : catalog' = [n \in DOMAIN catalog \ {name} |-> catalog[n]]
    BY <1>1 DEF Deals
  <1>4. TypeOK' /\ Issued' /\ Asked' /\ Accounted' /\ Backed' /\ SlotsApart'
    <2>1. ledger \in Seq(Entries)
      BY TypesAre DEF IInv
    <2> QED
      BY <1>1, <1>3, <2>1, CloseKeeps
  <1>5. ClosePhase'
    <2>1. \/ closer'.pc = "drop" /\ closer'.todo = Tail(closer.todo)
          \/ closer'.pc = "delete" /\ closer'.todo = closer.todo /\ t.cleanup = "all"
      BY <1>1 DEF Deals
    <2>2. CASE closer'.pc = "drop" /\ closer'.todo = Tail(closer.todo)
      BY <1>1, <1>2, <2>2 DEF IInv, ClosePhase, Walks
    <2>3. CASE closer'.pc = "delete" /\ closer'.todo = closer.todo /\ t.cleanup = "all"
      BY <1>1, <2>3 DEF IInv, ClosePhase, Walks
    <2> QED
      BY <2>1, <2>2, <2>3
  <1>6. OtherTablesKept'
    BY DropTablesKept DEF IInv
  <1> QED
    BY <1>4, <1>5, <1>6 DEF IInv

LEMMA DeletePrefixInv ==
    ASSUME IInv, DeletePrefix
    PROVE  IInv'
  <1> DEFINE t == Head(closer.todo)
  <1>1. /\ closer' \in CloserSet /\ closer'.taken = closer.taken /\ Walks
        /\ closer.todo # <<>> /\ t.cleanup = "all" /\ Deletes(t) /\ faults' \in 0..MaxFaults
        /\ UNCHANGED workgroup /\ UNCHANGED request /\ UNCHANGED call /\ UNCHANGED ledger
        /\ UNCHANGED hiveFallbackOnly /\ UNCHANGED queries /\ UNCHANGED catalog
    BY DeletePrefixDoes DEF IInv
  <1>2. ToSet(closer.todo) = {t} \cup ToSet(Tail(closer.todo))
    BY <1>1, CloseHead DEF IInv
  <1>3. objects' \subseteq objects /\ ledger \in Seq(Entries)
    BY <1>1, TypesAre DEF Deletes, IInv
  <1>4. TypeOK' /\ Issued' /\ Asked' /\ Accounted' /\ Backed' /\ SlotsApart'
    BY <1>1, <1>3, CloseKeeps
  <1>5. ClosePhase'
    <2>1. \/ closer'.pc = "drop" /\ closer'.todo = Tail(closer.todo)
          \/ closer'.pc = "delete" /\ closer'.todo = closer.todo
      BY <1>1 DEF Deletes
    <2>2. CASE closer'.pc = "drop" /\ closer'.todo = Tail(closer.todo)
      BY <1>1, <1>2, <2>2 DEF IInv, ClosePhase, Walks
    <2>3. CASE closer'.pc = "delete" /\ closer'.todo = closer.todo
      BY <1>1, <2>3 DEF IInv, ClosePhase, Walks
    <2> QED
      BY <2>1, <2>2, <2>3
  <1>6. OtherTablesKept'
    BY <1>1, TablesStay DEF IInv
  <1> QED
    BY <1>4, <1>5, <1>6 DEF IInv

LEMMA CloseReturnsInv ==
    ASSUME IInv, CloseReturns
    PROVE  IInv'
  <1>1. /\ closer' \in CloserSet /\ closer'.taken = closer.taken
        /\ closer'.todo = <<>> /\ closer'.pc = "idle" /\ SameWalk
        /\ UNCHANGED workgroup /\ UNCHANGED request /\ UNCHANGED call /\ UNCHANGED ledger
        /\ UNCHANGED hiveFallbackOnly /\ UNCHANGED queries /\ UNCHANGED catalog /\ UNCHANGED objects
        /\ UNCHANGED faults
    BY CloseReturnsDoes DEF IInv
  <1>2. ledger \in Seq(Entries) /\ faults' \in 0..MaxFaults /\ ToSet(closer'.todo) = {}
    BY <1>1, TypesAre, ToSetEmpty DEF IInv
  <1>3. TypeOK' /\ Issued' /\ Asked' /\ Accounted' /\ Backed' /\ SlotsApart'
    BY <1>1, <1>2, CloseKeeps
  <1>4. ClosePhase'
    BY <1>1, <1>2 DEF IInv, ClosePhase, SameWalk
  <1>5. OtherTablesKept'
    BY <1>1, TablesStay DEF IInv
  <1> QED
    BY <1>3, <1>4, <1>5 DEF IInv

LEMMA StutterInv ==
    ASSUME IInv, UNCHANGED vars
    PROVE  IInv'
  <1>1. /\ UNCHANGED workgroup /\ UNCHANGED request /\ UNCHANGED call /\ UNCHANGED ledger
        /\ UNCHANGED hiveFallbackOnly /\ UNCHANGED closer /\ UNCHANGED queries /\ UNCHANGED catalog
        /\ UNCHANGED objects /\ UNCHANGED faults
    BY DEF vars, client, services
  <1>2. ledger \in Seq(Entries) /\ faults' \in 0..MaxFaults /\ closer' \in CloserSet
    BY <1>1, TypesAre DEF IInv
  <1>3. TypeOK' /\ Issued' /\ Asked' /\ Accounted' /\ Backed' /\ SlotsApart'
    BY <1>1, <1>2, CloseKeeps
  <1>4. ClosePhase'
    BY <1>1 DEF IInv, ClosePhase
  <1>5. OtherTablesKept'
    BY <1>1, TablesStay DEF IInv
  <1> QED
    BY <1>3, <1>4, <1>5 DEF IInv

LEMMA InvNext == IInv /\ [Next]_vars => IInv'
  BY StepInv, CancelInv, EndsInv, CloseBeginsInv, DropTableInv, DeletePrefixInv, CloseReturnsInv, StutterInv
  DEF Next

LEMMA Invariance == Spec => []IInv
  BY InvInit, InvNext, PTL DEF Spec

-----------------------------------------------------------------------------
(* Names and places, where the callers keep theirs apart. *)

LEMMA PrefixAgrees ==
    ASSUME NEW S, NEW s \in Seq(S), NEW t \in Seq(S), IsPrefix(s, t)
    PROVE  Len(s) <= Len(t) /\ \A i \in 1..Len(s) : s[i] = t[i]
  <1>1. Len(s) <= Len(t) /\ SubSeq(s, 1, Len(s)) = SubSeq(t, 1, Len(s))
    BY DEF IsPrefix
  <1>2. ASSUME NEW i \in 1..Len(s)
        PROVE  s[i] = t[i]
    <2>1. SubSeq(s, 1, Len(s))[i] = s[i] /\ SubSeq(t, 1, Len(s))[i] = t[i]
      BY <1>1
    <2> QED
      BY <1>1, <2>1
  <1> QED
    BY <1>1, <1>2

LEMMA PrefixOfItself ==
    ASSUME NEW S, NEW s \in Seq(S)
    PROVE  IsPrefix(s, s)
  BY DEF IsPrefix

LEMMA SlashIs ==
    ASSUME NEW l \in Path
    PROVE  /\ WithSlash(l) \in Path /\ IsPrefix(l, WithSlash(l))
           /\ l # <<>> => WithSlash(l) # <<>> /\ WithSlash(l)[1] = l[1] /\ Len(WithSlash(l)) \in Nat \ {0}
           /\ l # <<>> /\ Last(l) = "/" => WithSlash(l) = l
  <1>1. WithSlash(l) \in Path /\ Len(l) \in Nat
    BY WithSlashIs DEF Path
  <1>2. CASE WithSlash(l) = l
    <2>1. IsPrefix(l, l)
      BY PrefixOfItself DEF Path
    <2>2. l # <<>> => Len(l) \in Nat \ {0}
      BY DEF Path
    <2> QED
      BY <1>1, <1>2, <2>1, <2>2
  <1>3. CASE WithSlash(l) # l
    <2>1. WithSlash(l) = Append(l, "/") /\ l # <<>> /\ Last(l) # "/"
      BY <1>3 DEF WithSlash
    <2> DEFINE m == Append(l, "/")
    <2>2. /\ Len(m) = Len(l) + 1 /\ \A i \in 1..Len(l) : m[i] = l[i]
      BY <1>1 DEF Path
    <2>3. SubSeq(l, 1, Len(l)) = SubSeq(m, 1, Len(l))
      <3>1. SubSeq(l, 1, Len(l)) = [i \in 1..Len(l) |-> l[i]] /\ SubSeq(m, 1, Len(l)) = [i \in 1..Len(l) |-> m[i]]
        BY <1>1 DEF Path
      <3> HIDE DEF m
      <3> QED
        BY <2>2, <3>1
    <2>4. IsPrefix(l, m)
      BY <1>1, <2>2, <2>3 DEF IsPrefix
    <2>5. Len(l) \in Nat \ {0} /\ m # <<>> /\ m[1] = l[1] /\ Len(m) \in Nat \ {0}
      <3>1. Len(l) \in Nat \ {0}
        BY <2>1 DEF Path
      <3>2. 1 \in 1..Len(l)
        BY <3>1
      <3> QED
        BY <2>2, <3>1, <3>2
    <2> QED
      BY <1>1, <2>1, <2>4, <2>5
  <1> QED
    BY <1>2, <1>3

Query == Calls \X (0..2)

\* A query that a call of this request may make.
Askable(q) == q \in Query /\ Op(q[1]) # "open" /\ ~Refused(q[1]) /\ (q[2] # 1 => Op(q[1]) \in Unloads)
\* One that makes a table that the ledger may hold.
Making(q) == Askable(q) /\ q[2] # 0 /\ Op(q[1]) \in Unloads \cup Raws

LEMMA QueriesAskable ==
    ASSUME TypeOK, Issued, NEW q \in DOMAIN queries
    PROVE  Askable(q)
  <1>1. q \in Query /\ q = <<q[1], q[2]>> /\ q[1] \in Calls /\ q[2] \in 0..2
    BY TypesAre DEF Query
  <1>2. IssuedOf(q[1])
    BY <1>1 DEF Issued
  <1> QED
    BY <1>1, <1>2 DEF IssuedOf, Askable

LEMMA AttemptsDiffer ==
    ASSUME NEW a \in 0..2, NEW b \in 0..2, Attempts[a] = Attempts[b]
    PROVE  a = b
  BY DEF Attempts

(* No two queries make the same table. *)
LEMMA NamesDiffer ==
    ASSUME TypeOK, NamesApart(request), NEW q, NEW e, Askable(q), Making(e), NameOf(q) = NameOf(e)
    PROVE  q = e
  <1>1. /\ q = <<q[1], q[2]>> /\ e = <<e[1], e[2]>>
        /\ q[1] \in Calls /\ q[2] \in 0..2 /\ e[1] \in Calls /\ e[2] \in 1..2
    BY DEF Askable, Making, Query
  <1> DEFINE raws == {c \in Calls : request[c].op \in Raws /\ request[c].location # <<>>}
  <1>2. \A p : Askable(p) /\ Op(p[1]) \in Raws => p[1] \in raws /\ p[2] = 1
    BY DEF Askable, Query, Refused, Op, Raws, Unloads
  <1>3. \A c \in raws : /\ request[c].table # NoTable
                        /\ \A d \in Calls, a \in 1..2 : request[c].table # <<"gobi", d, Attempts[a]>>
    BY DEF NamesApart
  <1>4. \A c, d \in raws : c # d => request[c].table # request[d].table
    BY DEF NamesApart
  <1> HIDE DEF raws
  <1>5. CASE Op(e[1]) \in Unloads
    <2>1. NameOf(e) = <<"gobi", e[1], Attempts[e[2]]>>
      BY <1>1, <1>5 DEF NameOf, Unloads
    <2>2. NameOf(q) # NoTable
      BY <2>1 DEF NoTable
    <2>3. q[2] # 0 /\ Op(q[1]) # "query"
      BY <2>2 DEF NameOf
    <2>4. CASE Op(q[1]) \in Unloads
      <3>1. NameOf(q) = <<"gobi", q[1], Attempts[q[2]]>>
        BY <2>3, <2>4 DEF NameOf
      <3>2. q[1] = e[1] /\ Attempts[q[2]] = Attempts[e[2]]
        BY <2>1, <3>1
      <3>3. q[2] = e[2]
        BY <1>1, <3>2, AttemptsDiffer
      <3> QED
        BY <1>1, <3>2, <3>3
    <2>5. CASE Op(q[1]) \notin Unloads
      <3>1. Op(q[1]) \in Raws /\ q[1] \in raws
        BY <1>1, <1>2, <2>3, <2>5, OpIs DEF Askable
      <3>2. NameOf(q) = request[q[1]].table
        BY <2>3, <2>5 DEF NameOf
      <3> QED
        BY <1>1, <1>3, <2>1, <3>1, <3>2
    <2> QED
      BY <2>4, <2>5
  <1>6. CASE Op(e[1]) \in Raws
    <2>1. NameOf(e) = request[e[1]].table /\ e[1] \in raws /\ e[2] = 1
      BY <1>1, <1>2, <1>6 DEF NameOf, Making, Unloads, Raws
    <2>2. NameOf(q) # NoTable
      BY <1>3, <2>1
    <2>3. q[2] # 0 /\ Op(q[1]) # "query"
      BY <2>2 DEF NameOf
    <2>4. CASE Op(q[1]) \in Unloads
      <3>1. NameOf(q) = <<"gobi", q[1], Attempts[q[2]]>> /\ q[2] \in 1..2
        BY <1>1, <2>3, <2>4 DEF NameOf
      <3> QED
        BY <1>1, <1>3, <2>1, <3>1
    <2>5. CASE Op(q[1]) \notin Unloads
      <3>1. Op(q[1]) \in Raws /\ q[1] \in raws /\ q[2] = 1
        BY <1>1, <1>2, <2>3, <2>5, OpIs DEF Askable
      <3>2. NameOf(q) = request[q[1]].table
        BY <2>3, <2>5 DEF NameOf
      <3>3. q[1] = e[1]
        BY <1>4, <2>1, <3>1, <3>2
      <3> QED
        BY <1>1, <2>1, <3>1, <3>3
    <2> QED
      BY <2>4, <2>5
  <1> QED
    BY <1>5, <1>6 DEF Making

(* The composed places end in a slash. *)
LEMMA Slashed ==
    ASSUME NEW c, NEW a
    PROVE  /\ WithSlash(<<"results", "/">>) = <<"results", "/">>
           /\ WithSlash(<<"results", "/", c, a, "/">>) = <<"results", "/", c, a, "/">>
           /\ WithSlash(<<"workgroup", "/", c, a, "/">>) = <<"workgroup", "/", c, a, "/">>
  BY DEF WithSlash, Last

LEMMA PlaceIs ==
    ASSUME TypeOK, NEW q \in Query
    PROVE  PlaceOf(q) \in Path
  <1>1. q[1] \in Calls /\ q[2] \in 0..2 /\ request[q[1]] \in Requests
    BY DEF TypeOK, Query
  <1>2. request[q[1]].location \in Path
    BY <1>1 DEF Requests
  <1> QED
    BY <1>1, <1>2, Names DEF PlaceOf

(* A prefix of a non-empty sequence's kind begins as it does. *)
LEMMA PrefixBegins ==
    ASSUME NEW S, NEW s \in Seq(S), NEW t \in Seq(S), IsPrefix(s, t), s # <<>>
    PROVE  s[1] = t[1]
  <1>1. 1 \in 1..Len(s)
    BY s # <<>>
  <1> QED
    BY <1>1, PrefixAgrees

(* No query writes under the place of another's table. *)
LEMMA PlacesDiffer ==
    ASSUME TypeOK, NamesApart(request), NEW q, NEW e, Askable(q), Making(e),
           NEW ctas, ctas.location = PlaceOf(q),
           IsPrefix(WithSlash(PlaceOf(e)), WithSlash(Target(q, ctas)))
    PROVE  q = e
  <1>1. /\ q = <<q[1], q[2]>> /\ e = <<e[1], e[2]>> /\ q \in Query /\ e \in Query
        /\ q[1] \in Calls /\ q[2] \in 0..2 /\ e[1] \in Calls /\ e[2] \in 1..2
    BY DEF Askable, Making, Query
  <1> DEFINE raws == {c \in Calls : request[c].op \in Raws /\ request[c].location # <<>>}
             placed == WithSlash(PlaceOf(e))
             target == WithSlash(Target(q, ctas))
  <1>2. \A p : Askable(p) /\ Op(p[1]) \in Raws => p[1] \in raws /\ p[2] = 1
    BY DEF Askable, Query, Refused, Op, Raws, Unloads
  <1>3. \A c \in raws : request[c].location[1] \notin {"results", "workgroup"} /\ request[c].location # <<>>
    BY DEF NamesApart
  <1>4. \A c, d \in raws :
           c # d => ~IsPrefix(WithSlash(request[c].location), WithSlash(request[d].location))
    BY DEF NamesApart
  <1> HIDE DEF raws
  <1>5. /\ PlaceOf(e) \in Path /\ PlaceOf(q) \in Path /\ placed \in Path
        /\ Target(q, ctas) \in Path /\ target \in Path
    <2>1. PlaceOf(e) \in Path /\ PlaceOf(q) \in Path
      BY <1>1, PlaceIs
    <2>2. Target(q, ctas) \in Path
      BY <1>1, <2>1, Names DEF Target
    <2> QED
      BY <2>1, <2>2, WithSlashIs
  <1>6. Len(placed) <= Len(target) /\ \A i \in 1..Len(placed) : placed[i] = target[i]
    BY <1>5, PrefixAgrees DEF Path
  <1>7. CASE Op(e[1]) \in Unloads
    <2>1. placed = <<"results", "/", e[1], Attempts[e[2]], "/">>
      <3>1. PlaceOf(e) = <<"results", "/", e[1], Attempts[e[2]], "/">>
        BY <1>1, <1>7 DEF PlaceOf, Unloads
      <3> QED
        BY <3>1, Slashed
    <2>2. /\ target[1] = "results" /\ target[3] = e[1] /\ target[4] = Attempts[e[2]]
          /\ Len(target) >= 5
      BY <1>6, <2>1
    <2>3. ~workgroup.enforced
      <3> SUFFICES ASSUME workgroup.enforced PROVE FALSE
        OBVIOUS
      <3>1. target = <<"workgroup", "/", q[1], Attempts[q[2]], "/">>
        BY Slashed DEF Target
      <3> QED
        BY <2>2, <3>1
    <2>4. target = WithSlash(PlaceOf(q))
      BY <2>3 DEF Target
    <2>5. q[2] # 0 /\ Op(q[1]) # "query"
      <3> SUFFICES ASSUME q[2] = 0 \/ Op(q[1]) = "query" PROVE FALSE
        OBVIOUS
      <3>1. target = <<"results", "/">>
        BY <2>4, Slashed DEF PlaceOf
      <3> QED
        BY <2>2, <3>1
    <2>6. CASE Op(q[1]) \in Unloads
      <3>1. target = <<"results", "/", q[1], Attempts[q[2]], "/">>
        BY <2>4, <2>5, <2>6, Slashed DEF PlaceOf
      <3>2. q[1] = e[1] /\ Attempts[q[2]] = Attempts[e[2]]
        BY <2>2, <3>1
      <3>3. q[2] = e[2]
        BY <1>1, <3>2, AttemptsDiffer
      <3> QED
        BY <1>1, <3>2, <3>3
    <2>7. CASE Op(q[1]) \notin Unloads
      <3>1. q[1] \in raws
        BY <1>1, <1>2, <2>5, <2>7, OpIs DEF Askable
      <3>2. PlaceOf(q) = request[q[1]].location
        BY <2>5, <2>7 DEF PlaceOf
      <3>3. target[1] = request[q[1]].location[1]
        BY <1>3, <1>5, <2>4, <3>1, <3>2, SlashIs
      <3> QED
        BY <1>3, <2>2, <3>1, <3>3
    <2> QED
      BY <2>6, <2>7
  <1>8. CASE Op(e[1]) \in Raws
    <2>1. PlaceOf(e) = request[e[1]].location /\ e[1] \in raws /\ e[2] = 1
      BY <1>1, <1>2, <1>8 DEF PlaceOf, Making, Unloads, Raws
    <2>2. placed # <<>> /\ placed[1] \notin {"results", "workgroup"}
      BY <1>3, <1>5, <2>1, SlashIs
    <2>3. target[1] \notin {"results", "workgroup"}
      BY <1>5, <2>2, PrefixBegins DEF Path
    <2>4. ~workgroup.enforced
      <3> SUFFICES ASSUME workgroup.enforced PROVE FALSE
        OBVIOUS
      <3>1. target = <<"workgroup", "/", q[1], Attempts[q[2]], "/">>
        BY Slashed DEF Target
      <3> QED
        BY <2>3, <3>1
    <2>5. target = WithSlash(PlaceOf(q))
      BY <2>4 DEF Target
    <2>6. q[2] # 0 /\ Op(q[1]) # "query"
      <3> SUFFICES ASSUME q[2] = 0 \/ Op(q[1]) = "query" PROVE FALSE
        OBVIOUS
      <3>1. target = <<"results", "/">>
        BY <2>5, Slashed DEF PlaceOf
      <3> QED
        BY <2>3, <3>1
    <2>7. CASE Op(q[1]) \in Unloads
      <3>1. target = <<"results", "/", q[1], Attempts[q[2]], "/">>
        BY <2>5, <2>6, <2>7, Slashed DEF PlaceOf
      <3> QED
        BY <2>3, <3>1
    <2>8. CASE Op(q[1]) \notin Unloads
      <3>1. q[1] \in raws /\ q[2] = 1
        BY <1>1, <1>2, <2>6, <2>8, OpIs DEF Askable
      <3>2. PlaceOf(q) = request[q[1]].location
        BY <2>6, <2>8 DEF PlaceOf
      <3>3. q[1] = e[1]
        BY <1>4, <2>1, <2>5, <3>1, <3>2
      <3> QED
        BY <1>1, <2>1, <3>1, <3>3
    <2> QED
      BY <2>7, <2>8
  <1> QED
    BY <1>7, <1>8 DEF Making

(* The query of a table that Close has taken is the only one to have made that *)
(* table, or to have written there.                                            *)
LEMMA TakenApart ==
    ASSUME IInv, NamesApart(request), NEW e \in closer.taken, NEW q \in DOMAIN queries,
           \/ queries[q].ctas.table = e.table
           \/ IsPrefix(WithSlash(e.location), WithSlash(Target(q, queries[q].ctas)))
    PROVE  EntryOf(e, q)
  <1>1. PICK p \in DOMAIN queries : EntryOf(e, p)
    BY DEF IInv, Backed
  <1>2. TypeOK /\ Askable(q) /\ Making(p)
    BY <1>1, QueriesAskable DEF IInv, Making, EntryOf
  <1>3. e.table = NameOf(p) /\ e.location = PlaceOf(p)
    BY <1>1 DEF EntryOf
  <1>4. queries[q].ctas.table = NameOf(q) /\ queries[q].ctas.location = PlaceOf(q)
    BY DEF IInv, Asked, AskedOf
  <1>5. q = p
    BY <1>2, <1>3, <1>4, NamesDiffer, PlacesDiffer
  <1> QED
    BY <1>1, <1>5

-----------------------------------------------------------------------------
(* Close, where the callers keep their names apart. *)

KInv == IInv /\ NamesApart(request) /\ Dropped /\ OtherFilesKept

\* What a table under its entry in the ledger has lost stays lost.
StaysGone == \A e \in closer.taken : Gone(e) => Gone(e)'

LEMMA DroppedStays ==
    ASSUME Dropped, StaysGone, UNCHANGED closer,
           closer.pc = "delete" /\ Head(closer.todo).table \notin DOMAIN catalog =>
               Head(closer.todo).table \notin DOMAIN catalog'
    PROVE  Dropped'
  BY DEF Dropped, StaysGone

LEMMA ApartStays ==
    ASSUME NamesApart(request), UNCHANGED request
    PROVE  NamesApart(request)'
  BY DEF NamesApart

(* The files are there that were, and the new ones; Close has taken as much. *)
LEMMA FilesStay ==
    ASSUME OtherFilesKept, closer.taken \subseteq closer'.taken, objects \subseteq objects',
           \A q \in DOMAIN queries' :
               \/ q \in DOMAIN queries /\ queries'[q].wrote = queries[q].wrote /\ queries'[q].ctas = queries[q].ctas
               \/ queries'[q].wrote \subseteq objects'
    PROVE  OtherFilesKept'
  <1> SUFFICES ASSUME \A e \in closer'.taken : e.cleanup = "all" => Last(e.location) = "/",
                      NEW q \in DOMAIN queries'
               PROVE  \/ queries'[q].wrote \subseteq objects'
                      \/ \E e \in Meant(queries[q].ctas.table)' : e.cleanup = "all"
    BY DEF OtherFilesKept
  <1>1. CASE q \in DOMAIN queries /\ queries'[q].wrote = queries[q].wrote /\ queries'[q].ctas = queries[q].ctas
    <2>1. \/ queries[q].wrote \subseteq objects
          \/ \E e \in Meant(queries[q].ctas.table) : e.cleanup = "all"
      BY <1>1 DEF OtherFilesKept
    <2>2. Meant(queries[q].ctas.table) \subseteq Meant(queries[q].ctas.table)'
      BY <1>1 DEF Meant
    <2> QED
      BY <1>1, <2>1, <2>2
  <1> QED
    BY <1>1

LEMMA KInit == Init /\ (\A s \in Scenarios : NamesApart(s.request)) => KInv
  <1> SUFFICES ASSUME Init, \A s \in Scenarios : NamesApart(s.request) PROVE KInv
    OBVIOUS
  <1>1. IInv /\ NamesApart(request)
    BY InvInit DEF Init
  <1>2. closer.taken = {} /\ closer.pc = "idle" /\ DOMAIN queries = {}
    BY DEF Init
  <1>3. Dropped /\ OtherFilesKept
    BY <1>2 DEF Dropped, OtherFilesKept
  <1> QED
    BY <1>1, <1>3 DEF KInv

LEMMA StepKept ==
    ASSUME KInv, NEW c \in Calls, Step(c)
    PROVE  KInv'
  <1>1. IInv' /\ StepOf(c) /\ UNCHANGED request
    BY StepInv, ReadyNow, StepDoes DEF KInv, IInv
  <1>2. UNCHANGED closer /\ UNCHANGED catalog /\ UNCHANGED objects
    BY <1>1 DEF StepOf
  <1>3. NamesApart(request)'
    BY <1>1, ApartStays DEF KInv
  <1>4. StaysGone
    BY <1>2 DEF StaysGone, Gone
  <1>5. Dropped'
    BY <1>2, <1>4, DroppedStays DEF KInv
  <1>6. OtherFilesKept'
    <2>1. ASSUME NEW q \in DOMAIN queries'
          PROVE  \/ q \in DOMAIN queries /\ queries'[q] = queries[q]
                 \/ queries'[q].wrote = {}
      <3>1. TypeOK
        BY DEF KInv, IInv
      <3>2. CASE q \in DOMAIN queries
        BY <1>1, <3>1, <3>2, StepKeeps DEF KInv, IInv
      <3>3. CASE q \notin DOMAIN queries
        BY <1>1, <3>1, <3>3, StepKeeps DEF KInv, IInv, Submitted
      <3> QED
        BY <3>2, <3>3
    <2>2. ASSUME NEW q \in DOMAIN queries'
          PROVE  \/ q \in DOMAIN queries /\ queries'[q].wrote = queries[q].wrote /\ queries'[q].ctas = queries[q].ctas
                 \/ queries'[q].wrote \subseteq objects'
      BY <2>1
    <2> QED
      BY <1>2, <2>2, FilesStay DEF KInv
  <1> QED
    BY <1>1, <1>3, <1>5, <1>6 DEF KInv

LEMMA CancelKept ==
    ASSUME KInv, NEW c \in Calls, Cancel(c)
    PROVE  KInv'
  <1>1. /\ IInv' /\ UNCHANGED request /\ UNCHANGED closer /\ UNCHANGED queries
        /\ UNCHANGED catalog /\ UNCHANGED objects
    BY CancelInv, CancelDoes DEF KInv, IInv
  <1>2. NamesApart(request)'
    BY <1>1, ApartStays DEF KInv
  <1>3. StaysGone
    BY <1>1 DEF StaysGone, Gone
  <1>4. Dropped'
    BY <1>1, <1>3, DroppedStays DEF KInv
  <1>5. OtherFilesKept'
    BY <1>1, FilesStay DEF KInv
  <1> QED
    BY <1>1, <1>2, <1>4, <1>5 DEF KInv

LEMMA QuerySucceedsKept ==
    ASSUME KInv, NEW q \in DOMAIN queries, QuerySucceeds(q)
    PROVE  KInv'
  <1> DEFINE table == queries[q].ctas.table
             place == Target(q, queries[q].ctas)
  <1>1. /\ TypeOK /\ Ends(q)
        /\ IF table = NoTable THEN UNCHANGED catalog
           ELSE \E e \in GlueEntries : catalog' = With(catalog, table, e)
        /\ objects' = objects \cup queries'[q].wrote
        /\ \A o \in queries'[q].wrote : o.dir = WithSlash(place)
    BY QuerySucceedsDoes DEF KInv, IInv
  <1>2. /\ IInv' /\ UNCHANGED request /\ UNCHANGED closer /\ queries[q].state = "running"
    BY <1>1, EndsInv DEF KInv, Ends
  <1>3. NamesApart(request)'
    BY <1>2, ApartStays DEF KInv
  <1>4. ASSUME NEW e \in closer.taken
        PROVE  e.table # table /\ ~IsPrefix(WithSlash(e.location), WithSlash(place))
    <2>1. ~EntryOf(e, q)
      BY <1>2 DEF EntryOf
    <2> QED
      BY <2>1, TakenApart DEF KInv
  <1>5. \A name \in DOMAIN catalog' : name \in DOMAIN catalog \/ name = table
    BY <1>1 DEF With
  <1>6. StaysGone
    <2> SUFFICES ASSUME NEW e \in closer.taken, Gone(e) PROVE Gone(e)'
      BY DEF StaysGone
    <2>1. e.table \notin DOMAIN catalog'
      BY <1>4, <1>5 DEF Gone
    <2>2. ASSUME e.cleanup = "all", NEW o \in objects', o.dir = WithSlash(e.location), o \notin closer.kept
          PROVE  FALSE
      <3>1. o \in queries'[q].wrote
        BY <1>1, <2>2 DEF Gone
      <3>2. WithSlash(e.location) = WithSlash(place)
        BY <1>1, <2>2, <3>1
      <3>3. WithSlash(place) \in Path
        BY <1>1, TargetIs, WithSlashIs
      <3>4. IsPrefix(WithSlash(place), WithSlash(place))
        BY <3>3, PrefixOfItself DEF Path
      <3> QED
        BY <1>4, <3>2, <3>4
    <2> QED
      BY <1>2, <2>1, <2>2 DEF Gone
  <1>7. Dropped'
    <2>1. closer.pc = "delete" => Head(closer.todo) \in closer.taken
      BY CloseHead DEF KInv, IInv, ClosePhase
    <2>2. closer.pc = "delete" /\ Head(closer.todo).table \notin DOMAIN catalog =>
              Head(closer.todo).table \notin DOMAIN catalog'
      BY <1>4, <1>5, <2>1
    <2> QED
      BY <1>2, <1>6, <2>2, DroppedStays DEF KInv
  <1>8. OtherFilesKept'
    <2>1. ASSUME NEW p \in DOMAIN queries'
          PROVE  \/ p \in DOMAIN queries /\ queries'[p].wrote = queries[p].wrote /\ queries'[p].ctas = queries[p].ctas
                 \/ queries'[p].wrote \subseteq objects'
      BY <1>1 DEF Ends
    <2> QED
      BY <1>1, <1>2, <2>1, FilesStay DEF KInv
  <1> QED
    BY <1>2, <1>3, <1>7, <1>8 DEF KInv

LEMMA QueryFailsKept ==
    ASSUME KInv, NEW q \in DOMAIN queries, QueryFails(q)
    PROVE  KInv'
  <1>1. /\ Ends(q) /\ queries'[q].wrote = queries[q].wrote
        /\ UNCHANGED catalog /\ UNCHANGED objects
    BY QueryFailsDoes DEF KInv, IInv
  <1>2. IInv' /\ UNCHANGED request /\ UNCHANGED closer
    BY <1>1, EndsInv DEF KInv, Ends
  <1>3. NamesApart(request)'
    BY <1>2, ApartStays DEF KInv
  <1>4. StaysGone
    BY <1>1, <1>2 DEF StaysGone, Gone
  <1>5. Dropped'
    BY <1>1, <1>2, <1>4, DroppedStays DEF KInv
  <1>6. OtherFilesKept'
    <2>1. ASSUME NEW p \in DOMAIN queries'
          PROVE  p \in DOMAIN queries /\ queries'[p].wrote = queries[p].wrote /\ queries'[p].ctas = queries[p].ctas
      BY <1>1 DEF Ends
    <2> QED
      BY <1>1, <1>2, <2>1, FilesStay DEF KInv
  <1> QED
    BY <1>2, <1>3, <1>5, <1>6 DEF KInv

LEMMA CloseBeginsKept ==
    ASSUME KInv, CloseBegins
    PROVE  KInv'
  <1>1. /\ IInv' /\ closer.pc = "idle" /\ closer'.pc = "drop" /\ closer'.todo = ledger
        /\ closer'.taken = closer.taken \cup ToSet(ledger) /\ closer'.failed = closer.failed /\ SameWalk
        /\ UNCHANGED request /\ UNCHANGED queries /\ UNCHANGED catalog /\ UNCHANGED objects
    BY CloseBeginsInv, CloseBeginsDoes DEF KInv, IInv
  <1>2. NamesApart(request)'
    BY <1>1, ApartStays DEF KInv
  <1>3. Dropped'
    <2>1. ToSet(closer.todo) = {}
      BY <1>1, ToSetEmpty DEF KInv, IInv, ClosePhase
    <2>2. ASSUME NEW e \in closer'.taken \ closer'.failed, e.cleanup # "none"
          PROVE  Gone(e)' \/ e \in ToSet(closer'.todo)
      <3>1. CASE e \in closer.taken
        <4>1. Gone(e)
          BY <1>1, <2>1, <2>2, <3>1 DEF KInv, Dropped
        <4> QED
          BY <1>1, <4>1 DEF Gone, SameWalk
      <3>2. CASE e \in ToSet(ledger)
        BY <1>1, <3>2
      <3> QED
        BY <1>1, <2>2, <3>1, <3>2
    <2> QED
      BY <1>1, <2>2 DEF Dropped
  <1>4. OtherFilesKept'
    BY <1>1, FilesStay DEF KInv
  <1> QED
    BY <1>1, <1>2, <1>3, <1>4 DEF KInv

LEMMA DropTableKept ==
    ASSUME KInv, DropTable
    PROVE  KInv'
  <1> DEFINE t == Head(closer.todo)
  <1>1. /\ IInv' /\ closer'.taken = closer.taken /\ Walks /\ closer.pc = "drop" /\ closer.todo # <<>> /\ Deals(t)
        /\ UNCHANGED request /\ UNCHANGED queries /\ UNCHANGED objects
    BY DropTableInv, DropTableDoes DEF KInv, IInv
  <1>2. ToSet(closer.todo) = {t} \cup ToSet(Tail(closer.todo))
    BY <1>1, CloseHead DEF KInv, IInv
  <1>3. NamesApart(request)'
    BY <1>1, ApartStays DEF KInv
  <1>4. DOMAIN catalog' \subseteq DOMAIN catalog
    BY <1>1 DEF Deals
  <1>5. \A e : Gone(e) => Gone(e)'
    BY <1>1, <1>4 DEF Gone, Walks
  <1>6. Dropped'
    <2>1. ASSUME NEW e \in closer'.taken \ closer'.failed, e.cleanup # "none"
          PROVE  Gone(e)' \/ e \in ToSet(closer'.todo)
      <3>1. e \in closer.taken \ closer.failed
        BY <1>1, <2>1 DEF Deals
      <3>2. CASE Gone(e) \/ e \in ToSet(Tail(closer.todo))
        <4>1. e \in ToSet(Tail(closer.todo)) => e \in ToSet(closer'.todo)
          BY <1>1, <1>2 DEF Deals
        <4> QED
          BY <1>5, <3>2, <4>1
      <3>3. CASE ~(Gone(e) \/ e \in ToSet(Tail(closer.todo)))
        <4>1. e = t
          BY <1>2, <2>1, <3>1, <3>3 DEF KInv, Dropped
        <4>2. CASE t.cleanup = "all"
          BY <1>1, <1>2, <2>1, <4>1, <4>2 DEF Deals
        <4>3. CASE t.cleanup # "all"
          <5>1. t.table \notin DOMAIN catalog'
            BY <1>1, <2>1, <4>1, <4>3 DEF Deals
          <5> QED
            BY <4>1, <4>3, <5>1 DEF Gone
        <4> QED
          BY <4>2, <4>3
      <3> QED
        BY <3>2, <3>3
    <2>2. closer'.pc = "delete" => Head(closer'.todo).table \notin DOMAIN catalog'
      BY <1>1 DEF Deals
    <2> QED
      BY <2>1, <2>2 DEF Dropped
  <1>7. OtherFilesKept'
    BY <1>1, FilesStay DEF KInv
  <1> QED
    BY <1>1, <1>3, <1>6, <1>7 DEF KInv

LEMMA DeletePrefixKept ==
    ASSUME KInv, DeletePrefix
    PROVE  KInv'
  <1> DEFINE t == Head(closer.todo)
  <1>1. /\ IInv' /\ TypeOK /\ closer'.taken = closer.taken /\ Walks /\ closer.pc = "delete" /\ closer.todo # <<>>
        /\ t.cleanup = "all" /\ Deletes(t)
        /\ UNCHANGED request /\ UNCHANGED queries /\ UNCHANGED catalog
    BY DeletePrefixInv, DeletePrefixDoes DEF KInv, IInv
  <1>2. ToSet(closer.todo) = {t} \cup ToSet(Tail(closer.todo)) /\ t \in closer.taken /\ t \in Entries
    BY <1>1, CloseHead DEF KInv, IInv
  <1>3. NamesApart(request)'
    BY <1>1, ApartStays DEF KInv
  <1>4. objects' \subseteq objects /\ objects \ objects' \subseteq Under(t.location)
    BY <1>1 DEF Deletes
  <1>5. \A e : Gone(e) => Gone(e)'
    BY <1>1, <1>4 DEF Gone, Walks
  <1>6. t.location \in Path
    BY <1>2 DEF Entries
  <1>7. Dropped'
    <2>1. ASSUME NEW e \in closer'.taken \ closer'.failed, e.cleanup # "none"
          PROVE  Gone(e)' \/ e \in ToSet(closer'.todo)
      <3>1. e \in closer.taken \ closer.failed
        BY <1>1, <2>1 DEF Deletes
      <3>2. CASE Gone(e) \/ e \in ToSet(Tail(closer.todo))
        <4>1. e \in ToSet(Tail(closer.todo)) => e \in ToSet(closer'.todo)
          BY <1>1, <1>2 DEF Deletes
        <4> QED
          BY <1>5, <3>2, <4>1
      <3>3. CASE ~(Gone(e) \/ e \in ToSet(Tail(closer.todo)))
        <4>1. e = t
          BY <1>2, <2>1, <3>1, <3>3 DEF KInv, Dropped
        <4>2. CASE closer'.todo = closer.todo
          BY <1>2, <4>1, <4>2
        <4>3. CASE closer'.todo # closer.todo
          <5>1. closer'.pc = "drop" /\ objects' \cap Under(t.location) \subseteq closer'.kept
            BY <1>1, <2>1, <4>1, <4>3 DEF Deletes, Walks, KInv, IInv, ClosePhase
          <5>2. {o \in objects' : o.dir = WithSlash(t.location)} \subseteq closer'.kept
            <6>1. IsPrefix(t.location, WithSlash(t.location))
              BY <1>6, SlashIs
            <6> QED
              BY <1>4, <5>1, <6>1 DEF Under
          <5>3. t.table \notin DOMAIN catalog'
            BY <1>1 DEF KInv, Dropped
          <5> QED
            BY <4>1, <5>2, <5>3 DEF Gone
        <4> QED
          BY <4>2, <4>3
      <3> QED
        BY <3>2, <3>3
    <2>2. closer'.pc = "delete" => Head(closer'.todo).table \notin DOMAIN catalog'
      <3>1. closer'.pc = "delete" => closer'.todo = closer.todo
        BY <1>1 DEF Deletes
      <3> QED
        BY <1>1, <3>1 DEF KInv, Dropped
    <2> QED
      BY <2>1, <2>2 DEF Dropped
  <1>8. OtherFilesKept'
    <2> SUFFICES ASSUME \A e \in closer.taken : e.cleanup = "all" => Last(e.location) = "/",
                        NEW q \in DOMAIN queries
                 PROVE  \/ queries[q].wrote \subseteq objects'
                        \/ \E e \in Meant(queries[q].ctas.table)' : e.cleanup = "all"
      BY <1>1 DEF OtherFilesKept
    <2>1. Meant(queries[q].ctas.table)' = Meant(queries[q].ctas.table)
      BY <1>1 DEF Meant
    <2>2. CASE \E e \in Meant(queries[q].ctas.table) : e.cleanup = "all"
      BY <2>1, <2>2
    <2>3. CASE ~\E e \in Meant(queries[q].ctas.table) : e.cleanup = "all"
      <3>1. queries[q].wrote \subseteq objects
        BY <2>3 DEF KInv, OtherFilesKept
      <3>2. ASSUME NEW o \in queries[q].wrote, o \notin objects'
            PROVE  FALSE
        <4>1. IsPrefix(t.location, o.dir) /\ o.dir = WithSlash(Target(q, queries[q].ctas))
          BY <1>4, <3>1, <3>2 DEF Under, KInv, IInv, Asked, AskedOf
        <4>2. WithSlash(t.location) = t.location
          BY <1>1, <1>2 DEF WithSlash
        <4>3. EntryOf(t, q)
          BY <1>2, <4>1, <4>2, TakenApart DEF KInv
        <4>4. t \in Meant(queries[q].ctas.table)
          BY <1>1, <1>2, <4>3 DEF Meant, EntryOf, KInv, IInv, Asked, AskedOf
        <4> QED
          BY <1>1, <2>3, <4>4
      <3> QED
        BY <3>2
    <2> QED
      BY <2>2, <2>3
  <1> QED
    BY <1>1, <1>3, <1>7, <1>8 DEF KInv

LEMMA CloseReturnsKept ==
    ASSUME KInv, CloseReturns
    PROVE  KInv'
  <1>1. /\ IInv' /\ closer'.taken = closer.taken /\ closer'.failed = closer.failed /\ SameWalk
        /\ closer.todo = closer'.todo /\ closer'.pc = "idle"
        /\ UNCHANGED request /\ UNCHANGED queries /\ UNCHANGED catalog /\ UNCHANGED objects
    BY CloseReturnsInv, CloseReturnsDoes DEF KInv, IInv
  <1>2. NamesApart(request)'
    BY <1>1, ApartStays DEF KInv
  <1>3. \A e : Gone(e) => Gone(e)'
    BY <1>1 DEF Gone, SameWalk
  <1>4. Dropped'
    BY <1>1, <1>3 DEF KInv, Dropped
  <1>5. OtherFilesKept'
    BY <1>1, FilesStay DEF KInv
  <1> QED
    BY <1>1, <1>2, <1>4, <1>5 DEF KInv

LEMMA StutterKept ==
    ASSUME KInv, UNCHANGED vars
    PROVE  KInv'
  <1>1. /\ UNCHANGED request /\ UNCHANGED closer /\ UNCHANGED queries /\ UNCHANGED catalog
        /\ UNCHANGED objects
    BY DEF vars, client, services
  <1>2. IInv' /\ NamesApart(request)'
    BY <1>1, StutterInv, ApartStays DEF KInv
  <1>3. StaysGone
    BY <1>1 DEF StaysGone, Gone
  <1>4. Dropped'
    BY <1>1, <1>3, DroppedStays DEF KInv
  <1>5. OtherFilesKept'
    BY <1>1, FilesStay DEF KInv
  <1> QED
    BY <1>2, <1>4, <1>5 DEF KInv

LEMMA KNext == KInv /\ [Next]_vars => KInv'
  BY StepKept, CancelKept, QuerySucceedsKept, QueryFailsKept, CloseBeginsKept, DropTableKept,
     DeletePrefixKept, CloseReturnsKept, StutterKept
  DEF Next

-----------------------------------------------------------------------------
(* The theorems. *)

\* The client, its ledger and the services are of their types.
THEOREM TypeCorrect == Spec => []TypeOK
  <1>1. IInv => TypeOK
    BY DEF IInv
  <1> QED
    BY <1>1, Invariance, PTL

\* A call that saw its CTAS succeed has entered its table in the ledger before it
\* returns, whatever it returns, and there the table stays until a Close takes it
\* (unload.go: verify, then registerTable, then the verdict).
THEOREM NoTableIsLost == Spec => []TablesAccounted
  <1>1. IInv => TablesAccounted
    BY DEF IInv, TablesAccounted, Accounted, Over, At
  <1> QED
    BY <1>1, Invariance, PTL

\* No table is dropped that no Close was asked to drop: while Close has taken no
\* entry of that name which it is to clean up, a table that a query made is in the
\* catalog, and the tables of others are there whatever happens.
THEOREM OthersTablesAreKept == Spec => []OtherTablesKept
  <1>1. IInv => OtherTablesKept
    BY DEF IInv
  <1> QED
    BY <1>1, Invariance, PTL

\* No two files that a call has read share a slot, so populateBucketResults
\* overwrites no bucket, and a call by bucket fills no slot beyond its buckets.
THEOREM EachFileHasItsSlot == Spec => []SlotsApart
  <1>1. IInv => SlotsApart
    BY DEF IInv
  <1> QED
    BY <1>1, Invariance, PTL

\* Close keeps its word, for callers who use each name and each directory of their
\* own once: what it took is gone when it has returned, unless it reported it or S3
\* kept a file, and nothing else is; no table and no file of another query goes with it, and no
\* query that ends later brings one back.
THEOREM CloseDropsWhatItTook ==
    ASSUME \A s \in Scenarios : NamesApart(s.request)
    PROVE  Spec => []CloseKeepsItsWord
  <1>1. Init => KInv
    BY KInit
  <1>2. KInv => CloseKeepsItsWord
    <2> SUFFICES ASSUME KInv PROVE CloseKeepsItsWord
      OBVIOUS
    <2>1. TakenAreGone
      <3>1. closer.pc = "idle" => ToSet(closer.todo) = {}
        BY ToSetEmpty DEF KInv, IInv, ClosePhase
      <3> QED
        BY <3>1 DEF TakenAreGone, KInv, Dropped
    <2> QED
      BY <2>1 DEF CloseKeepsItsWord, KInv, IInv
  <1> QED
    BY <1>1, <1>2, KNext, PTL DEF Spec
=============================================================================
