------------------------------ MODULE Documents ------------------------------
(***************************************************************************)
(* The document API handlers call (runtime/database.go) on one table:      *)
(* insert, patch, replace, delete, and the pages of a listing, while the   *)
(* secrets rotate and deployments are switched.                            *)
(*                                                                         *)
(* Every action is one call, in a transaction of its own: a listing takes  *)
(* one per page.  A call that throws changes nothing and is no step.       *)
(***************************************************************************)
EXTENDS Filters, TLC

CONSTANTS
    RawIDs, Table,     \* row ids and the table, naturals
    Fields, Indexes,   \* the schema: a validator of every field, sequences of paths
    Contents, Patches, \* objects handlers insert, and update documents with
    Queries,           \* listings handlers ask for
    FirstArguments,    \* arguments clients begin one with
    NoPredicate, NoCursor, NoRow,
    MaxTime, MaxWrites, MaxRotations, MaxDeployments,  \* bounds of the model
    MaxBytes           \* of the documents of a page

VARIABLES
    rows,        \* raw id -> what is stored, or NoRow
    used,        \* raw ids drawn so far
    now,         \* the clock
    secrets,        \* the secrets (pbvex_schema_state)
    deployment,  \* the active one
    older,       \* raw ids of rows stored by earlier versions
    pager,       \* a client that lists a query page by page
    touched,     \* rows written since it began
    writes       \* number of writes

vars == <<rows, used, now, secrets, deployment, older, pager, touched, writes>>

-----------------------------------------------------------------------------
(* Secrets.  The cursor keys are 1, 2, ..; the identity root is 0. *)
Identity == 0
Unset == [namespace |-> Root, legacyNamespace |-> Root + 1, currentID |-> 0, current |-> NoKey,
          previous |-> NoKey, idKeyID |-> 0, id |-> NoKey, legacy |-> NoKey]
Older == [Unset EXCEPT !.currentID = 1, !.current = 1]  \* before identities had a secret

Default(x, unset, default) == IF x = unset THEN default ELSE x
EnsureActiveState(r) ==
    LET current == Default(r.current, NoKey, 1)
    IN  [r EXCEPT !.current = current, !.currentID = Default(@, 0, 1),
                  !.id = Default(@, NoKey, Identity), !.idKeyID = Default(@, 0, 1),
                  !.legacy = Default(@, NoKey, current)]

FirstRing == EnsureActiveState(Unset)

(* The ids a row may have been handed out with, a new one after each rotation;
   before, they were signed by the cursor secret, and then by the root itself. *)
OldTokens(raw) ==
    {[token |-> [v |-> 1, k |-> 1, n |-> Unset.legacyNamespace, t |-> Table, r |-> raw, mac |-> <<1>>]],
     [token |-> [v |-> 2, k |-> 1, n |-> Root, t |-> Table, r |-> raw, mac |-> <<Identity>>]]}

Ids(raw) ==
    {EncodeID([secrets EXCEPT !.idKeyID = k], Table, raw) : k \in 1 .. secrets.idKeyID}
        \cup IF raw \in older THEN OldTokens(raw) ELSE {}

-----------------------------------------------------------------------------
(* Documents. *)
WithSystemFields(fields) == fields @@ ("_id" :> [type |-> "id", table |-> Table])
                                   @@ ("_creationTime" :> [type |-> "number"])
SystemFields == WithSystemFields(Fields)

Normalized(object) == NormalizeDocument(Fields, object, secrets)
Stored(data, created) ==
    [data |-> data, order |-> OrderData(Fields, data, secrets), created |-> created]
Storable(row) ==
    \A path \in DOMAIN row.order : Invalid \notin {row.order[path].key, row.order[path].equality}

DocumentOf(r, raw, row) ==
    row.data @@ ("_id" :> EncodeID(r, Table, raw)) @@ ("_creationTime" :> Number(row.created))

Live == {raw \in RawIDs : rows[raw] # NoRow}

(* The row an id names, Null when it is gone, and what handlers get of it. *)
RecordOf(x) ==
    IF ~VerifyID(secrets, x.token) \/ x.token.t # Table THEN Invalid
    ELSE IF rows[x.token.r] = NoRow THEN Null ELSE rows[x.token.r]

Get(x) ==
    IF RecordOf(x) \in {Invalid, Null} THEN RecordOf(x)
    ELSE [object |-> DocumentOf(secrets, x.token.r, RecordOf(x))]
NormalizeID(x) == IF ValidIDForTable(secrets, x, Table) THEN x ELSE Null

-----------------------------------------------------------------------------
(* Queries: [function, fresh, index, bounds, descending, predicate, size].  The
   function that asks passes its pagination options on, or makes fresh ones. *)

Equalities(bounds) == SelectSeq(bounds, LAMBDA b : b.op = "eq")

(* Equalities on a prefix of the index, then a range of the next field. *)
BoundsInOrder(index, bounds) ==
    LET n == Len(Equalities(bounds))
    IN  \A i \in DOMAIN bounds :
          /\ bounds[i].path = index[IF i <= n THEN i ELSE n + 1]
          /\ i <= n <=> bounds[i].op = "eq"
          /\ \A j \in DOMAIN bounds :
               n < i /\ i < j => bounds[i].op \in {"gt", "gte"} /\ bounds[j].op \in {"lt", "lte"}

IndexKey(path, x) == OrderKey(FieldValidator(Fields, path), x, secrets)

Indexed(q) ==
    /\ q.index \in Indexes \cup {<<>>}
    /\ \A path \in ToSet(q.index) : IndexableValidator(FieldValidator(Fields, path))
    /\ BoundsInOrder(q.index, q.bounds)
    /\ \A b \in ToSet(q.bounds) : IndexKey(b.path, b.value) # Invalid

Buildable(q) ==
    /\ q.index # <<>> => Indexed(q)
    /\ q.predicate # NoPredicate => Accepted(SystemFields, q.predicate)

InRange(q, row) ==
    \A b \in ToSet(q.bounds) : HoldsKeys(b.op, row.order[b.path].key, IndexKey(b.path, b.value))

(* What rows are ordered by: the keys of the index, the creation time, the id. *)
Tuple(q, raw, row) ==
    [i \in DOMAIN q.index |-> row.order[q.index[i]].key] \o <<Key(0, <<row.created>>), Key(0, <<raw>>)>>

Keyset_NoTie(s, t) ==
    \E i \in 1 .. Len(s) - 1 : KeyLess(s[i], t[i]) /\ \A j \in 1 .. i - 1 : s[j] = t[j]
Keyset(s, t) == \E i \in DOMAIN s : KeyLess(s[i], t[i]) /\ \A j \in 1 .. i - 1 : s[j] = t[j]
Before(q, s, t) == IF q.descending THEN Keyset(t, s) ELSE Keyset(s, t)

Selected(q, cursor) ==
    {raw \in Live :
       /\ InRange(q, rows[raw])
       /\ q.predicate # NoPredicate =>
            Matches(SystemFields, secrets, DocumentOf(secrets, raw, rows[raw]), q.predicate)
       /\ cursor # NoCursor => Before(q, cursor.tuple, Tuple(q, raw, rows[raw]))}

RecordQuery(q, cursor) ==
    SetToSortSeq(Selected(q, cursor),
                 LAMBDA a, b : Before(q, Tuple(q, a, rows[a]), Tuple(q, b, rows[b])))

(* The first documents, and whether there are more; an error, no answer at all,
   when they are too large.
   A document counts as many bytes as it has fields. *)
FirstDocuments(found, limit) ==
    [page |-> SubSeq(found, 1, IF Len(found) < limit THEN Len(found) ELSE limit),
     extra |-> Len(found) > limit]
Bytes(page) == FoldSeq(LAMBDA raw, sum : sum + Cardinality(DOMAIN rows[raw].data), 0, page)
BoundedDocuments(q, limit, cursor) ==
    {found \in {FirstDocuments(RecordQuery(q, cursor), limit)} : Bytes(found.page) <= MaxBytes}

-----------------------------------------------------------------------------
(* Cursors.  The arguments of a handler hold a cursor at two places: in the
   options the handler lists with, and in a value of the application.  A
   handler passes the options on, or makes an object of its own of them. *)
Arguments(options, own) == [options |-> options, own |-> own]
CursorValue(c) == [cursor |-> c]

QueryHash(q, args) == [deployment |-> deployment, args |-> args, query |-> q]

UniqueArgumentCursorPath(args, c) ==
    LET places == {p \in DOMAIN args : args[p] = CursorValue(c)}
    IN  IF Cardinality(places) = 1 THEN places ELSE {}

CursorPlaces_All(args, q, c) == {p \in DOMAIN args : args[p] = CursorValue(c)}
CursorPlaces(args, q, c) ==
    IF q.fresh THEN UniqueArgumentCursorPath(args, c)
    ELSE {p \in {"options"} : args[p] = CursorValue(c)}

(* Null where the cursor was, or nothing. *)
RedactArgumentCursor(args, places, x) == [p \in DOMAIN args |-> IF p \in places THEN x ELSE args[p]]
CursorArgumentBindings(args, q, c) ==
    {args} \cup {RedactArgumentCursor(args, CursorPlaces(args, q, c), x) : x \in {Null, Missing}}

CursorKeys(k) ==
    {key \in {secrets.current} : k = secrets.currentID}
        \cup {key \in {secrets.previous} \ {NoKey} : k = secrets.currentID - 1}

EncodeCursor(hash, tuple) ==
    [k |-> secrets.currentID, hash |-> hash, tuple |-> tuple, mac |-> secrets.current]

DecodeCursor(c, hashes) == c.hash \in hashes /\ c.mac \in CursorKeys(c.k)

-----------------------------------------------------------------------------
Idle == [phase |-> "idle"]

(* A new installation, or an older one that holds a row whose ids were made by
   the versions before. *)
Init ==
    /\ secrets \in {EnsureActiveState(Unset), EnsureActiveState(Older)}
    /\ now = 0 /\ deployment = 1 /\ writes = 0
    /\ pager = Idle /\ touched = {}
    /\ older \in SUBSET RawIDs /\ Cardinality(older) <= 1 /\ used = older
    /\ rows \in [RawIDs -> {NoRow} \cup {Stored(x.object, 0) :
                                         x \in {Normalized(o) : o \in Contents} \ {Invalid}}]
    /\ Live = older

(* Ids in a document are ids a handler was given. *)
Known(object) ==
    \A f \in DOMAIN object :
       Is(object[f], "token") => \E raw \in used : object[f] \in Ids(raw)

Touching(raw) == IF pager.phase = "idle" THEN {} ELSE touched \cup {raw}

Write(raw, row) ==
    /\ rows' = [rows EXCEPT ![raw] = row]
    /\ touched' = Touching(raw)
    /\ writes' = writes + 1

Insert(object) ==
    /\ writes < MaxWrites /\ Known(object) /\ Normalized(object) # Invalid
    /\ \E row \in {Stored(Normalized(object).object, now)}, raw \in RawIDs \ used :
         /\ Storable(row) /\ Write(raw, row)
         /\ used' = used \cup {raw}
    /\ UNCHANGED <<now, secrets, deployment, older, pager>>

Updated(row, data) == Stored(data, row.created)

(* Patched fields over the base, the whole normalised again. *)
WriteUpdate(raw, base, object) ==
    /\ DOMAIN object \cap {"_id", "_creationTime"} = {} /\ Known(object)
    /\ \E merged \in {Normalized(object @@ base)} \ {Invalid} :
         \E row \in {Updated(rows[raw], merged.object)} : Storable(row) /\ Write(raw, row)
    /\ UNCHANGED <<used, now, secrets, deployment, older, pager>>

Writable(id) == writes < MaxWrites /\ RecordOf(id) \notin {Invalid, Null}
Patch(id, object) == Writable(id) /\ WriteUpdate(id.token.r, rows[id.token.r].data, object)
Replace(id, object) == Writable(id) /\ WriteUpdate(id.token.r, <<>>, object)

Delete(id) ==
    /\ Writable(id) /\ Write(id.token.r, NoRow)
    /\ UNCHANGED <<used, now, secrets, deployment, older, pager>>

(* One page, and a cursor at its last document when there are more. *)
NextCursor(q, hash, found) ==
    IF found.extra
    THEN EncodeCursor(hash, Tuple(q, Last(found.page), rows[Last(found.page)])) ELSE NoCursor

Page(q, own, hash, cursor, seen) ==
    /\ \E found \in BoundedDocuments(q, q.size, cursor) :
         pager' = [phase |-> IF found.extra THEN "paging" ELSE "done", query |-> q, own |-> own,
                   seen |-> seen \o found.page, cursor |-> NextCursor(q, hash, found)]
    /\ UNCHANGED <<rows, used, now, secrets, deployment, older, writes>>

StartPaging(q, args) ==
    /\ pager.phase = "idle" /\ Buildable(q)
    /\ Page(q, args.own, QueryHash(q, args), NoCursor, <<>>)
    /\ touched' = {}

(* The client hands the cursor in, with whatever other arguments; the handler
   makes whatever query of them. *)
NextPage(q, own) ==
    /\ Buildable(q)
    /\ LET c == pager.cursor
           args == Arguments(CursorValue(c), own)
       IN  /\ DecodeCursor(c, {QueryHash(q, a) : a \in CursorArgumentBindings(args, q, c)})
           /\ Page(q, own, c.hash, c, pager.seen)
    /\ UNCHANGED touched

Abandon ==
    /\ pager.phase # "idle" /\ pager' = Idle /\ touched' = {}
    /\ UNCHANGED <<rows, used, now, secrets, deployment, older, writes>>

Tick ==
    /\ now < MaxTime /\ now' = now + 1
    /\ UNCHANGED <<rows, used, secrets, deployment, older, pager, touched, writes>>

(* An operator: the current secret becomes the previous one. *)
Rotate ==
    /\ secrets.currentID <= MaxRotations
    /\ secrets' = [secrets EXCEPT !.previous = secrets.current, !.current = secrets.current + 1,
                            !.currentID = @ + 1, !.idKeyID = @ + 1]
    /\ UNCHANGED <<rows, used, now, deployment, older, pager, touched, writes>>

Activate ==
    /\ deployment < MaxDeployments /\ deployment' = deployment + 1
    /\ UNCHANGED <<rows, used, now, secrets, older, pager, touched, writes>>

(* Whichever of its ids a document is written by: they all name it (IdsResolve). *)
AnyId(raw) == EncodeID(secrets, Table, raw)

Next ==
    \/ \E object \in Contents : Insert(object)
    \/ \E raw \in used, object \in Patches : Patch(AnyId(raw), object)
    \/ \E raw \in used, object \in Patches : Replace(AnyId(raw), object)
    \/ \E raw \in used : Delete(AnyId(raw))
    \/ \E q \in Queries, args \in FirstArguments : StartPaging(q, args)
    \/ /\ pager.phase = "paging"
       /\ \E q \in Queries, own \in {a.own : a \in FirstArguments} \cup {CursorValue(pager.cursor)} :
            NextPage(q, own)
    \/ Abandon
    \/ Tick
    \/ Rotate
    \/ Activate

Spec == Init /\ [][Next]_vars

-----------------------------------------------------------------------------
(* What is stored is what the schema asks for, and ids are for rows there were. *)
TypeOK ==
    /\ used \subseteq RawIDs /\ Live \subseteq used
    /\ \A raw \in Live : rows[raw].created \in 0 .. MaxTime
    /\ older \subseteq used
    /\ touched \subseteq used /\ writes \in 0 .. MaxWrites
    /\ deployment \in 1 .. MaxDeployments /\ now \in 0 .. MaxTime

(* What a listing says, of documents alone: those in the range that the filter
   is true of, by the values of the index, then by age, then by id. *)
Within(q, data) ==
    \A b \in ToSet(q.bounds) : HoldsKeys(b.op, MeaningKey(ValueAt(data, b.path)), MeaningKey(b.value))

Means(e, raw) == Meaning(DocumentOf(secrets, raw, rows[raw]), e) = Bool(TRUE)

Rank(q, raw) ==
    [i \in DOMAIN q.index |-> MeaningKey(ValueAt(rows[raw].data, q.index[i]))]
        \o <<Key(0, <<rows[raw].created>>), Key(0, <<raw>>)>>

Precedes(q, a, b) ==
    LET s == Rank(q, IF q.descending THEN b ELSE a)
        t == Rank(q, IF q.descending THEN a ELSE b)
        i == CHOOSE i \in DOMAIN s : s[i] # t[i] /\ \A j \in 1 .. i - 1 : s[j] = t[j]
    IN  s # t /\ KeyLess(s[i], t[i])

Listing(q, among) ==
    SetToSortSeq({raw \in among : /\ Within(q, rows[raw].data)
                                  /\ q.predicate # NoPredicate => Means(q.predicate, raw)},
                 LAMBDA a, b : Precedes(q, a, b))

(* Page by page a client gets every document the query describes, once and in
   its order, and stops at the last: whatever is written, and whichever secrets
   rotate, between two pages, for every document not itself written since the
   first.  paginate, boundedDocuments, keysetExpression, orderColumns. *)
PagesExact ==
    pager.phase # "idle" =>
        LET shown == SelectSeq(pager.seen, LAMBDA raw : raw \notin touched)
            expected == Listing(pager.query, Live \ touched)
        IN  IsPrefix(shown, expected) /\ (pager.phase = "done" => shown = expected)

(* A cursor continues the query it was handed out for, under the deployment it
   was handed out by and with the same other arguments: those a handler derives
   its query from, and checks access by.  cursorArgumentBindings,
   uniqueArgumentCursorPath, redactArgumentCursor, queryHash. *)
ContinuesSameQuery ==
    [][(pager.phase = "paging" /\ pager'.phase # "idle" /\ pager' # pager) =>
          /\ pager'.query = pager.query /\ pager'.own = pager.own
          /\ deployment = pager.cursor.hash.deployment]_pager

(* Every id that was ever handed out gets its document, under the id it has now,
   or nothing once that is deleted, and stays an id of the table: however often
   secrets have rotated, and from whichever version the installation came.
   verifyID, encodeID, record, get, normalizeID, ensureActiveState. *)
IdsResolve ==
    \A raw \in used : \A id \in Ids(raw) :
       /\ NormalizeID(id) = id
       /\ Get(id) = IF rows[raw] = NoRow THEN Null ELSE [object |-> DocumentOf(secrets, raw, rows[raw])]

(* On which documents the filters that are accepted select what they say. *)
Exact(fields, e, doc) ==
    \/ Uneven(doc, e) \/ Sql(fields, FirstRing, doc, e) = Invalid
    \/ Matches(fields, FirstRing, doc, e) = (Meaning(doc, e) = Bool(TRUE))

Comparable(fields, predicates) == {e \in predicates : Accepted(fields, e) /\ ~LeftToSQLite(fields, e)}

ExactData(fields, predicates, objects) ==
    {data \in objects :
       \A e \in Comparable(fields, predicates), raw \in RawIDs, created \in 0 .. MaxTime :
          Exact(fields, e, DocumentOf(FirstRing, raw, [data |-> data, created |-> created]))}

(* What may come to be stored, after two updates. *)
Rewritten(fields, objects, patches) ==
    LET Objects(xs) == {x.object : x \in {NormalizeDocument(fields, x, FirstRing) : x \in xs} \ {Invalid}}
    IN  Objects(objects) \cup Objects(patches) \cup Objects({p @@ o : p \in patches, o \in objects})
=============================================================================
