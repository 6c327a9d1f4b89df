------------------------------- MODULE Values -------------------------------
(***************************************************************************)
(* Wire values, the validators of a schema, and the keys documents are     *)
(* ordered and compared by (schema/validator.go, schema/order.go, and the  *)
(* identifiers of runtime/database.go).                                    *)
(*                                                                         *)
(* A value is a record of one field, named for its kind: numbers are       *)
(* integers, strings are sequences of characters (naturals), and the       *)
(* string of a document id is a token, whose signature is the sequence of  *)
(* the keys it was made with.  A validator is a record with a type.        *)
(* Limits of size and depth are left out.                                  *)
(***************************************************************************)
EXTENDS Integers, Sequences, SequencesExt

CONSTANTS
    Root,  \* the namespace of the application itself
    NoKey  \* the previous secret before the first rotation

Missing == [missing |-> TRUE]   \* a field that is not there
Invalid == [invalid |-> TRUE]   \* an error
Null == [null |-> TRUE]

Is(x, kind) == DOMAIN x = {kind}
IsString(x) == Is(x, "string") \/ Is(x, "token")

Wrappers == {"optional", "defaulted"}

-----------------------------------------------------------------------------
(* Identifiers.  The ring holds the cursor secrets (current, previous and the
   number of the current one), the identity root, and the root old ids were
   signed with. *)

(* Signed with a key derived from the root and the version k. *)
EncodeID(ring, table, raw) ==
    [token |-> [v |-> 2, k |-> ring.idKeyID, n |-> ring.namespace, t |-> table, r |-> raw,
                mac |-> <<ring.id, ring.idKeyID>>]]

ValidNamespace(ring, p) ==
    \/ p.v = 2 /\ p.n = ring.namespace
    \/ p.v = 1 /\ ring.namespace = Root /\ p.n = ring.legacyNamespace

SignedByCursorKey(ring, p) ==
    \/ p.k = ring.currentID /\ p.mac = <<ring.current>>
    \/ p.k = ring.currentID - 1 /\ ring.previous # NoKey /\ p.mac = <<ring.previous>>

VerifyID_NoAnchor(ring, p) ==
    /\ ValidNamespace(ring, p)
    /\ p.mac \in {<<ring.id, p.k>>, <<ring.id>>} \/ SignedByCursorKey(ring, p)

VerifyID(ring, p) ==
    /\ ValidNamespace(ring, p)
    /\ \/ p.mac \in {<<ring.id, p.k>>, <<ring.id>>, <<ring.legacy>>}
       \/ SignedByCursorKey(ring, p)

ValidIDForTable(ring, x, table) == Is(x, "token") /\ x.token.t = table /\ VerifyID(ring, x.token)

-----------------------------------------------------------------------------
(* What a value becomes under a validator: itself with the defaults filled in,
   Missing for an absent optional field, or Invalid. *)

Scalar(v, x, ring) ==
    CASE v.type = "any" -> TRUE
      [] v.type \in {"string", "image"} -> IsString(x)    \* an image is a storage id
      [] v.type \in {"number", "float64"} -> Is(x, "number")
      [] v.type = "literal" -> x = v.value
      [] v.type = "id" -> ValidIDForTable(ring, x, v.table)
      [] OTHER -> Is(x, v.type)    \* boolean, null, int64, bytes

FirstValid(results) ==
    LET valid == SelectSeq(results, LAMBDA r : r # Invalid)
    IN  IF valid = <<>> THEN Invalid ELSE Head(valid)

(* The fields of an object: none unknown, none required missing. *)
NormalizeFields(shape, normalized, object) ==
    IF DOMAIN object \subseteq DOMAIN shape /\ \A f \in DOMAIN shape : normalized[f] # Invalid
    THEN [object |-> [f \in {g \in DOMAIN shape : normalized[g] # Missing} |-> normalized[f]]]
    ELSE Invalid

At(object, f) == IF f \in DOMAIN object THEN object[f] ELSE Missing

RECURSIVE Normalize(_, _, _, _)
NormalizeObject(shape, object, defs, ring) ==
    NormalizeFields(shape, [f \in DOMAIN shape |-> Normalize(shape[f], At(object, f), defs, ring)],
                    object)

Normalize(v, x, defs, ring) ==
    CASE v.type = "optional" -> IF x = Missing THEN Missing ELSE Normalize(v.of, x, defs, ring)
      [] v.type = "defaulted" ->
           Normalize(v.of, IF x = Missing THEN v.default ELSE x, defs, ring)
      [] v.type = "union" ->
           FirstValid([i \in DOMAIN v.branches |-> Normalize(v.branches[i], x, defs, ring)])
      [] v.type \notin Wrappers \cup {"union"} /\ x = Missing -> Invalid
      [] v.type = "array" /\ x # Missing ->
           IF ~Is(x, "array") THEN Invalid
           ELSE LET items == [i \in DOMAIN x.array |-> Normalize(v.of, x.array[i], defs, ring)]
                IN  IF Invalid \in ToSet(items) THEN Invalid ELSE [array |-> items]
      [] v.type = "object" /\ x # Missing ->
           IF ~Is(x, "object") THEN Invalid
           ELSE IF "shape" \in DOMAIN v THEN NormalizeObject(v.shape, x.object, defs, ring) ELSE x
      [] v.type = "record" /\ x # Missing ->
           IF /\ Is(x, "object")
              /\ "keys" \in DOMAIN v => DOMAIN x.object \subseteq v.keys
           THEN NormalizeObject([key \in DOMAIN x.object |-> v.of], x.object, defs, ring)
           ELSE Invalid
      [] v.type = "recursive" /\ x # Missing ->
           Normalize(v.of, x, [name \in DOMAIN defs \cup {v.name} |->
                               IF name = v.name THEN v.of ELSE defs[name]], ring)
      [] v.type = "ref" /\ x # Missing ->
           IF v.name \in DOMAIN defs THEN Normalize(defs[v.name], x, defs, ring) ELSE Invalid
      [] OTHER -> IF Scalar(v, x, ring) THEN x ELSE Invalid

NormalizeDocument(fields, doc, ring) == NormalizeObject(fields, doc, <<>>, ring)

(* A validator that may be deployed. *)
RECURSIVE Descriptor(_, _, _)
Descriptor(v, defs, ring) ==
    CASE v.type \in {"optional", "array"} -> Descriptor(v.of, defs, ring)
      [] v.type = "defaulted" ->
           Descriptor(v.of, defs, ring) /\ Normalize(v.of, v.default, defs, ring) # Invalid
      [] v.type = "union" -> v.branches # <<>> /\ \A b \in ToSet(v.branches) : Descriptor(b, defs, ring)
      [] v.type = "object" ->
           "shape" \in DOMAIN v => \A f \in DOMAIN v.shape : Descriptor(v.shape[f], defs, ring)
      [] v.type = "record" -> Descriptor(v.of, defs, ring)
      [] v.type = "recursive" ->
           Descriptor(v.of, [name \in DOMAIN defs \cup {v.name} |->
                             IF name = v.name THEN v.of ELSE defs[name]], ring)
      [] v.type = "ref" -> v.name \in DOMAIN defs
      [] OTHER -> TRUE

-----------------------------------------------------------------------------
(* Paths of fields.  Only declared fields of objects with a shape have one. *)

RECURSIVE Unwrapped(_)
Unwrapped(v) == IF v.type \in Wrappers THEN Unwrapped(v.of) ELSE v

ShapeOf(v) ==
    LET u == Unwrapped(v) IN IF u.type = "object" /\ "shape" \in DOMAIN u THEN u.shape ELSE <<>>

RECURSIVE Paths(_)
Paths(fields) ==
    UNION {{<<f>>} \cup {<<f>> \o p : p \in Paths(ShapeOf(fields[f]))} : f \in DOMAIN fields}

RECURSIVE FieldValidator(_, _)
FieldValidator(fields, path) ==
    IF Head(path) \notin DOMAIN fields THEN Invalid
    ELSE IF Len(path) = 1 THEN fields[Head(path)]
    ELSE FieldValidator(ShapeOf(fields[Head(path)]), Tail(path))

RECURSIVE ValueAt(_, _)
ValueAt(object, path) ==
    LET x == At(object, Head(path))
    IN  IF Len(path) = 1 THEN x
        ELSE IF Is(x, "object") THEN ValueAt(x.object, Tail(path)) ELSE Missing

-----------------------------------------------------------------------------
(* Keys whose order is the order of values: first by rank, then by text. *)

Key(rank, text) == [rank |-> rank, text |-> text]

KeyLess(a, b) ==
    \/ a.rank < b.rank
    \/ /\ a.rank = b.rank
       /\ \/ IsStrictPrefix(a.text, b.text)
          \/ \E i \in 1 .. Len(a.text) \cap 1 .. Len(b.text) :
               a.text[i] < b.text[i] /\ \A j \in 1 .. i - 1 : a.text[j] = b.text[j]

(* The text of a token starts like no other string. *)
Text(x) ==
    IF Is(x, "string") THEN x.string
    ELSE LET p == x.token IN <<0, p.v, p.k, p.n, p.t, p.r>> \o p.mac

(* Canonical JSON is one to one: the value stands for it. *)
ComplexOrderKey(x) == [rank |-> 9, value |-> x]

GenericOrderKey(x) ==
    CASE x = Missing -> Key(0, <<>>)
      [] x = Null -> Key(1, <<>>)
      [] Is(x, "boolean") -> Key(IF x.boolean THEN 3 ELSE 2, <<>>)
      [] Is(x, "number") -> Key(4, <<x.number>>)
      [] IsString(x) -> Key(5, Text(x))
      [] Is(x, "int64") -> Key(7, <<x.int64>>)
      [] Is(x, "bytes") -> Key(8, x.bytes)
      [] Is(x, "array") \/ Is(x, "object") -> ComplexOrderKey(x)

(* The signature is no part of it: it changes, the document does not. *)
OpaqueIDOrderKey(p) == Key(6, <<p.t, p.r>>)

RECURSIVE AllowsNull(_)
AllowsNull(v) ==
    CASE v.type \in Wrappers -> AllowsNull(v.of)
      [] v.type = "union" -> \E b \in ToSet(v.branches) : AllowsNull(b)
      [] OTHER -> v.type \in {"null", "any"}

(* Branches for the id of this very document's table come first. *)
Candidates(v, x, ring) ==
    SelectSeq(v.branches,
              LAMBDA b : Unwrapped(b).type = "id" /\ ValidIDForTable(ring, x, Unwrapped(b).table))
        \o v.branches

RECURSIVE OrderKey(_, _, _)
OrderKey(v, x, ring) ==
    CASE x = Missing -> Key(0, <<>>)
      [] x # Missing /\ v.type \in Wrappers -> OrderKey(v.of, x, ring)
      [] x = Null /\ v.type \notin Wrappers -> IF AllowsNull(v) THEN Key(1, <<>>) ELSE Invalid
      [] x \notin {Missing, Null} /\ v.type = "union" ->
           LET candidates == Candidates(v, x, ring)
           IN  FirstValid([i \in DOMAIN candidates |-> OrderKey(candidates[i], x, ring)])
      [] x \notin {Missing, Null} /\ v.type \in {"array", "object", "record", "recursive", "ref"} ->
           ComplexOrderKey(x)
      [] OTHER -> IF ~Scalar(v, x, ring) THEN Invalid
                  ELSE IF v.type = "id" THEN OpaqueIDOrderKey(x.token) ELSE GenericOrderKey(x)

RECURSIVE IndexableValidator(_)
IndexableValidator(v) ==
    CASE v.type \in Wrappers -> IndexableValidator(v.of)
      [] v.type = "union" -> \A b \in ToSet(v.branches) : IndexableValidator(b)
      [] v.type = "literal" -> ~(Is(v.value, "array") \/ Is(v.value, "object"))
      [] OTHER -> v.type \notin {"any", "array", "object", "record", "recursive", "ref"}

(* The projection stored with a document: of every path the key its validator
   gives, and the one of the value alone. *)
OrderData(fields, doc, ring) ==
    [path \in Paths(fields) |->
        [key |-> OrderKey(FieldValidator(fields, path), ValueAt(doc, path), ring),
         equality |-> GenericOrderKey(ValueAt(doc, path))]]
=============================================================================
