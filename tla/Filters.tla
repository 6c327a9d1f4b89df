------------------------------- MODULE Filters -------------------------------
(***************************************************************************)
(* The filters of queries (runtime/database.go): which expressions are     *)
(* accepted, what the SQL they are compiled to yields for a row, and what  *)
(* they say.  An expression is a record with an op: field with a path,     *)
(* literal with a value, any other with args.  Fields and documents come   *)
(* here with the system fields _id and _creationTime among them.           *)
(* Arithmetic is on integers.                                              *)
(***************************************************************************)
EXTENDS Values, FiniteSets

RangeOps == {"lt", "lte", "gt", "gte"}
Comparisons == {"eq", "neq"} \cup RangeOps
Arithmetic == {"neg", "add", "sub", "mul", "div", "mod"}

Field(path) == [op |-> "field", path |-> path]
Literal(x) == [op |-> "literal", value |-> x]

IsPlain(e) == e.op \in {"field", "literal"}
Args(e) == IF IsPlain(e) THEN {} ELSE ToSet(e.args)

RECURSIVE Subexpressions(_)
Subexpressions(e) == {e} \cup UNION {Subexpressions(a) : a \in Args(e)}

-----------------------------------------------------------------------------
(* Which expressions are accepted.  Of each: its kind, and whether it may be
   missing or null. *)

Info(kind, nullable) == [kind |-> kind, nullable |-> nullable]
Unknown == Info("unknown", TRUE)

LiteralInfo(x) ==
    CASE x = Null -> Info("null", TRUE)
      [] IsString(x) -> Info("string", FALSE)
      [] Is(x, "array") \/ Is(x, "object") -> Info("complex", FALSE)
      [] OTHER -> Info(CHOOSE kind \in DOMAIN x : TRUE, FALSE)

RECURSIVE ValidatorInfo(_)
UnionInfo(branches) ==
    LET infos == {ValidatorInfo(b) : b \in ToSet(branches)}
    IN  Info(IF Cardinality({i.kind : i \in infos}) = 1 THEN ValidatorInfo(Head(branches)).kind
                                                         ELSE "union",
             \E i \in infos : i.nullable)

ValidatorInfo(v) ==
    CASE v.type = "optional" -> [ValidatorInfo(v.of) EXCEPT !.nullable = TRUE]
      [] v.type = "defaulted" -> ValidatorInfo(v.of)
      [] v.type = "float64" -> Info("number", FALSE)
      [] v.type \in {"number", "boolean", "id", "int64", "bytes"} -> Info(v.type, FALSE)
      [] v.type \in {"string", "image"} -> Info("string", FALSE)
      [] v.type \in {"null", "any"} -> Info(v.type, TRUE)
      [] v.type \in {"object", "array", "record"} -> Info("complex", FALSE)
      [] v.type = "literal" -> LiteralInfo(v.value)
      [] v.type = "union" -> UnionInfo(v.branches)
      [] OTHER -> Unknown

Alike(left, right) == left.kind = right.kind \/ {left.kind, right.kind} = {"id", "string"}

CompatibleComparison(left, right, op) ==
    LET kinds == {left.kind, right.kind}
    IN  /\ "unknown" \notin kinds
        /\ IF op \in RangeOps
           THEN /\ kinds \cap {"any", "complex", "boolean", "null", "union"} = {}
                /\ Alike(left, right)
           ELSE kinds \cap {"any", "union"} # {} \/ Alike(left, right)

NonNull(info, kind) == info.kind = kind /\ ~info.nullable

RECURSIVE ExpressionInfo(_, _)
FieldInfo(fields, path) ==
    IF FieldValidator(fields, path) = Invalid THEN Unknown
    ELSE ValidatorInfo(FieldValidator(fields, path))

ArithmeticInfo(fields, e) ==
    IF /\ \A a \in Args(e) : NonNull(ExpressionInfo(fields, a), "number")
       /\ e.op \in {"div", "mod"} => e.args[2].op = "literal" /\ e.args[2].value.number # 0
    THEN Info("number", FALSE) ELSE Unknown

LogicInfo(fields, e) ==
    IF \A a \in Args(e) : NonNull(ExpressionInfo(fields, a), "boolean")
    THEN Info("boolean", FALSE) ELSE Unknown

ComparisonInfo(fields, e) ==
    IF CompatibleComparison(ExpressionInfo(fields, e.args[1]),
                            ExpressionInfo(fields, e.args[2]), e.op)
    THEN Info("boolean", FALSE) ELSE Unknown

ExpressionInfo(fields, e) ==
    CASE e.op = "field" -> FieldInfo(fields, e.path)
      [] e.op = "literal" -> LiteralInfo(e.value)
      [] e.op \in Comparisons -> ComparisonInfo(fields, e)
      [] e.op \in Arithmetic -> ArithmeticInfo(fields, e)
      [] OTHER -> LogicInfo(fields, e)

Accepted(fields, e) == NonNull(ExpressionInfo(fields, e), "boolean")

-----------------------------------------------------------------------------
(* Meanings of operators on numbers and truth values. *)

Number(n) == [number |-> n]
Bool(b) == [boolean |-> b]

Truncated(a, b) == LET q == (IF a < 0 THEN -a ELSE a) \div (IF b < 0 THEN -b ELSE b)
                   IN  IF (a < 0) = (b < 0) THEN q ELSE -q

Compute(op, n) ==
    CASE op = "neg" -> -n[1]
      [] op = "add" -> n[1] + n[2]
      [] op = "sub" -> n[1] - n[2]
      [] op = "mul" -> n[1] * n[2]
      [] op = "div" -> Truncated(n[1], n[2])    \* SQLite divides integers
      \* a - b * floor(a / b), whose division is that of SQLite too
      [] op = "mod" -> n[1] - n[2] * Truncated(n[1], n[2])

Holds(op, less, equal) ==
    CASE op = "eq" -> equal
      [] op = "neq" -> ~equal
      [] op = "lt" -> less
      [] op = "lte" -> less \/ equal
      [] op = "gt" -> ~(less \/ equal)
      [] op = "gte" -> ~less

HoldsKeys(op, a, b) == Holds(op, op \in RangeOps /\ KeyLess(a, b), a = b)

-----------------------------------------------------------------------------
(* What SQL yields: Null, a number (truth is 1 or 0), or a text.  A comparison
   of fields and literals is one of their keys; any other is left to SQLite. *)

Truth(b) == Number(IF b THEN 1 ELSE 0)

Extracted(x) ==
    CASE x = Missing -> Null
      [] Is(x, "boolean") -> Truth(x.boolean)
      [] OTHER -> x

SqlCompare(op, a, b) ==
    IF a = Null \/ b = Null THEN Null
    ELSE LET numbers == Is(a, "number") /\ Is(b, "number")
         IN  Truth(Holds(op, IF numbers THEN a.number < b.number ELSE Is(a, "number"), a = b))

SqlAnd(values) ==
    IF Number(0) \in values THEN Number(0) ELSE IF Null \in values THEN Null ELSE Number(1)
SqlNot(a) == IF a = Null THEN Null ELSE Truth(a = Number(0))
SqlOr(values) == SqlNot(SqlAnd({SqlNot(a) : a \in values}))

RECURSIVE IDTargets(_)
IDTargets(v) ==
    CASE v.type = "id" -> {v.table}
      [] v.type \in Wrappers -> IDTargets(v.of)
      [] v.type = "union" -> UNION {IDTargets(b) : b \in ToSet(v.branches)}
      [] OTHER -> {}

(* Which fields a system field is compared with: itself, and _id with a field
   for ids of its table. *)
SystemPaths == {<<"_id">>, <<"_creationTime">>}
ComparableFields(fields, p, q) ==
    \/ p = q
    \/ {p, q} \cap SystemPaths = {}
    \/ \E r \in {p, q} \ {<<"_id">>} :
         /\ <<"_id">> \in {p, q} /\ r \notin SystemPaths
         /\ IDTargets(fields["_id"]) \subseteq IDTargets(FieldValidator(fields, r))

(* The key of one operand that is a field or a literal beside another. *)
PlainKey(fields, ring, doc, op, a, b) ==
    LET stored == IF a.op = "field" THEN ValueAt(doc, a.path) ELSE a.value
        both == {x.path : x \in {y \in {a, b} : y.op = "field"}}
        whole == a.op = b.op /\ op \notin RangeOps /\ both \cap SystemPaths = {}
    IN  IF both = {} \/ whole THEN GenericOrderKey(stored)
        ELSE OrderKey(FieldValidator(fields, IF a.op = "field" THEN a.path ELSE b.path), stored, ring)

PlainKeys(fields, ring, doc, e) ==
    LET a == e.args[1]
        b == e.args[2]
    IN  IF a.op = "field" /\ b.op = "field" /\ ~ComparableFields(fields, a.path, b.path)
        THEN <<Invalid, Invalid>>
        ELSE <<PlainKey(fields, ring, doc, e.op, a, b), PlainKey(fields, ring, doc, e.op, b, a)>>

RECURSIVE Sql(_, _, _, _)
SqlComparison_Extracted(fields, ring, doc, e) ==
    LET a == Sql(fields, ring, doc, e.args[1])
        b == Sql(fields, ring, doc, e.args[2])
    IN  IF Invalid \in {a, b} THEN Invalid ELSE SqlCompare(e.op, a, b)

SqlComparison(fields, ring, doc, e) ==
    IF \A a \in Args(e) : IsPlain(a)
    THEN LET keys == PlainKeys(fields, ring, doc, e)
         IN  IF Invalid \in ToSet(keys) THEN Invalid ELSE Truth(HoldsKeys(e.op, keys[1], keys[2]))
    ELSE LET a == Sql(fields, ring, doc, e.args[1])
             b == Sql(fields, ring, doc, e.args[2])
         IN  IF Invalid \in {a, b} THEN Invalid ELSE SqlCompare(e.op, a, b)

Sql(fields, ring, doc, e) ==
    IF e.op = "field" THEN Extracted(ValueAt(doc, e.path))
    ELSE IF e.op = "literal" THEN Extracted(e.value)
    ELSE IF e.op \in Comparisons THEN SqlComparison(fields, ring, doc, e)
    ELSE LET values == [i \in DOMAIN e.args |-> Sql(fields, ring, doc, e.args[i])]
         IN  CASE Invalid \in ToSet(values) -> Invalid
               [] Invalid \notin ToSet(values) /\ e.op = "and" -> SqlAnd(ToSet(values))
               [] Invalid \notin ToSet(values) /\ e.op = "or" -> SqlOr(ToSet(values))
               [] Invalid \notin ToSet(values) /\ e.op = "not" -> SqlNot(values[1])
               [] Invalid \notin ToSet(values) /\ e.op \in Arithmetic ->
                    IF Null \in ToSet(values) THEN Null
                    ELSE Number(Compute(e.op, [i \in DOMAIN values |-> values[i].number]))

(* The row is returned. *)
Matches(fields, ring, doc, e) == Sql(fields, ring, doc, e) = Number(1)

-----------------------------------------------------------------------------
(* What an expression says: two truth values, missing apart from null, no
   value equal to one of another kind, missing below null below the rest, and
   an id the document it is of. *)
MeaningKey(x) == IF Is(x, "token") THEN OpaqueIDOrderKey(x.token) ELSE GenericOrderKey(x)

RECURSIVE Meaning(_, _)
Meaning(doc, e) ==
    IF e.op = "field" THEN ValueAt(doc, e.path)
    ELSE IF e.op = "literal" THEN e.value
    ELSE LET values == [i \in DOMAIN e.args |-> Meaning(doc, e.args[i])]
         IN  CASE e.op \in Comparisons ->
                    Bool(HoldsKeys(e.op, MeaningKey(values[1]), MeaningKey(values[2])))
               [] e.op = "and" -> Bool(Bool(FALSE) \notin ToSet(values))
               [] e.op = "or" -> Bool(Bool(TRUE) \in ToSet(values))
               [] e.op = "not" -> Bool(~values[1].boolean)
               [] e.op \in Arithmetic ->
                    Number(Compute(e.op, [i \in DOMAIN values |-> values[i].number]))

(* A computed operand beside a field that may be missing, null or of another
   kind: the comparison is left to SQLite after all. *)
LeftToSQLite(fields, e) ==
    \E c \in Subexpressions(e) :
        /\ c.op \in Comparisons /\ \E a \in Args(c) : ~IsPlain(a)
        /\ \E a \in Args(c) : /\ a.op = "field"
                              /\ LET info == FieldInfo(fields, a.path)
                                 IN  info.nullable \/ info.kind \in {"any", "union"}

(* A division of integers that leaves a remainder. *)
Uneven(doc, e) ==
    \E d \in Subexpressions(e) :
        d.op \in {"div", "mod"} /\ Meaning(doc, d.args[1]).number % d.args[2].value.number # 0
=============================================================================
