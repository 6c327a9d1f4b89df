----------------------------- MODULE MCDocuments -----------------------------
(* A table with a field of most kinds, and expressions over all of them. *)
EXTENDS Documents

NumberType == [type |-> "number"]
MCFields ==
    [a |-> [type |-> "optional", of |-> NumberType],
     b |-> [type |-> "defaulted", of |-> NumberType, default |-> Number(1)],
     u |-> [type |-> "union", branches |-> <<NumberType, [type |-> "null"], [type |-> "boolean"]>>],
     o |-> [type |-> "optional",
            of |-> [type |-> "object", shape |-> [x |-> [type |-> "optional", of |-> [type |-> "any"]]]]],
     f |-> [type |-> "boolean"],
     r |-> [type |-> "optional", of |-> [type |-> "id", table |-> 1]]]
MCIndexes == {<< <<"a">> >>, << <<"u">>, <<"a">> >>}

MCContents ==
    {[a |-> Number(1), u |-> Null, f |-> Bool(TRUE), o |-> [object |-> [x |-> Null]]],
     [u |-> Number(1), f |-> Bool(TRUE), b |-> Number(-1)],
     [a |-> Number(1), u |-> Bool(TRUE), f |-> Bool(FALSE),
      r |-> EncodeID(FirstRing, 1, 2)]}
MCPatches == {[a |-> Number(0), b |-> Number(2)], [u |-> Number(1), f |-> Bool(TRUE)]}

F(x) == Field(<<x>>)
Op(op, args) == [op |-> op, args |-> args]
Leaves == {F(x) : x \in DOMAIN WithSystemFields(MCFields)}
          \cup {Field(<<"o", "x">>), Literal(Number(1)), Literal(Null), Literal(Bool(TRUE)),
                Literal([string |-> <<1>>])}
Computed == {Op("add", <<F("b"), Literal(Number(1))>>), Op("neg", <<F("b")>>),
             Op("div", <<F("b"), Literal(Number(2))>>), Op("mod", <<F("b"), Literal(Number(2))>>),
             Op("add", <<F("a"), F("b")>>)}
Compared == {Op(op, <<x, y>>) : op \in {"eq", "neq", "lt"}, x \in Leaves \cup Computed,
                                y \in Leaves \cup Computed}
            \cup {Op(op, <<F(x), Literal(EncodeID(FirstRing, 1, 2))>>) : op \in {"eq", "gt"},
                                                                      x \in {"_id", "r"}}
Low == Op("lt", <<F("b"), Literal(Number(1))>>)
MCPredicates ==
    Compared \cup {Op("not", <<x>>) : x \in Compared}
             \cup {Op(op, <<Low, x>>) : op \in {"and", "or", "eq"}, x \in Compared}

Query(function, fresh, index, bounds, descending, predicate, size) ==
    [function |-> function, fresh |-> fresh, index |-> index, bounds |-> bounds, 
     descending |-> descending, predicate |-> predicate, size |-> size]
Bound(path, op, x) == [path |-> path, op |-> op, value |-> x]
NotOne == Op("not", <<Op("eq", <<F("a"), Literal(Number(1))>>)>>)
MCQueries ==
    {Query(1, FALSE, <<>>, <<>>, FALSE, NoPredicate, 2),
     Query(2, TRUE, << <<"a">> >>, <<>>, TRUE, NoPredicate, 1),
     Query(3, FALSE, << <<"u">>, <<"a">> >>,
           <<Bound(<<"u">>, "eq", Number(1)), Bound(<<"a">>, "lte", Number(1))>>, FALSE, NotOne, 1)}
MCFirstArguments == {Arguments(Null, Null), Arguments(Missing, [string |-> <<1>>])}

(* Computed once: a constant. *)
StorableData == Rewritten(MCFields, Rewritten(MCFields, MCContents, MCPatches), MCPatches)
MCExactData == ExactData(WithSystemFields(MCFields), MCPredicates, StorableData)

(* Of every document that is stored, SQL returns those a filter is true of:
   whichever accepted filter, but where the comparison is left to SQLite or a
   division has a remainder.  sqlExpression, semanticComparison,
   validateExpression, fieldLiteralComparison, fieldFieldComparison. *)
FiltersExact == \A raw \in Live : rows[raw].data \in MCExactData
=============================================================================
