--------------------------- MODULE MCQueryEngine ----------------------------
EXTENDS QueryEngine

Num(n) == [type |-> "number", v |-> n]
NaN == [type |-> "nan", v |-> 0]
Str(n) == [type |-> "string", v |-> n]
Flag == [type |-> "bool", v |-> 1]

(* Negative numbers, one with a fraction, NaN, and values of other types.   *)
FieldValues == [f |-> {Num(-4), Num(-1), NaN, Str(1)}, g |-> {Flag}]

Column(name, type, nullable) == [name |-> name, type |-> type, nullable |-> nullable]
TableSchemas == {<<>>, <<Column("f", "DOUBLE", FALSE)>>,
                 <<Column("f", "INT", TRUE), Column("g", "BOOL", TRUE)>>}

P(field, op, value) == [field |-> field, op |-> op, value |-> value]
All == <<>>
Both == <<P("f", "NEQ", Num(-4)), P("g", "EQ", Flag)>>
Sorting == {NoSort, [field |-> "f", order |-> "ASC"], [field |-> "f", order |-> "DESC"]}

Aggregate(k, p) == [kind |-> k, predicates |-> p, field |-> "f"]
TheQueries ==
  {[kind |-> "select", predicates |-> All, sort |-> s, limit |-> n] : s \in Sorting, n \in {0, 2}}
  \cup {[kind |-> "select", predicates |-> Both, sort |-> s, limit |-> 2] : s \in Sorting}
  \cup {Aggregate(k, All) : k \in {"avg", "max", "min"}}
  \cup {Aggregate(k, Both) : k \in {"count", "sum", "max"}}
=============================================================================
