------------------------------- MODULE Record -------------------------------
(***************************************************************************)
(* MiniDB::Core::Record: the fields of a record and their validation       *)
(* against a schema.  The data of a record is a function from the names of *)
(* its fields to values.  A string is its rank among the strings, a number *)
(* is counted in halves so that some have a fraction, a bool is 0 or 1.    *)
(* The double that is no number, NaN, is one for Json::isNumber().         *)
(***************************************************************************)
EXTENDS Integers, Sequences

CONSTANTS Fields,    \* names of fields
          Values,    \* what each field is set to
          IntLimit   \* 2^63, in halves

Types == {"string", "number", "nan", "bool", "null"}
Null == [type |-> "null", v |-> 0]

ASSUME RecordAssumption ==
  /\ IntLimit \in Nat
  /\ Values \in [Fields -> SUBSET [type : Types, v : Int]]

NoData == <<>>
Data == UNION {{d \in [S -> UNION {Values[k] : k \in Fields}] : \A k \in S : d[k] \in Values[k]} :
                 S \in SUBSET Fields}

isNumber(value) == value.type \in {"number", "nan"}

hasField(data, key) == key \in DOMAIN data
getFieldRef(data, key) == IF key \in DOMAIN data THEN data[key] ELSE Null
setField(data, key, value) ==
  [k \in DOMAIN data \cup {key} |-> IF k = key THEN value ELSE data[k]]
removeField(data, key) == [k \in DOMAIN data \ {key} |-> data[k]]

-----------------------------------------------------------------------------
(* validate(): a column has a name, a type and whether it may be missing.   *)
(* An INT equals its own integral part, which NaN does not.                 *)

TypeFits(type, value) ==
  \/ /\ type = "INT" /\ value.type = "number"
     /\ value.v % 2 = 0 /\ value.v \in -IntLimit .. IntLimit
  \/ type = "DOUBLE" /\ isNumber(value)
  \/ type = "STRING" /\ value.type = "string"
  \/ type = "BOOL" /\ value.type = "bool"

(* Mutant: a column may always be missing.                                  *)
VerdictLenient(data, col) ==
  IF hasField(data, col.name) /\ ~TypeFits(col.type, data[col.name])
    THEN "INVALID_TYPE" ELSE "OK"

Verdict(data, col) ==
  IF ~hasField(data, col.name)
    THEN IF col.nullable THEN "OK" ELSE "INVALID_SCHEMA"
    ELSE IF TypeFits(col.type, data[col.name]) THEN "OK" ELSE "INVALID_TYPE"

(* The verdict on the first column that is not in order.                    *)
validate(data, schema) ==
  LET Bad == {k \in DOMAIN schema : Verdict(data, schema[k]) # "OK"} IN
    IF Bad = {} THEN "OK"
    ELSE Verdict(data, schema[CHOOSE k \in Bad : \A j \in Bad : k <= j])
=============================================================================
