---------------------------- MODULE Comparisons ----------------------------
(***************************************************************************)
(* The comparisons of a queue's criteria (criteria.go): how the methods of *)
(* a field build them, and the check of one on its own.  A literal is its  *)
(* kind: what the checks and the wire tell apart.                          *)
(***************************************************************************)
EXTENDS Integers, Sequences

CONSTANT MaxIn   \* the server's limit: the literals an In may have

ASSUME ComparisonsAssumption == MaxIn \in Nat \ {0}

----------------------------------------------------------------------------
(* Literals.  "text", "longtext" (more than MaxText bytes), "int64",
   "decimal", "baddecimal" (not plain text, or too many digits), "bool", and
   two that are no literals yet: "int" (an int, int32, time, ...) and "float". *)

LiteralOf(v) ==
  CASE v = "int" -> "int64" [] v = "float" -> "decimal" [] OTHER -> v

(* A comparison as Equal, In, Between and their siblings build it. *)
Compare(field, op, values) ==
  [is |-> "cmp", field |-> field, op |-> op, args |-> [i \in DOMAIN values |-> LiteralOf(values[i])]]

(* The fields, by the type of their value: "step" is text with fewer operators,
   "badattr" an attribute whose name is none. *)
TypeOfField(f) ==
  CASE f \in {"workflow", "step"} -> "TEXT" [] f = "version" -> "INTEGER" [] OTHER -> "ANY"

Arity(op) ==
  CASE op = "IN" -> 1 .. MaxIn [] op = "BETWEEN" -> {2} [] op = "IS_NULL" -> {0} [] OTHER -> {1}
Ops == {"EQUAL", "IN", "LESS_THAN", "BETWEEN", "LIKE", "IS_NULL"}

ordering == {"LESS_THAN", "BETWEEN"}

Kind(type, literal) ==
  CASE literal = "text" -> "text"
    [] literal = "bool" -> "flag"
    [] literal = "int64" -> IF type = "INTEGER" THEN "integer" ELSE "number"
    [] literal = "decimal" -> "number"
    [] OTHER -> "none"

ComparisonOk(c) ==
  LET type  == TypeOfField(c.field)
      kinds == {Kind(type, c.args[i]) : i \in DOMAIN c.args}
  IN  /\ c.field # "badattr"
      /\ c.op \in Ops
      /\ Len(c.args) \in Arity(c.op)
      /\ c.field = "step" => c.op \in {"EQUAL", "IN"}
      /\ ~(c.op = "LIKE" /\ type = "INTEGER")
      /\ "none" \notin kinds
      /\ type = "TEXT" => kinds \subseteq {"text"}
      /\ type = "INTEGER" => kinds \subseteq {"integer"}
      /\ type = "ANY" =>
           /\ \A k, l \in kinds : k = l
           /\ c.op = "LIKE" => "text" \in kinds
           /\ "flag" \in kinds => c.op \notin ordering \cup {"LIKE"}

----------------------------------------------------------------------------
(* What the server evaluates: one type of value, literals of that type, and an
   operator that type has. *)

TypesOf(field) ==
  CASE field \in {"workflow", "step"} -> {"text"} [] field = "version" -> {"integer"}
    [] field = "attr" -> {"text", "number", "flag"} [] OTHER -> {}
LiteralsOf(type) ==
  CASE type = "text" -> {"text"} [] type = "integer" -> {"int64"}
    [] type = "number" -> {"int64", "decimal"} [] OTHER -> {"bool"}
OpsOf(field, type) ==
  CASE type = "flag" -> {"EQUAL", "IN", "IS_NULL"}
    [] type = "text" -> IF field = "step" THEN {"EQUAL", "IN"} ELSE Ops
    [] OTHER -> Ops \ {"LIKE"}
Comparable(c) ==
  \E type \in TypesOf(c.field) :
    /\ c.op \in OpsOf(c.field, type)
    /\ {c.args[i] : i \in DOMAIN c.args} \subseteq LiteralsOf(type)
    /\ Len(c.args) \in Arity(c.op)
=============================================================================
