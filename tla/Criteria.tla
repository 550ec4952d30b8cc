------------------------------ MODULE Criteria ------------------------------
(***************************************************************************)
(* Queue criteria (criteria.go): the check of a predicate against the      *)
(* server's limits, and its form on the wire (predicateProto in            *)
(* client.go).  A predicate is one of                                      *)
(*                                                                         *)
(*   [is |-> "cmp", field, op, args]      a comparison of Comparisons      *)
(*   [is |-> "all", terms]   [is |-> "any", terms]                         *)
(*   [is |-> "not", term]    [is |-> "nil"]                                *)
(***************************************************************************)
EXTENDS Comparisons, SequencesExt

CONSTANTS MaxDepth, MaxNodes   \* the server's limits

ASSUME CriteriaAssumption == MaxDepth \in Nat \ {0} /\ MaxNodes \in Nat \ {0}

----------------------------------------------------------------------------
(* validate, which counts nodes on the way and stops at the first mistake. *)

RECURSIVE Validate(_, _, _)

(* A mutant: a negation adds no depth. *)
RECURSIVE Validate_FlatNot(_, _, _)
Validate_FlatNot(p, depth, nodes) ==
  LET counted == nodes + 1
      Term(acc, t) == IF acc.ok THEN Validate_FlatNot(t, depth + 1, acc.nodes) ELSE acc
  IN  IF depth > MaxDepth \/ counted > MaxNodes THEN [ok |-> FALSE, nodes |-> counted]
      ELSE CASE p.is = "cmp" -> [ok |-> ComparisonOk(p), nodes |-> counted]
             [] p.is \in {"all", "any"} ->
                  FoldLeft(Term, [ok |-> p.terms # <<>>, nodes |-> counted], p.terms)
             [] p.is = "not" -> Validate_FlatNot(p.term, depth, counted)
             [] OTHER -> [ok |-> FALSE, nodes |-> counted]

Validate(p, depth, nodes) ==
  LET counted == nodes + 1
      Term(acc, t) == IF acc.ok THEN Validate(t, depth + 1, acc.nodes) ELSE acc
  IN  IF depth > MaxDepth \/ counted > MaxNodes THEN [ok |-> FALSE, nodes |-> counted]
      ELSE CASE p.is = "cmp" -> [ok |-> ComparisonOk(p), nodes |-> counted]
             [] p.is \in {"all", "any"} ->
                  FoldLeft(Term, [ok |-> p.terms # <<>>, nodes |-> counted], p.terms)
             [] p.is = "not" -> Validate(p.term, depth + 1, counted)
             [] OTHER -> [ok |-> FALSE, nodes |-> counted]

(* The queues that are nothing but white space. *)
BlankQueues == {"", " "}

(* New: a criteria is for some queue, and no predicate at all claims everything. *)
NewCriteria(queue, where) ==
  /\ queue \notin BlankQueues
  /\ where.is = "nil" \/ Validate(where, 1, 0).ok

----------------------------------------------------------------------------
(* The wire.  A literal with no form there is sent as an empty one. *)
LiteralProto(l) == IF l \in {"text", "longtext", "int64", "decimal", "baddecimal", "bool"}
                   THEN l ELSE "empty"

RECURSIVE PredicateProto(_)
PredicateProto(p) ==
  CASE p.is = "cmp" -> [p EXCEPT !.args = [i \in DOMAIN @ |-> LiteralProto(@[i])]]
    [] p.is \in {"all", "any"} -> [p EXCEPT !.terms = [i \in DOMAIN @ |-> PredicateProto(@[i])]]
    [] p.is = "not" -> [p EXCEPT !.term = PredicateProto(@)]
    [] OTHER -> [is |-> "empty"]
=============================================================================
