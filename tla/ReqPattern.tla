----------------------------- MODULE ReqPattern -----------------------------
(***************************************************************************)
(* The parser of a custom request pattern (cpworker/src/req_pattern.c): a  *)
(* sequence of tokens becomes a tree, or NoNode when it is not a pattern.  *)
(* A token is a keyword, a parenthesis or a value.                         *)
(***************************************************************************)
EXTENDS Direction, Integers

CONSTANTS
    HostValues,     \* values that are addresses, or interfaces that have one
    PortValues      \* values that are port numbers

NoNode == [type |-> "none"]

Keywords == {"host", "port", "and", "or", "(", ")"}

Token(ts) == IF ts = <<>> THEN "eof" ELSE Head(ts)

IsValue(token) == token \notin Keywords \cup {"eof"}

Result(node, rest) == [node |-> node, rest |-> rest]

(***************************************************************************)
(* create_condition_node: a value that is no address, or no port, fails.   *)
(***************************************************************************)
ConditionNode(type, value) ==
    IF value \in (IF type = "host" THEN HostValues ELSE PortValues)
    THEN [type |-> type, value |-> value] ELSE NoNode

OperatorNode(type, left, right) == [type |-> type, left |-> left, right |-> right]

ParseCondition(ts) ==
    IF Token(ts) \in {"host", "port"} /\ IsValue(Token(Tail(ts)))
    THEN Result(ConditionNode(Token(ts), ts[2]), Tail(Tail(ts)))
    ELSE Result(NoNode, ts)

RECURSIVE ParseExpression(_), ParseTerm(_), MoreFactors(_), MoreTerms(_)

ParseFactor(ts) ==
    IF Token(ts) # "(" THEN ParseCondition(ts)
    ELSE LET e == ParseExpression(Tail(ts))
         IN IF Token(e.rest) = ")" THEN Result(e.node, Tail(e.rest)) ELSE Result(NoNode, e.rest)

(***************************************************************************)
(* The loops of parse_term and parse_expression, from a parsed left side.  *)
(***************************************************************************)
MoreFactors(left) ==
    IF left.node = NoNode \/ Token(left.rest) # "and" THEN left
    ELSE LET right == ParseFactor(Tail(left.rest))
         IN IF right.node = NoNode THEN right
            ELSE MoreFactors(Result(OperatorNode("and", left.node, right.node), right.rest))

MoreTerms(left) ==
    IF left.node = NoNode \/ Token(left.rest) # "or" THEN left
    ELSE LET right == ParseTerm(Tail(left.rest))
         IN IF right.node = NoNode THEN right
            ELSE MoreTerms(Result(OperatorNode("or", left.node, right.node), right.rest))

ParseTerm(ts) == MoreFactors(ParseFactor(ts))

ParseExpression(ts) == MoreTerms(ParseTerm(ts))

(***************************************************************************)
(* req_pattern_custom_matcher_init: nothing may follow the expression.     *)
(***************************************************************************)
CustomMatcher(ts) ==
    LET e == ParseExpression(ts) IN IF e.rest = <<>> THEN e.node ELSE NoNode

-----------------------------------------------------------------------------
(***************************************************************************)
(* The reference, by splitting: a text is a disjunction at an "or" outside *)
(* every parenthesis, else a conjunction at such an "and", else a text in  *)
(* parentheses, else a condition.                                          *)
(***************************************************************************)
Depth(ts, i) ==
    LET count(t) == {j \in 1 .. i : ts[j] = t}
        size[S \in SUBSET (1 .. i)] == IF S = {} THEN 0 ELSE 1 + size[S \ {CHOOSE x \in S : TRUE}]
    IN size[count("(")] - size[count(")")]

Splits(ts, op) == {i \in DOMAIN ts : ts[i] = op /\ Depth(ts, i) = 0}

Before(ts, i) == SubSeq(ts, 1, i - 1)

After(ts, i) == SubSeq(ts, i + 1, Len(ts))

IsCondition(ts) ==
    /\ Len(ts) = 2
    /\ \/ ts[1] = "host" /\ ts[2] \in HostValues
       \/ ts[1] = "port" /\ ts[2] \in PortValues

Bracketed(ts) == Len(ts) >= 2 /\ ts[1] = "(" /\ ts[Len(ts)] = ")"

RECURSIVE IsPattern(_), Means(_, _, _)

IsPattern(ts) ==
    \/ \E op \in {"or", "and"} :
           \E i \in Splits(ts, op) : IsPattern(Before(ts, i)) /\ IsPattern(After(ts, i))
    \/ Bracketed(ts) /\ IsPattern(SubSeq(ts, 2, Len(ts) - 1))
    \/ IsCondition(ts)

Means(ts, addr, port) ==
    LET first(op) == CHOOSE i \in Splits(ts, op) : TRUE
    IN CASE Splits(ts, "or") # {} ->
                Means(Before(ts, first("or")), addr, port) \/ Means(After(ts, first("or")), addr, port)
         [] Splits(ts, "or") = {} /\ Splits(ts, "and") # {} ->
                Means(Before(ts, first("and")), addr, port) /\ Means(After(ts, first("and")), addr, port)
         [] Splits(ts, "or") = {} /\ Splits(ts, "and") = {} /\ Bracketed(ts) ->
                Means(SubSeq(ts, 2, Len(ts) - 1), addr, port)
         [] OTHER -> ts[2] = (IF ts[1] = "host" THEN addr ELSE port)
=============================================================================
