--------------------------- MODULE RuleExpression ---------------------------
(***************************************************************************)
(* A custom rule from the form to the verdict: the visual builder and the  *)
(* raw editor of the rule form, the text that is generated, the lexer,     *)
(* parser and validator of the back end, the evaluator, and the conversion *)
(* of a stored syntax tree back into the visual builder.                   *)
(*                                                                         *)
(* A condition [field, op, value, quoted] is one token; its value is the   *)
(* sequence of the values written, so <<>> for none.  Text comparisons and *)
(* the numeric reading of a text are tables given as constants.            *)
(***************************************************************************)
EXTENDS Integers, Sequences, SequencesExt

CONSTANTS
    Registry,     \* rules.FieldRegistry: field -> "string", "ip", "int", "bool"
    Extracted,    \* fields extractField knows
    Aliases,      \* device.* fields, which the front end leaves out
    Text,         \* <<op, x, v>>: x contains, begins, ends or matches v
    ToInt,        \* toInt of each text
    BadPatterns,  \* patterns validateRegex refuses
    Requests,     \* field -> text
    Conditions,   \* conditions an administrator may choose in the builder
    RawExpressions,
    MaxConditions

VARIABLES
    view,     \* "list" or "form"
    editing,  \* the form edits the stored rule
    mode,     \* builderMode
    group,    \* expressionGroup: the conditions with their logicAfter
    stored,   \* the stored rule's tree: <<>> or <<tree>>
    shown     \* history: the conditions the last visual submit showed, <<>> after a raw one

vars == <<view, editing, mode, group, stored, shown>>

Words == {"AND", "OR", "NOT", "(", ")", "eof"}
Word(w) == [word |-> w, cond |-> <<>>]
Atom(c) == [word |-> "cond", cond |-> <<c>>]

-----------------------------------------------------------------------------
(* Back end: lexer and parser *)

\* Tokenize: an unquoted 1 or 0 becomes the word true or false.
LexValue(v, quoted) ==
    IF quoted THEN v ELSE IF v = "1" THEN "true" ELSE IF v = "0" THEN "false" ELSE v
Tokenize(text) ==
    [i \in 1..Len(text) |->
        IF text[i].word # "cond" THEN text[i]
        ELSE LET c == text[i].cond[1]
             IN Atom([c EXCEPT !.value = [k \in 1..Len(c.value) |-> LexValue(c.value[k], c.quoted)]])]

Comparison(c) == [type |-> "comparison", op |-> c.op, field |-> c.field, value |-> c.value, kids |-> <<>>]
Logical(op, kids) == [type |-> "logical", op |-> op, field |-> "", value |-> <<>>, kids |-> kids]

Current(ts) == IF ts = <<>> THEN Word("eof") ELSE Head(ts)
Failure == [ok |-> FALSE, node |-> <<>>, rest |-> <<>>]
Parsed(node, rest) == [ok |-> TRUE, node |-> node, rest |-> rest]

\* parseCondition: a field and an operator, then a value unless it is an existence test.
parseCondition(ts) ==
    IF Current(ts).word # "cond" THEN Failure
    ELSE LET c == Head(ts).cond[1]
         IN IF c.value = <<>> /\ c.op \notin {"exists", "not_exists", "in", "not_in"} THEN Failure
            ELSE Parsed(Comparison(c), Tail(ts))

RECURSIVE parseExpression(_), parseTerm(_), parseFactor(_), OrLoop(_), AndLoop(_), AndLoopOr(_)

\* Mutant: an OR is read where an AND is.
AndLoopOr(left) ==
    IF ~left.ok \/ Current(left.rest).word \notin {"AND", "OR"} THEN left
    ELSE LET right == parseFactor(Tail(left.rest))
         IN IF ~right.ok THEN right
            ELSE AndLoopOr(Parsed(Logical(Head(left.rest).word, <<left.node, right.node>>), right.rest))
AndLoop(left) ==
    IF ~left.ok \/ Current(left.rest).word # "AND" THEN left
    ELSE LET right == parseFactor(Tail(left.rest))
         IN IF ~right.ok THEN right
            ELSE AndLoop(Parsed(Logical("AND", <<left.node, right.node>>), right.rest))

OrLoop(left) ==
    IF ~left.ok \/ Current(left.rest).word # "OR" THEN left
    ELSE LET right == parseTerm(Tail(left.rest))
         IN IF ~right.ok THEN right
            ELSE OrLoop(Parsed(Logical("OR", <<left.node, right.node>>), right.rest))

parseExpression(ts) == OrLoop(parseTerm(ts))
parseTerm(ts) == AndLoop(parseFactor(ts))

parseFactor(ts) ==
    CASE Current(ts).word = "NOT" ->
            LET f == parseFactor(Tail(ts))
            IN IF f.ok THEN Parsed(Logical("NOT", <<f.node>>), f.rest) ELSE f
      [] Current(ts).word = "(" ->
            LET e == parseExpression(Tail(ts))
            IN IF e.ok /\ Current(e.rest).word = ")" THEN Parsed(e.node, Tail(e.rest)) ELSE Failure
      [] OTHER -> parseCondition(ts)

-----------------------------------------------------------------------------
(* Back end: validator and evaluator *)

Operators == {"eq", "neq", "in", "not_in", "contains", "not_contains", "prefix", "suffix",
              "regex", "not_regex", "gt", "lt", "gte", "lte", "exists", "not_exists"}

ToText(value) == IF value = <<>> THEN "" ELSE value[1]

\* Mutant: a pattern is not compiled when the rule is saved.
validateNames(n) == n.field \in DOMAIN Registry /\ n.op \in Operators
validateComparison(n) ==
    /\ n.field \in DOMAIN Registry
    /\ n.op \in Operators
    /\ n.op \in {"regex", "not_regex"} => ToText(n.value) \notin BadPatterns

RECURSIVE Validate(_)
Validate(n) ==
    IF n.type = "comparison" THEN validateComparison(n) ELSE \A k \in 1..Len(n.kids) : Validate(n.kids[k])

\* CompileExpression: the tree and whether the text is accepted.  What follows the
\* expression is not looked at.
CompileExpression(text) ==
    LET p == parseExpression(Tokenize(text))
    IN [ok |-> p.ok /\ Validate(p.node), node |-> p.node]

\* A registered field the evaluator does not know reads as empty.
extractField(field, request) == IF field \in Extracted THEN request[field] ELSE ""

Verdict(b) == IF b THEN "true" ELSE "false"
Not(v) == IF v = "error" THEN v ELSE Verdict(v = "false")

\* The operators that are not the negation of another.
Holds(op, x, value) ==
    CASE op = "eq" -> x = ToText(value)
      [] op = "in" -> x \in Range(value)
      [] op = "exists" -> x # ""
      [] op = "gt" -> ToInt[x] > ToInt[ToText(value)]
      [] op = "lt" -> ToInt[x] < ToInt[ToText(value)]
      [] op = "gte" -> ToInt[x] >= ToInt[ToText(value)]
      [] op = "lte" -> ToInt[x] <= ToInt[ToText(value)]
      [] OTHER -> <<op, x, ToText(value)>> \in Text

evalRegex(x, value) ==
    IF ToText(value) \in BadPatterns THEN "error" ELSE Verdict(Holds("regex", x, value))

evaluateComparison(n, request) ==
    LET x == extractField(n.field, request) IN
    CASE n.op = "neq" -> Verdict(~Holds("eq", x, n.value))
      [] n.op = "not_in" -> Verdict(~Holds("in", x, n.value))
      [] n.op = "not_contains" -> Verdict(~Holds("contains", x, n.value))
      [] n.op = "not_exists" -> Verdict(~Holds("exists", x, n.value))
      [] n.op = "regex" -> evalRegex(x, n.value)
      [] n.op = "not_regex" -> Not(evalRegex(x, n.value))
      [] OTHER -> Verdict(Holds(n.op, x, n.value))

\* Evaluate: AND and OR look at the right side only when the left leaves it open, and
\* an error ends the evaluation.
RECURSIVE Evaluate(_, _)
Evaluate(n, request) ==
    IF n.type = "comparison" THEN evaluateComparison(n, request)
    ELSE LET left == Evaluate(n.kids[1], request) IN
         CASE n.op = "NOT" -> Not(left)
           [] n.op = "AND" -> IF left = "true" THEN Evaluate(n.kids[2], request) ELSE left
           [] n.op = "OR" -> IF left = "false" THEN Evaluate(n.kids[2], request) ELSE left

-----------------------------------------------------------------------------
(* Front end: the builder's text and the way back *)

\* fetchFieldMetadata: the registry without the aliases, an address is a string.
fields == [f \in DOMAIN Registry \ Aliases |->
             CASE Registry[f] = "int" -> "number" [] Registry[f] = "bool" -> "boolean" [] OTHER -> "string"]

\* What one condition writes: an existence test no value, a boolean always true, a list
\* nothing when it is empty, a text its value in quotes.
ConditionText(c) ==
    LET type == fields[c.field]
        written(v) == <<Atom([field |-> c.field, op |-> c.op, value |-> v, quoted |-> type = "string"])>>
    IN CASE c.op \in {"exists", "not_exists"} -> written(<<>>)
         [] type = "boolean" -> IF c.op \in {"eq", "neq"} THEN written(<<"true">>) ELSE <<>>
         [] c.op \in {"in", "not_in"} -> IF c.value = <<>> THEN <<>> ELSE written(c.value)
         [] OTHER -> written(IF c.value = <<>> /\ type = "string" THEN <<"">> ELSE c.value)

\* generateExpression: a condition whose field is unknown is left out with its logic.
generateExpression(g) ==
    FlattenSeq([i \in 1..Len(g) |->
        IF g[i].cond.field \notin DOMAIN fields THEN <<>>
        ELSE ConditionText(g[i].cond) \o (IF i < Len(g) THEN <<Word(g[i].logic)>> ELSE <<>>)])

Unquoted(n) == [field |-> n.field, op |-> n.op, value |-> n.value, quoted |-> FALSE]

\* parseASTNode: the conditions of a tree from left to right.  The condition on the right
\* of an operator always gets AND.
RECURSIVE parseASTNode(_, _)
parseASTNode(n, logicAfter) ==
    IF n.type = "comparison" THEN <<[cond |-> Unquoted(n), logic |-> logicAfter]>>
    ELSE parseASTNode(n.kids[1], n.op)
         \o (IF Len(n.kids) = 1 THEN <<>>
             ELSE parseASTNode(n.kids[2], IF n.kids[2].type = "logical" THEN n.op ELSE "AND"))

astToConditionGroup(tree) == parseASTNode(tree, "AND")

-----------------------------------------------------------------------------
(* Front end: the rule form *)

Init ==
    /\ view = "list" /\ editing = FALSE /\ mode = "visual"
    /\ group = <<>> /\ stored = <<>> /\ shown = <<>>

openCreate ==
    /\ view = "list"
    /\ view' = "form" /\ editing' = FALSE /\ mode' = "visual" /\ group' = <<>>
    /\ UNCHANGED <<stored, shown>>

\* The stored rule is opened: its tree fills the builder.
openEdit ==
    /\ view = "list" /\ stored # <<>>
    /\ view' = "form" /\ editing' = TRUE /\ mode' = "visual"
    /\ group' = astToConditionGroup(stored[1].node)
    /\ UNCHANGED <<stored, shown>>

addCondition(c) ==
    /\ view = "form" /\ mode = "visual" /\ Len(group) < MaxConditions
    /\ group' = Append(group, [cond |-> c, logic |-> "AND"])
    /\ UNCHANGED <<view, editing, mode, stored, shown>>

removeItem(i) ==
    /\ view = "form" /\ mode = "visual" /\ i \in 1..Len(group)
    /\ group' = RemoveAt(group, i)
    /\ UNCHANGED <<view, editing, mode, stored, shown>>

\* The logic between two conditions is chosen.
updateLogic(i, logic) ==
    /\ view = "form" /\ mode = "visual" /\ i \in 1..(Len(group) - 1)
    /\ group' = [group EXCEPT ![i].logic = logic]
    /\ UNCHANGED <<view, editing, mode, stored, shown>>

\* The builder and the raw editor are not kept in step.
setBuilderMode ==
    /\ view = "form"
    /\ mode' = IF mode = "visual" THEN "raw" ELSE "visual"
    /\ UNCHANGED <<view, editing, group, stored, shown>>

\* The raw editor holds what the administrator typed or, at first, the stored text.
getCurrentExpression ==
    IF mode = "visual" THEN {generateExpression(group)}
    ELSE RawExpressions \cup (IF editing THEN {stored[1].text} ELSE {})

\* handleSubmit: with nothing to save, or when the back end refuses, the form stays open.
handleSubmit ==
    \E text \in getCurrentExpression :
        LET compiled == CompileExpression(text) IN
        /\ view = "form" /\ text # <<>> /\ compiled.ok
        /\ stored' = <<[node |-> compiled.node, text |-> text]>>
        /\ shown' = IF mode = "visual" THEN group ELSE <<>>
        /\ view' = "list" /\ editing' = FALSE /\ mode' = "visual" /\ group' = <<>>

back ==
    /\ view = "form"
    /\ view' = "list" /\ editing' = FALSE /\ mode' = "visual" /\ group' = <<>>
    /\ UNCHANGED <<stored, shown>>

Next ==
    \/ openCreate \/ openEdit \/ setBuilderMode \/ handleSubmit \/ back
    \/ \E c \in Conditions : addCondition(c)
    \/ \E i \in 1..Len(group) : removeItem(i) \/ \E logic \in {"AND", "OR"} : updateLogic(i, logic)

Spec == Init /\ [][Next]_vars

-----------------------------------------------------------------------------
(* Properties *)

\* What the builder shows of a condition: a boolean is "Is True" or "Is False", any
\* other field is compared with its value.
ConditionMeans(c, request) ==
    LET boolean == c.field \in DOMAIN fields /\ fields[c.field] = "boolean"
    IN "true" = evaluateComparison(Comparison(IF boolean THEN [c EXCEPT !.value = <<"true">>] ELSE c), request)

\* What the builder shows of a group: alternatives separated by OR, each of them a run
\* of conditions joined by AND.
Means(g, request) ==
    \E i, j \in 1..Len(g) :
        /\ i <= j
        /\ i = 1 \/ g[i - 1].logic = "OR"
        /\ j = Len(g) \/ g[j].logic = "OR"
        /\ \A k \in i..j : ConditionMeans(g[k].cond, request)
        /\ \A k \in i..(j - 1) : g[k].logic # "OR"

Known(g) == SelectSeq(g, LAMBDA item : item.cond.field \in DOMAIN fields)

\* A group whose text says what it shows.  It does not for the numbers 0 and 1 (see
\* Tokenize) and for the logic NOT that opening a negated rule leaves behind.
Faithful(g) ==
    \A i \in 1..Len(g) :
        /\ g[i].logic # "NOT"
        /\ g[i].cond.field \in DOMAIN fields /\ fields[g[i].cond.field] = "number"
             => Range(g[i].cond.value) \cap {"0", "1"} = {}

\* A rule saved from the visual builder decides every request the way the builder shows
\* it: AND binds tighter than OR through generateExpression, the lexer, the parser and
\* the evaluator.
SavedAsShown ==
    shown # <<>> /\ Faithful(shown) =>
        \A request \in Requests :
            (Evaluate(stored[1].node, request) = "true") = Means(Known(shown), request)

\* What the validator accepts the evaluator can decide: no stored rule is silently
\* skipped because its evaluation fails.
AcceptedIsDecidable ==
    stored # <<>> => \A request \in Requests : Evaluate(stored[1].node, request) \in {"true", "false"}

\* ast-converter.ts "Converts backend AST structure to frontend ConditionGroup format for
\* Visual Builder": opening any rule that was built in the visual builder shows what the
\* rule does, so saving it again does not change it.
BuiltReopens ==
    shown # <<>> =>
        \A request \in Requests :
            (Evaluate(stored[1].node, request) = "true") = Means(astToConditionGroup(stored[1].node), request)
=============================================================================
