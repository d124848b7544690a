---------------------------- MODULE LexerLayout ----------------------------
(***************************************************************************)
(* The layout side of the lexer (lexer.cpp): where NEWLINE, INDENT and     *)
(* DEDENT go.  Three stacks decide it: the indentation levels, the open    *)
(* brackets (inside which a newline means nothing) and the layouts of      *)
(* multi-line lambdas (whose bodies are suites inside open brackets).      *)
(*                                                                         *)
(* The source is read one character class ahead, chosen freely.  Blanks    *)
(* between tokens and comments do nothing here and are left out; "[" also  *)
(* stands for "{".  "name" is any other token, "error" one the lexer       *)
(* rejects, "backslash" the end of a line continued on the next.           *)
(***************************************************************************)
EXTENDS Integers, Sequences

CONSTANTS
    Openers,      \* the opening brackets of the source
    Indents,      \* the leading blanks a line may have
    MaxBrackets,  \* bound: how deep a kind of bracket may be; 0 when the source has none
    MaxLayouts    \* bound: multi-line lambdas open at once

ASSUME LayoutAssumption ==
    /\ Openers \subseteq {"(", "["}
    /\ Indents \subseteq Nat /\ 0 \in Indents
    /\ MaxBrackets \in [BOOLEAN -> [Openers -> Nat]] /\ MaxLayouts \in Nat

VARIABLES
    tolerant,        \* tolerant(): errors are recorded instead of thrown
    indent_stack,    \* m_indent_stack
    open_brackets,   \* m_open_brackets: the closer awaited and the line's indentation
    lambda_layouts,  \* m_lambda_layouts
    lambda,          \* m_lambda_signature and the four members beside it
    at_line_start,   \* m_at_line_start
    line_indent,     \* m_line_indent
    indent,          \* the leading blanks of the physical line being read
    next,            \* peek(): the character about to be read
    status,          \* "scan", then "done", or "thrown" after error()
    suites,          \* history: INDENT tokens less DEDENT tokens
    nest,            \* history: the brackets and suites the tokens have open
    misnested,       \* history: some token closed what was not innermost
    awaited,         \* history: a lambda's suite has yet to show its first line
    left_open,       \* history: a lambda was left by a line that keeps levels of its body
    blocks,          \* history: the level of the block each bracket was opened in
    clean            \* history: brackets match, no line is shallower than its block, a lambda's
                     \* header is whole and its body deeper than the line of its `func`; not
                     \* followed when errors are tolerated

stacks == <<indent_stack, open_brackets, lambda_layouts>>
input == <<indent, next>>
history == <<suites, nest, misnested, awaited, left_open, blocks, clean>>
vars == <<tolerant, indent_stack, open_brackets, lambda_layouts, lambda, at_line_start, line_indent,
          indent, next, status, suites, nest, misnested, awaited, left_open, blocks, clean>>

CloserOf == [c \in Openers |-> IF c = "(" THEN ")" ELSE "]"]
Closers == {CloserOf[c] : c \in Openers}
Chars ==
    Openers \cup Closers
      \cup {"func", "name", "error", ":", ",", "backslash", "newline", "eof"}

NoLambda == [signature |-> FALSE, parameters_closed |-> FALSE, suite_may_start |-> FALSE,
             parameter_depth |-> 0, base_indent |-> 0]

Top(s) == s[Len(s)]
Pop(s) == SubSeq(s, 1, Len(s) - 1)

\* What is left of s once the positions in drop have been popped off its end,
\* down to the first position that is not in drop, or to the lowest m.
Cut(s, m, drop) ==
    SubSeq(s, 1, CHOOSE k \in m..Len(s) : /\ k = m \/ k \notin drop
                                          /\ \A j \in (k + 1)..Len(s) : j \in drop)

-----------------------------------------------------------------------------
\* History.  Tokens that close k suites, then perhaps the bracket c ("none" for
\* none), leave this of a nest n; a source that is not clean, or has been
\* misread already, has no nest worth keeping.

ClosesInside(n, k, c) ==
    LET m == Len(n) - k
    IN  /\ m >= 0
        /\ \A i \in (m + 1)..Len(n) : n[i] = "suite"
        /\ c # "none" => m > 0 /\ n[m] = c

AfterClosing(n, k, c) == SubSeq(n, 1, Len(n) - k - (IF c = "none" THEN 0 ELSE 1))

\* The tokens of a step close k suites, then c, and then open what opens holds.
Emit(k, c, opens) ==
    /\ misnested' = (misnested \/ (clean' /\ ~ClosesInside(nest, k, c)))
    /\ nest' = IF clean' /\ ~misnested' THEN AfterClosing(nest, k, c) \o opens ELSE <<>>
    /\ blocks' = IF ~clean' THEN <<>>
                 ELSE IF c # "none" THEN Pop(blocks)
                 ELSE IF opens \in {<<d>> : d \in Closers} THEN Append(blocks, Top(indent_stack))
                 ELSE blocks
    /\ suites' = suites - k + (IF opens = <<"suite">> THEN 1 ELSE 0)

\* The line to come, unless blank, is no shallower than the current block when
\* it continues a statement, and no shallower than the block the innermost
\* bracket was opened in when it belongs to a lambda's suite.
StandsInBlock ==
    \/ next' = "newline"
    \/ ~at_line_start' /\ indent' >= Top(indent_stack)
    \/ at_line_start' /\ (blocks # <<>> => indent' >= Top(blocks))

\* A lambda's header is read whole: `func`, parameters in brackets, `:`.
InParameters == lambda.parameter_depth > 0 /\ Len(open_brackets) >= lambda.parameter_depth
InHeader == lambda.signature => InParameters

\* error_at()
Fail == status' = IF tolerant THEN "scan" ELSE "thrown"

\* The brackets a source does not have.
Absent ==
    [t \in BOOLEAN |-> UNION {{c, CloserOf[c]} : c \in {d \in Openers : MaxBrackets[t][d] = 0}}]

\* What the source may go on with, within the bounds.
Upcoming(brackets, layouts, lam) ==
    {c \in Chars : /\ c \notin Absent[tolerant]
                   /\ c \in Openers => Len(brackets) < MaxBrackets[tolerant][c]
                   /\ c = "newline" /\ lam.suite_may_start => Len(layouts) < MaxLayouts}

Advance == next' \in Upcoming(open_brackets', lambda_layouts', lambda')

-----------------------------------------------------------------------------

\* lambda_layout_active()  (Slip: a call inside the body has newlines of its own.)
LambdaLayoutAnyDepth(layouts, brackets) == layouts # <<>>

LambdaLayoutActive(layouts, brackets) ==
    layouts # <<>> /\ Len(brackets) <= Top(layouts).bracket_depth

\* close_lambda_layout(): the layouts at the current bracket depth end, and
\* with them every indentation level above their bases.  (Slips: the layouts
\* stay, or the levels do.)
LayoutsKeptAll == lambda_layouts

LayoutsKept ==
    Cut(lambda_layouts, 0,
        {i \in DOMAIN lambda_layouts : lambda_layouts[i].bracket_depth = Len(open_brackets)})

LevelsKeptAll == indent_stack

LevelsKept ==
    Cut(indent_stack, 1,
        {i \in DOMAIN indent_stack :
            \E j \in (Len(LayoutsKept) + 1)..Len(lambda_layouts) :
                indent_stack[i] > lambda_layouts[j].base_indent})

CloseLambdaLayout ==
    /\ lambda_layouts' = LayoutsKept
    /\ indent_stack' = LevelsKept

\* resumes_after_unclosed(): a declaration keyword on the line to come.
ResumesAfterUnclosed == next' = "func" /\ indent' <= open_brackets[1].line_indent

Scanning == status = "scan" /\ ~at_line_start

\* Any token but a newline makes a lambda an inline one.
Inline == [lambda EXCEPT !.suite_may_start = FALSE]

-----------------------------------------------------------------------------

Init ==
    /\ tolerant \in BOOLEAN
    /\ indent_stack = <<0>> /\ open_brackets = <<>> /\ lambda_layouts = <<>>
    /\ lambda = NoLambda
    /\ at_line_start = TRUE
    /\ line_indent = 0
    /\ indent \in Indents
    /\ next \in Upcoming(<<>>, <<>>, NoLambda)
    /\ status = "scan"
    /\ suites = 0 /\ nest = <<>>
    /\ misnested = FALSE /\ awaited = FALSE /\ left_open = FALSE /\ blocks = <<>>
    /\ clean = ~tolerant

\* handle_indent() on a line with nothing but blanks and a comment.
BlankLine ==
    /\ status = "scan" /\ at_line_start
    /\ next \in {"newline", "eof"}
    /\ at_line_start' = FALSE
    /\ UNCHANGED <<stacks, lambda, line_indent, input, status, history>>

\* handle_indent(): a delimiter of the outer call at an indentation below the
\* lambda's body ends the lambda, whatever that indentation is.
LeavingLambda ==
    /\ LambdaLayoutActive(lambda_layouts, open_brackets)
    /\ indent < Top(indent_stack)
    /\ next \in Closers \cup {","}

LayoutsLeft ==
    Cut(lambda_layouts, 0,
        {i \in DOMAIN lambda_layouts : indent <= lambda_layouts[i].base_indent \/ LeavingLambda})

\* The levels a line at this indentation leaves open.
LevelsLeft == Cut(indent_stack, 1, {i \in DOMAIN indent_stack : indent_stack[i] > indent})

LeavesOpen ==
    /\ LeavingLambda
    /\ \E j \in DOMAIN lambda_layouts : Top(LevelsLeft) > lambda_layouts[j].base_indent

LineStart ==
    /\ status = "scan" /\ at_line_start
    /\ next \notin {"newline", "eof"}
    /\ at_line_start' = FALSE
    /\ line_indent' = indent
    /\ left_open' = (left_open \/ (clean /\ LeavesOpen))
    /\ awaited' = FALSE
    /\ UNCHANGED <<open_brackets, lambda, input>>

\* A lambda's body belongs deeper than the line of its `func`.
IndentLine ==
    /\ LineStart
    /\ indent > Top(indent_stack)
    /\ clean' = (clean /\ (awaited => indent > Top(lambda_layouts).base_indent))
    /\ indent_stack' = Append(indent_stack, indent)
    /\ lambda_layouts' = LayoutsLeft
    /\ Emit(0, "none", <<"suite">>)
    /\ UNCHANGED status

DedentLine ==
    /\ LineStart
    /\ indent <= Top(indent_stack)
    /\ indent = Top(LevelsLeft) \/ LeavingLambda
    /\ clean' = (clean /\ ~awaited)
    /\ indent_stack' = LevelsLeft
    /\ lambda_layouts' = LayoutsLeft
    /\ Emit(Len(indent_stack) - Len(LevelsLeft), "none", <<>>)
    /\ UNCHANGED status

\* "Inconsistent indentation"; a tolerant lexer makes it the level it closes to.
\* (Slip: it becomes a level of its own.)
InconsistentLinePushes ==
    /\ LineStart
    /\ indent <= Top(indent_stack)
    /\ indent # Top(LevelsLeft) /\ ~LeavingLambda
    /\ Fail
    /\ clean' = FALSE
    /\ indent_stack' = IF tolerant THEN Append(LevelsLeft, indent) ELSE LevelsLeft
    /\ lambda_layouts' = IF tolerant THEN LayoutsLeft ELSE lambda_layouts
    /\ Emit(Len(indent_stack) - Len(LevelsLeft), "none", <<>>)

InconsistentLine ==
    /\ LineStart
    /\ indent <= Top(indent_stack)
    /\ indent # Top(LevelsLeft) /\ ~LeavingLambda
    /\ Fail
    /\ clean' = FALSE
    /\ indent_stack' = IF tolerant THEN Append(Pop(LevelsLeft), indent) ELSE LevelsLeft
    /\ lambda_layouts' = IF tolerant THEN LayoutsLeft ELSE lambda_layouts
    /\ Emit(Len(indent_stack) - Len(LevelsLeft), "none", <<>>)

Newline ==
    /\ Scanning /\ next = "newline"
    /\ indent' \in Indents
    /\ next' \in Upcoming(open_brackets, lambda_layouts, NoLambda)
    /\ LET opened == IF lambda.suite_may_start
                     THEN Append(lambda_layouts, [base_indent |-> lambda.base_indent,
                                                  bracket_depth |-> Len(open_brackets)])
                     ELSE lambda_layouts
           resumes == tolerant /\ open_brackets # <<>> /\ ResumesAfterUnclosed
       IN  /\ open_brackets' = IF resumes THEN <<>> ELSE open_brackets
           /\ lambda_layouts' = IF resumes THEN <<>> ELSE opened
           /\ at_line_start' = \/ open_brackets' = <<>>
                               \/ LambdaLayoutActive(lambda_layouts', open_brackets')
           /\ clean' = (/\ clean /\ ~resumes /\ StandsInBlock
                        /\ at_line_start' => ~lambda.signature)
    /\ lambda' = Inline
    /\ awaited' = (clean' /\ (awaited \/ lambda.suite_may_start))
    /\ Emit(0, "none", <<>>)
    /\ UNCHANGED <<indent_stack, line_indent, status, left_open>>

\* `\` at the end of a line: the next one has blanks of its own, no layout.  A
\* string over several lines does the same.
ContinueLine ==
    /\ Scanning /\ next = "backslash"
    /\ indent' \in Indents
    /\ lambda' = Inline
    /\ UNCHANGED <<stacks, at_line_start, line_indent, status, awaited, left_open>>
    /\ Advance
    /\ clean' = (clean /\ StandsInBlock)
    /\ Emit(0, "none", <<>>)

OpenBracket ==
    /\ Scanning /\ next \in Openers
    /\ open_brackets' = Append(open_brackets, [closer |-> CloserOf[next],
                                               line_indent |-> line_indent])
    /\ lambda' = IF next = "(" /\ lambda.signature /\ lambda.parameter_depth = 0
                 THEN [Inline EXCEPT !.parameter_depth = Len(open_brackets')]
                 ELSE Inline
    /\ UNCHANGED <<indent_stack, lambda_layouts, at_line_start, line_indent, indent, status,
                   awaited, left_open, clean>>
    /\ Emit(0, "none", <<CloserOf[next]>>)
    /\ Advance

\* A stray closer is passed on for the parser to report.
CloseBracket ==
    /\ Scanning /\ next \in Closers
    /\ CloseLambdaLayout
    /\ LET matches == open_brackets # <<>> /\ Top(open_brackets).closer = next
       IN  /\ open_brackets' = IF matches THEN Pop(open_brackets) ELSE open_brackets
           /\ clean' = (clean /\ matches /\ InHeader)
    /\ lambda' = IF /\ next = ")" /\ lambda.signature
                    /\ lambda.parameter_depth = Len(open_brackets)
                 THEN [Inline EXCEPT !.parameters_closed = TRUE]
                 ELSE Inline
    /\ Emit(Len(indent_stack) - Len(LevelsKept), next, <<>>)
    /\ UNCHANGED <<at_line_start, line_indent, indent, status, awaited, left_open>>
    /\ Advance

Comma ==
    /\ Scanning /\ next = ","
    /\ CloseLambdaLayout
    /\ lambda' = Inline
    /\ UNCHANGED <<open_brackets, at_line_start, line_indent, indent, status, awaited, left_open>>
    /\ clean' = (clean /\ InHeader)
    /\ Emit(Len(indent_stack) - Len(LevelsKept), "none", <<>>)
    /\ Advance

Colon ==
    /\ Scanning /\ next = ":"
    /\ lambda' = IF lambda.signature /\ lambda.parameters_closed
                 THEN [NoLambda EXCEPT !.suite_may_start = TRUE,
                                       !.base_indent = lambda.base_indent]
                 ELSE Inline
    /\ clean' = (clean /\ (lambda.signature /\ lambda.parameters_closed => ~InParameters))
    /\ Emit(0, "none", <<>>)
    /\ UNCHANGED <<stacks, at_line_start, line_indent, indent, status, awaited, left_open>>
    /\ Advance

\* scan_identifier(): `func` inside brackets begins a lambda.
ScanIdentifier ==
    /\ Scanning /\ next \in {"func", "name"}
    /\ lambda' = IF next = "func" /\ open_brackets # <<>>
                 THEN [NoLambda EXCEPT !.signature = TRUE, !.base_indent = indent]
                 ELSE Inline
    /\ UNCHANGED <<stacks, at_line_start, line_indent, indent, status, history>>
    /\ Advance

RejectToken ==
    /\ Scanning /\ next = "error"
    /\ Fail
    /\ lambda' = Inline
    /\ UNCHANGED <<stacks, at_line_start, line_indent, indent, history>>
    /\ IF tolerant THEN Advance ELSE UNCHANGED next

\* tokenize(), after its loop.
Finish ==
    /\ Scanning /\ next = "eof"
    /\ open_brackets = <<>> \/ tolerant
    /\ status' = "done"
    /\ open_brackets' = <<>>
    /\ indent_stack' = SubSeq(indent_stack, 1, 1)
    /\ clean' = (clean /\ open_brackets = <<>>)
    /\ Emit(Len(indent_stack) - 1, "none", <<>>)
    /\ UNCHANGED <<lambda_layouts, lambda, at_line_start, line_indent, input, awaited, left_open>>

Unclosed ==
    /\ Scanning /\ next = "eof"
    /\ open_brackets # <<>> /\ ~tolerant
    /\ Fail
    /\ UNCHANGED <<stacks, lambda, at_line_start, line_indent, input, history>>

HandleIndent == BlankLine \/ IndentLine \/ DedentLine \/ InconsistentLine

ScanToken ==
    \/ Newline \/ ContinueLine \/ OpenBracket \/ CloseBracket \/ Comma \/ Colon
    \/ ScanIdentifier \/ RejectToken

\* tokenize() has returned or thrown.
Stopped == status # "scan" /\ UNCHANGED vars

Next ==
    \/ (HandleIndent \/ ScanToken \/ Finish \/ Unclosed) /\ UNCHANGED tolerant
    \/ Stopped

Spec == Init /\ [][Next]_vars

-----------------------------------------------------------------------------

Ascending(s) == \A i, j \in DOMAIN s : i < j => s[i] < s[j]

TypeOK ==
    /\ indent_stack \in Seq(Nat) /\ indent_stack # <<>>
    /\ open_brackets \in Seq([closer : Closers, line_indent : Nat])
    /\ lambda_layouts \in Seq([base_indent : Nat, bracket_depth : Nat])
    /\ lambda \in [signature : BOOLEAN, parameters_closed : BOOLEAN, suite_may_start : BOOLEAN,
                   parameter_depth : Nat, base_indent : Nat]
    /\ at_line_start \in BOOLEAN
    /\ line_indent \in Nat /\ indent \in Nat
    /\ next \in Chars
    /\ status \in {"scan", "done", "thrown"}
    /\ suites \in Int /\ nest \in Seq(Closers \cup {"suite"})
    /\ blocks \in Seq(Nat)
    /\ misnested \in BOOLEAN /\ awaited \in BOOLEAN /\ left_open \in BOOLEAN /\ clean \in BOOLEAN

\* The parser sees as many DEDENTs as INDENTs, whatever the source: between
\* tokens the stack holds exactly the suites still open, in rising order, also
\* after handle_indent() rewrote a level and after close_lambda_layout() closed
\* suites in the middle of a line.
IndentsMatchStack ==
    /\ suites = Len(indent_stack) - 1
    /\ Ascending(indent_stack)
    /\ status = "done" => suites = 0

\* A lambda's layout never outlives the brackets it was opened in, and layouts
\* nest: the one on top is the one inside the most brackets.  Were one left
\* behind, newlines inside the next call's brackets would end statements.
LayoutsWithinBrackets ==
    status = "scan" =>
        \A i \in DOMAIN lambda_layouts :
            /\ lambda_layouts[i].bracket_depth <= Len(open_brackets)
            /\ \A j \in 1..i :
                   lambda_layouts[j].bracket_depth <= lambda_layouts[i].bracket_depth

\* What "a multiline lambda can open an indented suite even while an enclosing
\* call keeps brackets open" (lexer.h) needs: in a source laid out as the
\* language asks, suites and brackets nest.  A suite opened inside a bracket is
\* closed before that bracket, and nothing is open at the end.
SuitesNest ==
    /\ ~misnested
    /\ status = "done" /\ clean => nest = <<>>

\* As far as that holds of the code: SuitesNest, unless a delimiter's line has
\* left a lambda and kept levels of its body open.
SuitesNestUnlessLeftOpen == left_open \/ SuitesNest

\* A newline ends a statement, and only then: the NEWLINE token is left out
\* exactly where the innermost thing open is a bracket that does not await the
\* body of a lambda.
NewlinesEndStatements ==
    [][Newline /\ clean' /\ ~left_open =>
          (at_line_start' <=> \/ nest = <<>> \/ Top(nest) = "suite"
                              \/ awaited \/ lambda.suite_may_start)]_vars

=============================================================================
