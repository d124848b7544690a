------------------------- MODULE LexerLayoutProofs -------------------------
(***************************************************************************)
(* The balance of INDENT and DEDENT and the nesting of lambda layouts, for *)
(* every source: any indentations, any depth of brackets and lambdas, with *)
(* errors thrown or recorded.                                              *)
(*                                                                         *)
(* IInv is inductive.  TypeOK is needed beside the two invariants for the  *)
(* sequences to have lengths; the ordering of the layouts' depths is what  *)
(* makes popping the layouts at the current depth enough.                  *)
(***************************************************************************)
EXTENDS LexerLayout, SequenceTheorems, WellFoundedInduction, TLAPS

IInv == TypeOK /\ IndentsMatchStack /\ LayoutsWithinBrackets

\* The loops that pop a stack stop: at the floor m, or at an element they keep.
LEMMA CutStops ==
  ASSUME NEW T, NEW s \in Seq(T), NEW m \in Nat, m <= Len(s), NEW drop
  PROVE  \E k \in m..Len(s) :
            /\ Cut(s, m, drop) = SubSeq(s, 1, k)
            /\ k = m \/ k \notin drop
<1> DEFINE R == {ss \in Nat \X Nat : ss[1] < ss[2]}
           Ends(k) == \A j \in (k + 1)..Len(s) : j \in drop
           S == {k \in m..Len(s) : Ends(k)}
<1>1. IsWellFoundedOn(R, Nat)
  BY NatLessThanWellFounded DEF OpToRel
<1>2. S \subseteq Nat /\ Len(s) \in S
  BY LenProperties
<1>3. PICK k \in S : \A j \in S : ~(<<j, k>> \in R)
  <2> HIDE DEF R, S
  <2> QED
    BY Zenon, <1>1, <1>2, WFMin
<1>4. k = m \/ k \notin drop
  <2> SUFFICES ASSUME k # m, k \in drop
               PROVE  FALSE
    OBVIOUS
  <2>1. k - 1 \in S
    BY LenProperties
  <2>2. <<k - 1, k>> \in R
    BY <1>2, <2>1
  <2> QED
    BY <1>3, <2>1, <2>2
<1> DEFINE P(i) == (i = m \/ i \notin drop) /\ Ends(i)
<1>5. \E i \in m..Len(s) : P(i)
  BY <1>4
<1>6. /\ (CHOOSE i \in m..Len(s) : P(i)) \in m..Len(s)
      /\ P(CHOOSE i \in m..Len(s) : P(i))
  <2> HIDE DEF P
  <2> QED
    BY <1>5
<1> QED
  BY Zenon, <1>6 DEF Cut

LEMMA PrefixFacts ==
  ASSUME NEW T, NEW s \in Seq(T), NEW k \in Int, k <= Len(s)
  PROVE  /\ SubSeq(s, 1, k) \in Seq(T)
         /\ k >= 0 => Len(SubSeq(s, 1, k)) = k
         /\ \A i \in 1..k : SubSeq(s, 1, k)[i] = s[i]
<1>1. \A i \in 1..k : s[i] \in T
  BY ElementOfSeq, LenProperties
<1> QED
  BY <1>1, SubSeqProperties

\* Popping levels keeps at least the bottom one, and the order of the rest.
LEMMA CutLevels ==
  ASSUME TypeOK, Ascending(indent_stack), NEW drop
  PROVE  \E k \in 1..Len(indent_stack) :
            /\ Cut(indent_stack, 1, drop) \in Seq(Nat)
            /\ Len(Cut(indent_stack, 1, drop)) = k
            /\ k = 1 \/ k \notin drop
            /\ Ascending(Cut(indent_stack, 1, drop))
            /\ \A i \in 1..k : Cut(indent_stack, 1, drop)[i] = indent_stack[i]
<1>1. indent_stack \in Seq(Nat) /\ 1 <= Len(indent_stack) /\ 1 \in Nat
  BY DEF TypeOK
<1>2. PICK k \in 1..Len(indent_stack) :
         /\ Cut(indent_stack, 1, drop) = SubSeq(indent_stack, 1, k)
         /\ k = 1 \/ k \notin drop
  BY <1>1, CutStops
<1>3. /\ SubSeq(indent_stack, 1, k) \in Seq(Nat)
      /\ Len(SubSeq(indent_stack, 1, k)) = k
      /\ \A i \in 1..k : SubSeq(indent_stack, 1, k)[i] = indent_stack[i]
  BY <1>1, PrefixFacts
<1>4. Ascending(SubSeq(indent_stack, 1, k))
  <2>1. DOMAIN SubSeq(indent_stack, 1, k) = 1..k /\ DOMAIN indent_stack = 1..Len(indent_stack)
    BY <1>1, <1>3
  <2> QED
    BY <1>3, <2>1 DEF Ascending
<1> QED
  BY Zenon, <1>2, <1>3, <1>4

\* Popping layouts leaves a prefix that ends with one the loop keeps.
LEMMA CutLayouts ==
  ASSUME TypeOK, NEW drop
  PROVE  \E k \in 0..Len(lambda_layouts) :
            /\ Cut(lambda_layouts, 0, drop) \in Seq([base_indent : Nat, bracket_depth : Nat])
            /\ Len(Cut(lambda_layouts, 0, drop)) = k
            /\ k = 0 \/ k \notin drop
            /\ \A i \in 1..k : Cut(lambda_layouts, 0, drop)[i] = lambda_layouts[i]
<1>1. lambda_layouts \in Seq([base_indent : Nat, bracket_depth : Nat])
  BY DEF TypeOK
<1>2. PICK k \in 0..Len(lambda_layouts) :
         /\ Cut(lambda_layouts, 0, drop) = SubSeq(lambda_layouts, 1, k)
         /\ k = 0 \/ k \notin drop
  <2>1. 0 \in Nat /\ 0 <= Len(lambda_layouts)
    BY <1>1, LenProperties
  <2> QED
    BY <1>1, <2>1, CutStops
<1>3. /\ SubSeq(lambda_layouts, 1, k) \in Seq([base_indent : Nat, bracket_depth : Nat])
      /\ Len(SubSeq(lambda_layouts, 1, k)) = k
      /\ \A i \in 1..k : SubSeq(lambda_layouts, 1, k)[i] = lambda_layouts[i]
  <2> DEFINE L == [base_indent : Nat, bracket_depth : Nat]
  <2>1. lambda_layouts \in Seq(L)
    BY <1>1
  <2> HIDE DEF L
  <2>2. k \in Int /\ k <= Len(lambda_layouts) /\ k >= 0
    BY <2>1, LenProperties
  <2>3. /\ SubSeq(lambda_layouts, 1, k) \in Seq(L)
        /\ Len(SubSeq(lambda_layouts, 1, k)) = k
        /\ \A i \in 1..k : SubSeq(lambda_layouts, 1, k)[i] = lambda_layouts[i]
    BY <2>1, <2>2, PrefixFacts
  <2> QED
    BY <2>3 DEF L
<1> QED
  BY Zenon, <1>2, <1>3

\* What a step's tokens do to the history.
LEMMA EmitCounts ==
  ASSUME TypeOK, clean' \in BOOLEAN, NEW k \in Nat, NEW c,
         NEW opens \in Seq(Closers \cup {"suite"}), Emit(k, c, opens)
  PROVE  /\ misnested' \in BOOLEAN
         /\ nest' \in Seq(Closers \cup {"suite"})
         /\ blocks' \in Seq(Nat)
         /\ suites' = suites - k + (IF opens = <<"suite">> THEN 1 ELSE 0)
<1> DEFINE N == Closers \cup {"suite"}
<1>1. misnested' = (misnested \/ (clean' /\ ~ClosesInside(nest, k, c)))
  BY DEF Emit
<1>2. nest' = IF clean' /\ ~misnested' THEN AfterClosing(nest, k, c) \o opens ELSE <<>>
  BY DEF Emit
<1>3. nest \in Seq(N) /\ misnested \in BOOLEAN
  BY DEF TypeOK
<1>4. misnested' \in BOOLEAN
  BY <1>1, <1>3
<1>5. nest' \in Seq(N)
  <2> HIDE DEF N
  <2>1. AfterClosing(nest, k, c) \in Seq(N)
    <3> DEFINE n == Len(nest) - k - (IF c = "none" THEN 0 ELSE 1)
    <3>1. n \in Int /\ n <= Len(nest)
      <4>1. Len(nest) \in Nat
        BY <1>3, LenProperties
      <4>2. CASE c = "none"
        BY <4>1, <4>2
      <4>3. CASE c # "none"
        BY <4>1, <4>3
      <4> QED
        BY <4>2, <4>3
    <3> HIDE DEF n
    <3>2. SubSeq(nest, 1, n) \in Seq(N)
      BY <1>3, <3>1, PrefixFacts
    <3> QED
      BY <3>2 DEF AfterClosing, n
  <2>2. opens \in Seq(N)
    BY DEF N
  <2>3. AfterClosing(nest, k, c) \o opens \in Seq(N)
    BY <2>1, <2>2, ConcatProperties
  <2>4. <<>> \in Seq(N)
    OBVIOUS
  <2> QED
    BY <1>2, <2>3, <2>4
<1>6. blocks' \in Seq(Nat)
  <2>1. blocks \in Seq(Nat) /\ Top(indent_stack) \in Nat /\ <<>> \in Seq(Nat)
    BY SMTT(30) DEF TypeOK, Top
  <2>2. Pop(blocks) \in Seq(Nat)
    BY SMTT(30), <2>1, PrefixFacts, LenProperties DEF Pop
  <2>3. Append(blocks, Top(indent_stack)) \in Seq(Nat)
    BY <2>1, AppendProperties
  <2>4. blocks' \in {<<>>, Pop(blocks), Append(blocks, Top(indent_stack)), blocks}
    BY DEF Emit
  <2> QED
    BY Zenon, <2>1, <2>2, <2>3, <2>4
<1>7. suites' = suites - k + (IF opens = <<"suite">> THEN 1 ELSE 0)
  BY DEF Emit
<1> QED
  BY <1>4, <1>5, <1>6, <1>7

LambdaState ==
    [signature : BOOLEAN, parameters_closed : BOOLEAN, suite_may_start : BOOLEAN,
     parameter_depth : Nat, base_indent : Nat]

LEMMA InlineType ==
  ASSUME TypeOK
  PROVE  Inline \in LambdaState
BY Zenon DEF TypeOK, Inline, LambdaState

LEMMA CharFacts ==
  /\ Closers \subseteq {")", "]"}
  /\ \A c \in Openers : CloserOf[c] \in Closers
  /\ Advance => next' \in Chars
  /\ \A b, l, m : Upcoming(b, l, m) \subseteq Chars
BY DEF Closers, CloserOf, Advance, Upcoming

\* Steps that change neither the levels nor the layouts, nor drop a bracket.
LEMMA StacksKept ==
  ASSUME IInv, indent_stack' = indent_stack, lambda_layouts' = lambda_layouts,
         open_brackets' = open_brackets, suites' = suites, status = "scan",
         status' \in {"scan", "thrown"}
  PROVE  IndentsMatchStack' /\ LayoutsWithinBrackets'
BY DEF IInv, IndentsMatchStack, LayoutsWithinBrackets, Ascending

\* handle_indent(): layouts are only popped while the brackets stay.
LEMMA LineLayouts ==
  ASSUME IInv, status = "scan", open_brackets' = open_brackets,
         lambda_layouts' \in {LayoutsLeft, lambda_layouts}
  PROVE  /\ lambda_layouts' \in Seq([base_indent : Nat, bracket_depth : Nat])
         /\ LayoutsWithinBrackets'
<1>1. lambda_layouts \in Seq([base_indent : Nat, bracket_depth : Nat])
  BY DEF IInv, TypeOK
<1>2. PICK k \in 0..Len(lambda_layouts) :
         /\ lambda_layouts' \in Seq([base_indent : Nat, bracket_depth : Nat])
         /\ Len(lambda_layouts') = k
         /\ \A i \in 1..k : lambda_layouts'[i] = lambda_layouts[i]
  <2>1. CASE lambda_layouts' = lambda_layouts
    BY <1>1, <2>1, LenProperties
  <2>2. CASE lambda_layouts' = LayoutsLeft
    BY Zenon, <2>2, CutLayouts DEF IInv, LayoutsLeft
  <2> QED
    BY <2>1, <2>2
<1>3. DOMAIN lambda_layouts' = 1..k /\ DOMAIN lambda_layouts = 1..Len(lambda_layouts)
  BY <1>1, <1>2, LenProperties
<1>4. \A i \in 1..k : i \in DOMAIN lambda_layouts
  BY <1>3
<1> QED
  BY SMTT(30), <1>2, <1>3, <1>4 DEF IInv, LayoutsWithinBrackets

\* close_lambda_layout(): no layout of the current bracket depth is left.
LEMMA ClosedLayouts ==
  ASSUME IInv, status = "scan", CloseLambdaLayout
  PROVE  /\ lambda_layouts' \in Seq([base_indent : Nat, bracket_depth : Nat])
         /\ \A i \in DOMAIN lambda_layouts' :
               /\ lambda_layouts'[i].bracket_depth < Len(open_brackets)
               /\ \A j \in 1..i :
                     lambda_layouts'[j].bracket_depth <= lambda_layouts'[i].bracket_depth
<1> DEFINE drop == {i \in DOMAIN lambda_layouts :
                      lambda_layouts[i].bracket_depth = Len(open_brackets)}
<1>1. /\ lambda_layouts \in Seq([base_indent : Nat, bracket_depth : Nat])
      /\ Len(open_brackets) \in Nat /\ Len(lambda_layouts) \in Nat
  BY LenProperties DEF IInv, TypeOK
<1>2. lambda_layouts' = Cut(lambda_layouts, 0, drop)
  BY DEF CloseLambdaLayout, LayoutsKept
<1>3. PICK k \in 0..Len(lambda_layouts) :
         /\ lambda_layouts' \in Seq([base_indent : Nat, bracket_depth : Nat])
         /\ Len(lambda_layouts') = k
         /\ k = 0 \/ k \notin drop
         /\ \A i \in 1..k : lambda_layouts'[i] = lambda_layouts[i]
  <2> HIDE DEF drop
  <2> QED
    BY Zenon, <1>2, CutLayouts DEF IInv
<1>4. DOMAIN lambda_layouts' = 1..k /\ DOMAIN lambda_layouts = 1..Len(lambda_layouts)
  BY <1>1, <1>3, LenProperties
<1>5. ASSUME NEW i \in 1..k
      PROVE  /\ lambda_layouts[i].bracket_depth < Len(open_brackets)
             /\ \A j \in 1..i : lambda_layouts[j].bracket_depth <= lambda_layouts[i].bracket_depth
  <2>1. k \in DOMAIN lambda_layouts /\ i \in DOMAIN lambda_layouts /\ i \in 1..k
    <3>1. k \in 1..Len(lambda_layouts) /\ i \in 1..Len(lambda_layouts)
      BY <1>1
    <3> QED
      BY <1>4, <3>1
  <2>2. /\ lambda_layouts[k].bracket_depth <= Len(open_brackets)
        /\ lambda_layouts[i].bracket_depth <= lambda_layouts[k].bracket_depth
        /\ \A j \in 1..i : lambda_layouts[j].bracket_depth <= lambda_layouts[i].bracket_depth
    BY <2>1 DEF IInv, LayoutsWithinBrackets
  <2>3. lambda_layouts[k].bracket_depth # Len(open_brackets)
    BY <1>3, <2>1
  <2>4. lambda_layouts[k].bracket_depth \in Nat /\ lambda_layouts[i].bracket_depth \in Nat
    <3>1. /\ lambda_layouts[k] \in [base_indent : Nat, bracket_depth : Nat]
          /\ lambda_layouts[i] \in [base_indent : Nat, bracket_depth : Nat]
      BY Zenon, <1>1, <1>4, <2>1, ElementOfSeq
    <3> QED
      BY <3>1
  <2> QED
    BY SMTT(30), <1>1, <2>2, <2>3, <2>4
<1> QED
  BY SMTT(30), <1>3, <1>4, <1>5

\* TypeOK in three parts: the stacks, the scanner's members, the history of tokens.
StacksTyped ==
    /\ indent_stack \in Seq(Nat) /\ indent_stack # <<>>
    /\ open_brackets \in Seq([closer : Closers, line_indent : Nat])
    /\ lambda_layouts \in Seq([base_indent : Nat, bracket_depth : Nat])

ScanTyped ==
    /\ lambda \in LambdaState
    /\ at_line_start \in BOOLEAN
    /\ line_indent \in Nat /\ indent \in Nat
    /\ next \in Chars
    /\ status \in {"scan", "done", "thrown"}
    /\ awaited \in BOOLEAN /\ left_open \in BOOLEAN /\ clean \in BOOLEAN

HistoryTyped ==
    /\ suites \in Int /\ nest \in Seq(Closers \cup {"suite"})
    /\ blocks \in Seq(Nat) /\ misnested \in BOOLEAN

LEMMA TypeParts ==
  ASSUME TypeOK
  PROVE  StacksTyped /\ ScanTyped /\ HistoryTyped
BY DEF TypeOK, StacksTyped, ScanTyped, HistoryTyped, LambdaState

LEMMA InitIInv == Init => IInv
<1> SUFFICES ASSUME Init
             PROVE  IInv
  OBVIOUS
<1>1. StacksTyped
  BY DEF Init, StacksTyped
<1>2. ScanTyped
  <2>1. clean \in BOOLEAN
    BY LayoutAssumption DEF Init
  <2>2. lambda \in LambdaState
    BY DEF Init, NoLambda, LambdaState
  <2>3. indent \in Nat
    BY LayoutAssumption DEF Init
  <2>4. /\ at_line_start \in BOOLEAN /\ awaited \in BOOLEAN /\ left_open \in BOOLEAN
    BY Zenon DEF Init
  <2>5. line_indent \in Nat /\ next \in Chars /\ status \in {"scan", "done", "thrown"}
    BY DEF Init, Upcoming
  <2> QED
    BY <2>1, <2>2, <2>3, <2>4, <2>5 DEF ScanTyped
<1>3. HistoryTyped
  <2>1. misnested \in BOOLEAN
    BY Zenon DEF Init
  <2>2. suites \in Int /\ nest \in Seq(Closers \cup {"suite"}) /\ blocks \in Seq(Nat)
    BY DEF Init
  <2> QED
    BY <2>1, <2>2 DEF HistoryTyped
<1>4. IndentsMatchStack /\ LayoutsWithinBrackets
  BY DEF Init, IndentsMatchStack, LayoutsWithinBrackets, Ascending
<1>5. TypeOK
  BY <1>1, <1>2, <1>3 DEF TypeOK, StacksTyped, ScanTyped, HistoryTyped, LambdaState
<1> QED
  BY <1>4, <1>5 DEF IInv

LEMMA Assembled ==
  ASSUME StacksTyped', ScanTyped', HistoryTyped', IndentsMatchStack', LayoutsWithinBrackets'
  PROVE  IInv'
BY DEF IInv, TypeOK, StacksTyped, ScanTyped, HistoryTyped, LambdaState

\* Tokens that open nothing.
LEMMA EmitClosing ==
  ASSUME TypeOK, clean' \in BOOLEAN, NEW k \in Nat, NEW c, Emit(k, c, <<>>)
  PROVE  HistoryTyped' /\ suites' = suites - k
<1>1. <<>> \in Seq(Closers \cup {"suite"}) /\ <<>> # <<"suite">>
  OBVIOUS
<1>2. /\ misnested' \in BOOLEAN
      /\ nest' \in Seq(Closers \cup {"suite"})
      /\ blocks' \in Seq(Nat)
      /\ suites' = suites - k + (IF <<>> = <<"suite">> THEN 1 ELSE 0)
  BY Zenon, <1>1, EmitCounts
<1>3. suites' = suites - k /\ suites' \in Int
  BY <1>1, <1>2 DEF TypeOK
<1> QED
  BY <1>2, <1>3 DEF HistoryTyped

\* What the actions of handle_indent() on a line that is not blank have in common.
LEMMA LineStartFacts ==
  ASSUME IInv, LineStart, clean' \in BOOLEAN, status' \in {"scan", "done", "thrown"}
  PROVE  ScanTyped' /\ status = "scan" /\ open_brackets' = open_brackets
<1>1. left_open' \in BOOLEAN
  <2>1. left_open \in BOOLEAN /\ clean \in BOOLEAN
    BY DEF IInv, TypeOK
  <2>2. left_open' = (left_open \/ (clean /\ LeavesOpen))
    BY DEF LineStart
  <2> QED
    BY <2>1, <2>2
<1>2. at_line_start' \in BOOLEAN /\ awaited' \in BOOLEAN
  BY Zenon DEF LineStart
<1>3. /\ lambda' \in LambdaState /\ line_indent' \in Nat /\ indent' \in Nat /\ next' \in Chars
  BY DEF LineStart, input, IInv, TypeOK, LambdaState
<1> QED
  BY <1>1, <1>2, <1>3 DEF ScanTyped, LineStart

\* Appending a level above the last keeps a stack rising.
LEMMA AppendRises ==
  ASSUME NEW s \in Seq(Nat), Ascending(s), NEW n \in Nat,
         s # <<>> => s[Len(s)] < n
  PROVE  /\ Append(s, n) \in Seq(Nat) /\ Append(s, n) # <<>>
         /\ Len(Append(s, n)) = Len(s) + 1
         /\ Ascending(Append(s, n))
<1> DEFINE t == Append(s, n)
<1>1. /\ t \in Seq(Nat) /\ t # <<>> /\ Len(t) = Len(s) + 1
      /\ \A i \in 1..Len(s) : t[i] = s[i]
      /\ t[Len(s) + 1] = n
  BY AppendProperties
<1>2. /\ DOMAIN t = 1..(Len(s) + 1) /\ DOMAIN s = 1..Len(s) /\ Len(s) \in Nat
      /\ \A i \in 1..Len(s) : s[i] \in Nat
  BY <1>1, LenProperties, ElementOfSeq
<1> HIDE DEF t
<1>3. \A i, j \in 1..Len(s) : i < j => s[i] < s[j]
  BY Zenon, <1>2 DEF Ascending
<1>4. ASSUME NEW i \in 1..Len(s)
      PROVE  s[i] < n
  <2>1. s[Len(s)] < n
    BY <1>2, EmptySeq
  <2>2. Len(s) \in 1..Len(s)
    BY <1>2
  <2>3. CASE i = Len(s)
    BY <2>1, <2>3
  <2>4. CASE i < Len(s)
    <3>1. s[i] < s[Len(s)]
      BY <1>3, <2>2, <2>4
    <3>2. s[i] \in Nat /\ s[Len(s)] \in Nat
      BY <1>2, <2>2
    <3> QED
      BY <2>1, <3>1, <3>2
  <2>5. i = Len(s) \/ i < Len(s)
    BY <2>2
  <2> QED
    BY <2>3, <2>4, <2>5
<1>5. ASSUME NEW i \in 1..(Len(s) + 1), NEW j \in 1..(Len(s) + 1), i < j
      PROVE  t[i] < t[j]
  <2>1. i \in 1..Len(s)
    BY <1>2, <1>5
  <2>2. CASE j = Len(s) + 1
    BY SMTT(30), <1>1, <1>4, <2>1, <2>2
  <2>3. CASE j \in 1..Len(s)
    BY <1>1, <1>3, <1>5, <2>1, <2>3
  <2> QED
    BY <1>2, <2>2, <2>3
<1>6. Ascending(t)
  BY <1>2, <1>5 DEF Ascending
<1> QED
  BY <1>1, <1>6 DEF t

LEMMA IndentLineStep ==
  ASSUME IInv, IndentLine
  PROVE  IInv'
<1>1. /\ LineStart /\ indent > Top(indent_stack) /\ status' = status
      /\ clean' = (clean /\ (awaited => indent > Top(lambda_layouts).base_indent))
      /\ indent_stack' = Append(indent_stack, indent)
      /\ lambda_layouts' = LayoutsLeft
      /\ Emit(0, "none", <<"suite">>)
  BY DEF IndentLine
<1>2. /\ indent_stack \in Seq(Nat) /\ Ascending(indent_stack) /\ Len(indent_stack) \in Nat
      /\ indent \in Nat /\ suites = Len(indent_stack) - 1 /\ clean \in BOOLEAN
      /\ status \in {"scan", "done", "thrown"}
  BY LenProperties DEF IInv, TypeOK, IndentsMatchStack
<1>3. clean' \in BOOLEAN
  BY <1>1, <1>2
<1>4. ScanTyped' /\ status = "scan" /\ open_brackets' = open_brackets
  BY <1>1, <1>2, <1>3, LineStartFacts
<1>5. HistoryTyped' /\ suites' = suites + 1
  <2>1. 0 \in Nat /\ <<"suite">> \in Seq(Closers \cup {"suite"})
    OBVIOUS
  <2>2. /\ misnested' \in BOOLEAN /\ nest' \in Seq(Closers \cup {"suite"})
        /\ blocks' \in Seq(Nat)
        /\ suites' = suites - 0 + (IF <<"suite">> = <<"suite">> THEN 1 ELSE 0)
    BY Zenon, <1>1, <1>3, <2>1, EmitCounts DEF IInv
  <2>3. suites' = suites + 1 /\ suites' \in Int
    BY <1>2, <2>2
  <2> QED
    BY <2>2, <2>3 DEF HistoryTyped
<1>6. /\ indent_stack' \in Seq(Nat) /\ indent_stack' # <<>>
      /\ Len(indent_stack') = Len(indent_stack) + 1 /\ Ascending(indent_stack')
  <2>1. indent_stack[Len(indent_stack)] < indent
    <3>1. indent_stack[Len(indent_stack)] \in Nat
      BY DEF IInv, TypeOK
    <3> QED
      BY <1>1, <1>2, <3>1 DEF Top
  <2> QED
    BY SMTT(30), <1>1, <1>2, <2>1, AppendRises
<1>7. LayoutsWithinBrackets' /\ lambda_layouts' \in Seq([base_indent : Nat, bracket_depth : Nat])
  BY <1>1, <1>4, LineLayouts
<1>8. StacksTyped'
  BY <1>4, <1>6, <1>7 DEF StacksTyped, IInv, TypeOK
<1>9. IndentsMatchStack'
  BY <1>1, <1>2, <1>4, <1>5, <1>6 DEF IndentsMatchStack
<1> QED
  BY <1>4, <1>5, <1>7, <1>8, <1>9, Assembled

\* The levels handle_indent() and close_lambda_layout() keep.
LEMMA LevelsFacts ==
  ASSUME IInv, NEW s \in {LevelsLeft, LevelsKept}
  PROVE  /\ s \in Seq(Nat) /\ s # <<>> /\ Ascending(s)
         /\ Len(s) \in 1..Len(indent_stack) /\ Len(indent_stack) \in Nat
         /\ Len(indent_stack) - Len(s) \in Nat
         /\ s = LevelsLeft /\ Len(s) > 1 => Top(s) <= indent
<1>1. TypeOK /\ Ascending(indent_stack) /\ Len(indent_stack) \in Nat /\ indent_stack \in Seq(Nat)
  BY LenProperties DEF IInv, TypeOK, IndentsMatchStack
<1>2. CASE s = LevelsLeft
  <2> DEFINE drop == {i \in DOMAIN indent_stack : indent_stack[i] > indent}
  <2>1. s = Cut(indent_stack, 1, drop)
    BY <1>2 DEF LevelsLeft
  <2> HIDE DEF drop
  <2>2. PICK k \in 1..Len(indent_stack) :
           /\ s \in Seq(Nat) /\ Len(s) = k /\ Ascending(s)
           /\ k = 1 \/ k \notin drop
           /\ \A i \in 1..k : s[i] = indent_stack[i]
    BY <1>1, <2>1, CutLevels
  <2>3. s # <<>>
    BY <2>2
  <2>4. k \in DOMAIN indent_stack /\ indent_stack[k] \in Nat /\ indent \in Nat /\ s[k] = indent_stack[k]
    BY SMTT(30), <1>1, <2>2 DEF TypeOK
  <2>5. Len(s) > 1 => Top(s) <= indent
    BY <2>2, <2>4 DEF Top, drop
  <2> QED
    BY <1>1, <2>2, <2>3, <2>5
<1>3. CASE s = LevelsKept /\ s # LevelsLeft
  <2> DEFINE drop == {i \in DOMAIN indent_stack :
                        \E j \in (Len(LayoutsKept) + 1)..Len(lambda_layouts) :
                            indent_stack[i] > lambda_layouts[j].base_indent}
  <2>1. s = Cut(indent_stack, 1, drop)
    BY <1>3 DEF LevelsKept
  <2> HIDE DEF drop
  <2>2. PICK k \in 1..Len(indent_stack) : s \in Seq(Nat) /\ Len(s) = k /\ Ascending(s)
    BY <1>1, <2>1, CutLevels
  <2>3. s # <<>>
    BY <2>2
  <2> QED
    BY <1>1, <1>3, <2>2, <2>3
<1> QED
  BY <1>2, <1>3

\* Popping the last level of a rising stack.
LEMMA PopFacts ==
  ASSUME NEW s \in Seq(Nat), s # <<>>, Ascending(s)
  PROVE  /\ Pop(s) \in Seq(Nat) /\ Len(Pop(s)) = Len(s) - 1 /\ Ascending(Pop(s))
         /\ Pop(s) # <<>> => Len(s) > 1 /\ Pop(s)[Len(Pop(s))] < s[Len(s)]
<1> DEFINE t == Pop(s)
           n == Len(s) - 1
<1>1. n \in Nat /\ n + 1 = Len(s) /\ DOMAIN s = 1..(n + 1)
  BY EmptySeq, LenProperties
<1>2. /\ t \in Seq(Nat) /\ Len(t) = n
      /\ \A i \in 1..n : t[i] = s[i]
  BY <1>1, PrefixFacts DEF Pop
<1>3. DOMAIN t = 1..n
  BY <1>2, LenProperties
<1> HIDE DEF t, n
<1>4. \A i, j \in 1..(n + 1) : i < j => s[i] < s[j]
  BY SMTT(30), <1>1 DEF Ascending
<1>5. Ascending(t)
  BY <1>1, <1>2, <1>3, <1>4 DEF Ascending
<1>6. ASSUME t # <<>>
      PROVE  Len(s) > 1 /\ t[Len(t)] < s[Len(s)]
  <2>1. n > 0
    BY SMTT(30), <1>1, <1>2, <1>6, EmptySeq
  <2>2. s[n] < s[n + 1]
    BY <1>1, <1>4, <2>1
  <2> QED
    BY SMTT(30), <1>1, <1>2, <2>1, <2>2
<1> QED
  BY <1>2, <1>5, <1>6 DEF t, n

LEMMA DedentLineStep ==
  ASSUME IInv, DedentLine
  PROVE  IInv'
<1>1. /\ LineStart /\ status' = status
      /\ clean' = (clean /\ ~awaited)
      /\ indent_stack' = LevelsLeft
      /\ lambda_layouts' = LayoutsLeft
      /\ Emit(Len(indent_stack) - Len(LevelsLeft), "none", <<>>)
  BY DEF DedentLine
<1>2. /\ suites = Len(indent_stack) - 1 /\ clean \in BOOLEAN
      /\ status \in {"scan", "done", "thrown"}
  BY DEF IInv, TypeOK, IndentsMatchStack
<1>3. clean' \in BOOLEAN
  BY <1>1, <1>2
<1>4. ScanTyped' /\ status = "scan" /\ open_brackets' = open_brackets
  BY <1>1, <1>2, <1>3, LineStartFacts
<1>5. /\ LevelsLeft \in Seq(Nat) /\ LevelsLeft # <<>> /\ Ascending(LevelsLeft)
      /\ Len(LevelsLeft) \in 1..Len(indent_stack) /\ Len(indent_stack) \in Nat
      /\ Len(indent_stack) - Len(LevelsLeft) \in Nat
  BY LevelsFacts
<1>6. HistoryTyped' /\ suites' = suites - (Len(indent_stack) - Len(LevelsLeft))
  BY <1>1, <1>3, <1>5, EmitClosing DEF IInv
<1>7. LayoutsWithinBrackets' /\ lambda_layouts' \in Seq([base_indent : Nat, bracket_depth : Nat])
  BY <1>1, <1>4, LineLayouts
<1>8. StacksTyped'
  BY <1>1, <1>4, <1>5, <1>7 DEF StacksTyped, IInv, TypeOK
<1>9. IndentsMatchStack'
  BY SMTT(30), <1>1, <1>2, <1>4, <1>5, <1>6 DEF IndentsMatchStack
<1> QED
  BY SMTT(30), <1>4, <1>6, <1>7, <1>8, <1>9, Assembled

\* The level the line closes to is replaced by a higher one, unless it is the bottom.
LEMMA InconsistentLineStep ==
  ASSUME IInv, InconsistentLine
  PROVE  IInv'
<1>1. /\ LineStart /\ status' \in {"scan", "thrown"} /\ clean' = FALSE
      /\ indent # Top(LevelsLeft)
      /\ indent_stack' \in {Append(Pop(LevelsLeft), indent), LevelsLeft}
      /\ lambda_layouts' \in {LayoutsLeft, lambda_layouts}
      /\ Emit(Len(indent_stack) - Len(LevelsLeft), "none", <<>>)
  BY DEF InconsistentLine, Fail
<1>2. /\ suites = Len(indent_stack) - 1 /\ indent \in Nat
  BY DEF IInv, TypeOK, IndentsMatchStack
<1>3. clean' \in BOOLEAN
  BY Zenon, <1>1
<1>4. ScanTyped' /\ status = "scan" /\ open_brackets' = open_brackets
  BY <1>1, <1>3, LineStartFacts
<1>5. /\ LevelsLeft \in Seq(Nat) /\ LevelsLeft # <<>> /\ Ascending(LevelsLeft)
      /\ Len(LevelsLeft) \in 1..Len(indent_stack) /\ Len(indent_stack) \in Nat
      /\ Len(indent_stack) - Len(LevelsLeft) \in Nat
      /\ Len(LevelsLeft) > 1 => Top(LevelsLeft) <= indent
  BY LevelsFacts
<1>6. HistoryTyped' /\ suites' = suites - (Len(indent_stack) - Len(LevelsLeft))
  BY <1>1, <1>3, <1>5, EmitClosing DEF IInv
<1>7. LayoutsWithinBrackets' /\ lambda_layouts' \in Seq([base_indent : Nat, bracket_depth : Nat])
  BY <1>1, <1>4, LineLayouts
<1>8. /\ indent_stack' \in Seq(Nat) /\ indent_stack' # <<>> /\ Ascending(indent_stack')
      /\ Len(indent_stack') = Len(LevelsLeft)
  <2> DEFINE s == LevelsLeft
  <2>1. /\ Pop(s) \in Seq(Nat) /\ Len(Pop(s)) = Len(s) - 1 /\ Ascending(Pop(s))
        /\ Pop(s) # <<>> => Len(s) > 1 /\ Pop(s)[Len(Pop(s))] < s[Len(s)]
    BY <1>5, PopFacts
  <2>2. Pop(s) # <<>> => Pop(s)[Len(Pop(s))] < indent
    <3> SUFFICES ASSUME Pop(s) # <<>>
                 PROVE  Pop(s)[Len(Pop(s))] < indent
      OBVIOUS
    <3>1. s[Len(s)] \in Nat /\ Pop(s)[Len(Pop(s))] \in Nat
      BY SMTT(30), <1>5, <2>1
    <3> QED
      BY SMTT(30), <1>1, <1>2, <1>5, <2>1, <3>1 DEF Top
  <2>3. /\ Append(Pop(s), indent) \in Seq(Nat) /\ Append(Pop(s), indent) # <<>>
        /\ Len(Append(Pop(s), indent)) = Len(Pop(s)) + 1
        /\ Ascending(Append(Pop(s), indent))
    BY <1>2, <2>1, <2>2, AppendRises
  <2>4. Len(Pop(s)) + 1 = Len(s)
    BY <1>5, <2>1
  <2> QED
    BY Zenon, <1>1, <1>5, <2>3, <2>4
<1>9. StacksTyped'
  BY <1>4, <1>7, <1>8 DEF StacksTyped, IInv, TypeOK
<1>10. IndentsMatchStack'
  BY <1>1, <1>2, <1>4, <1>5, <1>6, <1>8 DEF IndentsMatchStack
<1> QED
  BY <1>4, <1>6, <1>7, <1>9, <1>10, Assembled

\* Steps that leave the three stacks alone.
LEMMA StacksUnchanged ==
  ASSUME IInv, UNCHANGED stacks, status = "scan", status' \in {"scan", "thrown"},
         ScanTyped', HistoryTyped', suites' = suites
  PROVE  IInv'
<1>1. /\ indent_stack' = indent_stack /\ lambda_layouts' = lambda_layouts
      /\ open_brackets' = open_brackets
  BY DEF stacks
<1>2. IndentsMatchStack' /\ LayoutsWithinBrackets'
  BY <1>1, StacksKept
<1>3. StacksTyped'
  BY <1>1 DEF StacksTyped, IInv, TypeOK
<1> QED
  BY <1>2, <1>3, Assembled

LEMMA HistoryKept ==
  ASSUME IInv, UNCHANGED history
  PROVE  /\ HistoryTyped' /\ suites' = suites
         /\ awaited' \in BOOLEAN /\ left_open' \in BOOLEAN /\ clean' \in BOOLEAN
<1>1. HistoryTyped /\ awaited \in BOOLEAN /\ left_open \in BOOLEAN /\ clean \in BOOLEAN
  BY DEF IInv, TypeOK, HistoryTyped
<1>2. /\ suites' = suites /\ nest' = nest /\ misnested' = misnested /\ awaited' = awaited
      /\ left_open' = left_open /\ blocks' = blocks /\ clean' = clean
  BY DEF history
<1> QED
  BY <1>1, <1>2 DEF HistoryTyped

LEMMA BlankLineStep ==
  ASSUME IInv, BlankLine
  PROVE  IInv'
<1>1. /\ status = "scan" /\ status' = status /\ at_line_start' = FALSE
      /\ lambda' = lambda /\ line_indent' = line_indent /\ indent' = indent /\ next' = next
      /\ UNCHANGED stacks /\ UNCHANGED history
  BY DEF BlankLine, input
<1>2. /\ HistoryTyped' /\ suites' = suites
      /\ awaited' \in BOOLEAN /\ left_open' \in BOOLEAN /\ clean' \in BOOLEAN
  BY <1>1, HistoryKept
<1>3. at_line_start' \in BOOLEAN
  BY Zenon, <1>1
<1>4. ScanTyped'
  BY <1>1, <1>2, <1>3 DEF ScanTyped, IInv, TypeOK, LambdaState
<1> QED
  BY <1>1, <1>2, <1>4, StacksUnchanged

\* What the actions of scan_token() that end in the middle of a line have in common.
LEMMA TokenFacts ==
  ASSUME IInv, UNCHANGED <<at_line_start, line_indent>>, lambda' \in LambdaState,
         indent' \in Nat, next' \in Chars, status' \in {"scan", "done", "thrown"},
         awaited' \in BOOLEAN, left_open' \in BOOLEAN, clean' \in BOOLEAN
  PROVE  ScanTyped'
<1>1. at_line_start \in BOOLEAN /\ line_indent \in Nat
  BY DEF IInv, TypeOK
<1> QED
  BY <1>1 DEF ScanTyped

LEMMA HistoryBooleans ==
  ASSUME IInv
  PROVE  /\ awaited \in BOOLEAN /\ left_open \in BOOLEAN /\ clean \in BOOLEAN
         /\ lambda \in LambdaState /\ Inline \in LambdaState /\ next \in Chars /\ indent \in Nat
BY InlineType DEF IInv, TypeOK, LambdaState

LEMMA ContinueLineStep ==
  ASSUME IInv, ContinueLine
  PROVE  IInv'
<1>1. /\ status = "scan" /\ status' = status /\ indent' \in Indents /\ lambda' = Inline
      /\ UNCHANGED stacks /\ UNCHANGED <<at_line_start, line_indent>> /\ Advance
      /\ awaited' = awaited /\ left_open' = left_open
      /\ clean' = (clean /\ StandsInBlock)
      /\ Emit(0, "none", <<>>)
  BY DEF ContinueLine, Scanning
<1>2. clean' \in BOOLEAN /\ awaited' \in BOOLEAN /\ left_open' \in BOOLEAN
  BY <1>1, HistoryBooleans
<1>3. HistoryTyped' /\ suites' = suites
  <2>1. HistoryTyped' /\ suites' = suites - 0 /\ suites \in Int
    BY <1>1, <1>2, EmitClosing DEF IInv, TypeOK
  <2> QED
    BY <2>1
<1>4. indent' \in Nat /\ next' \in Chars /\ lambda' \in LambdaState
  BY <1>1, LayoutAssumption, CharFacts, HistoryBooleans
<1>5. ScanTyped'
  BY <1>1, <1>2, <1>4, TokenFacts
<1> QED
  BY <1>1, <1>3, <1>5, StacksUnchanged

LEMMA ColonStep ==
  ASSUME IInv, Colon
  PROVE  IInv'
<1>1. /\ status = "scan" /\ status' = status /\ indent' = indent
      /\ lambda' \in {Inline, [NoLambda EXCEPT !.suite_may_start = TRUE,
                                              !.base_indent = lambda.base_indent]}
      /\ UNCHANGED stacks /\ UNCHANGED <<at_line_start, line_indent>> /\ Advance
      /\ awaited' = awaited /\ left_open' = left_open
      /\ clean' = (clean /\ (lambda.signature /\ lambda.parameters_closed => ~InParameters))
      /\ Emit(0, "none", <<>>)
  BY DEF Colon, Scanning
<1>2. clean' \in BOOLEAN /\ awaited' \in BOOLEAN /\ left_open' \in BOOLEAN
  BY <1>1, HistoryBooleans
<1>3. HistoryTyped' /\ suites' = suites
  <2>1. HistoryTyped' /\ suites' = suites - 0 /\ suites \in Int
    BY Zenon, <1>1, <1>2, EmitClosing DEF IInv, TypeOK
  <2> QED
    BY <2>1
<1>4. lambda' \in LambdaState
  <2>1. [NoLambda EXCEPT !.suite_may_start = TRUE, !.base_indent = lambda.base_indent]
           \in LambdaState
    BY Zenon, HistoryBooleans DEF NoLambda, LambdaState
  <2> QED
    BY <1>1, <2>1, HistoryBooleans
<1>5. indent' \in Nat /\ next' \in Chars
  BY <1>1, CharFacts, HistoryBooleans
<1>6. ScanTyped'
  BY <1>1, <1>2, <1>4, <1>5, TokenFacts
<1> QED
  BY <1>1, <1>3, <1>6, StacksUnchanged

LEMMA ScanIdentifierStep ==
  ASSUME IInv, ScanIdentifier
  PROVE  IInv'
<1>1. /\ status = "scan" /\ status' = status /\ indent' = indent
      /\ lambda' \in {Inline, [NoLambda EXCEPT !.signature = TRUE, !.base_indent = indent]}
      /\ UNCHANGED stacks /\ UNCHANGED history /\ Advance
      /\ UNCHANGED <<at_line_start, line_indent>>
  BY DEF ScanIdentifier, Scanning
<1>2. /\ HistoryTyped' /\ suites' = suites
      /\ awaited' \in BOOLEAN /\ left_open' \in BOOLEAN /\ clean' \in BOOLEAN
  BY <1>1, HistoryKept
<1>3. lambda' \in LambdaState
  <2>1. [NoLambda EXCEPT !.signature = TRUE, !.base_indent = indent] \in LambdaState
    BY Zenon, HistoryBooleans DEF NoLambda, LambdaState
  <2> QED
    BY <1>1, <2>1, HistoryBooleans
<1>4. indent' \in Nat /\ next' \in Chars
  BY <1>1, CharFacts, HistoryBooleans
<1>5. ScanTyped'
  BY <1>1, <1>2, <1>3, <1>4, TokenFacts
<1> QED
  BY <1>1, <1>2, <1>5, StacksUnchanged

LEMMA ErrorStep ==
  ASSUME IInv, RejectToken \/ Unclosed
  PROVE  IInv'
<1>1. /\ status = "scan" /\ status' \in {"scan", "thrown"} /\ indent' = indent
      /\ lambda' \in {Inline, lambda}
      /\ UNCHANGED stacks /\ UNCHANGED history /\ (Advance \/ next' = next)
      /\ UNCHANGED <<at_line_start, line_indent>>
  BY DEF RejectToken, Unclosed, Scanning, Fail, input
<1>2. /\ HistoryTyped' /\ suites' = suites
      /\ awaited' \in BOOLEAN /\ left_open' \in BOOLEAN /\ clean' \in BOOLEAN
  BY <1>1, HistoryKept
<1>3. indent' \in Nat /\ next' \in Chars /\ lambda' \in LambdaState
  BY <1>1, CharFacts, HistoryBooleans
<1>4. ScanTyped'
  BY <1>1, <1>2, <1>3, TokenFacts
<1> QED
  BY <1>1, <1>2, <1>4, StacksUnchanged

\* One more bracket: the layouts stay inside the ones they were opened in.
LEMMA OpenBracketStep ==
  ASSUME IInv, OpenBracket
  PROVE  IInv'
<1> DEFINE B == [closer : Closers, line_indent : Nat]
           b == [closer |-> CloserOf[next], line_indent |-> line_indent]
<1>1. /\ status = "scan" /\ status' = status /\ indent' = indent /\ next \in Openers
      /\ open_brackets' = Append(open_brackets, b)
      /\ lambda' \in {Inline, [Inline EXCEPT !.parameter_depth = Len(open_brackets')]}
      /\ indent_stack' = indent_stack /\ lambda_layouts' = lambda_layouts
      /\ UNCHANGED <<at_line_start, line_indent>> /\ Advance
      /\ awaited' = awaited /\ left_open' = left_open /\ clean' = clean
      /\ Emit(0, "none", <<CloserOf[next]>>)
  BY DEF OpenBracket, Scanning
<1>2. clean' \in BOOLEAN /\ awaited' \in BOOLEAN /\ left_open' \in BOOLEAN
  BY <1>1, HistoryBooleans
<1>3. CloserOf[next] \in Closers /\ CloserOf[next] # "suite"
  BY <1>1, CharFacts
<1>4. /\ open_brackets' \in Seq(B) /\ Len(open_brackets') = Len(open_brackets) + 1
      /\ Len(open_brackets) \in Nat
  <2>1. b \in B /\ open_brackets \in Seq(B)
    BY <1>3 DEF IInv, TypeOK
  <2> HIDE DEF B, b
  <2> QED
    BY <1>1, <2>1, AppendProperties, LenProperties
<1>5. HistoryTyped' /\ suites' = suites
  <2> DEFINE opens == <<CloserOf[next]>>
  <2>1. 0 \in Nat /\ opens \in Seq(Closers \cup {"suite"}) /\ opens # <<"suite">>
    BY <1>3
  <2>2. Emit(0, "none", opens) /\ suites \in Int /\ TypeOK
    BY <1>1 DEF IInv, TypeOK
  <2> HIDE DEF opens
  <2>3. /\ misnested' \in BOOLEAN /\ nest' \in Seq(Closers \cup {"suite"})
        /\ blocks' \in Seq(Nat)
        /\ suites' = suites - 0 + (IF opens = <<"suite">> THEN 1 ELSE 0)
    BY <1>2, <2>1, <2>2, EmitCounts
  <2>4. suites' = suites
    BY <2>1, <2>2, <2>3
  <2> QED
    BY <2>2, <2>3, <2>4 DEF HistoryTyped
<1>6. lambda' \in LambdaState
  BY <1>1, <1>4, HistoryBooleans DEF LambdaState
<1>7. indent' \in Nat /\ next' \in Chars
  BY <1>1, CharFacts, HistoryBooleans
<1>8. ScanTyped'
  BY <1>1, <1>2, <1>6, <1>7, TokenFacts
<1>9. StacksTyped'
  BY <1>1, <1>4 DEF StacksTyped, IInv, TypeOK
<1>10. IndentsMatchStack'
  BY <1>1, <1>5 DEF IndentsMatchStack, IInv, Ascending
<1>11. LayoutsWithinBrackets'
  <2> SUFFICES ASSUME NEW i \in DOMAIN lambda_layouts
               PROVE  /\ lambda_layouts[i].bracket_depth <= Len(open_brackets) + 1
                      /\ \A j \in 1..i :
                            lambda_layouts[j].bracket_depth <= lambda_layouts[i].bracket_depth
    BY <1>1, <1>4 DEF LayoutsWithinBrackets
  <2>1. /\ lambda_layouts[i].bracket_depth <= Len(open_brackets)
        /\ \A j \in 1..i : lambda_layouts[j].bracket_depth <= lambda_layouts[i].bracket_depth
    BY <1>1 DEF IInv, LayoutsWithinBrackets
  <2>2. lambda_layouts[i].bracket_depth \in Nat
    <3>1. lambda_layouts \in Seq([base_indent : Nat, bracket_depth : Nat])
      BY DEF IInv, TypeOK
    <3>2. lambda_layouts[i] \in [base_indent : Nat, bracket_depth : Nat]
      BY Zenon, <3>1, ElementOfSeq, LenProperties
    <3> QED
      BY <3>2
  <2> QED
    BY <1>4, <2>1, <2>2
<1> QED
  BY <1>5, <1>8, <1>9, <1>10, <1>11, Assembled

\* close_lambda_layout() and then perhaps the pop of a bracket: no layout of
\* the depth that ends is left, so the rest fit one bracket less.
LEMMA ClosingStep ==
  ASSUME IInv, CloseLambdaLayout, status = "scan", status' = status, ScanTyped',
         open_brackets' \in {open_brackets, Pop(open_brackets)},
         open_brackets' # open_brackets => open_brackets # <<>>,
         NEW c, Emit(Len(indent_stack) - Len(LevelsKept), c, <<>>)
  PROVE  IInv'
<1> DEFINE B == [closer : Closers, line_indent : Nat]
<1>1. /\ LevelsKept \in Seq(Nat) /\ LevelsKept # <<>> /\ Ascending(LevelsKept)
      /\ Len(LevelsKept) \in 1..Len(indent_stack) /\ Len(indent_stack) \in Nat
      /\ Len(indent_stack) - Len(LevelsKept) \in Nat
  BY LevelsFacts
<1>2. indent_stack' = LevelsKept
  BY DEF CloseLambdaLayout
<1>3. HistoryTyped' /\ suites' = suites - (Len(indent_stack) - Len(LevelsKept))
  <2>1. TypeOK /\ clean' \in BOOLEAN
    BY DEF IInv, ScanTyped
  <2> QED
    BY <1>1, <2>1, EmitClosing
<1>4. IndentsMatchStack'
  <2>1. suites = Len(indent_stack) - 1
    BY DEF IInv, IndentsMatchStack
  <2> QED
    BY <1>1, <1>2, <1>3, <2>1 DEF IndentsMatchStack
<1>5. /\ open_brackets' \in Seq(B) /\ Len(open_brackets') \in Nat
      /\ Len(open_brackets') >= Len(open_brackets) - 1 /\ Len(open_brackets) \in Nat
  <2>1. open_brackets \in Seq(B)
    BY DEF IInv, TypeOK
  <2> HIDE DEF B
  <2>2. Len(open_brackets) \in Nat
    BY <2>1, LenProperties
  <2>3. CASE open_brackets' = open_brackets
    BY <2>1, <2>2, <2>3
  <2>4. CASE open_brackets' = Pop(open_brackets) /\ open_brackets # <<>>
    <3>1. Len(open_brackets) - 1 \in Nat
      BY <2>1, <2>2, <2>4, EmptySeq
    <3> DEFINE n == Len(open_brackets) - 1
    <3>2. n \in Int /\ n <= Len(open_brackets) /\ n >= 0
      BY <2>2, <3>1
    <3> HIDE DEF n
    <3>3. SubSeq(open_brackets, 1, n) \in Seq(B) /\ Len(SubSeq(open_brackets, 1, n)) = n
      BY <2>1, <3>2, PrefixFacts
    <3>4. Pop(open_brackets) \in Seq(B) /\ Len(Pop(open_brackets)) = Len(open_brackets) - 1
      BY <3>3 DEF Pop, n
    <3> QED
      BY <2>2, <2>4, <3>1, <3>4
  <2> QED
    BY <2>3, <2>4
<1>6. /\ lambda_layouts' \in Seq([base_indent : Nat, bracket_depth : Nat])
      /\ \A i \in DOMAIN lambda_layouts' :
            /\ lambda_layouts'[i].bracket_depth < Len(open_brackets)
            /\ \A j \in 1..i :
                  lambda_layouts'[j].bracket_depth <= lambda_layouts'[i].bracket_depth
  BY ClosedLayouts
<1>7. ASSUME NEW i \in DOMAIN lambda_layouts'
      PROVE  lambda_layouts'[i].bracket_depth <= Len(open_brackets')
  <2>1. lambda_layouts'[i] \in [base_indent : Nat, bracket_depth : Nat]
    BY Zenon, <1>6, <1>7, ElementOfSeq, LenProperties
  <2>2. lambda_layouts'[i].bracket_depth \in Nat
    BY <2>1
  <2> QED
    BY SMTT(30), <1>5, <1>6, <1>7, <2>2
<1>8. LayoutsWithinBrackets'
  BY <1>6, <1>7 DEF LayoutsWithinBrackets
<1>9. StacksTyped'
  BY <1>1, <1>2, <1>5, <1>6 DEF StacksTyped
<1> QED
  BY <1>3, <1>4, <1>8, <1>9, Assembled

LEMMA CloseBracketStep ==
  ASSUME IInv, CloseBracket
  PROVE  IInv'
<1> DEFINE matches == open_brackets # <<>> /\ Top(open_brackets).closer = next
<1>1. /\ status = "scan" /\ status' = status /\ indent' = indent /\ CloseLambdaLayout
      /\ open_brackets' = IF matches THEN Pop(open_brackets) ELSE open_brackets
      /\ clean' = (clean /\ matches /\ InHeader)
      /\ lambda' \in {Inline, [Inline EXCEPT !.parameters_closed = TRUE]}
      /\ Emit(Len(indent_stack) - Len(LevelsKept), next, <<>>)
      /\ UNCHANGED <<at_line_start, line_indent>> /\ Advance
      /\ awaited' = awaited /\ left_open' = left_open
  BY DEF CloseBracket, Scanning
<1>2. clean' \in BOOLEAN /\ awaited' \in BOOLEAN /\ left_open' \in BOOLEAN
  BY <1>1, HistoryBooleans
<1>3. lambda' \in LambdaState
  BY Zenon, <1>1, HistoryBooleans DEF LambdaState
<1>4. indent' \in Nat /\ next' \in Chars
  BY <1>1, CharFacts, HistoryBooleans
<1>5. ScanTyped'
  BY <1>1, <1>2, <1>3, <1>4, TokenFacts
<1>6. /\ open_brackets' \in {open_brackets, Pop(open_brackets)}
      /\ open_brackets' # open_brackets => open_brackets # <<>>
  BY <1>1
<1> QED
  BY <1>1, <1>5, <1>6, ClosingStep

LEMMA CommaStep ==
  ASSUME IInv, Comma
  PROVE  IInv'
<1>1. /\ status = "scan" /\ status' = status /\ indent' = indent /\ CloseLambdaLayout
      /\ open_brackets' = open_brackets /\ lambda' = Inline
      /\ clean' = (clean /\ InHeader)
      /\ Emit(Len(indent_stack) - Len(LevelsKept), "none", <<>>)
      /\ UNCHANGED <<at_line_start, line_indent>> /\ Advance
      /\ awaited' = awaited /\ left_open' = left_open
  BY Zenon DEF Comma, Scanning
<1>2. clean' \in BOOLEAN /\ awaited' \in BOOLEAN /\ left_open' \in BOOLEAN
  BY <1>1, HistoryBooleans
<1>3. indent' \in Nat /\ next' \in Chars /\ lambda' \in LambdaState
  BY <1>1, CharFacts, HistoryBooleans
<1>4. ScanTyped'
  BY <1>1, <1>2, <1>3, TokenFacts
<1> QED
  BY <1>1, <1>4, ClosingStep

\* A lambda's layout is pushed at the current depth, above all the others; a
\* tolerant lexer that gives the brackets up gives the layouts up with them.
LEMMA NewlineStep ==
  ASSUME IInv, Newline
  PROVE  IInv'
<1> DEFINE L == [base_indent : Nat, bracket_depth : Nat]
           B == [closer : Closers, line_indent : Nat]
           new == [base_indent |-> lambda.base_indent, bracket_depth |-> Len(open_brackets)]
           resumes == tolerant /\ open_brackets # <<>> /\ ResumesAfterUnclosed
<1>1. /\ status = "scan" /\ status' = status /\ indent' \in Indents
      /\ next' \in Upcoming(open_brackets, lambda_layouts, NoLambda)
      /\ \/ open_brackets' = <<>> /\ lambda_layouts' = <<>>
         \/ open_brackets' = open_brackets /\ lambda_layouts' = lambda_layouts
         \/ open_brackets' = open_brackets /\ lambda_layouts' = Append(lambda_layouts, new)
      /\ lambda' = Inline /\ line_indent' = line_indent /\ indent_stack' = indent_stack
      /\ left_open' = left_open
      /\ Emit(0, "none", <<>>)
  BY DEF Newline, Scanning
<1>2. at_line_start' \in BOOLEAN
  BY DEF Newline
<1>3. clean' \in BOOLEAN
  <2>1. clean' = (/\ clean /\ ~resumes /\ StandsInBlock
                  /\ at_line_start' => ~lambda.signature)
    BY DEF Newline
  <2> QED
    BY <2>1, HistoryBooleans
<1>4. awaited' \in BOOLEAN
  <2>1. awaited' = (clean' /\ (awaited \/ lambda.suite_may_start))
    BY DEF Newline
  <2> QED
    BY <1>3, <2>1
<1>5. ScanTyped'
  <2>1. indent' \in Nat /\ next' \in Chars /\ lambda' \in LambdaState
    BY <1>1, LayoutAssumption, CharFacts, HistoryBooleans
  <2>2. line_indent' \in Nat /\ status' \in {"scan", "done", "thrown"}
    BY <1>1 DEF IInv, TypeOK
  <2>3. left_open' \in BOOLEAN
    BY <1>1, HistoryBooleans
  <2> QED
    BY <1>2, <1>3, <1>4, <2>1, <2>2, <2>3 DEF ScanTyped
<1>6. HistoryTyped' /\ suites' = suites
  <2>1. HistoryTyped' /\ suites' = suites - 0 /\ suites \in Int
    BY <1>1, <1>3, EmitClosing DEF IInv, TypeOK
  <2> QED
    BY <2>1
<1>7. IndentsMatchStack'
  BY <1>1, <1>6 DEF IndentsMatchStack, IInv, Ascending
<1>8. /\ lambda_layouts \in Seq(L) /\ open_brackets \in Seq(B) /\ new \in L
      /\ Len(open_brackets) \in Nat /\ Len(lambda_layouts) \in Nat
  <2>1. lambda_layouts \in Seq(L) /\ open_brackets \in Seq(B)
    BY DEF IInv, TypeOK
  <2>2. Len(open_brackets) \in Nat /\ Len(lambda_layouts) \in Nat
    BY <2>1, LenProperties
  <2>3. lambda.base_indent \in Nat
    BY DEF IInv, TypeOK
  <2> QED
    BY <2>1, <2>2, <2>3
<1>9. /\ Append(lambda_layouts, new) \in Seq(L)
      /\ Len(Append(lambda_layouts, new)) = Len(lambda_layouts) + 1
      /\ \A i \in 1..Len(lambda_layouts) : Append(lambda_layouts, new)[i] = lambda_layouts[i]
      /\ Append(lambda_layouts, new)[Len(lambda_layouts) + 1] = new
  <2> HIDE DEF L, new
  <2> QED
    BY <1>8, AppendProperties
<1>10. lambda_layouts' \in Seq(L) /\ open_brackets' \in Seq(B)
  <2>1. <<>> \in Seq(L) /\ <<>> \in Seq(B)
    OBVIOUS
  <2> HIDE DEF L, B, new
  <2> QED
    BY ZenonT(30), <1>1, <1>8, <1>9, <2>1
<1>11. StacksTyped'
  BY <1>1, <1>10 DEF StacksTyped, IInv, TypeOK
<1>12. LayoutsWithinBrackets'
  <2>1. CASE open_brackets' = <<>> /\ lambda_layouts' = <<>>
    BY <2>1 DEF LayoutsWithinBrackets
  <2>2. CASE open_brackets' = open_brackets /\ lambda_layouts' = lambda_layouts
    BY <1>1, <2>2 DEF LayoutsWithinBrackets, IInv
  <2>3. CASE open_brackets' = open_brackets /\ lambda_layouts' = Append(lambda_layouts, new)
    <3> DEFINE n == Len(lambda_layouts)
               depth(i) == lambda_layouts'[i].bracket_depth
    <3>1. DOMAIN lambda_layouts' = 1..(n + 1) /\ DOMAIN lambda_layouts = 1..n /\ n \in Nat
      BY SMTT(30), <1>8, <1>9, <2>3, LenProperties
    <3>2. \A i \in 1..n : /\ lambda_layouts'[i] = lambda_layouts[i]
                          /\ depth(i) <= Len(open_brackets)
                          /\ \A j \in 1..i : depth(j) <= depth(i)
      <4> SUFFICES ASSUME NEW i \in 1..n
                   PROVE  /\ lambda_layouts'[i] = lambda_layouts[i]
                          /\ depth(i) <= Len(open_brackets)
                          /\ \A j \in 1..i : depth(j) <= depth(i)
        OBVIOUS
      <4>1. \A j \in 1..i : j \in 1..n /\ lambda_layouts'[j] = lambda_layouts[j]
        BY <1>9, <2>3, <3>1
      <4>2. i \in 1..i /\ i \in DOMAIN lambda_layouts
        BY SMTT(30), <3>1
      <4>3. /\ lambda_layouts[i].bracket_depth <= Len(open_brackets)
            /\ \A j \in 1..i : lambda_layouts[j].bracket_depth <= lambda_layouts[i].bracket_depth
        BY <1>1, <4>2 DEF IInv, LayoutsWithinBrackets
      <4> QED
        BY SMTT(30), <4>1, <4>2, <4>3
    <3>3. depth(n + 1) = Len(open_brackets)
      BY <1>9, <2>3
    <3>4. ASSUME NEW i \in 1..(n + 1)
          PROVE  depth(i) <= Len(open_brackets) /\ \A j \in 1..i : depth(j) <= depth(i)
      <4>1. CASE i \in 1..n
        BY <3>2, <4>1
      <4>2. CASE i = n + 1
        <5>1. \A j \in 1..i : j \in 1..n \/ j = n + 1
          BY <3>1, <4>2
        <5> QED
          BY SMTT(30), <1>8, <3>2, <3>3, <4>2, <5>1
      <4> QED
        BY <3>1, <4>1, <4>2
    <3> QED
      BY SMTT(30), <2>3, <3>1, <3>4 DEF LayoutsWithinBrackets
  <2> QED
    BY <1>1, <2>1, <2>2, <2>3
<1> QED
  BY SMTT(30), <1>5, <1>6, <1>7, <1>11, <1>12, Assembled

LEMMA FinishStep ==
  ASSUME IInv, Finish
  PROVE  IInv'
<1>1. /\ status' = "done" /\ open_brackets' = <<>> /\ lambda_layouts' = lambda_layouts
      /\ indent_stack' = SubSeq(indent_stack, 1, 1)
      /\ clean' = (clean /\ open_brackets = <<>>)
      /\ Emit(Len(indent_stack) - 1, "none", <<>>)
      /\ lambda' = lambda /\ UNCHANGED <<at_line_start, line_indent>>
      /\ indent' = indent /\ next' = next /\ awaited' = awaited /\ left_open' = left_open
  BY DEF Finish, input
<1>2. clean' \in BOOLEAN /\ awaited' \in BOOLEAN /\ left_open' \in BOOLEAN
  BY <1>1, HistoryBooleans
<1>3. indent' \in Nat /\ next' \in Chars /\ lambda' \in LambdaState
  BY <1>1, HistoryBooleans
<1>4. ScanTyped'
  BY <1>1, <1>2, <1>3, TokenFacts
<1>5. /\ indent_stack \in Seq(Nat) /\ Len(indent_stack) - 1 \in Nat
      /\ suites = Len(indent_stack) - 1
  BY EmptySeq DEF IInv, TypeOK, IndentsMatchStack
<1>6. HistoryTyped' /\ suites' = suites - (Len(indent_stack) - 1)
  BY <1>1, <1>2, <1>5, EmitClosing DEF IInv
<1>7. indent_stack' \in Seq(Nat) /\ Len(indent_stack') = 1
  <2>1. 1 \in Int /\ 1 <= Len(indent_stack) /\ 1 >= 0
    BY <1>5, LenProperties
  <2> QED
    BY <1>1, <1>5, <2>1, PrefixFacts
<1>8. indent_stack' # <<>> /\ DOMAIN indent_stack' = 1..1
  BY <1>7, EmptySeq, LenProperties
<1>9. StacksTyped'
  <2>1. open_brackets' \in Seq([closer : Closers, line_indent : Nat])
    BY <1>1
  <2> QED
    BY <1>1, <1>7, <1>8, <2>1 DEF StacksTyped, IInv, TypeOK
<1>10. IndentsMatchStack'
  <2>1. Ascending(indent_stack')
    BY <1>8 DEF Ascending
  <2>2. suites' = 0
    BY <1>5, <1>6
  <2> QED
    BY <1>7, <2>1, <2>2 DEF IndentsMatchStack
<1>11. LayoutsWithinBrackets'
  BY <1>1 DEF LayoutsWithinBrackets
<1> QED
  BY <1>4, <1>6, <1>9, <1>10, <1>11, Assembled

LEMMA NextIInv == IInv /\ [Next]_vars => IInv'
<1> SUFFICES ASSUME IInv, [Next]_vars
             PROVE  IInv'
  OBVIOUS
<1>1. CASE BlankLine
  BY <1>1, BlankLineStep
<1>2. CASE IndentLine
  BY SMTT(30), <1>2, IndentLineStep
<1>3. CASE DedentLine
  BY <1>3, DedentLineStep
<1>4. CASE InconsistentLine
  BY <1>4, InconsistentLineStep
<1>5. CASE Newline
  BY <1>5, NewlineStep
<1>6. CASE ContinueLine
  BY <1>6, ContinueLineStep
<1>7. CASE OpenBracket
  BY <1>7, OpenBracketStep
<1>8. CASE CloseBracket
  BY <1>8, CloseBracketStep
<1>9. CASE Comma
  BY <1>9, CommaStep
<1>10. CASE Colon
  BY <1>10, ColonStep
<1>11. CASE ScanIdentifier
  BY <1>11, ScanIdentifierStep
<1>12. CASE RejectToken \/ Unclosed
  BY <1>12, ErrorStep
<1>13. CASE Finish
  BY <1>13, FinishStep
<1>14. CASE UNCHANGED vars
  <2>1. StacksTyped /\ ScanTyped /\ HistoryTyped
    BY TypeParts DEF IInv
  <2>2. StacksTyped'
    BY <1>14, <2>1 DEF vars, StacksTyped
  <2>3. ScanTyped'
    <3>1. /\ awaited' = awaited /\ left_open' = left_open /\ clean' = clean
          /\ lambda' = lambda /\ indent' = indent /\ next' = next /\ status' = status
          /\ UNCHANGED <<at_line_start, line_indent>>
      BY <1>14 DEF vars
    <3>2. /\ awaited' \in BOOLEAN /\ left_open' \in BOOLEAN /\ clean' \in BOOLEAN
          /\ lambda' \in LambdaState /\ indent' \in Nat /\ next' \in Chars
          /\ status' \in {"scan", "done", "thrown"}
      BY <2>1, <3>1 DEF ScanTyped
    <3> QED
      BY <3>1, <3>2, TokenFacts
  <2>4. HistoryTyped'
    BY SMTT(30), <1>14, HistoryKept DEF vars, history
  <2>5. IndentsMatchStack' /\ LayoutsWithinBrackets'
    BY <1>14 DEF vars, IInv, IndentsMatchStack, LayoutsWithinBrackets, Ascending
  <2> QED
    BY <2>2, <2>3, <2>4, <2>5, Assembled
<1> QED
  BY SMTT(30), <1>1, <1>2, <1>3, <1>4, <1>5, <1>6, <1>7, <1>8, <1>9, <1>10, <1>11, <1>12, <1>13, <1>14
     DEF Next, HandleIndent, ScanToken, Stopped

LEMMA IInvHolds == Spec => []IInv
BY InitIInv, NextIInv, PTL DEF Spec

\* The lexer's members keep their types; the indentation stack is never empty,
\* so the back() of handle_indent() and close_lambda_layout() is always there.
THEOREM TypesHold == Spec => []TypeOK
<1>1. IInv => TypeOK
  BY DEF IInv
<1> QED
  BY <1>1, IInvHolds, PTL

\* Every INDENT of the token stream is answered by one DEDENT, for any source:
\* tokenize() ends with as many of the one as of the other, also when errors
\* are tolerated and lambdas close in the middle of a line.
THEOREM IndentsBalance == Spec => []IndentsMatchStack
<1>1. IInv => IndentsMatchStack
  BY DEF IInv
<1> QED
  BY <1>1, IInvHolds, PTL

\* For any source, pop_bracket() and close_lambda_layout() leave no layout of a
\* lambda behind the brackets it was opened in.
THEOREM LayoutsEndWithBrackets == Spec => []LayoutsWithinBrackets
<1>1. IInv => LayoutsWithinBrackets
  BY DEF IInv
<1> QED
  BY <1>1, IInvHolds, PTL

=============================================================================
