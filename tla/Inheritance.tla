----------------------------- MODULE Inheritance -----------------------------
(***************************************************************************)
(* How the functions of a script, of the scripts it extends and of the     *)
(* traits they use become the functions of one program: apply_traits() of  *)
(* traits.cpp on every link of the chain, merge_chain() of chain.cpp, and  *)
(* what super and Trait.method() then call (codegen.cpp).                  *)
(*                                                                         *)
(* A symbol is a sequence of parts: <<"f">> is the name f, <<"@trait", t,  *)
(* f>> is "@trait.t.f" and <<"@super", k>> \o s is "@super<k>.s".  A       *)
(* function remembers, for the properties, the body it has and the name it *)
(* had in its link.  Constants, variables, signals, enums and nested types *)
(* are left out, and so is whether abstract methods are implemented.       *)
(***************************************************************************)
EXTENDS Naturals, FiniteSets, Sequences, SequencesExt, TLC

CONSTANTS
    Traits,           \* the traits declared in the compilation
    Names,            \* names of functions
    Unknown,          \* a trait that is not declared
    MaxLinks,         \* bound: scripts in the chain
    MAX_CHAIN_DEPTH   \* the limit of merge_chain()

VARIABLES
    traits,     \* trait -> [uses, methods]: what the traits declare
    links,      \* the chain, root first: [uses, functions] of each script
    phase,      \* where compile_to_ir() is
    at,         \* the link, and the function of it, that comes next
    functions,  \* Program::functions of the merged program
    origins,    \* ChainInfo::functions: name -> sequence of [link, symbol]
    visible,    \* name -> index in functions
    own         \* history: the links as the scripts wrote them

vars == <<traits, links, phase, at, functions, origins, visible, own>>

Number == <<"0", "1", "2", "3">>    \* std::to_string of a link

NoTrait == "none"

\* FunctionDecl; chain_name is <<>> unless an override displaced the copy.
Function(name, trait, link) ==
    [name |-> name, chain_name |-> <<>>, trait_origin |-> trait, link |-> link,
     body |-> <<trait, name, link>>, slot |-> name]

declared_name(f) == IF f.chain_name = <<>> THEN f.name ELSE f.chain_name

displaced_trait_symbol(trait, name) == <<"@trait", trait>> \o name

\* (Slip: the symbol does not say which link the function is of.)
displaced_unnumbered(link, name) == <<"@super">> \o name

displaced_symbol(link, name) == <<"@super", Number[link]>> \o name

-----------------------------------------------------------------------------
(* Registry::linearize(): depth-first, each trait after the traits it uses. *)

RECURSIVE Visit(_, _, _)

VisitAll(names, stack, seen) ==
    FoldLeft(LAMBDA s, t : IF s.error = "" THEN Visit(t, stack, s) ELSE s,
             seen, names)

Visit(trait, stack, seen) ==
    IF trait \notin Traits THEN [seen EXCEPT !.error = "undeclared"]
    ELSE IF trait \in ToSet(seen.out) THEN seen
    ELSE IF trait \in ToSet(stack) THEN [seen EXCEPT !.error = "cycle"]
    ELSE LET below == VisitAll(traits[trait].uses, Append(stack, trait), seen)
         IN  IF below.error # "" THEN below
             ELSE [below EXCEPT !.out = Append(@, trait)]

linearize(names) == VisitAll(names, <<>>, [out |-> <<>>, error |-> ""])

-----------------------------------------------------------------------------
(* apply_traits() on one link. *)

\* Every trait's uses are checked before any link is changed.
Validate ==
    /\ phase = "validate"
    /\ phase' = IF \E t \in Traits : linearize(<<t>>).error # ""
                THEN "error" ELSE "splice"
    /\ UNCHANGED <<traits, links, at, functions, origins, visible, own>>

\* The methods that a trait gives away: an abstract one is only asked for.
Concrete(trait) == SelectSeq(traits[trait].methods, LAMBDA m : ~m.is_abstract)

\* The methods of the traits, in order, with the trait each comes from.
TraitMethods(order) ==
    FlattenSeq([i \in 1 .. Len(order) |->
                   [j \in DOMAIN Concrete(order[i]) |->
                       <<order[i], Concrete(order[i])[j].name>>]])

\* The copy of a trait's method: displaced when the script has its own.
Copy(m, original, link) ==
    IF <<m[2]>> \in original
    THEN [Function(<<m[2]>>, m[1], link) EXCEPT
            !.name = displaced_trait_symbol(m[1], <<m[2]>>),
            !.slot = displaced_trait_symbol(m[1], <<m[2]>>),
            !.chain_name = <<m[2]>>]
    ELSE Function(<<m[2]>>, m[1], link)

\* (Slip: an override in the script does not settle the conflict.)
ConflictAlways(methods, original) ==
    \E i, j \in DOMAIN methods : i < j /\ methods[i][2] = methods[j][2]

\* Two traits may not both give the script a method it does not declare.
Conflict(methods, original) ==
    \E i, j \in DOMAIN methods :
        i < j /\ methods[i][2] = methods[j][2] /\ <<methods[i][2]>> \notin original

SpliceScript ==
    LET k        == at[1]
        order    == linearize(links[k].uses)
        original == {links[k].functions[f].name : f \in DOMAIN links[k].functions}
        methods  == TraitMethods(order.out)
        last     == k = Len(links)
    IN  /\ phase = "splice"
        /\ IF order.error # "" \/ Conflict(methods, original)
           THEN phase' = "error" /\ UNCHANGED <<links, at, functions>>
           ELSE /\ links' = [links EXCEPT ![k] =
                      [uses |-> order.out,
                       functions |-> @.functions \o
                          [i \in DOMAIN methods |->
                              Copy(methods[i], original, k)]]]
                /\ phase' = IF ~last THEN "splice"
                            ELSE IF Len(links) = 1 THEN "done"
                            ELSE IF Len(links) > MAX_CHAIN_DEPTH THEN "error"
                            ELSE "merge"
                /\ at' = IF last THEN <<1, 1>> ELSE <<k + 1, 1>>
                /\ functions' = IF last /\ Len(links) = 1
                                THEN links'[1].functions ELSE functions
        /\ UNCHANGED <<traits, origins, visible, own>>

-----------------------------------------------------------------------------
(* merge_chain(): the functions of the links, root first. *)

OriginsOf(name) == IF name \in DOMAIN origins THEN origins[name] ELSE <<>>

\* An override pushes the copy that was visible onto a mangled symbol.
Displace(name, link) ==
    [functions EXCEPT ![visible[name]].name = displaced_symbol(link, name),
                      ![visible[name]].chain_name = name]

\* (Slip: the origin keeps the symbol the displaced copy no longer has.)
DisplacedOriginsStale(before, name) == before

DisplacedOrigins(before, name) ==
    [before EXCEPT ![Len(before)].symbol =
        displaced_symbol(before[Len(before)].link, name)]

NowVisible(name) == (name :> Len(functions) + 1) @@ visible

MergeFunction ==
    LET k      == at[1]
        decl   == links[k].functions[at[2]]
        name   == decl.name
        before == OriginsOf(name)
    IN  /\ phase = "merge"
        /\ at[2] <= Len(links[k].functions)
        /\ IF \E f \in 1 .. at[2] - 1 : links[k].functions[f].name = name
           THEN phase' = "error" /\ UNCHANGED <<at, functions, origins, visible>>
           ELSE /\ functions' =
                     Append(IF before = <<>> THEN functions
                            ELSE Displace(name, before[Len(before)].link),
                            decl)
                /\ origins' =
                     (name :> Append(IF before = <<>> THEN before
                                     ELSE DisplacedOrigins(before, name),
                                     [link |-> k, symbol |-> name])) @@ origins
                /\ visible' = NowVisible(name)
                /\ at' = <<k, at[2] + 1>>
                /\ UNCHANGED phase
        /\ UNCHANGED <<traits, links, own>>

MergeNextLink ==
    /\ phase = "merge"
    /\ at[2] > Len(links[at[1]].functions)
    /\ IF at[1] = Len(links) THEN phase' = "done" /\ UNCHANGED at
       ELSE at' = <<at[1] + 1, 1>> /\ UNCHANGED phase
    /\ UNCHANGED <<traits, links, functions, origins, visible, own>>

-----------------------------------------------------------------------------
(* What the code generator makes of super and of Trait.method(). *)

\* ChainInfo::super_of(): the symbol, or <<>> if there is none.
super_of(name, link) ==
    LET up == {i \in DOMAIN OriginsOf(name) : OriginsOf(name)[i].link < link}
    IN  IF up = {} THEN <<>>
        ELSE OriginsOf(name)[CHOOSE i \in up : \A j \in up : j <= i].symbol

Symbols == {functions[f].name : f \in DOMAIN functions}

\* (Slip: a copy that an override in another link displaced is not considered.)
TraitCallNamed(trait, name) ==
    LET displaced == displaced_trait_symbol(trait, name)
    IN  IF displaced \in Symbols THEN {displaced} ELSE {name}

\* The targets Trait.method() may get: the displaced copy if there is one, else
\* any copy of the trait's method, else the name itself.
TraitCall(trait, name) ==
    LET displaced == displaced_trait_symbol(trait, name)
        copies    == {f \in DOMAIN functions :
                         /\ functions[f].trait_origin = trait
                         /\ name \in {functions[f].name, functions[f].chain_name}}
    IN  IF displaced \in Symbols THEN {displaced}
        ELSE IF copies = {} THEN {name}
        ELSE {functions[f].name : f \in copies}

-----------------------------------------------------------------------------

\* A script declares functions, possibly one twice, and uses some traits.
Scripts == [uses : {SetToSeq(u) : u \in SUBSET Traits}, names : SeqOf(Names, 2)]

\* The scripts of the chains that are too long, which use no trait.
PlainScripts == {s \in Scripts : s.uses = <<>>}

Link(script, k) ==
    [uses |-> script.uses,
     functions |-> [f \in DOMAIN script.names |->
                       Function(<<script.names[f]>>, NoTrait, k)]]

\* A trait uses at most one other trait and has each method once.
TraitDecls ==
    [uses : {<<>>} \cup {<<t>> : t \in Traits \cup {Unknown}},
     methods : {<<>>} \cup {<<m>> : m \in [name : Names, is_abstract : BOOLEAN]}]

Init ==
    /\ traits \in [Traits -> TraitDecls]
    /\ \/ \E n \in 1 .. MaxLinks : \E s \in [1 .. n -> Scripts] :
             links = [k \in 1 .. n |-> Link(s[k], k)]
       \/ \E s \in [1 .. MAX_CHAIN_DEPTH + 1 -> PlainScripts] :
             links = [k \in 1 .. MAX_CHAIN_DEPTH + 1 |-> Link(s[k], k)]
    /\ own = links
    /\ phase = "validate" /\ at = <<1, 1>>
    /\ functions = <<>> /\ origins = <<>> /\ visible = <<>>

Next == Validate \/ SpliceScript \/ MergeFunction \/ MergeNextLink

Spec == Init /\ [][Next]_vars

-----------------------------------------------------------------------------
(* Properties. *)

\* The traits that a use of the given ones brings in.
RECURSIVE Used(_)
Used(ts) ==
    LET more == ts \cup UNION {ToSet(traits[t].uses) : t \in ts \cap Traits}
    IN  IF more = ts THEN ts ELSE Used(more)

\* What makes a chain of scripts wrong: traits that use each other in a circle
\* or one that is not there, two traits that give a script the same method, a
\* function declared twice in one link, or too many links.
Faulty ==
    \/ \E t \in Traits : Unknown \in Used({t})
    \/ \E t \in Traits : t \in Used(ToSet(traits[t].uses))
    \/ \E k \in DOMAIN own : \E t, u \in Used(ToSet(own[k].uses)) :
          /\ t # u
          /\ \E n \in Names :
                /\ [name |-> n, is_abstract |-> FALSE]
                     \in ToSet(traits[t].methods) \cap ToSet(traits[u].methods)
                /\ \A f \in DOMAIN own[k].functions :
                      own[k].functions[f].name # <<n>>
    \/ /\ Len(own) > 1
       /\ \E k \in DOMAIN own : \E f, g \in DOMAIN own[k].functions :
             f # g /\ own[k].functions[f].name = own[k].functions[g].name
    \/ Len(own) > MAX_CHAIN_DEPTH

\* Exactly the chains that are wrong are rejected, whichever step finds out
\* (Registry::validate, splice_script, merge_chain).
RejectsExactlyTheFaulty ==
    /\ phase = "error" => Faulty
    /\ phase = "done" => ~Faulty

\* Every function of every script, and every copy of a trait's method, is in
\* the program under a symbol of its own: no override loses the function it
\* overrides, and no two displaced copies share a symbol (merge_chain).
EveryBodyHasItsSymbol ==
    phase = "done" /\ Len(links) > 1 =>
        /\ Cardinality(Symbols) = Len(functions)
        /\ {<<functions[f].body, functions[f].slot>> : f \in DOMAIN functions}
           = UNION {{<<links[k].functions[f].body, links[k].functions[f].slot>> :
                        f \in DOMAIN links[k].functions} : k \in DOMAIN links}

\* super in a function with an undamaged name reaches the nearest declaration
\* of that name further up the chain, whatever was displaced on the way, and
\* nothing if there is none (ChainInfo::super_of, gen_chain_super_call).
SuperGoesUp ==
    phase = "done" =>
        \A f \in DOMAIN functions : \A n \in Names :
            declared_name(functions[f]) = <<n>> =>
                LET up == {g \in DOMAIN functions :
                              /\ functions[g].slot = <<n>>
                              /\ functions[g].link < functions[f].link}
                    symbol == super_of(<<n>>, functions[f].link)
                IN  IF up = {} THEN symbol = <<>>
                    ELSE \E g \in up :
                            /\ functions[g].name = symbol
                            /\ \A h \in up : functions[h].link <= functions[g].link

\* Where some script uses the trait, Trait.method() of a method with a body calls
\* a body of that trait, never the override of a script (codegen.cpp:7387).
TraitCallReachesTheTrait ==
    phase = "done" =>
        \A k \in DOMAIN links : \A t \in ToSet(links[k].uses) :
            \A m \in ToSet(traits[t].methods) : ~m.is_abstract =>
                \A s \in TraitCall(t, <<m.name>>) :
                    \E f \in DOMAIN functions :
                        functions[f].name = s /\ functions[f].trait_origin = t

\* "An overridden base function is emitted under a mangled symbol, but retains
\* its declared name in chain_name" (codegen.cpp:1161).
DeclaredNamesKept ==
    phase = "done" =>
        \A f \in DOMAIN functions : declared_name(functions[f]) = functions[f].body[2]

=============================================================================
