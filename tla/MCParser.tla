------------------------------ MODULE MCParser ------------------------------
EXTENDS Parser

D(kind, is) ==
  [kind |-> kind, is |-> is, of |-> 0, members |-> <<>>, bases |-> <<>>,
   type |-> <<"x">>, args |-> <<>>]

\* Declarations 1 to 12: what class 13 may have, 9 being the field of its inner
\* class 8; 13: a class; 14: its virtual destructor; 15: a class derived from
\* it, with destructor 16 and, perhaps, method 17; 18 and 19: forward
\* declarations of 13; 20: an out-of-class definition; 21: a function; 22, 23:
\* namespaces; 24 to 27: more that class 13 may have
Pool == <<
  D("field", {"public"}), D("field", {"hidden"}),
  D("method", {"public", "pure", "virtual"}), D("method", {"pure", "virtual"}),
  D("method", {"public", "implicit"}), D("method", {"public", "pure", "virtual", "hidden"}),
  D("constructor", {"public", "deleted"}),
  [D("class", {"public"}) EXCEPT !.members = <<9>>], D("field", {"public"}),
  D("constructor", {}), [D("constructor", {"public"}) EXCEPT !.args = <<<<"x">>>>],
  D("method", {"public", "static"})>>

Selectable == {1, 2, 3, 4, 5, 6, 7, 8, 10, 11, 12, 24, 25, 26, 27}
Members == {S \in SUBSET Selectable : Cardinality(S) <= 2}

BaseTraits == {{"public"}, {}, {"public", "hidden"}}

\* How the unit declares class 13
Orders == {<<13>>, <<18, 13>>, <<13, 18>>, <<18, 19, 13>>}

Decls(members, derived, base, main) ==
  Pool \o <<
    [D("class", {"main"}) EXCEPT !.members = SetToSeq(members) \o <<14>>],
    D("destructor", {"public", "virtual"}),
    [D("class", {"main"}) EXCEPT !.members = <<16>> \o derived,
                                 !.bases = <<[def |-> 13, is |-> base]>>],
    D("destructor", {"public", "virtual"}), D("method", {"public", "pure", "virtual"}),
    [D("forward", main) EXCEPT !.of = 13], [D("forward", {"main"}) EXCEPT !.of = 13],
    D("outOfClass", {"main", "public"}), D("function", {"main"}),
    [D("namespace", {"main"}) EXCEPT !.members = <<21>>],
    [D("namespace", {"main", "anonymous"}) EXCEPT !.members = <<21>>],
    D("staticField", {"public", "static"}), D("conversion", {"public"}),
    D("conversion", {"public", "pure", "virtual"}),
    [D("constructor", {"public", "optional"}) EXCEPT !.args = <<<<"x">>>>]>>

\* int, int *, int *&, const int *const, pair<int, int>, void (*)(int, int &)
Types == {<<"x">>, <<"x", " ", "*">>, <<"x", " ", "*", "&">>,
          <<"x", " ", "x", " ", "*", "x">>, <<"x", ",", " ", "x">>,
          <<"x", " ", "x", "*", "x", "x", ",", " ", "x", " ", "&", "x">>}

ArgLists == UNION {[1..n -> Types] : n \in 1..2}

\* A field, a method, a constructor and a function with these types
Typed(args) ==
  [d \in 1..Len(Decls({1, 3, 11}, <<17>>, {"public"}, {"main"})) |->
     LET plain == Decls({1, 3, 11}, <<17>>, {"public"}, {"main"})[d]
     IN  IF d \in {1, 3, 11, 21} THEN [plain EXCEPT !.type = args[1], !.args = args] ELSE plain]

MCPrograms ==
  {[decls |-> Typed(args), top |-> <<13, 15, 22>>] : args \in ArgLists} \union
  {[decls |-> Decls(m, d, b, f), top |-> order \o <<15, 20, ns>>] :
     m \in Members, d \in {<<>>, <<17>>}, b \in BaseTraits,
     f \in {{}, {"main"}}, order \in Orders, ns \in {22, 23}}
=============================================================================
