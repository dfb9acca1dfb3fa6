----------------------------- MODULE MCInvocation -----------------------------
(***************************************************************************)
(* A class with a base at a nonzero offset, held const and not, by value   *)
(* and by pointer; methods of the base that differ in const and volatile,  *)
(* and parameters of which one may refuse what the other needs.            *)
(***************************************************************************)
EXTENDS Invocation

Ptr(c)     == <<"Derived", c>>
MCClasses  == {<<"Base">>, <<"Derived">>}
MCStrings  == {<<"string">>}
MCScalars  == MCStrings
Unheld(even) == <<"unheld", even>>      \* pointers no holder of the instance has
MCTypes    == MCClasses \union MCScalars
                \union {Ptr(c) : c \in BOOLEAN} \union {Unheld(even) : even \in BOOLEAN}

MCCastable == {<<t, t>> : t \in MCTypes} \union {<<<<"Derived">>, <<"Base">>>>}
                \union {<<Ptr(FALSE), Ptr(TRUE)>>}

PointersWith(c) == [t \in MCTypes |-> IF t = <<"Derived">> THEN Ptr(c)
                                          ELSE Unheld(t # Unheld(TRUE))]
MCPointerTo      == PointersWith(FALSE)
MCConstPointerTo == PointersWith(TRUE)

MCLayouts    == {"Derived"}
MCBaseOffset == [from \in MCTypes |-> [to \in MCTypes |-> [l \in MCLayouts |->
                   IF from = <<"Derived">> /\ to = <<"Base">> THEN 8 ELSE 0]]]

HolderOf(t, c) == [type |-> t, const |-> c, layout |-> "Derived"]
MCHolders == {HolderOf(<<"Derived">>, c) : c \in BOOLEAN}
               \union {HolderOf(Ptr(c), FALSE) : c \in BOOLEAN}

RequestOf(t, m) == [type |-> t, mode |-> m]
BaseRef     == RequestOf(<<"Base">>, "ref")
BaseCref    == RequestOf(<<"Base">>, "cref")
Word        == RequestOf(<<"string">>, "value")
Text        == RequestOf(<<"string">>, "cref")
MCRequests  == {BaseRef, BaseCref, Word, Text}

\* Two overloads of draw, of which one has the type of print
FunctionOf(name, params) ==
  [kind |-> "function", clazz |-> <<"Base">>, const |-> FALSE, volatile |-> FALSE,
   params |-> params, name |-> name, result |-> <<"string">>]

MCFunctions ==
  {FunctionOf("draw", <<BaseRef, BaseRef>>), FunctionOf("draw", <<Word>>),
   FunctionOf("print", <<BaseRef, BaseRef>>)}

CallableOf(kind, clazz, const, volatile, params) ==
  [kind |-> kind, clazz |-> <<clazz>>, const |-> const, volatile |-> volatile,
   params |-> params]

MCCallables ==
  {CallableOf("method", "Base", FALSE, FALSE, <<>>),
   CallableOf("method", "Derived", TRUE, FALSE, <<BaseRef>>),
   CallableOf("method", "Base", FALSE, TRUE, <<BaseCref>>),
   CallableOf("static", "Base", FALSE, FALSE, <<BaseRef, Text>>),
   CallableOf("constructor", "Derived", FALSE, FALSE, <<Word, BaseCref>>),
   CallableOf("abstract", "Base", FALSE, FALSE, <<>>)}
    \union MCFunctions

AttributeOf(clazz, type, const, assignable, static) ==
  [clazz |-> <<clazz>>, type |-> <<type>>, const |-> const,
   assignable |-> assignable, static |-> static]

MCAttributes ==
  {AttributeOf("Base", "string", FALSE, TRUE, FALSE),
   AttributeOf("Base", "Base", FALSE, TRUE, FALSE),
   AttributeOf("Base", "string", TRUE, FALSE, FALSE),
   AttributeOf("Base", "Base", FALSE, FALSE, FALSE),
   AttributeOf("Base", "Base", FALSE, TRUE, TRUE)}

MemoryView == <<cache, refused, impls, registry, registered>>
=============================================================================
