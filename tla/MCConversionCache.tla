-------------------------- MODULE MCConversionCache --------------------------
(***************************************************************************)
(* A class, its base at a nonzero offset, an unrelated number, a string,   *)
(* and the pointers to the classes.                                        *)
(***************************************************************************)
EXTENDS ConversionCache

Ptr(t, c)  == <<t, c>>
MCClasses  == {"Base", "Derived"}
MCStrings  == {<<"string">>}
MCScalars  == {<<"int">>} \union MCStrings
MCPointers == {Ptr(t, c) : t \in MCClasses, c \in BOOLEAN}

\* int* and T**, T*** ...: pointer types no holder of the instance has
Unheld(even) == <<"unheld", even>>
MCTypes    == {<<t>> : t \in MCClasses} \union MCScalars \union MCPointers
                \union {Unheld(even) : even \in BOOLEAN}

\* A handler adds const to the pointee, and converts to a public base
MCCastable ==
  {<<t, t>> : t \in MCTypes} \union {<<<<"Derived">>, <<"Base">>>>}
    \union {<<Ptr(t, FALSE), Ptr(t, TRUE)>> : t \in MCClasses}

PointersWith(c) == [t \in MCTypes |->
                      IF t \in {<<cl>> : cl \in MCClasses} THEN Ptr(t[1], c)
                      ELSE Unheld(t # Unheld(TRUE))]
MCPointerTo      == PointersWith(FALSE)
MCConstPointerTo == PointersWith(TRUE)

MCLayouts == {"Derived", "MostDerived"}

OffsetsWith(derivedToBase) ==
  [from \in MCTypes |-> [to \in MCTypes |-> [l \in MCLayouts |->
     IF from = <<"Derived">> /\ to = <<"Base">> THEN derivedToBase[l] ELSE 0]]]

\* Base lies at offset 8 in every object that has a Derived
MCBaseOffset == OffsetsWith([l \in MCLayouts |-> 8])

HolderOf(t, c, l) == [type |-> t, const |-> c, layout |-> l]

MCMutableHolders ==
  {HolderOf(<<"Derived">>, FALSE, l) : l \in MCLayouts}
    \union {HolderOf(Ptr("Derived", FALSE), FALSE, "Derived")}

MCHolders ==
  {HolderOf(t, c, "Derived") : t \in {<<"Derived">>, Ptr("Derived", FALSE)},
                               c \in BOOLEAN}

RequestOf(t, m) == [type |-> t, mode |-> m]

MCRefRequests ==
  {RequestOf(<<"Base">>, m) : m \in {"ref", "cref"}}
    \union {RequestOf(<<"Derived">>, "cref"),
            RequestOf(Ptr("Derived", TRUE), "cref")}

\* Number, string and held pointer are converted, not found
MCRequests == MCRefRequests \union
  {RequestOf(Ptr("Derived", FALSE), "value"), RequestOf(<<"string">>, "cref")}

\* What moveValue moves out of, too
MCFewRequests == MCRefRequests \union
  {RequestOf(<<"Base">>, "value"), RequestOf(<<"int">>, "value")}
=============================================================================
