--------------------------- MODULE MCClassRegistry ---------------------------
(* Small hierarchies for ClassRegistry.                                      *)
EXTENDS ClassRegistry

\* A class with three bases, two of which share a base: erasing while iterating
\* skips and wraps round, and grand is reached along two paths.
Family == {"grand", "parent", "side", "other", "derived"}
FamilyBases == [c \in Family |->
  CASE c \in {"grand", "other"} -> <<>>
    [] c \in {"parent", "side"} -> <<"grand">>
    [] c = "derived" -> <<"parent", "side", "other">>]

\* A chain of three derivations.
Chain == {"grand", "parent", "mid", "derived"}
ChainBases == [c \in Chain |->
  CASE c = "grand" -> <<>>
    [] c = "parent" -> <<"grand">>
    [] c = "mid" -> <<"parent">>
    [] c = "derived" -> <<"mid">>]

MethodOf(c, name, args, const, static) ==
  [class |-> c, name |-> name, args |-> args, const |-> const, volatile |-> FALSE,
   static |-> static]

\* One method down both sides of the family, overloads that differ in the
\* arguments, their number or const, and static ones
FamilyMethods ==
  {MethodOf(c, "draw", <<"int">>, FALSE, FALSE) : c \in {"grand", "parent", "other", "derived"}}
    \union {MethodOf("derived", "draw", <<"bool">>, FALSE, FALSE),
            MethodOf("derived", "draw", <<>>, FALSE, FALSE),
            MethodOf("side", "draw", <<"int">>, TRUE, FALSE),
            MethodOf("derived", "draw", <<"int">>, TRUE, FALSE),
            MethodOf("side", "draw", <<"int">>, FALSE, TRUE),
            MethodOf("derived", "draw", <<"int">>, FALSE, TRUE),
            MethodOf("parent", "size", <<>>, FALSE, FALSE)}

\* One method overridden along the chain
ChainMethods == {MethodOf(c, "draw", <<>>, FALSE, FALSE) : c \in Chain}
=============================================================================
