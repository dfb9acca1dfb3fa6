------------------------------- MODULE Spelling -------------------------------
(***************************************************************************)
(* How the spelling of a type gets from clang into a REFL_ line, and out   *)
(* of the string the preprocessor makes of it.  Commas separate the        *)
(* arguments of a macro and of splitArgs alike, so the parser writes those *)
(* inside of a type as the word COMMA.                                     *)
(***************************************************************************)
EXTENDS SequencesExt

\* x: any other character
Chars == {"x", " ", "*", "&", ",", "COMMA"}
Marks == {"*", "&"}

-----------------------------------------------------------------------------
(* The parser                                                               *)

\* Fault: commas are left as they are.
printTypeRaw(t) == t

printType(t) ==
  FlattenSeq([i \in 1..Len(t) |-> IF t[i] = "," THEN <<" ", "COMMA", " ">> ELSE <<t[i]>>])

\* join(args, ", ")
argument_type_spellings(args) ==
  FlattenSeq([i \in 1..Len(args) |->
    (IF i = 1 THEN <<>> ELSE <<",", " ">>) \o printType(args[i])])

\* #__VA_ARGS__: the macro arguments are not expanded, white space is one space
Stringified(s) ==
  FlattenSeq([i \in 1..Len(s) |->
    IF s[i] = " " /\ (i = 1 \/ i = Len(s) \/ s[i + 1] = " ") THEN <<>> ELSE <<s[i]>>])

-----------------------------------------------------------------------------
(* The run time                                                             *)

\* What one character adds to the name, by the one that follows
Kept(curr, next) ==
  CASE curr = " " -> IF next \in {" ", ",", "end"} THEN <<>> ELSE <<" ">>
    [] curr # " " /\ curr \notin Marks /\ next \in Marks -> <<curr, " ">>
    [] OTHER -> <<curr>>

\* The name up to the next comma, and what follows it
normalizedTypeName(s) ==
  LET first == SelectInSeq(s, LAMBDA c : c \notin {" ", ","})
      text  == IF first = 0 THEN <<>> ELSE SubSeq(s, first, Len(s))
      comma == SelectInSeq(text, LAMBDA c : c = ",")
      n     == IF comma = 0 THEN Len(text) ELSE comma - 1
      at(i) == IF i > Len(text) THEN "end" ELSE text[i]
  IN  [arg  |-> FlattenSeq([i \in 1..n |-> Kept(text[i], at(i + 1))]),
       rest |-> SubSeq(text, n + 1, Len(text))]

RECURSIVE splitArgs(_)
splitArgs(s) ==
  LET name == normalizedTypeName(s)
  IN  IF s = <<>> THEN <<>>
      ELSE (IF name.arg = <<>> THEN <<>> ELSE <<name.arg>>) \o splitArgs(name.rest)

-----------------------------------------------------------------------------
(***************************************************************************)
(* The name of a type: its characters, with one space where there is any,  *)
(* around COMMA and before the first of some marks, and no other.          *)
(***************************************************************************)
Normal(t) ==
  LET place    == SelectSeq([i \in 1..Len(t) |-> i], LAMBDA i : t[i] # " ")
      shown(k) == t[place[k]]
      apart(k) == \/ place[k + 1] > place[k] + 1
                  \/ "COMMA" \in {shown(k), shown(k + 1)}
                  \/ shown(k) \notin Marks /\ shown(k + 1) \in Marks
  IN  FlattenSeq([k \in 1..Len(place) |->
        IF k < Len(place) /\ apart(k) THEN <<shown(k), " ">> ELSE <<shown(k)>>])

HasComma(t) == \E i \in 1..Len(t) : t[i] = ","

(***************************************************************************)
(* The word that stands for a comma within a type: the macro COMMA is not  *)
(* expanded before it is made part of a string.                            *)
(***************************************************************************)
Marked(t) == [i \in 1..Len(t) |-> IF t[i] = "," THEN "COMMA" ELSE t[i]]
=============================================================================
