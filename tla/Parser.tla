-------------------------------- MODULE Parser --------------------------------
(***************************************************************************)
(* selfportraitc: handleDecl walks the declarations clang hands it and     *)
(* records what it can name, with a stack of the classes it is in; print   *)
(* then decides which of the recorded classes are interfaces and writes    *)
(* their stubs.  A declaration whose type is private or incomplete is      *)
(* left by an exception that handleDecl catches.                           *)
(***************************************************************************)
EXTENDS Naturals, FiniteSets, Spelling

CONSTANT Programs   \* the translation units handed in, see Program

\* staticField: a static data member; conversion: operator bool() and the like
Kinds == {"class", "forward", "namespace", "field", "staticField", "method", "outOfClass",
          "conversion", "constructor", "destructor", "function"}

\* What the code asks clang about a declaration or a base.  hidden: treatType
\* throws PrivateType or IncompleteType for one of its types; implicit: not
\* user provided; main: it lies in the main file; optional: a constructor all
\* of whose parameters have default arguments
Traits == {"hidden", "public", "pure", "virtual", "static", "implicit",
           "deleted", "anonymous", "main", "optional"}

\* of: the definition of a forward or an out-of-class declaration, or the
\* signature of a method; bases: of a class, the definition and the traits;
\* type, args: how clang spells the type of a field or the result, and the
\* arguments
Decl    == [kind : Kinds, is : SUBSET Traits, of : Nat, members : Seq(Nat),
            bases : Seq([def : Nat, is : SUBSET Traits]),
            type : Seq(Chars), args : Seq(Seq(Chars))]
Program == [decls : Seq(Decl), top : Seq(Nat)]

VARIABLES
  program,      \* the unit
  work,         \* the calls of handleDecl in progress, the innermost first
  stack,        \* m_cStack: the records of the classes it is in, the innermost last
  classes,      \* m_tu.classes
  classIndex,   \* m_tu.classIndex: the last record of a class
  visited,      \* m_visited
  functions     \* m_tu.functions

vars == <<program, work, stack, classes, classIndex, visited, functions>>

decls == program.decls
Ids   == 1..Len(decls)
Done  == work = <<>>

Has(d, trait)   == trait \in decls[d].is
Is(d, kind)     == decls[d].kind = kind
Records         == 1..Len(classes)
Recorded(c)     == {n \in Records : classes[n].def = c}

TypeOK ==
  /\ \A n \in 1..Len(stack) : stack[n] \in Records
  /\ \A n \in Records :
       /\ Is(classes[n].def, "class")
       /\ \A f \in {"attributes", "methods", "constructors"} : classes[n][f] \subseteq Ids
       /\ classes[n].inner \subseteq Records \ {n}
  /\ \A c \in DOMAIN classIndex : classIndex[c] \in Recorded(c)
  /\ visited \subseteq Ids /\ functions \subseteq Ids

-----------------------------------------------------------------------------
(* TranslationUnitBuilder                                                   *)

\* Fault: the class around an inner class does not learn of it
EnclosingBlind(n) == {}

\* The record that gets n among its inner classes
Enclosing(n) == IF stack = <<>> THEN {} ELSE {stack[Len(stack)]}

\* pushClass and the addInheritance and addConstructor calls that follow it
pushClass(c, inMain, inherited, constructors) ==
  LET n   == Len(classes) + 1
      rec == [def |-> c, main |-> inMain, attributes |-> {}, methods |-> {}, inner |-> {},
              constructors |-> constructors, inherited |-> inherited, dtor |-> FALSE]
  IN  /\ classes' = Append([k \in Records |->
                              IF k \in Enclosing(n) THEN [classes[k] EXCEPT !.inner = @ \union {n}]
                              ELSE classes[k]], rec)
      /\ stack' = Append(stack, n)
      /\ classIndex' = [k \in DOMAIN classIndex \union {c} |-> IF k = c THEN n ELSE classIndex[k]]

current == stack[Len(stack)]

\* addAttribute, addMethod, addConstructor
Add(list, d) == classes' = [classes EXCEPT ![current][list] = @ \union {d}]

-----------------------------------------------------------------------------
(* handleDecl                                                               *)

Frame(members, inMain, inClass) == [todo |-> members, main |-> inMain, class |-> inClass]

Init ==
  /\ program \in Programs
  /\ work = <<Frame(program.top, FALSE, FALSE)>>
  /\ stack = <<>> /\ classes = <<>> /\ classIndex = <<>>
  /\ visited = {} /\ functions = {}

Coming == work[1].todo # <<>>
decl   == Head(work[1].todo)

\* Of a declaration at the top main asks where it is; the others inherit that
isInMainFile == IF Len(work) = 1 THEN Has(decl, "main") ELSE work[1].main

\* handleDecl returns; frames: the calls it makes first
Handled(frames) ==
  /\ work' = frames \o <<[work[1] EXCEPT !.todo = Tail(@)]>> \o Tail(work)
  /\ visited' = visited \union {decl}
  /\ UNCHANGED program

New == ~Done /\ Coming /\ decl \notin visited

\* What is met a second time, deleted, or named with a type that treatType
\* rejects: the exception ends this handleDecl only
Skipped ==
  \/ Has(decl, "deleted") \/ Has(decl, "hidden")
  \/ Is(decl, "namespace") /\ Has(decl, "anonymous")
  \/ Is(decl, "outOfClass") /\ stack = <<>>
  \/ Is(decl, "function") /\ ~isInMainFile

Skip ==
  /\ ~Done /\ Coming /\ (decl \in visited \/ Skipped)
  /\ Handled(<<>>)
  /\ UNCHANGED <<stack, classes, classIndex, functions>>

Namespace ==
  /\ New /\ ~Skipped /\ Is(decl, "namespace")
  /\ Handled(<<Frame(decls[decl].members, isInMainFile, FALSE)>>)
  /\ UNCHANGED <<stack, classes, classIndex, functions>>

\* What has no branch (a VarDecl), or one that does nothing (a CXXConversionDecl)
Passed == Is(decl, "staticField") \/ Is(decl, "conversion")

Member ==
  /\ New /\ ~Skipped
  /\ \/ Is(decl, "field") /\ Add("attributes", decl)
     \/ Is(decl, "constructor") /\ Add("constructors", decl)
     \/ (Is(decl, "method") \/ Is(decl, "outOfClass")) /\ Add("methods", decl)
     \/ /\ Is(decl, "destructor")
        /\ classes' = [classes EXCEPT ![current].dtor = @ \/ {"public", "virtual"} \subseteq decls[decl].is]
     \/ Passed /\ UNCHANGED classes
  /\ Handled(<<>>)
  /\ UNCHANGED <<stack, classIndex, functions>>

FreeFunction ==
  /\ New /\ ~Skipped /\ Is(decl, "function")
  /\ functions' = functions \union {decl}
  /\ Handled(<<>>)
  /\ UNCHANGED <<stack, classes, classIndex>>

\* The definition a declaration of a class leads to
definition == IF Is(decl, "forward") THEN decls[decl].of ELSE decl

\* A base that treatType rejects is met after pushClass, and no popClass follows
FirstHidden ==
  LET bases == decls[definition].bases
  IN  {n \in 1..Len(bases) : "hidden" \in bases[n].is}

\* needsImplicitDefaultConstructor: the class declares no constructor
Implicit(c) ==
  IF \E n \in 1..Len(decls[c].members) : Is(decls[c].members[n], "constructor")
  THEN {} ELSE {c}

Class ==
  /\ New /\ ~Skipped /\ (Is(decl, "class") \/ Is(decl, "forward"))
  /\ IF FirstHidden = {}
     THEN /\ pushClass(definition, isInMainFile, decls[definition].bases, Implicit(definition))
          /\ work' = <<Frame(decls[definition].members, isInMainFile, TRUE)>>
                       \o <<[work[1] EXCEPT !.todo = Tail(@)]>> \o Tail(work)
     ELSE LET n == CHOOSE k \in FirstHidden : \A j \in FirstHidden : k <= j
          IN  /\ pushClass(definition, isInMainFile, SubSeq(decls[definition].bases, 1, n - 1), {})
              /\ work' = <<[work[1] EXCEPT !.todo = Tail(@)]>> \o Tail(work)
  /\ visited' = visited \union {decl, definition}
  /\ UNCHANGED <<program, functions>>

\* Fault: popClass is not called
LeaveStacked ==
  /\ ~Done /\ ~Coming
  /\ work' = Tail(work)
  /\ UNCHANGED <<program, stack, classes, classIndex, visited, functions>>

\* The members of a class or a namespace are done
Leave ==
  /\ ~Done /\ ~Coming
  /\ work' = Tail(work)
  /\ stack' = IF work[1].class THEN SubSeq(stack, 1, Len(stack) - 1) ELSE stack
  /\ UNCHANGED <<program, classes, classIndex, visited, functions>>

\* The unit has been printed
Printed == Done /\ UNCHANGED vars

Next == Skip \/ Namespace \/ Member \/ FreeFunction \/ Class \/ Leave \/ Printed

Spec == Init /\ [][Next]_vars

-----------------------------------------------------------------------------
(* print                                                                    *)

\* Fault: the access of a method is not looked at
is_interfaceMethodUnchecked(m) == Has(m, "implicit") \/ (Has(m, "pure") /\ ~Has(m, "static"))

is_interfaceMethod(m) ==
  Has(m, "implicit") \/ (Has(m, "pure") /\ Has(m, "public") /\ ~Has(m, "static"))

\* The implicit constructor is recorded with the class's own id
DefaultConstructor(d) == Is(d, "class") \/ (decls[d].args = <<>> /\ Has(d, "public"))

RECURSIVE is_interface(_)
is_interface(n) ==
  LET c == classes[n]
  IN  /\ c.attributes = {} /\ c.dtor /\ c.inner = {}
      /\ \A m \in c.methods : is_interfaceMethod(m)
      /\ c.constructors = {} \/ \E d \in c.constructors : DefaultConstructor(d)
      /\ \A k \in 1..Len(c.inherited) :
           /\ c.inherited[k].def \in DOMAIN classIndex
           /\ is_interface(classIndex[c.inherited[k].def])
           /\ "public" \in c.inherited[k].is

\* printStubMethods: the methods it hands to printAsStub, of the class and of
\* its bases; a base that is not in the index is "unresolved"
RECURSIVE StubMethods(_)
StubMethods(n) ==
  LET c == classes[n]
  IN  {m \in c.methods : Has(m, "pure") \/ ~Has(m, "implicit")} \union
      UNION {IF c.inherited[k].def \in DOMAIN classIndex
             THEN StubMethods(classIndex[c.inherited[k].def]) ELSE {0} : k \in 1..Len(c.inherited)}

\* The classes that are printed; printAsStub does not throw for method m
PrintedClasses == {n \in Records : classes[n].main}

\* The REFL_ lines of a class and of the functions: what is public
PrintedMembers(n) ==
  {d \in classes[n].attributes \union classes[n].methods \union classes[n].constructors :
     Has(d, "public")} \ {classes[n].def}

Lines == functions \union UNION {PrintedMembers(n) : n \in PrintedClasses}

\* The strings in the program that is generated
TypeText(d) == Stringified(printType(decls[d].type))
ArgsText(d) == Stringified(argument_type_spellings(decls[d].args))

Printable(m) == m # 0 /\ Has(m, "public") /\ ~Has(m, "static")

-----------------------------------------------------------------------------
(* What the unit says                                                       *)

MembersOf(c) == {decls[c].members[n] : n \in 1..Len(decls[c].members)}

Of(c, kind) == {d \in MembersOf(c) : Is(d, kind)}

Methods(c) == Of(c, "method") \union Of(c, "conversion")

BasesOf(c) == {decls[c].bases[n] : n \in 1..Len(decls[c].bases)}

\* A constructor with default arguments for all parameters is one as well
IsDefault(d) == (decls[d].args = <<>> \/ Has(d, "optional")) /\ ~Has(d, "deleted")

\* "We consider a class an interface if" (definitions.h), as C++ has it: static
\* data members are attributes, conversion operators are methods, a default
\* constructor is public unless one is declared; what the compiler provides is
\* not counted
RECURSIVE Interface(_)
Interface(c) ==
  /\ Of(c, "field") \union Of(c, "staticField") = {} /\ Of(c, "class") = {}
  /\ \A m \in Methods(c) : Has(m, "implicit") \/ (Has(m, "pure") /\ Has(m, "public"))
  /\ Of(c, "constructor") = {} \/
       \E d \in Of(c, "constructor") : IsDefault(d) /\ Has(d, "public")
  /\ \E d \in Of(c, "destructor") : {"public", "virtual"} \subseteq decls[d].is
  /\ \A b \in BasesOf(c) : "public" \in b.is /\ Interface(b.def)

\* c and the classes it derives from
RECURSIVE Family(_)
Family(c) == {c} \union UNION {Family(b.def) : b \in BasesOf(c)}

\* Where the unit declares c
Declarations(c) ==
  {n \in 1..Len(program.top) :
     LET d == program.top[n] IN d = c \/ (Is(d, "forward") /\ decls[d].of = c)}

\* c is declared again besides its definition and one declaration before it
DeclaredAgain(c) ==
  \E n, k \in Declarations(c) : n < k /\ program.top[k] # c

\* What clang lists for the class and no branch records
Unrecorded(d) == decls[d].kind \in {"staticField", "conversion"} \/ Has(d, "hidden") \/ Has(d, "deleted")

\* Something of c that the decision needs is not recorded
Unseen(c) ==
  \/ \E d \in MembersOf(c) : Unrecorded(d)
  \/ \E b \in BasesOf(c) : "hidden" \in b.is

\* c has a default constructor, but none without parameters that is recorded
OnlyOptional(c) ==
  /\ \E d \in Of(c, "constructor") : Has(d, "optional") /\ Has(d, "public")
  /\ ~\E d \in Of(c, "constructor") : decls[d].args = <<>> /\ Has(d, "public") /\ ~Unrecorded(d)

\* A private typedef is a base of c
BaseHidden(c) == \E b \in BasesOf(c) : "hidden" \in b.is

HiddenBase == \E c \in Ids : Is(c, "class") /\ BaseHidden(c)

-----------------------------------------------------------------------------
(***************************************************************************)
(* When the walk ends it has left every class it entered but those with a  *)
(* base that is a private typedef, whose exception passes by popClass: one *)
(* record stays on the stack for each of them, and the next declarations   *)
(* go there.  In a unit without one every member is recorded with its own  *)
(* class, and an inner class with the class around it.                     *)
(***************************************************************************)
MembersAtHome ==
  Done =>
    /\ Len(stack) = Cardinality({n \in Records : BaseHidden(classes[n].def)})
    /\ ~HiddenBase =>
         \A n \in Records :
           LET c == classes[n].def
           IN  /\ classes[n].attributes \union classes[n].methods \subseteq MembersOf(c)
               /\ classes[n].constructors \subseteq MembersOf(c) \union {c}
               /\ \A k \in classes[n].inner : classes[k].def \in MembersOf(c)

(***************************************************************************)
(* The records are well formed: the stack and the index lead to records, and *)
(* what they list is where it belongs.                                     *)
(***************************************************************************)
RecordsOK == TypeOK /\ MembersAtHome

(***************************************************************************)
(* A class is recorded once, with its data members, methods and            *)
(* constructors, and with no others: but for static data members and       *)
(* conversion operators, which the walk passes by, what is deleted, and    *)
(* what needs a private type.  It is printed if its first declaration lies *)
(* in the main file.  Each further declaration makes an empty record,      *)
(* which the index then has in place of the full one.                      *)
(***************************************************************************)
RecordedOnce ==
  Done /\ ~HiddenBase =>
    \A c \in DOMAIN classIndex :
      LET first == classes[CHOOSE n \in Recorded(c) : \A k \in Recorded(c) : n <= k]
      IN  /\ Cardinality(Recorded(c)) = 1 <=> ~DeclaredAgain(c)
          /\ (first.attributes \union first.methods \union first.constructors) \ {c}
               = {d \in MembersOf(c) \ (Of(c, "class") \union Of(c, "destructor")) : ~Unrecorded(d)}
          /\ {classes[k].def : k \in first.inner} = Of(c, "class")
          /\ \A n \in Declarations(c) : (\A k \in Declarations(c) : n <= k) =>
               (first.main <=> Has(program.top[n], "main"))
          /\ \A k \in Recorded(c) : classes[k] # first =>
               classes[k].attributes \union classes[k].methods \union classes[k].inner = {}

(***************************************************************************)
(* What is taken for an interface is one by the definition of              *)
(* definitions.h:111-122, and the other way round, but for three           *)
(* differences.  A class with something the walk does not record may be    *)
(* taken for one: a static data member, a conversion operator, a member of *)
(* a private type, a deleted constructor.  A class whose only default      *)
(* constructor has default arguments is refused; so is one whose record in *)
(* the index is an empty one, because it is declared again.                *)
(***************************************************************************)
InterfaceAsDocumented ==
  Done /\ ~HiddenBase =>
    \A c \in DOMAIN classIndex :
      /\ is_interface(classIndex[c]) /\ ~Interface(c) => \E b \in Family(c) : Unseen(b)
      /\ Interface(c) /\ ~is_interface(classIndex[c]) =>
           \E b \in Family(c) : OnlyOptional(b) \/ DeclaredAgain(b)

(***************************************************************************)
(* print never meets what it calls an internal error: a base that is not   *)
(* resolved or a method that is static or not public while it writes a     *)
(* stub.  And the stub overrides every pure virtual member of the class    *)
(* and its bases, or it would be abstract, except those the walk did not   *)
(* record: a pure virtual conversion operator, a method with a private     *)
(* type.  A class with one of these is taken for an interface all the      *)
(* same, and what is printed for it does not compile.                      *)
(***************************************************************************)
StubsPrintable ==
  Done =>
    \A n \in PrintedClasses : is_interface(n) =>
      /\ \A m \in StubMethods(n) : Printable(m)
      /\ ~HiddenBase =>
           \A b \in Family(classes[n].def) :
             {m \in Methods(b) : Has(m, "pure")} \ StubMethods(n)
               = {m \in Methods(b) : Has(m, "pure") /\ Unrecorded(m)}

(***************************************************************************)
(* The program reads back from the generated lines as many names as there  *)
(* are arguments, also for types with commas inside, and the type of a     *)
(* field or a result.  Each is spelled as clang has it, with white space   *)
(* made uniform, if clang wrote no comma in it; otherwise it is not: the   *)
(* preprocessor makes a string of the word COMMA, which stays in the name. *)
(***************************************************************************)
TypesReadBack ==
  Done =>
    \A d \in Lines :
      LET args == splitArgs(ArgsText(d))
          type == normalizedTypeName(TypeText(d)).arg
      IN  /\ args = [i \in 1..Len(decls[d].args) |-> Normal(Marked(decls[d].args[i]))]
          /\ type = Normal(Marked(decls[d].type))
          /\ \A i \in 1..Len(args) :
               args[i] = Normal(decls[d].args[i]) <=> ~HasComma(decls[d].args[i])
          /\ type = Normal(decls[d].type) <=> ~HasComma(decls[d].type)
=============================================================================
