---------------------------- MODULE ClassRegistry ----------------------------
(***************************************************************************)
(* Meta-classes and the registry.  A static initialiser per class registers *)
(* it; base classes are known by name only and are looked up again every   *)
(* time a Class handle is made or copied (Class::Class calls resolveBases). *)
(* A base that is found is flattened into the derived class: it, what it   *)
(* lists as superclasses at that moment, and their members.  The order in   *)
(* which static initialisers of different files run is not specified.      *)
(***************************************************************************)
EXTENDS SequencesExt

CONSTANTS
  Classes,
  Bases,        \* Bases[c]: the REFL_SUPER_CLASS lines of c, in order
  Methods       \* methods to compare, with the class that declares each

\* C++: a class names a base once, and is defined after its bases
ASSUME BasesAssumption ==
  /\ IsFiniteSet(Classes)
  /\ Bases \in [Classes -> Seq(Classes)]
  /\ \A c \in Classes : IsInjective(Bases[c])
  /\ \E line \in [Classes -> 1..Cardinality(Classes)] :
       \A c \in Classes : \A b \in ToSet(Bases[c]) : line[b] < line[c]

ASSUME MethodsAssumption ==
  \A m \in Methods : /\ m.class \in Classes
                     /\ m.const \in BOOLEAN /\ m.volatile \in BOOLEAN /\ m.static \in BOOLEAN

VARIABLES
  registered,   \* m_registryByName, m_registryByTypeId
  meta,         \* the meta-classes, by class
  last          \* the last call and what it gave

vars == <<registered, meta, last>>

(***************************************************************************)
(* A ClassImpl: m_unresolvedBases, m_superclasses, the classes m_methods   *)
(* (and m_attributes) come from, one method per class, and the keys of     *)
(* m_castFunctions.                                                        *)
(***************************************************************************)
ClassImpl == [
  unresolved   : Seq(Classes),
  superclasses : Seq(Classes),
  methods      : Seq(Classes),
  casts        : SUBSET Classes ]

Metas == [Classes -> ClassImpl]

Results == {"ok", "empty", "cast", "inheritance path is wrong",
            "No cast function registered"}

\* The registry and the meta-classes have their types.
TypeOK ==
  /\ registered \subseteq Classes
  /\ meta \in Metas
  /\ last \in [class : Classes \union {"none"}, base : Classes \union {"none"},
               result : Results]

-----------------------------------------------------------------------------
(***************************************************************************)
(* Making and copying handles.  Copying a handle of c may resolve bases of *)
(* c, which copies handles of the bases and registers them and what they   *)
(* list, which copies handles of these, and so on: calls says what each of *)
(* these calls does to the meta-classes when it nests less deep.           *)
(***************************************************************************)
Effect  == [Metas -> Metas]
Nesting == [copy     : [Classes -> Effect],                  \* of a handle of the class
            register : [Classes -> [Classes -> Effect]]]     \* the second, with the first

Positive == Nat \ {0}

\* erase() returns the iterator of the next base and the loop increments it once
\* more: the base after a found one is skipped, and past the end the iterator of
\* the (circular) std::list is at the first of n bases again
Advance(i, n) == IF i <= n THEN i + 1 ELSE 1

\* Waiting base i of c is found: erased, registered, and its cast function kept
Found(calls, x, c, i) ==
  LET b     == x[c].unresolved[i]
      taken == [calls.copy[b][x] EXCEPT ![c].unresolved = RemoveAt(x[c].unresolved, i)]
      done  == calls.copy[b][calls.register[c][b][taken]]
  IN  [done EXCEPT ![c].casts = @ \union {b}]

\* Fault: the base is erased before its handle is known to be valid.
resolveBasesErasing(calls, x, c) ==
  LET visit[at \in [meta : Metas, base : Positive]] ==
        LET bases == at.meta[c].unresolved
        IN  IF at.base > Len(bases) THEN at.meta
            ELSE IF bases[at.base] \notin registered
              THEN visit[[at EXCEPT !.meta[c].unresolved = RemoveAt(@, at.base)]]
            ELSE visit[[meta |-> Found(calls, at.meta, c, at.base),
                        base |-> Advance(at.base, Len(bases) - 1)]]
  IN  visit[[meta |-> x, base |-> 1]]

\* ClassImpl::resolveBases; base: where its iterator stands
resolveBases(calls, x, c) ==
  LET visit[at \in [meta : Metas, base : Positive]] ==
        LET bases == at.meta[c].unresolved
        IN  IF at.base > Len(bases) THEN at.meta
            ELSE IF bases[at.base] \notin registered
              THEN visit[[at EXCEPT !.base = @ + 1]]
            ELSE visit[[meta |-> Found(calls, at.meta, c, at.base),
                        base |-> Advance(at.base, Len(bases) - 1)]]
  IN  visit[[meta |-> x, base |-> 1]]

\* c lists b, and inherits the methods that b has now
Listed(x, c, b) == [x EXCEPT ![c].superclasses = Append(@, b),
                             ![c].methods = @ \o x[b].methods]

\* Fault: the superclasses of the base are not flattened.
registerOnly(calls, x, c, b) == Listed(calls.copy[b][calls.copy[b][x]], c, b)

\* registerSuperClassInternal: the argument and the list element are copies, and
\* so is each superclass in turn
registerSuperClassInternal(calls, x, c, b) ==
  LET y      == calls.copy[b][calls.copy[b][x]]
      supers == y[b].superclasses
      flattened[n \in 0..Len(supers)] ==
        IF n = 0 THEN Listed(y, c, b)
        ELSE calls.register[c][supers[n]][calls.copy[supers[n]][flattened[n - 1]]]
  IN  flattened[Len(supers)]

NoCalls == [copy     |-> [c \in Classes |-> [x \in Metas |-> x]],
            register |-> [c \in Classes |-> [b \in Classes |-> [x \in Metas |-> x]]]]

\* The calls that make these calls
Around(calls) ==
  LET copy == [c \in Classes |-> [x \in Metas |-> resolveBases(calls, x, c)]]
  IN  [copy     |-> copy,
       register |-> [c \in Classes |-> [b \in Classes |-> [x \in Metas |->
                       registerSuperClassInternal([calls EXCEPT !.copy = copy], x, c, b)]]]]

\* Each call is for a base of the last, so none nests deeper than there are classes
Nested[n \in 0..Cardinality(Classes)] == IF n = 0 THEN NoCalls ELSE Around(Nested[n - 1])

Handles == Nested[Cardinality(Classes)].copy

\* Fault: a class that has resolved something is taken to be resolved.
CopyResolvesOnce(x, c) == IF x[c].superclasses # <<>> THEN x ELSE Handles[c][x]

\* Class::Class(ClassImpl*), Class::Class(const Class&), Class::Class(Class&&)
Copy(x, c) == Handles[c][x]

-----------------------------------------------------------------------------
superclasses(x, c) == ToSet(x[c].superclasses)

\* inherits, isSubClassOf
inherits(x, c, b) == c # b /\ b \in superclasses(x, c)

(***************************************************************************)
(* inheritancePath, from base up to derived.  The list it returns is made  *)
(* of handles, and { derived } copies one twice: the path is searched in   *)
(* the superclasses those copies have resolved.                            *)
(***************************************************************************)
\* The first superclass of d on a way to base
Through(x, d, base) ==
  LET supers == x[d].superclasses
      on     == {n \in 1..Len(supers) : supers[n] = base \/ inherits(x, supers[n], base)}
  IN  supers[CHOOSE n \in on : \A k \in on : n <= k]

\* Fault: the rest of the path is spliced in at the wrong end.
inheritancePathAppended(x, derived, base) ==
  LET up[at \in [meta : Metas, class : Classes, path : Seq(Classes)]] ==
        LET y == Copy(Copy(at.meta, at.class), at.class)
        IN  IF at.class = base THEN [meta |-> y, path |-> Append(at.path, base)]
            ELSE IF ~inherits(at.meta, at.class, base)
              THEN [meta |-> at.meta, path |-> at.path]
            ELSE up[[meta |-> y, class |-> Through(y, at.class, base),
                     path |-> Append(at.path, at.class)]]
  IN  up[[meta |-> x, class |-> derived, path |-> <<>>]]

inheritancePath(x, derived, base) ==
  LET up[at \in [meta : Metas, class : Classes, path : Seq(Classes)]] ==
        LET y == Copy(Copy(at.meta, at.class), at.class)
        IN  IF at.class = base THEN [meta |-> y, path |-> <<base>> \o at.path]
            ELSE IF ~inherits(at.meta, at.class, base)
              THEN [meta |-> at.meta, path |-> at.path]
            ELSE up[[meta |-> y, class |-> Through(y, at.class, base),
                     path |-> <<at.class>> \o at.path]]
  IN  up[[meta |-> x, class |-> derived, path |-> <<>>]]

\* The cast functions castUp calls along a path.  A function that is found is
\* taken to succeed: classes are polymorphic (the cast_helper of another gives
\* an empty variant), and the object castUp is given is of the class it names
castAlong(x, path) ==
  IF \A i \in 1..(Len(path) - 1) : path[i] \in x[path[i + 1]].casts
  THEN "cast" ELSE "No cast function registered"

castUp(x, derived, base, path) ==
  IF path = <<>> THEN "empty"
  ELSE IF Last(path) # derived \/ Head(path) # base THEN "inheritance path is wrong"
  ELSE castAlong(x, path)

-----------------------------------------------------------------------------
(* Searching a class for methods, and comparing two                         *)

\* Fault: the search goes through a copy of the list.
findAllSnapshot(x, c) ==
  [meta |-> FoldLeft(Copy, x, x[c].methods), found |-> x[c].methods]

\* findAllMethods with a criterion that calls getClass() on each method and
\* accepts it: the handle may append to the list that is being iterated
findAll(x, c) ==
  LET search[at \in [meta : Metas, method : Positive, found : Seq(Classes)]] ==
        LET methods == at.meta[c].methods
            m       == methods[at.method]
        IN  IF at.method > Len(methods) THEN [meta |-> at.meta, found |-> at.found]
            ELSE search[[meta |-> Copy(at.meta, m), method |-> at.method + 1,
                         found |-> Append(at.found, m)]]
  IN  search[[meta |-> x, method |-> 1, found |-> <<>>]]

\* inheritanceRelation
inheritanceRelation(x, c1, c2) == c1 = c2 \/ inherits(x, c1, c2) \/ inherits(x, c2, c1)

\* The handles m1.getClass() and m2.getClass() make, in the compiler's order
GetClasses(x, order) == Copy(Copy(x, order[1]), order[2])

CallOrders(m1, m2) == {<<m1.class, m2.class>>, <<m2.class, m1.class>>}

\* name, isStatic, isConst, isVolatile and the number of arguments
Alike(m1, m2) ==
  /\ m1.name = m2.name /\ ~m1.static /\ ~m2.static
  /\ Len(m1.args) = Len(m2.args) /\ m1.const = m2.const /\ m1.volatile = m2.volatile

\* Fault: any relation will do.
overridesEither(x, m1, m2, order) ==
  LET y == GetClasses(GetClasses(x, order), order)
  IN  IF m1.class = m2.class \/ ~Alike(m1, m2)
        THEN [meta |-> GetClasses(x, order), answer |-> FALSE]
      ELSE [meta |-> y, answer |-> m1.args = m2.args /\ inheritanceRelation(y, m1.class, m2.class)]

\* Each call of getClass() makes a handle, and so may resolve bases
overrides(x, m1, m2, order) ==
  LET compared == GetClasses(x, order)
      related  == GetClasses(compared, order)
      final    == GetClasses(related, order)
  IN  IF m1.class = m2.class \/ ~Alike(m1, m2)
        THEN [meta |-> compared, answer |-> FALSE]
      ELSE IF ~inheritanceRelation(related, m1.class, m2.class) \/ m1.args # m2.args
        THEN [meta |-> related, answer |-> FALSE]
      ELSE [meta |-> final, answer |-> inherits(final, m1.class, m2.class)]

\* Whether the arguments differ is computed and not used
overloads(x, m1, m2, order) ==
  LET y == GetClasses(x, order)
  IN  IF m1 = m2 \/ m1.name # m2.name \/ m1.static # m2.static
        THEN [meta |-> x, answer |-> FALSE]
      ELSE [meta |-> y, answer |-> inheritanceRelation(y, m1.class, m2.class)]

-----------------------------------------------------------------------------
Init ==
  /\ registered = {}
  /\ meta = [c \in Classes |-> [unresolved |-> Bases[c], superclasses |-> <<>>,
                                methods |-> <<c>>, casts |-> {}]]
  /\ last = [class |-> "none", base |-> "none", result |-> "ok"]

\* The static initialiser of c: a first handle, ClassOf<c>(), then registerClass
Register(c) ==
  /\ c \notin registered
  /\ meta' = Copy(meta, c)
  /\ registered' = registered \union {c}
  /\ last' = [class |-> c, base |-> "none", result |-> "ok"]

\* Class::lookup, or any copy of a handle
Handle(c) ==
  /\ c \in registered
  /\ meta' = Copy(meta, c)
  /\ last' = [class |-> c, base |-> "none", result |-> "ok"]
  /\ UNCHANGED registered

\* Class::castUp, by a program that holds handles of both classes
CastUp(c, b) ==
  LET found == inheritancePath(meta, c, b)
  IN  /\ {c, b} \subseteq registered
      /\ meta' = found.meta
      /\ last' = [class |-> c, base |-> b,
                  result |-> castUp(found.meta, c, b, found.path)]
      /\ UNCHANGED registered

\* Class::findAllMethods
FindAllMethods(c) ==
  /\ c \in registered
  /\ meta' = findAll(meta, c).meta
  /\ last' = [class |-> c, base |-> "none", result |-> "ok"]
  /\ UNCHANGED registered

\* overrides and overloads, of methods whose classes were looked up
Compare(m1, m2) ==
  /\ {m1.class, m2.class} \subseteq registered
  /\ \E order \in CallOrders(m1, m2) :
       meta' \in {overrides(meta, m1, m2, order).meta, overloads(meta, m1, m2, order).meta}
  /\ last' = [class |-> m1.class, base |-> m2.class, result |-> "ok"]
  /\ UNCHANGED registered

Next ==
  \/ \E c \in Classes : Register(c) \/ Handle(c) \/ FindAllMethods(c)
  \/ \E m1, m2 \in Methods : Compare(m1, m2)
  \/ \E c, b \in Classes : CastUp(c, b)

Spec == Init /\ [][Next]_vars

-----------------------------------------------------------------------------
\* The classes above c: those in every set with the bases of c that has with a
\* class its bases
Ancestors == [c \in Classes |->
  {a \in Classes : \A S \in SUBSET Classes :
     ToSet(Bases[c]) \subseteq S /\ (\A s \in S : ToSet(Bases[s]) \subseteq S) => a \in S}]

(***************************************************************************)
(* Erasing while iterating, skipping and wrapping round neither loses a    *)
(* base nor resolves one twice: each is either still waiting, or has its   *)
(* cast function and is listed as a superclass.                            *)
(***************************************************************************)
NoBaseLost ==
  \A c \in Classes :
    LET waiting == ToSet(meta[c].unresolved)
    IN  /\ waiting \union meta[c].casts = ToSet(Bases[c])
        /\ waiting \intersect meta[c].casts = {}
        /\ meta[c].casts \subseteq superclasses(meta, c)

(***************************************************************************)
(* Whatever the order of the static initialisers, a class only lists       *)
(* registered classes it really derives from.                              *)
(***************************************************************************)
SuperclassesAreAncestors ==
  \A c \in Classes : superclasses(meta, c) \subseteq Ancestors[c] \intersect registered

(***************************************************************************)
(* The members a class inherited are those of the superclasses it lists:   *)
(* flattening copies the members of a class and of its superclasses at     *)
(* different moments, between which handles are copied.                    *)
(***************************************************************************)
InheritedMembersMatch ==
  \A c \in Classes : ToSet(meta[c].methods) = {c} \union superclasses(meta, c)

(***************************************************************************)
(* The meta-classes are well formed: they hold registered classes, list as *)
(* superclasses only what they derive from, and have the members of these. *)
(***************************************************************************)
MetaOK == TypeOK /\ SuperclassesAreAncestors /\ InheritedMembersMatch

(***************************************************************************)
(* A search whose predicate looks at the classes of the methods it is      *)
(* shown, and so appends inherited methods to the list it goes through,    *)
(* ends and has seen every method the class then has, in their order.      *)
(***************************************************************************)
SearchSeesAll ==
  \A c \in registered :
    LET search == findAll(meta, c) IN search.found = search.meta[c].methods

Comparable == {m \in Methods : m.class \in registered}

(***************************************************************************)
(* What overrides and overloads say does not depend on the order in which  *)
(* the compiler makes the handles.  overrides only holds of a method with  *)
(* the same signature of a class derived from the other's, never both      *)
(* ways, and holds whenever the direct base has been resolved; overloads   *)
(* is symmetric.  (overloads says yes to most pairs of which one overrides *)
(* the other, but not to all: overrides makes more handles on its way, and *)
(* may so be the one to find that the classes are related.)                *)
(***************************************************************************)
MethodsRelated ==
  \A m1, m2 \in Comparable : \A order, reverse \in CallOrders(m1, m2) :
    LET over == overrides(meta, m1, m2, order).answer
        load == overloads(meta, m1, m2, order).answer
    IN  /\ over => /\ m2.class \in Ancestors[m1.class]
                   /\ m1.args = m2.args /\ Alike(m1, m2)
        /\ over = overrides(meta, m1, m2, reverse).answer
        /\ ~(over /\ overrides(meta, m2, m1, reverse).answer)
        /\ m2.class \in meta[m1.class].casts /\ m1.args = m2.args /\ Alike(m1, m2) => over
        /\ load = overloads(meta, m2, m1, reverse).answer

\* The two checks castUp makes of the path ("inheritance path is wrong") never
\* fail.  Its third, that a class on the path has a cast function, may: see
\* CastFunctionsFollowPath.
PathSound == last.result # "inheritance path is wrong"

(***************************************************************************)
(* One pass may skip bases, but copying a handle of a class whose waiting  *)
(* bases are all registered always resolves at least one of them, so using *)
(* the class often enough resolves them all.                               *)
(***************************************************************************)
PassMakesProgress ==
  [][\A c \in Classes :
       Handle(c) /\ meta[c].unresolved # <<>> /\ ToSet(Bases[c]) \subseteq registered
         => Len(meta'[c].unresolved) < Len(meta[c].unresolved)]_vars

(***************************************************************************)
(* castUp finds the cast function of every step of a path it chose: its    *)
(* logic_error "No cast function registered" is never raised.              *)
(***************************************************************************)
CastFunctionsFollowPath == last.result # "No cast function registered"
=============================================================================
