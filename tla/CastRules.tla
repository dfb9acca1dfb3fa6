------------------------------ MODULE CastRules ------------------------------
(***************************************************************************)
(* What C++ itself decides about a held value: which pointer types catch   *)
(* the pointer that IValueHolder::throwCast throws, where the base         *)
(* subobject lies, and what VariantValue asks for with isA<T>, value<T>    *)
(* and convertTo<T>.  No state.                                            *)
(***************************************************************************)
EXTENDS Integers

CONSTANTS
  Types,        \* the types that occur: classes, scalars and pointers
  Scalars,      \* the arithmetic, enum and std::string types among them
  Strings,      \* std::string, if it occurs
  Castable,     \* <<from, to>>: a thrown from* is caught as a to*
  PointerTo,    \* the type t*
  ConstPointerTo, \* the type const t*
  Layouts,      \* most derived types a reference holder may be bound to
  BaseOffset,   \* BaseOffset[from][to][l]: byte offset of the to subobject
  Holders,      \* the value holders of the instance: [type, const, layout]
  Requests,     \* the types T the program's conversions name
  NullPtr       \* the null pointer

(***************************************************************************)
(* A value holder: the static type it was built for (without top-level     *)
(* const), whether the pointer it throws is one to const (m_isConst, which *)
(* a held const X* sets too: no modelled request can tell), and the most   *)
(* derived type of the object, which only a reference holder can differ in.*)
(***************************************************************************)
Holder == [type : Types, const : BOOLEAN, layout : Layouts]

\* T of isA<T>, value<T>, convertTo<T>: X, X& or const X&
Mode    == {"value", "ref", "cref"}
Request == [type : Types, mode : Mode]

PointersToConst == {ConstPointerTo[t] : t \in Types}

ASSUME CastRulesAssumption ==
  /\ Strings \subseteq Scalars /\ Scalars \subseteq Types
  /\ Castable \subseteq Types \X Types
  /\ \A t \in Types : <<t, t>> \in Castable
  /\ PointerTo \in [Types -> Types] /\ ConstPointerTo \in [Types -> Types]
  \* what converts to t is not also a pointer to t
  /\ \A from, t \in Types : <<from, t>> \in Castable =>
       /\ <<from, PointerTo[t]>> \notin Castable
       /\ <<from, ConstPointerTo[t]>> \notin Castable
  \* X* is caught as X* only; what a handler may add const to is const X*
  /\ \A from, t \in Types : <<from, PointerTo[t]>> \in Castable => from = PointerTo[t]
  /\ BaseOffset \in [Types -> [Types -> [Layouts -> Int]]]
  /\ \A t \in Types, l \in Layouts : BaseOffset[t][t][l] = 0
  /\ Holders \subseteq Holder
  /\ Requests \subseteq Request
  \* const X*& is outside the model: an X** is no const X**, but Castable is
  \* about const handlers (const X* const*)
  /\ \A r \in Requests : r.mode = "ref" => r.type \notin PointersToConst
  /\ NullPtr \notin Int

\* The const of an object is never dropped by a conversion of its pointer.
ConstOk(h, reqConst) == h.const => reqConst

\* throwCast(), and a handler for to* or (reqConst) const to*
Caught(h, to, reqConst) == <<h.type, to>> \in Castable /\ ConstOk(h, reqConst)

CastPtr(h, to, reqConst) ==
  IF Caught(h, to, reqConst) THEN BaseOffset[h.type][to][h.layout] ELSE NullPtr

\* isAPriv<const T>: const is ignored on a reference, so only T = X& asks for
\* a pointer to non-const
ReqConst(r) == r.mode # "ref"

\* isAPriv<T> of value<T>: here T = X asks for X* as well
ValueReqConst(r) == r.mode = "cref"

\* value<const X*> asks for a const X** as well
ValueModelled(r) == r.mode = "value" => r.type \notin PointersToConst

\* normalize_type<T>::ptr_type
PtrType(t, isConst) == IF isConst THEN ConstPointerTo[t] ELSE PointerTo[t]

\* pointerConversion: catches T& of the pointer type itself, nothing else
PointerConversion(h, r) ==
  r.mode = "value" /\ r.type = PtrType(h.type, h.const)

\* converter<T>::value: numbers and strings always convert, to const std::string&
\* as well, pointers by pointerConversion, everything else is impossibleConversion
Converter(h, r) ==
  IF \/ r.mode = "value" /\ r.type \in Scalars
     \/ r.mode = "cref" /\ r.type \in Strings
     \/ PointerConversion(h, r)
    THEN "converted" ELSE "failed"

-----------------------------------------------------------------------------
(***************************************************************************)
(* The answers of the cast itself, as the NO_RTTI build computes them.     *)
(***************************************************************************)
\* convertTo<T>: the object itself, the object a held pointer points to, or a
\* conversion
OracleConvertTo(h, r) ==
  LET object  == CastPtr(h, r.type, ReqConst(r))
      pointee == CastPtr(h, PtrType(r.type, ValueReqConst(r)), TRUE)
  IN  IF object # NullPtr THEN [outcome |-> "object", ptr |-> object]
      ELSE IF pointee # NullPtr THEN [outcome |-> "pointee", ptr |-> pointee]
      ELSE [outcome |-> Converter(h, r), ptr |-> NullPtr]

OracleValue(h, r) ==
  LET ptr == CastPtr(h, r.type, ValueReqConst(r))
  IN  [outcome |-> IF ptr # NullPtr THEN "object" ELSE "failed", ptr |-> ptr]

\* verifyObject: the receiver as const Clazz&, then as Clazz& for a method
\* that is not const
OracleVerify(h, clazz, methodIsConst) ==
  LET asConst == OracleConvertTo(h, [type |-> clazz, mode |-> "cref"])
      asMut   == OracleConvertTo(h, [type |-> clazz, mode |-> "ref"])
  IN  IF asConst.outcome = "failed"
        THEN [outcome |-> "wrongType", ptr |-> NullPtr]
      ELSE IF ~methodIsConst /\ asMut.outcome = "failed"
        THEN [outcome |-> "constObject", ptr |-> NullPtr]
      ELSE asConst
=============================================================================
