------------------------------ MODULE Conversions ------------------------------
(***************************************************************************)
(* VariantValue's conversions as the default build does them: throwCast is *)
(* expensive, so isAPriv remembers its verdict in a conversion_cache keyed *)
(* by the two std::type_info, which drop const.  No state: each operator   *)
(* takes the cache it finds and returns the one it leaves.                 *)
(***************************************************************************)
EXTENDS CastRules

CONSTANT
  NotCached     \* no entry for a pair of types

\* struct entry: the ptrOffset of a possible conversion, NullPtr for
\* possible = false
Entry == Int \union {NullPtr}

ASSUME NotCachedAssumption == NotCached \notin Entry

-----------------------------------------------------------------------------
\* Fault: the lookup inserts the entry it does not find.
conversionAlwaysKnown(c, to, from) == TRUE

conversionKnown(c, to, from) == c[to][from] # NotCached

Possible(c, to, from)   == conversionKnown(c, to, from) /\ c[to][from] # NullPtr
Impossible(c, to, from) == conversionKnown(c, to, from) /\ c[to][from] = NullPtr

\* Fault: the two types of the key swapped.
registerSwapped(c, to, from, entry) == [c EXCEPT ![from][to] = entry]

\* Fault: possible is true in every entry.
registerPossible(c, to, from, entry) ==
  [c EXCEPT ![to][from] = IF entry = NullPtr THEN 0 ELSE entry]

registerConversion(c, to, from, entry) == [c EXCEPT ![to][from] = entry]

\* Fault: catch (...) remembers nothing.
ThrowCastForgets(c, h, to, reqConst) ==
  LET ptr == CastPtr(h, to, reqConst)
  IN  [ptr |-> ptr,
       cache |-> IF ptr = NullPtr THEN c ELSE registerConversion(c, to, h.type, ptr)]

\* The try block of isAPriv: the verdict of the cast is remembered, its
\* const-ness is not
ThrowCast(c, h, to, reqConst) ==
  LET ptr == CastPtr(h, to, reqConst)
  IN  [ptr |-> ptr, cache |-> registerConversion(c, to, h.type, ptr)]

\* Fault: a hit on a possible entry does not look at const.
isAPrivDropsConst(c, h, to, reqConst) ==
  IF Possible(c, to, h.type) THEN [ptr |-> c[to][h.type], cache |-> c]
  ELSE IF Impossible(c, to, h.type) THEN [ptr |-> NullPtr, cache |-> c]
  ELSE ThrowCast(c, h, to, reqConst)

\* Fault: a hit returns the pointer to the value without the offset.
isAPrivWithoutOffset(c, h, to, reqConst) ==
  IF Possible(c, to, h.type) /\ ConstOk(h, reqConst) THEN [ptr |-> 0, cache |-> c]
  ELSE IF Impossible(c, to, h.type) THEN [ptr |-> NullPtr, cache |-> c]
  ELSE ThrowCast(c, h, to, reqConst)

\* A possible entry that const forbids falls through to the try block.
isAPriv(c, h, to, reqConst) ==
  IF h.type = to /\ ConstOk(h, reqConst)
    THEN [ptr |-> 0, cache |-> c]
  ELSE IF Possible(c, to, h.type) /\ ConstOk(h, reqConst)
    THEN [ptr |-> c[to][h.type], cache |-> c]
  ELSE IF Impossible(c, to, h.type)
    THEN [ptr |-> NullPtr, cache |-> c]
  ELSE ThrowCast(c, h, to, reqConst)

\* convertTo<T>: the object, then the object a held pointer points to, then
\* the converter
convertTo(c, h, r) ==
  LET object  == isAPriv(c, h, r.type, ReqConst(r))
      pointee == isAPriv(object.cache, h, PtrType(r.type, ValueReqConst(r)), TRUE)
  IN  IF object.ptr # NullPtr
        THEN [outcome |-> "object", ptr |-> object.ptr, cache |-> object.cache]
      ELSE IF pointee.ptr # NullPtr
        THEN [outcome |-> "pointee", ptr |-> pointee.ptr, cache |-> pointee.cache]
      ELSE [outcome |-> Converter(h, r), ptr |-> NullPtr, cache |-> pointee.cache]

value(c, h, r) ==
  LET object == isAPriv(c, h, r.type, ValueReqConst(r))
  IN  [outcome |-> IF object.ptr # NullPtr THEN "object" ELSE "failed",
       ptr |-> object.ptr, cache |-> object.cache]

verifyObject(c, h, clazz, methodIsConst) ==
  LET asConst == convertTo(c, h, [type |-> clazz, mode |-> "cref"])
      asMut   == convertTo(asConst.cache, h, [type |-> clazz, mode |-> "ref"])
  IN  IF asConst.outcome = "failed"
        THEN [asConst EXCEPT !.outcome = "wrongType"]
      ELSE IF methodIsConst THEN asConst
      ELSE IF asMut.outcome = "failed"
        THEN [asMut EXCEPT !.outcome = "constObject"]
      ELSE [asConst EXCEPT !.cache = asMut.cache]

\* Pairs whose conversion exists and is asked for as non-const of a const object
RefusedBy(h, to, reqConst) ==
  IF <<h.type, to>> \in Castable /\ ~ConstOk(h, reqConst) THEN {<<to, h.type>>}
  ELSE {}

\* No virtual bases: a subobject lies at the same place in every object
LayoutIndependent ==
  \A from, to \in Types : \A l, m \in Layouts :
    BaseOffset[from][to][l] = BaseOffset[from][to][m]
=============================================================================
