--------------------------- MODULE ConversionCache ---------------------------
(***************************************************************************)
(* One thread's conversion cache (it is thread_local) and the conversions  *)
(* that thread asks for, one after the other.                              *)
(***************************************************************************)
EXTENDS Conversions

VARIABLES
  cache,        \* m_cache[to][from]
  last,         \* the last call and its answer
  refused       \* history: <<to, from>> asked of a const object as non-const

vars == <<cache, last, refused>>

TypeOK ==
  /\ cache \in [Types -> [Types -> Entry \union {NotCached}]]
  /\ refused \subseteq Types \X Types
  /\ last.op # "none" => last.answer.ptr \in Int \union {NullPtr}

-----------------------------------------------------------------------------
Init ==
  /\ cache = [to \in Types |-> [from \in Types |-> NotCached]]
  /\ last = [op |-> "none"]
  /\ refused = {}

Answered(op, h, r, result) ==
  /\ last' = [op |-> op, holder |-> h, request |-> r,
              answer |-> [outcome |-> result.outcome, ptr |-> result.ptr]]
  /\ cache' = result.cache

ConvertTo(h, r) ==
  /\ Answered("convertTo", h, r, convertTo(cache, h, r))
  /\ refused' = refused \union RefusedBy(h, r.type, ReqConst(r))

\* moveValue and moveValueThrow ask as convertTo does, then cast the const they
\* asked for away: what they return is moved out of the object that was found
MoveValue(h, r) ==
  /\ Answered("moveValue", h, r, convertTo(cache, h, r))
  /\ refused' = refused \union RefusedBy(h, r.type, ReqConst(r))

Value(h, r) ==
  /\ ValueModelled(r)
  /\ Answered("value", h, r, value(cache, h, r))
  /\ refused' = refused \union RefusedBy(h, r.type, ValueReqConst(r))

\* The receiver check of a const ("cref") or non-const ("ref") method call.
\* A call that fails as "wrongType" never asks for Clazz&.  A receiver is of a
\* registered class, never a std::string.
VerifyObject(h, r) ==
  LET result == verifyObject(cache, h, r.type, r.mode = "cref")
  IN  /\ r.mode # "value" /\ r.type \notin Strings
      /\ Answered("verifyObject", h, r, result)
      /\ refused' = IF result.outcome = "wrongType" THEN refused
                    ELSE refused \union RefusedBy(h, r.type, ReqConst(r))

Next ==
  \E h \in Holders, r \in Requests :
    ConvertTo(h, r) \/ MoveValue(h, r) \/ Value(h, r) \/ VerifyObject(h, r)

Spec == Init /\ [][Next]_vars

-----------------------------------------------------------------------------
Oracle == INSTANCE CastOracle

OracleAnswer(op, h, r) ==
  CASE op \in {"convertTo", "moveValue"} -> OracleConvertTo(h, r)
    [] op = "value"        -> OracleValue(h, r)
    [] op = "verifyObject" -> OracleVerify(h, r.type, r.mode = "cref")

(***************************************************************************)
(* An entry that says a conversion is possible is never wrong: the cast    *)
(* exists and the remembered offset is where the base subobject lies       *)
(* (isAPriv adds it to a raw pointer without any further check).           *)
(***************************************************************************)
PossibleEntriesSound ==
  \A to, from \in Types : Possible(cache, to, from) =>
    /\ <<from, to>> \in Castable
    /\ \A l \in Layouts : cache[to][from] = BaseOffset[from][to][l]

\* moveValue<X>: isAPriv<const X>, const_cast<X*>, forward<X>
MovesOut(op, r) == op = "moveValue" /\ r.mode = "value"

\* The call works on the object it found through a pointer to non-const
GivesMutable(op, r) ==
  \/ MovesOut(op, r)
  \/ ~(IF op = "value" THEN ValueReqConst(r) ELSE ReqConst(r))

(***************************************************************************)
(* The key forgets const, and a hit on a possible entry must not: whatever *)
(* const or non-const requests filled the cache before, the only call that *)
(* works on a const object through a pointer to non-const is moveValue<X>, *)
(* which accepts it as const X and then moves out of it (variant.h:1182).  *)
(* convertTo, value, verifyObject and moveValue<X&> never do.              *)
(***************************************************************************)
ConstDroppedOnlyByMoves ==
  /\ last.op # "none" /\ last.answer.outcome = "object"
  /\ last.holder.const /\ GivesMutable(last.op, last.request)
  => MovesOut(last.op, last.request)

(***************************************************************************)
(* When an existing conversion is remembered as impossible: exactly when   *)
(* this thread has asked a const object of the type for the non-const base *)
(* (method.h does so for every non-const method called on it).             *)
(***************************************************************************)
ImpossibleIffRefused ==
  \A from, to \in Types : <<from, to>> \in Castable =>
    (Impossible(cache, to, from) <=> <<to, from>> \in refused)

(***************************************************************************)
(* What a caller can rely on: every answer is the one the cast gives,      *)
(* unless the conversion to the very type asked for has been refused in    *)
(* this thread before; and the object's own type is always found (isAPriv  *)
(* compares the types before it asks the cache), as is what a held pointer *)
(* points to.                                                              *)
(***************************************************************************)
Blamed(h, r) == h.type # r.type /\ <<r.type, h.type>> \in refused

AnswersAreCasts ==
  last.op # "none" =>
    \/ last.answer = OracleAnswer(last.op, last.holder, last.request)
    \/ Blamed(last.holder, last.request)

(***************************************************************************)
(* Where no const object is ever held the cache cannot be observed.        *)
(***************************************************************************)
CacheIsTransparent == Oracle!Spec
=============================================================================
