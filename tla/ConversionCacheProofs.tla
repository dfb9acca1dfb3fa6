------------------------ MODULE ConversionCacheProofs ------------------------
(***************************************************************************)
(* What the conversion cache guarantees for every set of types, every      *)
(* inheritance relation and every set of value holders.                    *)
(***************************************************************************)
EXTENDS ConversionCache, ConversionsProofs

(***************************************************************************)
(* The inductive invariants.  SafetyInv holds whatever the layouts;        *)
(* AnswerInv adds the offsets and the answers, for LayoutIndependent ones. *)
(***************************************************************************)
SafetyInv ==
  /\ TypeOK
  /\ Exists(cache)
  /\ refused = Lost(cache)
  /\ \A p \in refused : p[1] \notin PointersToConst
  /\ ConstDroppedOnlyByMoves

AnswerInv == Placed(cache) /\ AnswersAreCasts

\* What every action of the cache is: a call of op with result x that refused
\* lost and that the cast would have answered with answer
IsCall(op, h, r, x, lost, answer) ==
  /\ CallOk(cache, h, r, x, lost, answer)
  /\ last' = [op |-> op, holder |-> h, request |-> r,
              answer |-> [outcome |-> x.outcome, ptr |-> x.ptr]]
  /\ cache' = x.cache
  /\ refused' = refused \union lost
  /\ answer = OracleAnswer(op, h, r)
  /\ answer = [outcome |-> answer.outcome, ptr |-> answer.ptr]
  /\ Exists(cache) /\ x.outcome = "object" =>
       ConstOk(h, IF op = "value" THEN ValueReqConst(r) ELSE ReqConst(r))
  /\ op = "verifyObject" => r.mode # "value" /\ r.type \notin Strings
  /\ op = "value" => ValueModelled(r)
  /\ \A p \in lost : /\ p = <<r.type, h.type>>
                      /\ <<h.type, r.type>> \in Castable
                      /\ h.const
                      /\ r.type \notin PointersToConst

LEMMA NextIsCall ==
  ASSUME TypeOK, Next
  PROVE  \E h \in Holders, r \in Requests :
           \E op \in {"convertTo", "moveValue", "value", "verifyObject"} : \E x, lost, answer :
             IsCall(op, h, r, x, lost, answer)
<1> PICK h \in Holders, r \in Requests :
         ConvertTo(h, r) \/ MoveValue(h, r) \/ Value(h, r) \/ VerifyObject(h, r)
  BY DEF Next
<1>1. h \in Holder /\ r \in Request
  BY CastRulesAssumption
<1>2. cache \in CacheType
  BY DEF TypeOK, CacheType
<1>3. \A to, rc : \A p \in RefusedBy(h, to, rc) :
        p = <<to, h.type>> /\ <<h.type, to>> \in Castable /\ h.const
  BY DEF RefusedBy, ConstOk
<1>7. /\ \A p \in RefusedBy(h, r.type, ReqConst(r)) : r.type \notin PointersToConst
      /\ ValueModelled(r) =>
           \A p \in RefusedBy(h, r.type, ValueReqConst(r)) : r.type \notin PointersToConst
  BY <1>1, CastRulesAssumption
     DEF RefusedBy, ConstOk, ReqConst, ValueReqConst, ValueModelled, Request, Mode
<1>4. CASE ConvertTo(h, r)
  <2> DEFINE x == convertTo(cache, h, r)
             lost == RefusedBy(h, r.type, ReqConst(r))
             answer == OracleConvertTo(h, r)
  <2>1. ConvertOk(cache, h, r, x)
    BY <1>1, <1>2, ConvertToCorrect
  <2>2. CallOk(cache, h, r, x, lost, answer)
    BY <2>1 DEF ConvertOk, CallOk
  <2>3. answer = [outcome |-> answer.outcome, ptr |-> answer.ptr]
    BY DEF OracleConvertTo
  <2>4. answer = OracleAnswer("convertTo", h, r)
    BY DEF OracleAnswer
  <2>5. IsCall("convertTo", h, r, x, lost, answer)
    BY <1>3, <1>4, <1>7, <2>1, <2>2, <2>3, <2>4 DEF IsCall, ConvertTo, Answered, ConvertOk
  <2> QED
    BY <2>5
<1>8. CASE MoveValue(h, r)
  <2> DEFINE x == convertTo(cache, h, r)
             lost == RefusedBy(h, r.type, ReqConst(r))
             answer == OracleConvertTo(h, r)
  <2>1. ConvertOk(cache, h, r, x)
    BY <1>1, <1>2, ConvertToCorrect
  <2>2. CallOk(cache, h, r, x, lost, answer)
    BY <2>1 DEF ConvertOk, CallOk
  <2>3. answer = [outcome |-> answer.outcome, ptr |-> answer.ptr]
    BY DEF OracleConvertTo
  <2>4. answer = OracleAnswer("moveValue", h, r)
    BY DEF OracleAnswer
  <2>5. IsCall("moveValue", h, r, x, lost, answer)
    BY <1>3, <1>8, <1>7, <2>1, <2>2, <2>3, <2>4 DEF IsCall, MoveValue, Answered, ConvertOk
  <2> QED
    BY <2>5
<1>5. CASE Value(h, r)
  <2> DEFINE x == value(cache, h, r)
             lost == RefusedBy(h, r.type, ValueReqConst(r))
             answer == OracleValue(h, r)
  <2>1. CallOk(cache, h, r, x, lost, answer)
        /\ (x.outcome = "object" => ConstOk(h, ValueReqConst(r)))
    BY <1>1, <1>2, ValueCorrect
  <2>3. answer = [outcome |-> answer.outcome, ptr |-> answer.ptr]
    BY DEF OracleValue
  <2>4. answer = OracleAnswer("value", h, r)
    BY DEF OracleAnswer
  <2>5. IsCall("value", h, r, x, lost, answer)
    BY <1>3, <1>5, <1>7, <2>1, <2>3, <2>4 DEF IsCall, Value, Answered
  <2> QED
    BY <2>5
<1>6. CASE VerifyObject(h, r)
  <2> DEFINE x == verifyObject(cache, h, r.type, r.mode = "cref")
             lost == IF x.outcome = "wrongType" THEN {}
                     ELSE RefusedBy(h, r.type, ReqConst(r))
             answer == OracleVerify(h, r.type, r.mode = "cref")
  <2>1. CallOk(cache, h, r, x, lost, answer)
        /\ (Exists(cache) /\ x.outcome = "object" => ConstOk(h, ReqConst(r)))
    BY <1>1, <1>2, <1>6, VerifyCorrect DEF VerifyObject
  <2>3. answer = [outcome |-> answer.outcome, ptr |-> answer.ptr]
    <3>1. \A q \in Request : OracleConvertTo(h, q) =
            [outcome |-> OracleConvertTo(h, q).outcome, ptr |-> OracleConvertTo(h, q).ptr]
      BY DEF OracleConvertTo
    <3>2. [type |-> r.type, mode |-> "cref"] \in Request
      BY <1>1 DEF Request, Mode
    <3> QED
      BY <3>1, <3>2 DEF OracleVerify
  <2>4. answer = OracleAnswer("verifyObject", h, r)
    BY DEF OracleAnswer
  <2>6. refused' = refused \union lost
    BY <1>6 DEF VerifyObject
  <2>7. /\ last' = [op |-> "verifyObject", holder |-> h, request |-> r,
                    answer |-> [outcome |-> x.outcome, ptr |-> x.ptr]]
        /\ cache' = x.cache
    BY <1>6 DEF VerifyObject, Answered
  <2>8. \A p \in lost : /\ p = <<r.type, h.type>>
                        /\ <<h.type, r.type>> \in Castable
                        /\ h.const
                        /\ r.type \notin PointersToConst
    BY <1>3, <1>7
  <2> HIDE DEF x, lost, answer
  <2>5. IsCall("verifyObject", h, r, x, lost, answer)
    BY <1>6, <2>1, <2>3, <2>4, <2>6, <2>7, <2>8 DEF IsCall, VerifyObject
  <2> QED
    BY <2>5
<1> QED
  BY <1>4, <1>5, <1>6, <1>8

LEMMA InitInv == Init => SafetyInv /\ AnswerInv
<1> SUFFICES ASSUME Init PROVE SafetyInv /\ AnswerInv
  OBVIOUS
<1>1. \A to, from \in Types : cache[to][from] = NotCached
  BY DEF Init
<1>2. Exists(cache) /\ Placed(cache) /\ Lost(cache) = {}
  BY <1>1 DEF Exists, Placed, Lost, Possible, Impossible, conversionKnown
<1>3. last.op = "none" /\ refused = {}
  BY DEF Init
<1>4. TypeOK
  BY <1>3 DEF Init, TypeOK
<1> QED
  BY <1>2, <1>3, <1>4 DEF SafetyInv, AnswerInv, ConstDroppedOnlyByMoves, AnswersAreCasts

LEMMA SafetyStep == SafetyInv /\ [Next]_vars => SafetyInv'
<1> SUFFICES ASSUME SafetyInv, [Next]_vars PROVE SafetyInv'
  OBVIOUS
<1>1. CASE UNCHANGED vars
  BY <1>1 DEF vars, SafetyInv, TypeOK, Exists, Lost, Possible, Impossible,
              conversionKnown, ConstDroppedOnlyByMoves, GivesMutable, MovesOut, PointersToConst
<1>2. CASE Next
  <2>0. PICK h \in Holders, r \in Requests, op \in {"convertTo", "moveValue", "value", "verifyObject"} :
              \E x, lost, answer : IsCall(op, h, r, x, lost, answer)
    BY <1>2, NextIsCall DEF SafetyInv
  <2>1. PICK x, lost, answer : IsCall(op, h, r, x, lost, answer)
    BY <2>0
  <2>2. h \in Holder /\ r \in Request /\ h.type \in Types /\ r.type \in Types
    BY CastRulesAssumption DEF Holder, Request
  <2>3. cache' = x.cache /\ x.cache \in CacheType /\ x.ptr \in Int \union {NullPtr}
    BY <2>1 DEF IsCall, CallOk
  <2>4. /\ last'.op = op /\ last'.holder = h /\ last'.request = r
        /\ last'.answer.outcome = x.outcome /\ last'.answer.ptr = x.ptr
    BY <2>1 DEF IsCall
  <2>5. Exists(cache')
    BY <2>1, <2>3 DEF SafetyInv, IsCall, CallOk
  <2>6. refused' = Lost(cache')
    BY <2>1, <2>3 DEF SafetyInv, IsCall, CallOk
  <2>9. \A p \in refused' : p[1] \notin PointersToConst
    BY <2>1 DEF SafetyInv, IsCall
  <2>7. TypeOK'
    BY <2>3, <2>4, <2>6 DEF TypeOK, CacheType, Lost
  <2>8. ConstDroppedOnlyByMoves'
    BY <2>1, <2>4 DEF SafetyInv, IsCall, ConstDroppedOnlyByMoves, GivesMutable, MovesOut, ConstOk
  <2> QED
    BY <2>5, <2>6, <2>7, <2>8, <2>9
       DEF SafetyInv, Exists, Lost, Possible, Impossible, conversionKnown, PointersToConst
<1> QED
  BY <1>1, <1>2

LEMMA AnswerStep ==
  ASSUME LayoutIndependent
  PROVE  SafetyInv /\ AnswerInv /\ [Next]_vars => AnswerInv'
<1> SUFFICES ASSUME SafetyInv, AnswerInv, [Next]_vars PROVE AnswerInv'
  OBVIOUS
<1>1. CASE UNCHANGED vars
  BY <1>1 DEF vars, AnswerInv, Placed, Possible, conversionKnown, AnswersAreCasts,
              Blamed
<1>2. CASE Next
  <2>0. PICK h \in Holders, r \in Requests, op \in {"convertTo", "moveValue", "value", "verifyObject"} :
              \E x, lost, answer : IsCall(op, h, r, x, lost, answer)
    BY <1>2, NextIsCall DEF SafetyInv
  <2>1. PICK x, lost, answer : IsCall(op, h, r, x, lost, answer)
    BY <2>0
  <2>2. Placed(cache')
    BY <2>1, LayoutIndependent DEF SafetyInv, AnswerInv, IsCall, CallOk
  <2>3. /\ last'.op = op /\ last'.holder = h /\ last'.request = r
        /\ last'.answer = [outcome |-> x.outcome, ptr |-> x.ptr]
    BY <2>1 DEF IsCall
  <2>4. AnswersAreCasts'
    <3>1. CASE NotLost(cache, h, r.type)
      <4>1. x.outcome = answer.outcome /\ x.ptr = answer.ptr
        BY <2>1, <3>1, LayoutIndependent DEF SafetyInv, AnswerInv, IsCall, CallOk
      <4>2. last'.answer = OracleAnswer(op, h, r)
        BY <2>1, <2>3, <4>1 DEF IsCall
      <4> QED
        BY <2>3, <4>2 DEF AnswersAreCasts
    <3>2. CASE ~NotLost(cache, h, r.type)
      <4>1. PICK to \in {r.type, PointerTo[r.type], ConstPointerTo[r.type]} :
                 to # h.type /\ <<to, h.type>> \in refused
        BY <2>1, <3>2 DEF NotLost, SafetyInv, IsCall
      <4>2. h.type \in Types /\ r.type \in Types
        BY CastRulesAssumption DEF Holder, Request
      <4>3. to \notin PointersToConst /\ <<h.type, to>> \in Castable
        <5>1. <<to, h.type>> \in refused /\ refused = Lost(cache)
          BY <3>2, <4>1, <2>1 DEF SafetyInv, IsCall
        <5> QED
          BY <5>1 DEF SafetyInv, Lost
      <4>4. to # ConstPointerTo[r.type] /\ to # PointerTo[r.type]
        BY <4>1, <4>2, <4>3, CastRulesAssumption DEF PointersToConst
      <4>5. <<r.type, h.type>> \in refused' /\ h.type # r.type
        BY <2>1, <4>1, <4>4 DEF IsCall
      <4> QED
        BY <2>3, <4>5 DEF AnswersAreCasts, Blamed
    <3> QED
      BY <3>1, <3>2
  <2> QED
    BY <2>2, <2>4 DEF AnswerInv, Placed, Possible, conversionKnown
<1> QED
  BY <1>1, <1>2

LEMMA SafetyInvariant == Spec => []SafetyInv
<1>1. Init => SafetyInv
  BY InitInv
<1> QED
  BY <1>1, SafetyStep, PTL DEF Spec

(***************************************************************************)
(* The calls stay well typed: the cache holds an offset or a refusal for   *)
(* each pair of types it knows, and a call answers with an offset or null. *)
(***************************************************************************)
THEOREM TypeCorrect == Spec => []TypeOK
<1>1. SafetyInv => TypeOK
  BY DEF SafetyInv
<1> QED
  BY <1>1, SafetyInvariant, PTL

(***************************************************************************)
(* After any sequence of conversions, through the cache or past it, only   *)
(* moveValue of a value works on a const object as non-const; convertTo,   *)
(* value, verifyObject and moveValue of a reference never do.              *)
(***************************************************************************)
THEOREM ConstSafety == Spec => []ConstDroppedOnlyByMoves
<1>1. SafetyInv => ConstDroppedOnlyByMoves
  BY DEF SafetyInv
<1> QED
  BY <1>1, SafetyInvariant, PTL

(***************************************************************************)
(* An existing conversion is remembered as impossible exactly when it was  *)
(* refused to a const object before (isAPriv registers the refusal).       *)
(***************************************************************************)
THEOREM Refusals == Spec => []ImpossibleIffRefused
<1>1. SafetyInv => ImpossibleIffRefused
  BY DEF SafetyInv, ImpossibleIffRefused, Lost
<1> QED
  BY <1>1, SafetyInvariant, PTL

LEMMA AnswerInvariant == LayoutIndependent => (Spec => [](SafetyInv /\ AnswerInv))
<1> SUFFICES ASSUME LayoutIndependent PROVE Spec => [](SafetyInv /\ AnswerInv)
  OBVIOUS
<1>1. SafetyInv /\ AnswerInv /\ [Next]_vars => SafetyInv' /\ AnswerInv'
  BY SafetyStep, AnswerStep
<1> QED
  BY <1>1, InitInv, PTL DEF Spec

(***************************************************************************)
(* Without virtual bases, the offset isAPriv adds on a hit is that of an   *)
(* existing conversion to the base subobject.                              *)
(***************************************************************************)
THEOREM OffsetsSound == LayoutIndependent => (Spec => []PossibleEntriesSound)
<1>1. SafetyInv /\ AnswerInv => PossibleEntriesSound
  BY DEF SafetyInv, AnswerInv, Exists, Placed, PossibleEntriesSound
<1> QED
  BY <1>1, AnswerInvariant, PTL

(***************************************************************************)
(* Without virtual bases, every answer of isA, value, convertTo and        *)
(* verifyObject is the cast's, or one of its conversions was refused.      *)
(***************************************************************************)
THEOREM AnswersSound == LayoutIndependent => (Spec => []AnswersAreCasts)
<1>1. SafetyInv /\ AnswerInv => AnswersAreCasts
  BY DEF AnswerInv
<1> QED
  BY <1>1, AnswerInvariant, PTL

(***************************************************************************)
(* Where no holder is const and no base is virtual, the cached conversions *)
(* implement the uncached ones: every step answers as the cast would.      *)
(***************************************************************************)
LEMMA OracleCopies ==
  ASSUME NEW h, NEW r, NEW clazz, NEW b \in BOOLEAN
  PROVE  /\ Oracle!OracleConvertTo(h, r) = OracleConvertTo(h, r)
         /\ Oracle!OracleValue(h, r) = OracleValue(h, r)
         /\ Oracle!OracleVerify(h, clazz, b) = OracleVerify(h, clazz, b)
<1>1. \A t, rc : Oracle!CastPtr(h, t, rc) = CastPtr(h, t, rc)
  BY DEF Oracle!CastPtr, CastPtr, Oracle!Caught, Caught, Oracle!ConstOk, ConstOk
<1>2. \A q : Oracle!OracleConvertTo(h, q) = OracleConvertTo(h, q)
  BY <1>1 DEF Oracle!OracleConvertTo, OracleConvertTo, Oracle!Converter, Converter,
       Oracle!PointerConversion, PointerConversion, Oracle!PtrType, PtrType,
       Oracle!ReqConst, ReqConst, Oracle!ValueReqConst, ValueReqConst
<1> QED
  BY <1>1, <1>2 DEF Oracle!OracleValue, OracleValue, Oracle!ValueReqConst, ValueReqConst,
       Oracle!OracleVerify, OracleVerify

THEOREM Transparent ==
  LayoutIndependent /\ (\A h \in Holders : ~h.const) => (Spec => CacheIsTransparent)
<1> SUFFICES ASSUME LayoutIndependent, \A h \in Holders : ~h.const
             PROVE  Spec => CacheIsTransparent
  OBVIOUS
<1> DEFINE Inv == SafetyInv /\ AnswerInv /\ refused = {}
<1>1. Init => Inv
  BY InitInv DEF Init
<1>2. Inv /\ [Next]_vars => Inv'
  <2> SUFFICES ASSUME Inv, [Next]_vars PROVE refused' = {}
    BY SafetyStep, AnswerStep
  <2>1. CASE UNCHANGED vars
    BY <2>1 DEF vars
  <2>2. CASE Next
    <3>0. PICK h \in Holders, r \in Requests, op \in {"convertTo", "moveValue", "value", "verifyObject"} :
                \E x, lost, answer : IsCall(op, h, r, x, lost, answer)
      BY <2>2, NextIsCall DEF SafetyInv
    <3>1. PICK x, lost, answer : IsCall(op, h, r, x, lost, answer)
      BY <3>0
    <3>2. lost = {}
      BY <3>1 DEF IsCall
    <3> QED
      BY <3>1, <3>2 DEF IsCall
  <2> QED
    BY <2>1, <2>2
<1>3. Init => Oracle!Init
  BY DEF Init, Oracle!Init, Oracle!NoCall
<1>4. Inv /\ [Next]_vars => [Oracle!Next]_last
  <2> SUFFICES ASSUME Inv, Next PROVE Oracle!Next
    BY DEF vars
  <2>0. PICK h \in Holders, r \in Requests, op \in {"convertTo", "moveValue", "value", "verifyObject"} :
              \E x, lost, answer : IsCall(op, h, r, x, lost, answer)
    BY NextIsCall DEF SafetyInv
  <2>1. PICK x, lost, answer : IsCall(op, h, r, x, lost, answer)
    BY <2>0
  <2>2. NotLost(cache, h, r.type)
    BY DEF NotLost, SafetyInv
  <2>3. x.outcome = answer.outcome /\ x.ptr = answer.ptr
    BY <2>1, <2>2, LayoutIndependent DEF SafetyInv, AnswerInv, IsCall, CallOk
  <2>4. last' = [op |-> op, holder |-> h, request |-> r,
                 answer |-> OracleAnswer(op, h, r)]
    BY <2>1, <2>3 DEF IsCall
  <2>5. CASE op = "convertTo"
    <3>1. Oracle!ConvertTo(h, r)
      BY <2>4, <2>5, OracleCopies DEF OracleAnswer, Oracle!ConvertTo, Oracle!Call
    <3> QED
      BY <3>1 DEF Oracle!Next
  <2>6. CASE op = "value"
    <3>2. Oracle!ValueModelled(r)
      BY <2>1, <2>6 DEF IsCall, ValueModelled, Oracle!ValueModelled,
                        PointersToConst, Oracle!PointersToConst
    <3>1. Oracle!Value(h, r)
      BY <2>4, <2>6, <3>2, OracleCopies DEF OracleAnswer, Oracle!Value, Oracle!Call
    <3> QED
      BY <3>1 DEF Oracle!Next
  <2>7. CASE op = "verifyObject"
    <3>1. r.mode # "value" /\ r.type \notin Strings
      BY <2>1, <2>7 DEF IsCall
    <3>2. OracleAnswer("verifyObject", h, r) = OracleVerify(h, r.type, r.mode = "cref")
      BY DEF OracleAnswer
    <3>3. Oracle!VerifyObject(h, r)
      BY <2>4, <2>7, <3>1, <3>2, OracleCopies DEF Oracle!VerifyObject, Oracle!Call
    <3> QED
      BY <3>3 DEF Oracle!Next
  <2>8. CASE op = "moveValue"
    <3>1. Oracle!MoveValue(h, r)
      BY <2>4, <2>8, OracleCopies DEF OracleAnswer, Oracle!MoveValue, Oracle!Call
    <3> QED
      BY <3>1 DEF Oracle!Next
  <2> QED
    BY <2>5, <2>6, <2>7, <2>8
<1> QED
  BY <1>1, <1>2, <1>3, <1>4, PTL DEF Spec, CacheIsTransparent, Oracle!Spec
=============================================================================
