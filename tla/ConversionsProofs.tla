-------------------------- MODULE ConversionsProofs --------------------------
(***************************************************************************)
(* What one question to the conversion cache answers and leaves behind,    *)
(* and what the conversions made of such questions do: the lemmas for      *)
(* whatever threads a cache through its calls.                             *)
(***************************************************************************)
EXTENDS Conversions, TLAPS

CacheType == [Types -> [Types -> Entry \union {NotCached}]]

\* Possible entries are casts that exist
Exists(c) == \A to, from \in Types : Possible(c, to, from) => <<from, to>> \in Castable

\* ... at the right offset
Placed(c) == \A to, from \in Types : Possible(c, to, from) =>
               \A l \in Layouts : c[to][from] = BaseOffset[from][to][l]

\* The conversions that exist but are remembered as impossible
Lost(c) == {p \in Types \X Types : <<p[2], p[1]>> \in Castable /\ Impossible(c, p[1], p[2])}

-----------------------------------------------------------------------------
(***************************************************************************)
(* registerConversion changes one pair of types and no other.              *)
(***************************************************************************)
LEMMA RegisterEffect ==
  ASSUME NEW c \in CacheType, NEW to \in Types, NEW from \in Types, NEW e \in Entry
  PROVE  /\ registerConversion(c, to, from, e) \in CacheType
         /\ registerConversion(c, to, from, e)[to][from] = e
         /\ \A t, f \in Types : t # to \/ f # from =>
              registerConversion(c, to, from, e)[t][f] = c[t][f]
BY DEF registerConversion, CacheType

(***************************************************************************)
(* One isAPriv on a cache c: the result is well typed and never drops      *)
(* const; a cache of existing, well placed conversions stays so; and the   *)
(* only conversion lost is the one that const forbids.                     *)
(***************************************************************************)
ProbeOk(c, h, to, reqConst, p) ==
  /\ p.cache \in CacheType
  /\ p.ptr \in Int \union {NullPtr}
  /\ p.ptr # NullPtr => ConstOk(h, reqConst)
  /\ Exists(c) => /\ Exists(p.cache)
                  /\ p.ptr # NullPtr => <<h.type, to>> \in Castable
  /\ LayoutIndependent /\ Exists(c) /\ Placed(c) =>
       /\ Placed(p.cache)
       /\ \/ p.ptr = CastPtr(h, to, reqConst)
          \/ h.type # to /\ <<to, h.type>> \in Lost(c) /\ ConstOk(h, reqConst)
  /\ Lost(p.cache) = Lost(c) \union RefusedBy(h, to, reqConst)

LEMMA ThrowCastOk ==
  ASSUME NEW c \in CacheType, NEW h \in Holder, NEW to \in Types,
         NEW reqConst \in BOOLEAN, ~Impossible(c, to, h.type)
  PROVE  ProbeOk(c, h, to, reqConst, ThrowCast(c, h, to, reqConst))
<1> h.type \in Types /\ h.layout \in Layouts
  BY DEF Holder
<1> DEFINE e == CastPtr(h, to, reqConst)
           d == registerConversion(c, to, h.type, e)
           o == BaseOffset[h.type][to][h.layout]
<1>1. o \in Int /\ NullPtr \notin Int
  BY CastRulesAssumption
<1>2. e \in Entry
  BY <1>1 DEF CastPtr, Entry
<1>3. /\ d \in CacheType
      /\ d[to][h.type] = e
      /\ \A t, f \in Types : t # to \/ f # h.type => d[t][f] = c[t][f]
  BY <1>2, RegisterEffect
<1>4. e # NullPtr => e = o /\ <<h.type, to>> \in Castable /\ ConstOk(h, reqConst)
  BY DEF CastPtr, Caught
<1>5. e = NullPtr => <<h.type, to>> \notin Castable \/ ~ConstOk(h, reqConst)
  BY <1>1 DEF CastPtr, Caught
<1>6. e # NotCached
  BY <1>2, NotCachedAssumption
<1> SUFFICES ASSUME NEW p, p = [ptr |-> e, cache |-> d]
             PROVE  ProbeOk(c, h, to, reqConst, p)
  BY DEF ThrowCast
<1>7. p.ptr = e /\ p.cache = d
  OBVIOUS
<1> HIDE DEF e, d, o
<1>8. Exists(c) => Exists(d)
  BY <1>3, <1>4 DEF Exists, Possible, conversionKnown
<1>9. ASSUME LayoutIndependent, Placed(c)
      PROVE  Placed(d)
  <2> SUFFICES ASSUME NEW t \in Types, NEW f \in Types, Possible(d, t, f),
                      NEW l \in Layouts
               PROVE  d[t][f] = BaseOffset[f][t][l]
    BY DEF Placed
  <2>1. CASE t = to /\ f = h.type
    BY <1>3, <1>4, <1>9, <2>1 DEF o, LayoutIndependent, Possible
  <2>2. CASE t # to \/ f # h.type
    BY <1>3, <1>9, <2>2 DEF Placed, Possible, conversionKnown
  <2> QED
    BY <2>1, <2>2
<1>10. Lost(d) = Lost(c) \union RefusedBy(h, to, reqConst)
  BY <1>3, <1>4, <1>5, <1>6 DEF Lost, RefusedBy, Impossible, conversionKnown
<1> QED
  BY <1>1, <1>2, <1>3, <1>4, <1>7, <1>8, <1>9, <1>10 DEF ProbeOk, e, Entry

LEMMA ProbeCorrect ==
  ASSUME NEW c \in CacheType, NEW h \in Holder, NEW to \in Types,
         NEW reqConst \in BOOLEAN
  PROVE  ProbeOk(c, h, to, reqConst, isAPriv(c, h, to, reqConst))
<1> h.type \in Types /\ h.layout \in Layouts
  BY DEF Holder
<1>1. /\ BaseOffset[h.type][h.type][h.layout] = 0
      /\ BaseOffset[h.type][to][h.layout] \in Int
      /\ <<h.type, h.type>> \in Castable
      /\ NullPtr \notin Int
  BY CastRulesAssumption
<1>2. c[to][h.type] \in Entry \union {NotCached}
  BY DEF CacheType
<1> SUFFICES ASSUME NEW p, p = isAPriv(c, h, to, reqConst)
             PROVE  ProbeOk(c, h, to, reqConst, p)
  OBVIOUS
<1>3. CASE h.type = to /\ ConstOk(h, reqConst)
  <2>1. p.ptr = 0 /\ p.cache = c
    BY <1>3 DEF isAPriv
  <2>2. RefusedBy(h, to, reqConst) = {}
    BY <1>3 DEF RefusedBy
  <2>3. CastPtr(h, to, reqConst) = 0
    BY <1>1, <1>3 DEF CastPtr, Caught
  <2> QED
    BY <1>1, <1>3, <2>1, <2>2, <2>3 DEF ProbeOk
<1>4. CASE /\ ~(h.type = to /\ ConstOk(h, reqConst))
           /\ Possible(c, to, h.type) /\ ConstOk(h, reqConst)
  <2>1. p.ptr = c[to][h.type] /\ p.cache = c
    BY <1>4 DEF isAPriv
  <2>2. p.ptr \in Int
    BY <1>2, <1>4, <2>1 DEF Possible, conversionKnown, Entry
  <2>3. RefusedBy(h, to, reqConst) = {}
    BY <1>4 DEF RefusedBy
  <2>4. Exists(c) => <<h.type, to>> \in Castable
    BY <1>4 DEF Exists
  <2>5. Exists(c) /\ Placed(c) => p.ptr = CastPtr(h, to, reqConst)
    BY <1>4, <2>1, <2>4 DEF Placed, CastPtr, Caught
  <2> QED
    BY <1>4, <2>1, <2>2, <2>3, <2>4, <2>5 DEF ProbeOk
<1>5. CASE /\ ~(h.type = to /\ ConstOk(h, reqConst))
           /\ Impossible(c, to, h.type)
  <2>1. p.ptr = NullPtr /\ p.cache = c
    BY <1>5 DEF isAPriv, Possible, Impossible
  <2>2. <<h.type, to>> \in Castable => <<to, h.type>> \in Lost(c)
    BY <1>5 DEF Lost
  <2>3. Lost(c) = Lost(c) \union RefusedBy(h, to, reqConst)
    BY <2>2 DEF RefusedBy
  <2>4. \/ p.ptr = CastPtr(h, to, reqConst)
        \/ h.type # to /\ <<to, h.type>> \in Lost(c) /\ ConstOk(h, reqConst)
    BY <1>5, <2>1, <2>2 DEF CastPtr, Caught
  <2> QED
    BY <2>1, <2>3, <2>4 DEF ProbeOk
<1>6. CASE /\ ~(h.type = to /\ ConstOk(h, reqConst))
           /\ ~(Possible(c, to, h.type) /\ ConstOk(h, reqConst))
           /\ ~Impossible(c, to, h.type)
  BY <1>6, ThrowCastOk DEF isAPriv
<1> QED
  BY <1>3, <1>4, <1>5, <1>6

(***************************************************************************)
(* convertTo is two of them: the second, for a held pointer, asks for a    *)
(* const pointer and so loses nothing.                                     *)
(***************************************************************************)
NotLost(c, h, t) ==
  \A to \in {t, PointerTo[t], ConstPointerTo[t]} :
    to # h.type => <<to, h.type>> \notin Lost(c)

ConvertOk(c, h, r, x) ==
  /\ x.cache \in CacheType
  /\ x.ptr \in Int \union {NullPtr}
  /\ x.outcome \in {"object", "pointee", "converted", "failed"}
  /\ x.outcome = "object" => ConstOk(h, ReqConst(r))
  /\ x.outcome = "converted" => r.mode # "ref" /\ (r.mode = "cref" => r.type \in Strings)
  /\ x.outcome = "failed" => x.ptr = NullPtr
  /\ Lost(x.cache) = Lost(c) \union RefusedBy(h, r.type, ReqConst(r))
  /\ Exists(c) =>
       /\ Exists(x.cache)
       /\ x.outcome = "object" => <<h.type, r.type>> \in Castable
       /\ x.outcome = "pointee" => <<h.type, PtrType(r.type, ValueReqConst(r))>> \in Castable
  /\ LayoutIndependent /\ Exists(c) /\ Placed(c) =>
       /\ Placed(x.cache)
       /\ NotLost(c, h, r.type) =>
            /\ x.outcome = OracleConvertTo(h, r).outcome
            /\ x.ptr = OracleConvertTo(h, r).ptr

LEMMA ConvertToCorrect ==
  ASSUME NEW c \in CacheType, NEW h \in Holder, NEW r \in Request
  PROVE  ConvertOk(c, h, r, convertTo(c, h, r))
<1> DEFINE rc == ReqConst(r)
           pt == PtrType(r.type, ValueReqConst(r))
           p  == isAPriv(c, h, r.type, rc)
           q  == isAPriv(p.cache, h, pt, TRUE)
           x  == convertTo(c, h, r)
<1>1. r.type \in Types /\ rc \in BOOLEAN /\ h.type \in Types
  BY DEF Request, ReqConst, Holder
<1>2. /\ pt \in Types
      /\ pt \in {PointerTo[r.type], ConstPointerTo[r.type]}
      /\ NullPtr \notin Int
  BY <1>1, CastRulesAssumption DEF PtrType
<1>3. pt # r.type
  <2>1. <<r.type, r.type>> \in Castable /\ <<r.type, pt>> \notin Castable
    BY <1>1, CastRulesAssumption DEF PtrType
  <2> QED
    BY <2>1
<1>4. ProbeOk(c, h, r.type, rc, p)
  BY <1>1, ProbeCorrect
<1>5. p.cache \in CacheType
  BY <1>4 DEF ProbeOk
<1>6. ProbeOk(p.cache, h, pt, TRUE, q)
  BY <1>2, <1>5, ProbeCorrect
<1>7. ConstOk(h, TRUE) /\ RefusedBy(h, pt, TRUE) = {}
  BY DEF ConstOk, RefusedBy
<1>8. Converter(h, r) \in {"converted", "failed"}
      /\ (Converter(h, r) = "converted" =>
           r.mode # "ref" /\ (r.mode = "cref" => r.type \in Strings))
  BY DEF Converter, PointerConversion
<1>9. OracleConvertTo(h, r) =
        IF CastPtr(h, r.type, rc) # NullPtr
          THEN [outcome |-> "object", ptr |-> CastPtr(h, r.type, rc)]
        ELSE IF CastPtr(h, pt, TRUE) # NullPtr
          THEN [outcome |-> "pointee", ptr |-> CastPtr(h, pt, TRUE)]
        ELSE [outcome |-> Converter(h, r), ptr |-> NullPtr]
  BY DEF OracleConvertTo
<1>10. x = IF p.ptr # NullPtr
             THEN [outcome |-> "object", ptr |-> p.ptr, cache |-> p.cache]
           ELSE IF q.ptr # NullPtr
             THEN [outcome |-> "pointee", ptr |-> q.ptr, cache |-> q.cache]
           ELSE [outcome |-> Converter(h, r), ptr |-> NullPtr, cache |-> q.cache]
  BY DEF convertTo
<1>11. /\ h.type # r.type => (NotLost(c, h, r.type) => <<r.type, h.type>> \notin Lost(c))
       /\ h.type # pt => (NotLost(c, h, r.type) => <<pt, h.type>> \notin Lost(c))
  BY <1>2 DEF NotLost
<1>12. <<pt, h.type>> \in Lost(p.cache) => <<pt, h.type>> \in Lost(c)
  BY <1>3, <1>4 DEF ProbeOk, RefusedBy
<1> HIDE DEF p, q, x
<1>13. CASE p.ptr # NullPtr
  <2>1. x.outcome = "object" /\ x.ptr = p.ptr /\ x.cache = p.cache
    BY <1>10, <1>13
  <2>2. ASSUME LayoutIndependent, Exists(c), Placed(c), NotLost(c, h, r.type)
        PROVE  /\ x.outcome = OracleConvertTo(h, r).outcome
               /\ x.ptr = OracleConvertTo(h, r).ptr
    <3>1. p.ptr = CastPtr(h, r.type, rc)
      BY <1>4, <1>11, <2>2 DEF ProbeOk
    <3> QED
      BY <1>9, <1>13, <2>1, <3>1
  <2> QED
    BY <1>4, <1>13, <2>1, <2>2 DEF ProbeOk, ConvertOk, x
<1>14. CASE p.ptr = NullPtr /\ q.ptr # NullPtr
  <2>1. x.outcome = "pointee" /\ x.ptr = q.ptr /\ x.cache = q.cache
    BY <1>10, <1>14
  <2>2. ASSUME LayoutIndependent, Exists(c), Placed(c), NotLost(c, h, r.type)
        PROVE  /\ x.outcome = OracleConvertTo(h, r).outcome
               /\ x.ptr = OracleConvertTo(h, r).ptr
    <3>1. p.ptr = CastPtr(h, r.type, rc) /\ Exists(p.cache) /\ Placed(p.cache)
      BY <1>4, <1>11, <2>2 DEF ProbeOk
    <3>2. q.ptr = CastPtr(h, pt, TRUE)
      BY <1>6, <1>11, <1>12, <2>2, <3>1 DEF ProbeOk
    <3> QED
      BY <1>9, <1>14, <2>1, <3>1, <3>2
  <2> QED
    BY <1>4, <1>6, <1>7, <1>14, <2>1, <2>2 DEF ProbeOk, ConvertOk, x
<1>15. CASE p.ptr = NullPtr /\ q.ptr = NullPtr
  <2>1. x.outcome = Converter(h, r) /\ x.ptr = NullPtr /\ x.cache = q.cache
    BY <1>10, <1>15
  <2>2. ASSUME LayoutIndependent, Exists(c), Placed(c), NotLost(c, h, r.type)
        PROVE  /\ x.outcome = OracleConvertTo(h, r).outcome
               /\ x.ptr = OracleConvertTo(h, r).ptr
    <3>1. p.ptr = CastPtr(h, r.type, rc) /\ Exists(p.cache) /\ Placed(p.cache)
      BY <1>4, <1>11, <2>2 DEF ProbeOk
    <3>2. q.ptr = CastPtr(h, pt, TRUE)
      BY <1>6, <1>11, <1>12, <2>2, <3>1 DEF ProbeOk
    <3>3. OracleConvertTo(h, r) = [outcome |-> Converter(h, r), ptr |-> NullPtr]
      BY <1>9, <1>15, <3>1, <3>2
    <3>4. /\ OracleConvertTo(h, r).outcome = Converter(h, r)
          /\ OracleConvertTo(h, r).ptr = NullPtr
      BY <3>3
    <3> QED
      BY <2>1, <3>4
  <2> QED
    BY <1>4, <1>6, <1>7, <1>8, <1>15, <2>1, <2>2 DEF ProbeOk, ConvertOk, x
<1> QED
  BY <1>13, <1>14, <1>15

(***************************************************************************)
(* value, and verifyObject, which is two convertTo; x is the result, lost  *)
(* what the call lost, answer what the cast answers.                       *)
(***************************************************************************)
CallOk(c, h, r, x, lost, answer) ==
  /\ x.cache \in CacheType
  /\ x.ptr \in Int \union {NullPtr}
  /\ Lost(x.cache) = Lost(c) \union lost
  /\ Exists(c) => Exists(x.cache)
  /\ LayoutIndependent /\ Exists(c) /\ Placed(c) =>
       /\ Placed(x.cache)
       /\ NotLost(c, h, r.type) => x.outcome = answer.outcome /\ x.ptr = answer.ptr

LEMMA ValueCorrect ==
  ASSUME NEW c \in CacheType, NEW h \in Holder, NEW r \in Request
  PROVE  /\ CallOk(c, h, r, value(c, h, r), RefusedBy(h, r.type, ValueReqConst(r)),
                   OracleValue(h, r))
         /\ value(c, h, r).outcome = "object" => ConstOk(h, ValueReqConst(r))
<1> DEFINE rc == ValueReqConst(r)
           p  == isAPriv(c, h, r.type, rc)
           x  == value(c, h, r)
<1>1. r.type \in Types /\ rc \in BOOLEAN
  BY DEF Request, ValueReqConst
<1>2. ProbeOk(c, h, r.type, rc, p)
  BY <1>1, ProbeCorrect
<1>3. x.outcome = (IF p.ptr # NullPtr THEN "object" ELSE "failed")
      /\ x.ptr = p.ptr /\ x.cache = p.cache
  BY DEF value
<1>4. /\ OracleValue(h, r).ptr = CastPtr(h, r.type, rc)
      /\ OracleValue(h, r).outcome =
           (IF CastPtr(h, r.type, rc) # NullPtr THEN "object" ELSE "failed")
  BY DEF OracleValue
<1>5. NotLost(c, h, r.type) => (h.type # r.type => <<r.type, h.type>> \notin Lost(c))
  BY DEF NotLost
<1> HIDE DEF p, x
<1> QED
  BY <1>2, <1>3, <1>4, <1>5 DEF ProbeOk, CallOk, x

LEMMA VerifyCorrect ==
  ASSUME NEW c \in CacheType, NEW h \in Holder, NEW r \in Request, r.mode # "value",
         NEW x, x = verifyObject(c, h, r.type, r.mode = "cref")
  PROVE  /\ CallOk(c, h, r, x,
                   IF x.outcome = "wrongType" THEN {}
                   ELSE RefusedBy(h, r.type, ReqConst(r)),
                   OracleVerify(h, r.type, r.mode = "cref"))
         /\ Exists(c) /\ x.outcome = "object" => ConstOk(h, ReqConst(r))
<1> DEFINE rk == [type |-> r.type, mode |-> "cref"]
           rm == [type |-> r.type, mode |-> "ref"]
           k  == convertTo(c, h, rk)
           m  == convertTo(k.cache, h, rm)
<1>1. /\ rk \in Request /\ rk.type = r.type /\ rk.mode = "cref"
      /\ rm \in Request /\ rm.type = r.type /\ rm.mode = "ref"
      /\ r.mode \in {"ref", "cref"}
  BY DEF Request, Mode
<1>2. ReqConst(rk) /\ ~ReqConst(rm) /\ (ReqConst(r) <=> r.mode = "cref")
  BY <1>1 DEF ReqConst
<1>3. ConvertOk(c, h, rk, k)
  BY <1>1, ConvertToCorrect
<1>4. k.cache \in CacheType
  BY <1>3 DEF ConvertOk
<1>5. ConvertOk(k.cache, h, rm, m)
  BY <1>1, <1>4, ConvertToCorrect
<1>6. RefusedBy(h, r.type, ReqConst(rk)) = {}
  BY <1>2 DEF RefusedBy, ConstOk
<1>7. Lost(k.cache) = Lost(c)
  BY <1>1, <1>3, <1>6 DEF ConvertOk
<1>8. NotLost(c, h, r.type) => NotLost(k.cache, h, r.type)
  BY <1>7 DEF NotLost
<1>9. x = IF k.outcome = "failed"
            THEN [k EXCEPT !.outcome = "wrongType"]
          ELSE IF r.mode = "cref" THEN k
          ELSE IF m.outcome = "failed"
            THEN [m EXCEPT !.outcome = "constObject"]
          ELSE [k EXCEPT !.cache = m.cache]
  BY DEF verifyObject
<1>10. OracleVerify(h, r.type, r.mode = "cref") =
         IF OracleConvertTo(h, rk).outcome = "failed"
           THEN [outcome |-> "wrongType", ptr |-> NullPtr]
         ELSE IF ~(r.mode = "cref") /\ OracleConvertTo(h, rm).outcome = "failed"
           THEN [outcome |-> "constObject", ptr |-> NullPtr]
         ELSE OracleConvertTo(h, rk)
  BY DEF OracleVerify
<1>11. \A cc \in CacheType, rr \in Request :
         \E o, p, d : convertTo(cc, h, rr) = [outcome |-> o, ptr |-> p, cache |-> d]
  BY DEF convertTo
<1>12. PICK ko, kp, kd : k = [outcome |-> ko, ptr |-> kp, cache |-> kd]
  BY <1>1, <1>11
<1>13. PICK mo, mp, md : m = [outcome |-> mo, ptr |-> mp, cache |-> md]
  BY <1>1, <1>4, <1>11
<1> HIDE DEF k, m, rk, rm
<1>14. CASE k.outcome = "failed"
  <2>1. x = [outcome |-> "wrongType", ptr |-> kp, cache |-> kd]
    BY <1>9, <1>12, <1>14
  <2>2. x.outcome = "wrongType" /\ x.ptr = NullPtr /\ x.cache = k.cache
    <3>1. k.ptr = NullPtr
      BY <1>3, <1>14 DEF ConvertOk
    <3>2. k.ptr = kp /\ k.cache = kd
      BY <1>12
    <3> QED
      BY <2>1, <3>1, <3>2
  <2>3. OracleConvertTo(h, rk).outcome = "failed" =>
          /\ OracleVerify(h, r.type, r.mode = "cref").outcome = "wrongType"
          /\ OracleVerify(h, r.type, r.mode = "cref").ptr = NullPtr
    <3> HAVE OracleConvertTo(h, rk).outcome = "failed"
    <3>1. OracleVerify(h, r.type, r.mode = "cref") =
            [outcome |-> "wrongType", ptr |-> NullPtr]
      BY <1>10
    <3> QED
      BY <3>1
  <2> QED
    BY <1>1, <1>3, <1>7, <1>14, <2>2, <2>3 DEF CallOk, ConvertOk
<1>15. CASE k.outcome # "failed" /\ r.mode = "cref"
  <2>1. x.outcome = k.outcome /\ x.ptr = k.ptr /\ x.cache = k.cache
    BY <1>9, <1>15
  <2>2. x.outcome # "wrongType"
    BY <1>3, <2>1 DEF ConvertOk
  <2>3. OracleConvertTo(h, rk).outcome # "failed" =>
          OracleVerify(h, r.type, r.mode = "cref") = OracleConvertTo(h, rk)
    BY <1>10, <1>15
  <2>4. RefusedBy(h, r.type, ReqConst(r)) = {} /\ ConstOk(h, ReqConst(r))
    BY <1>2, <1>15 DEF RefusedBy, ConstOk
  <2> QED
    BY <1>1, <1>3, <1>7, <1>15, <2>1, <2>2, <2>3, <2>4 DEF CallOk, ConvertOk
<1>16. CASE k.outcome # "failed" /\ r.mode # "cref" /\ m.outcome = "failed"
  <2>1. x = [outcome |-> "constObject", ptr |-> mp, cache |-> md]
    BY <1>9, <1>13, <1>16
  <2>2. x.outcome = "constObject" /\ x.ptr = NullPtr /\ x.cache = m.cache
    <3>1. m.ptr = NullPtr
      BY <1>5, <1>16 DEF ConvertOk
    <3>2. m.ptr = mp /\ m.cache = md
      BY <1>13
    <3> QED
      BY <2>1, <3>1, <3>2
  <2>3. OracleConvertTo(h, rk).outcome # "failed" /\ OracleConvertTo(h, rm).outcome = "failed" =>
          /\ OracleVerify(h, r.type, r.mode = "cref").outcome = "constObject"
          /\ OracleVerify(h, r.type, r.mode = "cref").ptr = NullPtr
    <3> HAVE OracleConvertTo(h, rk).outcome # "failed" /\ OracleConvertTo(h, rm).outcome = "failed"
    <3>1. OracleVerify(h, r.type, r.mode = "cref") =
            [outcome |-> "constObject", ptr |-> NullPtr]
      BY <1>10, <1>16
    <3> QED
      BY <3>1
  <2>4. RefusedBy(h, r.type, ReqConst(r)) = RefusedBy(h, r.type, ReqConst(rm))
    BY <1>1, <1>2, <1>16 DEF RefusedBy, ConstOk
  <2> QED
    BY <1>1, <1>3, <1>5, <1>7, <1>8, <1>16, <2>2, <2>3, <2>4 DEF CallOk, ConvertOk
<1>17. CASE k.outcome # "failed" /\ r.mode # "cref" /\ m.outcome # "failed"
  <2>1. x = [outcome |-> ko, ptr |-> kp, cache |-> m.cache]
    BY <1>9, <1>12, <1>17
  <2>2. x.outcome = k.outcome /\ x.ptr = k.ptr /\ x.cache = m.cache
    BY <1>12, <2>1
  <2>3. x.outcome # "wrongType"
    BY <1>3, <2>2 DEF ConvertOk
  <2>4. OracleConvertTo(h, rk).outcome # "failed" /\ OracleConvertTo(h, rm).outcome # "failed" =>
          OracleVerify(h, r.type, r.mode = "cref") = OracleConvertTo(h, rk)
    BY <1>10, <1>17
  <2>5. RefusedBy(h, r.type, ReqConst(r)) = RefusedBy(h, r.type, ReqConst(rm))
    BY <1>1, <1>2, <1>17 DEF RefusedBy, ConstOk
  <2>6. ASSUME Exists(c), x.outcome = "object"
        PROVE  ConstOk(h, ReqConst(r))
    <3>1. <<h.type, r.type>> \in Castable
      BY <1>1, <1>3, <2>2, <2>6 DEF ConvertOk
    <3>2. h.type \in Types /\ r.type \in Types
      BY DEF Holder, Request
    <3>3. <<h.type, PtrType(r.type, ValueReqConst(rm))>> \notin Castable
      BY <3>1, <3>2, CastRulesAssumption DEF PtrType
    <3>4. Exists(k.cache)
      BY <1>3, <2>6 DEF ConvertOk
    <3>5. m.outcome = "object"
      BY <1>1, <1>5, <1>17, <3>3, <3>4 DEF ConvertOk
    <3> QED
      BY <1>1, <1>2, <1>5, <1>17, <3>5 DEF ConvertOk, ConstOk
  <2> QED
    BY <1>1, <1>3, <1>5, <1>7, <1>8, <1>17, <2>2, <2>3, <2>4, <2>5, <2>6 DEF CallOk, ConvertOk
<1> QED
  BY <1>14, <1>15, <1>16, <1>17
=============================================================================
