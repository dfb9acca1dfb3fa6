--------------------------- MODULE InvocationProofs ---------------------------
(***************************************************************************)
(* Calls and attribute accesses for every set of types, callables and      *)
(* attributes and any number of arguments, and the registry of functions   *)
(* for every order of the static initialisers.                             *)
(***************************************************************************)
EXTENDS Invocation, ConversionsProofs, FiniteSetTheorems, SequenceTheorems,
        WellFoundedInduction

-----------------------------------------------------------------------------
(* Induction: the least number outside of a set has a predecessor in it     *)

LEMMA LeastNumber ==
  ASSUME NEW T \in SUBSET Nat, T # {}
  PROVE  \E x \in T : \A y \in T : ~(y < x)
<1> DEFINE R == OpToRel(<, Nat)
<1>1. IsWellFoundedOn(R, Nat)
  BY NatLessThanWellFounded
<1>2. \A x, y \in Nat : y < x => <<y, x>> \in R
  BY DEF OpToRel
<1> HIDE DEF R
<1>3. PICK x \in T : \A y \in T : ~ (<<y, x>> \in R)
  BY <1>1, WFMin
<1> QED
  BY <1>2, <1>3

LEMMA SetInduction ==
  ASSUME NEW S, 0 \in S, \A n \in Nat : n \in S => n + 1 \in S
  PROVE  Nat \subseteq S
<1> SUFFICES ASSUME Nat \ S # {} PROVE FALSE
  OBVIOUS
<1>1. PICK x \in Nat \ S : \A y \in Nat \ S : ~(y < x)
  BY LeastNumber
<1>2. x # 0 /\ x - 1 \in Nat /\ x - 1 < x /\ (x - 1) + 1 = x
  BY <1>1
<1> QED
  BY <1>1, <1>2

-----------------------------------------------------------------------------
(* One conversion                                                           *)

\* A cache of conversions that exist, none refused that a held pointer asks for
Sound(c) ==
  /\ c \in CacheType /\ Exists(c)
  /\ \A p \in Lost(c) : p[1] \notin PointersToConst

\* A request the model is about
Asks(r) == r \in Request /\ (r.mode = "ref" => r.type \notin PointersToConst)

\* No class derives from a number or from std::string
ScalarsAreNoBases ==
  \A from \in Types, t \in Scalars : <<from, t>> \in Castable => from = t

(***************************************************************************)
(* What is lost of the types one conversion asks for is the very type.     *)
(***************************************************************************)
LEMMA OnlyTypeLost ==
  ASSUME NEW c, Sound(c), NEW h \in Holder, NEW r \in Request, ~NotLost(c, h, r.type)
  PROVE  h.type # r.type /\ <<r.type, h.type>> \in Lost(c)
<1>1. PICK to \in {r.type, PointerTo[r.type], ConstPointerTo[r.type]} :
           to # h.type /\ <<to, h.type>> \in Lost(c)
  BY DEF NotLost
<1>2. h.type \in Types /\ r.type \in Types
  BY DEF Holder, Request
<1>3. to \notin PointersToConst /\ <<h.type, to>> \in Castable
  BY <1>1 DEF Sound, Lost
<1>4. to # ConstPointerTo[r.type] /\ to # PointerTo[r.type]
  BY <1>1, <1>2, <1>3, CastRulesAssumption DEF PointersToConst
<1> QED
  BY <1>1, <1>4

LEMMA RefusalEffect ==
  ASSUME NEW h, NEW r
  PROVE  \A p \in RefusedBy(h, r.type, ReqConst(r)) :
           p = <<r.type, h.type>> /\ <<h.type, r.type>> \in Castable /\ h.const /\ r.mode = "ref"
BY DEF RefusedBy, ConstOk, ReqConst

(***************************************************************************)
(* A conversion keeps the cache sound; one that succeeds refuses nothing   *)
(* and gives no non-const access to a const object.                        *)
(***************************************************************************)
LEMMA ConvertSound ==
  ASSUME NEW c, Sound(c), NEW h \in Holder, NEW r, Asks(r),
         NEW x, x = convertTo(c, h, r)
  PROVE  /\ Sound(x.cache)
         /\ [outcome |-> x.outcome, ptr |-> x.ptr] \in Answer
         /\ x.outcome \in {"object", "pointee", "converted", "failed"}
         /\ x.outcome = "failed" => x.ptr = NullPtr
         /\ Lost(x.cache) = Lost(c) \union RefusedBy(h, r.type, ReqConst(r))
         /\ x.outcome # "failed" => RefusedBy(h, r.type, ReqConst(r)) = {}
         /\ LayoutIndependent /\ Placed(c) => Placed(x.cache)
<1>1. ConvertOk(c, h, r, x)
  BY ConvertToCorrect DEF Sound, Asks
<1>2. Lost(x.cache) = Lost(c) \union RefusedBy(h, r.type, ReqConst(r))
  BY <1>1 DEF ConvertOk
<1>3. Sound(x.cache)
  BY <1>1, <1>2, RefusalEffect DEF Sound, Asks, ConvertOk
<1>4. x.outcome # "failed" => RefusedBy(h, r.type, ReqConst(r)) = {}
  <2> SUFFICES ASSUME x.outcome # "failed", RefusedBy(h, r.type, ReqConst(r)) # {}
               PROVE  FALSE
    OBVIOUS
  <2>1. <<h.type, r.type>> \in Castable /\ h.const /\ r.mode = "ref"
    BY RefusalEffect
  <2>2. h.type \in Types /\ r.type \in Types
    BY DEF Holder, Request, Asks
  <2>3. <<h.type, PtrType(r.type, ValueReqConst(r))>> \notin Castable
    BY <2>1, <2>2, CastRulesAssumption DEF PtrType
  <2> QED
    BY <1>1, <2>1, <2>3 DEF ConvertOk, Sound, ConstOk, ReqConst
<1> QED
  BY <1>1, <1>2, <1>3, <1>4 DEF ConvertOk, Sound, Answer

LEMMA ConvertKeepsConst ==
  ASSUME NEW c, Sound(c), NEW h \in Holders, NEW r, Asks(r), r.mode = "ref",
         NEW x, x = convertTo(c, h, r), x.outcome # "failed"
  PROVE  ~RefersToConst(h, x)
<1>1. h \in Holder /\ h.type \in Types /\ r.type \in Types
  BY CastRulesAssumption DEF Holder, Asks, Request
<1>2. ConvertOk(c, h, r, x)
  BY <1>1, ConvertToCorrect DEF Sound, Asks
<1>3. x.outcome \in {"object", "pointee"} /\ ~ReqConst(r) /\ ~ValueReqConst(r)
  BY <1>2 DEF ConvertOk, ReqConst, ValueReqConst
<1>4. CASE x.outcome = "object"
  BY <1>2, <1>3, <1>4 DEF ConvertOk, ConstOk, RefersToConst
<1>5. CASE x.outcome = "pointee"
  <2>1. <<h.type, PointerTo[r.type]>> \in Castable
    BY <1>2, <1>3, <1>5 DEF ConvertOk, Sound, PtrType
  <2>2. h.type = PointerTo[r.type]
    BY <1>1, <2>1, CastRulesAssumption
  <2> QED
    BY <1>1, <1>5, <2>2, InvocationAssumption DEF RefersToConst
<1> QED
  BY <1>3, <1>4, <1>5

(***************************************************************************)
(* What succeeds is what the cast gives; what fails the cast refuses, or   *)
(* it was refused before.                                                  *)
(***************************************************************************)
LEMMA ConvertAnswers ==
  ASSUME LayoutIndependent, NEW c, Sound(c), Placed(c), NEW h \in Holder, NEW r, Asks(r),
         NEW x, x = convertTo(c, h, r)
  PROVE  /\ ScalarsAreNoBases /\ x.outcome # "failed" =>
              [outcome |-> x.outcome, ptr |-> x.ptr] = OracleConvertTo(h, r)
         /\ x.outcome = "failed" =>
              \/ OracleConvertTo(h, r).outcome = "failed"
              \/ h.type # r.type /\ <<r.type, h.type>> \in Lost(c)
<1>1. ConvertOk(c, h, r, x) /\ r \in Request /\ h.type \in Types /\ r.type \in Types
  BY ConvertToCorrect DEF Sound, Asks, Holder, Request
<1>2. OracleConvertTo(h, r) =
        [outcome |-> OracleConvertTo(h, r).outcome, ptr |-> OracleConvertTo(h, r).ptr]
  BY DEF OracleConvertTo
<1>3. CASE NotLost(c, h, r.type)
  BY <1>1, <1>2, <1>3, LayoutIndependent DEF ConvertOk, Sound
<1>4. CASE ~NotLost(c, h, r.type)
  <2>1. h.type # r.type /\ <<r.type, h.type>> \in Lost(c)
    BY <1>1, <1>4, OnlyTypeLost
  <2> SUFFICES ASSUME ScalarsAreNoBases, x.outcome # "failed" PROVE FALSE
    BY <2>1
  <2>2. <<h.type, r.type>> \in Castable /\ Impossible(c, r.type, h.type)
    BY <2>1 DEF Lost
  <2>3. /\ <<h.type, PointerTo[r.type]>> \notin Castable
        /\ <<h.type, ConstPointerTo[r.type]>> \notin Castable
    BY <1>1, <2>2, CastRulesAssumption
  <2>4. isAPriv(c, h, r.type, ReqConst(r)).ptr = NullPtr
    BY <2>1, <2>2 DEF isAPriv, Possible, Impossible
  <2>5. x.outcome # "pointee"
    BY <1>1, <2>3 DEF ConvertOk, Sound, PtrType
  <2>6. Converter(h, r) = "failed"
    <3>1. r.type \notin Scalars /\ r.type \notin Strings
      BY <1>1, <2>1, <2>2, CastRulesAssumption DEF ScalarsAreNoBases
    <3>2. /\ <<h.type, PointerTo[h.type]>> \notin Castable
          /\ <<h.type, ConstPointerTo[h.type]>> \notin Castable
      BY <1>1, CastRulesAssumption
    <3> QED
      BY <2>2, <3>1, <3>2 DEF Converter, PointerConversion, PtrType
  <2> QED
    BY <2>4, <2>5, <2>6 DEF convertTo
<1> QED
  BY <1>3, <1>4

(***************************************************************************)
(* The receiver: two conversions, of which the first refuses nothing.      *)
(***************************************************************************)
LEMMA ReceiverSound ==
  ASSUME NEW c, Sound(c), NEW h \in Holders, NEW clazz \in Types \ (Strings \union PointersToConst),
         NEW methodIsConst \in BOOLEAN, NEW x, x = verifyObject(c, h, clazz, methodIsConst)
  PROVE  LET lost == IF x.outcome = "wrongType" THEN {} ELSE RefusedBy(h, clazz, methodIsConst)
             ran  == x.outcome \notin {"wrongType", "constObject"}
         IN  /\ Sound(x.cache)
             /\ [outcome |-> x.outcome, ptr |-> x.ptr] \in Answer
             /\ Lost(x.cache) = Lost(c) \union lost
             /\ ran => lost = {} /\ (~methodIsConst => ~RefersToConst(h, x))
             /\ LayoutIndependent /\ Placed(c) =>
                  /\ Placed(x.cache)
                  /\ ScalarsAreNoBases /\ ran =>
                       [outcome |-> x.outcome, ptr |-> x.ptr] = OracleVerify(h, clazz, methodIsConst)
                  /\ ~ran => \/ OracleVerify(h, clazz, methodIsConst).outcome = x.outcome
                             \/ h.type # clazz /\ <<clazz, h.type>> \in Lost(c)
<1> DEFINE rk == ForClass(clazz, "cref")
           rm == ForClass(clazz, "ref")
           k  == convertTo(c, h, rk)
           m  == convertTo(k.cache, h, rm)
<1>1. /\ Asks(rk) /\ rk.type = clazz /\ rk.mode = "cref" /\ ReqConst(rk)
      /\ Asks(rm) /\ rm.type = clazz /\ rm.mode = "ref" /\ ~ReqConst(rm)
      /\ rk = [type |-> clazz, mode |-> "cref"] /\ rm = [type |-> clazz, mode |-> "ref"]
      /\ h \in Holder
  BY CastRulesAssumption DEF ForClass, Asks, Request, Mode, ReqConst
<1> HIDE DEF rk, rm
<1>2. /\ Sound(k.cache) /\ [outcome |-> k.outcome, ptr |-> k.ptr] \in Answer
      /\ k.outcome \in {"object", "pointee", "converted", "failed"}
      /\ k.outcome = "failed" => k.ptr = NullPtr
      /\ Lost(k.cache) = Lost(c) \union RefusedBy(h, clazz, ReqConst(rk))
      /\ LayoutIndependent /\ Placed(c) => Placed(k.cache)
  <2>1. Asks(rk) /\ h \in Holder
    BY <1>1
  <2>2. /\ Sound(k.cache) /\ [outcome |-> k.outcome, ptr |-> k.ptr] \in Answer
        /\ k.outcome \in {"object", "pointee", "converted", "failed"}
        /\ k.outcome = "failed" => k.ptr = NullPtr
        /\ Lost(k.cache) = Lost(c) \union RefusedBy(h, rk.type, ReqConst(rk))
        /\ LayoutIndependent /\ Placed(c) => Placed(k.cache)
    BY <2>1, ConvertSound
  <2> HIDE DEF k, m
  <2> QED
    BY <1>1, <2>2
<1>3. RefusedBy(h, clazz, ReqConst(rk)) = {} /\ Lost(k.cache) = Lost(c)
  BY <1>1, <1>2 DEF RefusedBy, ConstOk
<1>4. /\ Sound(m.cache) /\ [outcome |-> m.outcome, ptr |-> m.ptr] \in Answer
      /\ m.outcome \in {"object", "pointee", "converted", "failed"}
      /\ m.outcome = "failed" => m.ptr = NullPtr
      /\ Lost(m.cache) = Lost(c) \union RefusedBy(h, clazz, ReqConst(rm))
      /\ m.outcome # "failed" => RefusedBy(h, clazz, ReqConst(rm)) = {}
      /\ LayoutIndependent /\ Placed(c) => Placed(m.cache)
  <2>1. ASSUME NEW d, Sound(d), NEW y, y = convertTo(d, h, rm)
        PROVE  /\ Sound(y.cache) /\ [outcome |-> y.outcome, ptr |-> y.ptr] \in Answer
               /\ y.outcome \in {"object", "pointee", "converted", "failed"}
               /\ y.outcome = "failed" => y.ptr = NullPtr
               /\ Lost(y.cache) = Lost(d) \union RefusedBy(h, clazz, ReqConst(rm))
               /\ y.outcome # "failed" => RefusedBy(h, clazz, ReqConst(rm)) = {}
               /\ LayoutIndependent /\ Placed(d) => Placed(y.cache)
    <3>1. Asks(rm) /\ h \in Holder
      BY <1>1
    <3>2. /\ Sound(y.cache) /\ [outcome |-> y.outcome, ptr |-> y.ptr] \in Answer
          /\ y.outcome \in {"object", "pointee", "converted", "failed"}
          /\ y.outcome = "failed" => y.ptr = NullPtr
          /\ Lost(y.cache) = Lost(d) \union RefusedBy(h, rm.type, ReqConst(rm))
          /\ y.outcome # "failed" => RefusedBy(h, rm.type, ReqConst(rm)) = {}
          /\ LayoutIndependent /\ Placed(d) => Placed(y.cache)
      BY <2>1, <3>1, ConvertSound
    <3> QED
      BY <1>1, <3>2
  <2>2. Sound(k.cache)
    BY <1>2
  <2> DEFINE d == k.cache
  <2>3. m = convertTo(d, h, rm) /\ Sound(d) /\ Lost(d) = Lost(c)
        /\ (LayoutIndependent /\ Placed(c) => Placed(d))
    BY <1>2, <1>3, <2>2
  <2> HIDE DEF d, m
  <2> QED
    BY <2>1, <2>3
<1>5. RefusedBy(h, clazz, methodIsConst) = IF methodIsConst THEN {} ELSE RefusedBy(h, clazz, ReqConst(rm))
  BY <1>1 DEF RefusedBy, ConstOk
<1>6. k = [outcome |-> k.outcome, ptr |-> k.ptr, cache |-> k.cache]
      /\ m = [outcome |-> m.outcome, ptr |-> m.ptr, cache |-> m.cache]
  BY DEF convertTo
<1>7. x = IF k.outcome = "failed" THEN [k EXCEPT !.outcome = "wrongType"]
          ELSE IF methodIsConst THEN k
          ELSE IF m.outcome = "failed" THEN [m EXCEPT !.outcome = "constObject"]
          ELSE [k EXCEPT !.cache = m.cache]
  BY <1>1 DEF verifyObject
<1>8. OracleVerify(h, clazz, methodIsConst) =
         IF OracleConvertTo(h, rk).outcome = "failed"
           THEN [outcome |-> "wrongType", ptr |-> NullPtr]
         ELSE IF ~methodIsConst /\ OracleConvertTo(h, rm).outcome = "failed"
           THEN [outcome |-> "constObject", ptr |-> NullPtr]
         ELSE OracleConvertTo(h, rk)
  BY <1>1 DEF OracleVerify
<1>9. ASSUME LayoutIndependent, Placed(c)
      PROVE  /\ ScalarsAreNoBases /\ k.outcome # "failed" =>
                  [outcome |-> k.outcome, ptr |-> k.ptr] = OracleConvertTo(h, rk)
             /\ k.outcome = "failed" => \/ OracleConvertTo(h, rk).outcome = "failed"
                                        \/ h.type # clazz /\ <<clazz, h.type>> \in Lost(c)
             /\ ScalarsAreNoBases /\ m.outcome # "failed" =>
                  [outcome |-> m.outcome, ptr |-> m.ptr] = OracleConvertTo(h, rm)
             /\ m.outcome = "failed" => \/ OracleConvertTo(h, rm).outcome = "failed"
                                        \/ h.type # clazz /\ <<clazz, h.type>> \in Lost(c)
             /\ k.outcome # "failed" => \/ OracleConvertTo(h, rk).outcome # "failed"
                                        \/ h.type # clazz /\ <<clazz, h.type>> \in Lost(c)
  <2>1. Placed(k.cache)
    BY <1>2, <1>9
  <2>2. k.outcome # "failed" => \/ OracleConvertTo(h, rk).outcome # "failed"
                                \/ h.type # clazz /\ <<clazz, h.type>> \in Lost(c)
    <3>1. CASE NotLost(c, h, clazz)
      <4>1. ConvertOk(c, h, rk, k)
        BY <1>1, ConvertToCorrect DEF Sound, Asks
      <4> QED
        BY <1>1, <1>9, <3>1, <4>1 DEF ConvertOk, Sound
    <3>2. CASE ~NotLost(c, h, clazz)
      BY <1>1, <3>2, OnlyTypeLost DEF Asks
    <3> QED
      BY <3>1, <3>2
  <2>3. /\ ScalarsAreNoBases /\ k.outcome # "failed" =>
             [outcome |-> k.outcome, ptr |-> k.ptr] = OracleConvertTo(h, rk)
        /\ k.outcome = "failed" => \/ OracleConvertTo(h, rk).outcome = "failed"
                                   \/ h.type # clazz /\ <<clazz, h.type>> \in Lost(c)
    BY <1>1, <1>9, ConvertAnswers
  <2>4. /\ ScalarsAreNoBases /\ m.outcome # "failed" =>
             [outcome |-> m.outcome, ptr |-> m.ptr] = OracleConvertTo(h, rm)
        /\ m.outcome = "failed" => \/ OracleConvertTo(h, rm).outcome = "failed"
                                   \/ h.type # clazz /\ <<clazz, h.type>> \in Lost(c)
    BY <1>1, <1>2, <1>3, <1>9, <2>1, ConvertAnswers
  <2> QED
    BY <2>2, <2>3, <2>4
<1>10. m.outcome # "failed" => ~RefersToConst(h, m)
  BY <1>1, <1>2, ConvertKeepsConst
<1>11. \A o, p, d : [[outcome |-> o, ptr |-> p, cache |-> d] EXCEPT !.outcome = "wrongType"]
                      = [outcome |-> "wrongType", ptr |-> p, cache |-> d]
  OBVIOUS
<1>12. k.outcome # "failed" /\ m.outcome # "failed" => ~RefersToConst(h, k)
  <2> SUFFICES ASSUME k.outcome # "failed", m.outcome # "failed" PROVE ~RefersToConst(h, k)
    OBVIOUS
  <2>0. h.type \in Types
    BY <1>1 DEF Holder
  <2>1. ConvertOk(c, h, rk, k) /\ ConvertOk(k.cache, h, rm, m)
    BY <1>1, <1>2, ConvertToCorrect DEF Sound, Asks
  <2>2. k.outcome \in {"object", "pointee"} /\ m.outcome \in {"object", "pointee"}
    BY <1>1, <2>1 DEF ConvertOk
  <2>3. /\ k.outcome = "object" => <<h.type, clazz>> \in Castable
        /\ k.outcome = "pointee" => <<h.type, ConstPointerTo[clazz]>> \in Castable
        /\ m.outcome = "object" => <<h.type, clazz>> \in Castable
        /\ m.outcome = "pointee" => <<h.type, PointerTo[clazz]>> \in Castable
    BY <1>1, <1>2, <2>1 DEF ConvertOk, Sound, PtrType, ValueReqConst
  <2>4. k.outcome = m.outcome
    BY <2>0, <2>2, <2>3, CastRulesAssumption
  <2> QED
    BY <1>10, <2>4 DEF RefersToConst
<1> HIDE DEF k, m
<1>13. CASE k.outcome = "failed"
  <2>1. x.outcome = "wrongType" /\ x.ptr = NullPtr /\ x.cache = k.cache
    BY <1>2, <1>6, <1>7, <1>13
  <2>2. OracleConvertTo(h, rk).outcome = "failed" =>
          OracleVerify(h, clazz, methodIsConst).outcome = "wrongType"
    <3> HAVE OracleConvertTo(h, rk).outcome = "failed"
    <3>1. OracleVerify(h, clazz, methodIsConst) = [outcome |-> "wrongType", ptr |-> NullPtr]
      BY <1>8
    <3> QED
      BY <3>1
  <2>3. [outcome |-> "wrongType", ptr |-> NullPtr] \in Answer
    BY DEF Answer
  <2> QED
    BY <1>2, <1>3, <1>9, <1>13, <2>1, <2>2, <2>3
<1>14. CASE k.outcome # "failed" /\ methodIsConst
  <2>1. x.outcome = k.outcome /\ x.ptr = k.ptr /\ x.cache = k.cache
    BY <1>7, <1>14
  <2>2. OracleConvertTo(h, rk).outcome # "failed" =>
          OracleVerify(h, clazz, methodIsConst) = OracleConvertTo(h, rk)
    BY <1>8, <1>14
  <2>3. [outcome |-> k.outcome, ptr |-> k.ptr] = OracleConvertTo(h, rk) =>
           OracleConvertTo(h, rk).outcome # "failed"
    BY <1>14
  <2>4. x.outcome \notin {"wrongType", "constObject"}
    BY <1>2, <2>1
  <2> QED
    BY <1>2, <1>3, <1>5, <1>9, <1>14, <2>1, <2>2, <2>3, <2>4
<1>15. CASE k.outcome # "failed" /\ ~methodIsConst /\ m.outcome = "failed"
  <2>1. x.outcome = "constObject" /\ x.ptr = NullPtr /\ x.cache = m.cache
    <3>1. x = [m EXCEPT !.outcome = "constObject"]
      BY <1>7, <1>15
    <3> QED
      BY <1>4, <1>6, <1>15, <3>1
  <2>2. OracleConvertTo(h, rk).outcome # "failed" /\ OracleConvertTo(h, rm).outcome = "failed" =>
          OracleVerify(h, clazz, methodIsConst).outcome = "constObject"
    <3> HAVE OracleConvertTo(h, rk).outcome # "failed" /\ OracleConvertTo(h, rm).outcome = "failed"
    <3>1. OracleVerify(h, clazz, methodIsConst) = [outcome |-> "constObject", ptr |-> NullPtr]
      BY <1>8, <1>15
    <3> QED
      BY <3>1
  <2>3. [outcome |-> "constObject", ptr |-> NullPtr] \in Answer
    BY DEF Answer
  <2>4. RefusedBy(h, clazz, methodIsConst) = RefusedBy(h, clazz, ReqConst(rm))
    BY <1>5, <1>15
  <2> QED
    BY <1>4, <1>9, <1>15, <2>1, <2>2, <2>3, <2>4
<1>16. CASE k.outcome # "failed" /\ ~methodIsConst /\ m.outcome # "failed"
  <2>1. x.outcome = k.outcome /\ x.ptr = k.ptr /\ x.cache = m.cache
    <3>1. x = [k EXCEPT !.cache = m.cache]
      BY <1>7, <1>16
    <3> QED
      BY <1>6, <3>1
  <2>2. x.outcome \notin {"wrongType", "constObject"}
    BY <1>2, <2>1
  <2>3. OracleConvertTo(h, rk).outcome # "failed" /\ OracleConvertTo(h, rm).outcome # "failed" =>
          OracleVerify(h, clazz, methodIsConst) = OracleConvertTo(h, rk)
    BY <1>8
  <2>4. /\ [outcome |-> k.outcome, ptr |-> k.ptr] = OracleConvertTo(h, rk) =>
             OracleConvertTo(h, rk).outcome # "failed"
        /\ [outcome |-> m.outcome, ptr |-> m.ptr] = OracleConvertTo(h, rm) =>
             OracleConvertTo(h, rm).outcome # "failed"
    BY <1>16
  <2>5. ~RefersToConst(h, x)
    BY <1>12, <1>16, <2>1 DEF RefersToConst
  <2>6. RefusedBy(h, clazz, methodIsConst) = {} /\ Lost(x.cache) = Lost(c)
    BY <1>4, <1>5, <1>16, <2>1
  <2> QED
    BY <1>2, <1>4, <1>9, <1>16, <2>1, <2>2, <2>3, <2>4, <2>5, <2>6
<1> QED
  BY <1>13, <1>14, <1>15, <1>16

-----------------------------------------------------------------------------
(* What conversions that succeed leave in the cache: verdicts of the cast,  *)
(* for the pairs of types they asked about                                  *)

Verdict(to, from) ==
  IF <<from, to>> \in Castable THEN BaseOffset[from][to][CHOOSE l \in Layouts : TRUE]
  ELSE NullPtr

Fill(c, A) ==
  [to \in Types |-> [from \in Types |->
     IF c[to][from] = NotCached /\ <<to, from>> \in A THEN Verdict(to, from)
     ELSE c[to][from]]]

\* The entry a question for to of h may add
Pair(h, to) == IF h.type = to THEN {} ELSE {<<to, h.type>>}

Found(c, h, r) == isAPriv(c, h, r.type, ReqConst(r)).ptr # NullPtr

Asked(c, h, r) ==
  Pair(h, r.type)
    \union IF Found(c, h, r) THEN {} ELSE Pair(h, PtrType(r.type, ValueReqConst(r)))

LEMMA FillEntries ==
  ASSUME NEW c \in CacheType, NEW A, NEW to \in Types, NEW from \in Types
  PROVE  Fill(c, A)[to][from] = IF c[to][from] = NotCached /\ <<to, from>> \in A
                                  THEN Verdict(to, from) ELSE c[to][from]
BY DEF Fill

LEMMA VerdictCast ==
  ASSUME LayoutIndependent, NEW h \in Holder, NEW to \in Types
  PROVE  /\ Verdict(to, h.type) \in Entry
         /\ Verdict(to, h.type) # NullPtr <=> <<h.type, to>> \in Castable
         /\ <<h.type, to>> \in Castable =>
              \A l \in Layouts : Verdict(to, h.type) = BaseOffset[h.type][to][l]
         /\ \A b \in BOOLEAN : (<<h.type, to>> \in Castable => ConstOk(h, b)) =>
              Verdict(to, h.type) = CastPtr(h, to, b)
<1> DEFINE m == CHOOSE l \in Layouts : TRUE
<1>1. h.type \in Types /\ h.layout \in Layouts
  BY DEF Holder
<1>2. m \in Layouts
  BY <1>1
<1> HIDE DEF m
<1>3. \A l \in Layouts : BaseOffset[h.type][to][l] = BaseOffset[h.type][to][m]
                           /\ BaseOffset[h.type][to][l] \in Int
  BY <1>1, <1>2, CastRulesAssumption, LayoutIndependent DEF LayoutIndependent
<1>4. Verdict(to, h.type) = IF <<h.type, to>> \in Castable THEN BaseOffset[h.type][to][m] ELSE NullPtr
  BY DEF Verdict, m
<1>5. NullPtr \notin Int
  BY CastRulesAssumption
<1> QED
  BY <1>1, <1>2, <1>3, <1>4, <1>5 DEF CastPtr, Caught, Entry

\* A fill is a cache like the one it fills
LEMMA FillSound ==
  ASSUME LayoutIndependent, Layouts # {}, NEW c, Sound(c), Placed(c), NEW A
  PROVE  Sound(Fill(c, A)) /\ Placed(Fill(c, A)) /\ Lost(Fill(c, A)) = Lost(c)
<1> DEFINE d == Fill(c, A)
<1>0. c \in CacheType
  BY DEF Sound
<1>1. \A to, from \in Types :
         /\ Verdict(to, from) \in Entry
         /\ Verdict(to, from) # NullPtr <=> <<from, to>> \in Castable
         /\ <<from, to>> \in Castable =>
              \A l \in Layouts : Verdict(to, from) = BaseOffset[from][to][l]
  <2> TAKE to, from \in Types
  <2> DEFINE h == [type |-> from, const |-> FALSE, layout |-> CHOOSE l \in Layouts : TRUE]
  <2>1. h \in Holder /\ h.type = from
    BY DEF Holder
  <2> HIDE DEF h
  <2> QED
    BY <2>1, VerdictCast, LayoutIndependent
<1>2. \A to, from \in Types :
         d[to][from] = IF c[to][from] = NotCached /\ <<to, from>> \in A
                         THEN Verdict(to, from) ELSE c[to][from]
  BY DEF Fill
<1>3. d \in CacheType
  BY <1>0, <1>1 DEF Fill, CacheType
<1> HIDE DEF d
<1>4. \A to, from \in Types : Verdict(to, from) # NotCached
  BY <1>1, NotCachedAssumption
<1>5. Exists(d)
  BY <1>1, <1>2 DEF Sound, Exists, Possible, conversionKnown
<1>6. Placed(d)
  <2> SUFFICES ASSUME NEW to \in Types, NEW from \in Types, Possible(d, to, from), NEW l \in Layouts
               PROVE  d[to][from] = BaseOffset[from][to][l]
    BY DEF Placed
  <2>1. CASE c[to][from] = NotCached /\ <<to, from>> \in A
    BY <1>1, <1>2, <2>1 DEF Possible
  <2>2. CASE ~(c[to][from] = NotCached /\ <<to, from>> \in A)
    BY <1>2, <2>2 DEF Placed, Possible, conversionKnown
  <2> QED
    BY <2>1, <2>2
<1>7. \A to, from \in Types : <<from, to>> \in Castable =>
         (Impossible(d, to, from) <=> Impossible(c, to, from))
  BY <1>1, <1>2, <1>4 DEF Impossible, conversionKnown
<1>8. Lost(d) = Lost(c)
  BY <1>7 DEF Lost
<1> QED
  BY <1>3, <1>5, <1>6, <1>8 DEF Sound, d

(***************************************************************************)
(* A question gets the same answer of a filled cache as of the cache       *)
(* itself, and adds its own verdict.                                       *)
(***************************************************************************)
FilledOk(c, A, h, to, reqConst) ==
  /\ isAPriv(Fill(c, A), h, to, reqConst).ptr = isAPriv(c, h, to, reqConst).ptr
  /\ RefusedBy(h, to, reqConst) = {} =>
       isAPriv(Fill(c, A), h, to, reqConst).cache = Fill(c, A \union Pair(h, to))

LEMMA ProbeFilled ==
  ASSUME LayoutIndependent, NEW c, Sound(c), Placed(c), NEW A,
         NEW h \in Holder, NEW to \in Types, NEW b \in BOOLEAN
  PROVE  FilledOk(c, A, h, to, b)
<1> DEFINE d == Fill(c, A)
           e == Fill(c, A \union Pair(h, to))
           v == Verdict(to, h.type)
<1>1. h.type \in Types /\ h.layout \in Layouts /\ c \in CacheType
  BY DEF Holder, Sound
<1>2. /\ v \in Entry /\ (v # NullPtr <=> <<h.type, to>> \in Castable)
      /\ <<h.type, to>> \in Castable => \A l \in Layouts : v = BaseOffset[h.type][to][l]
      /\ (<<h.type, to>> \in Castable => ConstOk(h, b)) => v = CastPtr(h, to, b)
      /\ v # NotCached
  BY VerdictCast, LayoutIndependent, NotCachedAssumption
<1>3. d[to][h.type] = IF c[to][h.type] = NotCached /\ <<to, h.type>> \in A
                        THEN v ELSE c[to][h.type]
  BY <1>1, FillEntries
<1>4. c[to][h.type] # NotCached /\ c[to][h.type] # NullPtr =>
        /\ <<h.type, to>> \in Castable
        /\ \A l \in Layouts : c[to][h.type] = BaseOffset[h.type][to][l]
  BY <1>1 DEF Sound, Exists, Placed, Possible, conversionKnown
<1>5. ConstOk(h, b) /\ <<h.type, to>> \in Castable => CastPtr(h, to, b) = BaseOffset[h.type][to][h.layout]
  BY DEF CastPtr, Caught
<1>6. ~ConstOk(h, b) \/ <<h.type, to>> \notin Castable => CastPtr(h, to, b) = NullPtr
  BY DEF CastPtr, Caught
<1>7. <<h.type, h.type>> \in Castable
  BY <1>1, CastRulesAssumption
<1>8. RefusedBy(h, to, b) = {} <=> (<<h.type, to>> \in Castable => ConstOk(h, b))
  BY DEF RefusedBy
<1>9. h.type = to => e = d
  BY DEF Pair
<1>10. ASSUME h.type # to
       PROVE  /\ d[to][h.type] # NotCached => e = d
              /\ d[to][h.type] = NotCached => e = registerConversion(d, to, h.type, v)
  <2>1. <<to, h.type>> \in Pair(h, to) /\ Pair(h, to) = {<<to, h.type>>}
    BY <1>10 DEF Pair
  <2>2. d \in [Types -> [Types -> Entry \union {NotCached}]]
    <3>1. \A t, f \in Types : Verdict(t, f) \in Entry
      <4> TAKE t, f \in Types
      <4> DEFINE g == [type |-> f, const |-> FALSE, layout |-> h.layout]
      <4>1. g \in Holder /\ g.type = f
        BY <1>1 DEF Holder
      <4> HIDE DEF g
      <4> QED
        BY <4>1, VerdictCast, LayoutIndependent
    <3> QED
      BY <1>1, <3>1 DEF Fill, CacheType
  <2>3. \A t, f \in Types : e[t][f] = IF c[t][f] = NotCached /\ <<t, f>> \in A \union Pair(h, to)
                                        THEN Verdict(t, f) ELSE c[t][f]
    BY DEF Fill
  <2>4. \A t, f \in Types : d[t][f] = IF c[t][f] = NotCached /\ <<t, f>> \in A
                                        THEN Verdict(t, f) ELSE c[t][f]
    BY DEF Fill
  <2>7. /\ e = [t \in Types |-> e[t]] /\ \A t \in Types : e[t] = [f \in Types |-> e[t][f]]
        /\ d = [t \in Types |-> d[t]] /\ \A t \in Types : d[t] = [f \in Types |-> d[t][f]]
    BY DEF Fill
  <2> HIDE DEF d, e
  <2>5. \A t, f \in Types : t # to \/ f # h.type => e[t][f] = d[t][f]
    <3> TAKE t, f \in Types
    <3> HAVE t # to \/ f # h.type
    <3>1. <<t, f>> \in A \union Pair(h, to) <=> <<t, f>> \in A
      BY <2>1
    <3> QED
      BY <2>3, <2>4, <3>1
  <2>6. e[to][h.type] = IF d[to][h.type] = NotCached THEN v ELSE d[to][h.type]
    BY <1>1, <1>2, <2>1, <2>3, <2>4
  <2> HIDE DEF v
  <2>8. ASSUME d[to][h.type] # NotCached PROVE e = d
    <3>1. \A t, f \in Types : e[t][f] = d[t][f]
      BY <2>5, <2>6, <2>8
    <3>2. ASSUME NEW t \in Types PROVE e[t] = d[t]
      <4>1. e[t] = [f \in Types |-> e[t][f]]
        BY <2>7
      <4>2. d[t] = [f \in Types |-> d[t][f]]
        BY <2>7
      <4> QED
        BY <3>1, <4>1, <4>2
    <3> QED
      BY <2>7, <3>2
  <2>9. ASSUME d[to][h.type] = NotCached PROVE e = registerConversion(d, to, h.type, v)
    <3> DEFINE k == registerConversion(d, to, h.type, v)
    <3>1. /\ k = [t \in Types |-> k[t]] /\ \A t \in Types : k[t] = [f \in Types |-> k[t][f]]
          /\ \A t, f \in Types : k[t][f] = IF t = to /\ f = h.type THEN v ELSE d[t][f]
      BY <2>2 DEF registerConversion
    <3> HIDE DEF k
    <3>2. \A t, f \in Types : e[t][f] = k[t][f]
      BY <2>5, <2>6, <2>9, <3>1
    <3>3. ASSUME NEW t \in Types PROVE e[t] = k[t]
      <4>1. e[t] = [f \in Types |-> e[t][f]]
        BY <2>7
      <4>2. k[t] = [f \in Types |-> k[t][f]]
        BY <3>1
      <4> QED
        BY <3>2, <4>1, <4>2
    <3> QED
      BY <2>7, <3>1, <3>3 DEF k
  <2> QED
    BY <2>8, <2>9
<1> HIDE DEF d, e, v
<1>11. isAPriv(d, h, to, b).ptr = isAPriv(c, h, to, b).ptr
  BY <1>1, <1>2, <1>3, <1>4, <1>5, <1>6
     DEF isAPriv, Possible, Impossible, conversionKnown, ThrowCast
<1>12. ASSUME RefusedBy(h, to, b) = {} PROVE isAPriv(d, h, to, b).cache = e
  BY <1>2, <1>7, <1>8, <1>9, <1>10, <1>12, <1>3, <1>4
     DEF isAPriv, Possible, Impossible, conversionKnown, ThrowCast
<1> QED
  BY <1>11, <1>12 DEF d, e, FilledOk

LEMMA FillNothing ==
  ASSUME NEW c \in CacheType
  PROVE  Fill(c, {}) = c
<1>1. \A to \in Types : [from \in Types |-> c[to][from]] = c[to]
  BY DEF CacheType
<1>2. Fill(c, {}) = [to \in Types |-> [from \in Types |-> c[to][from]]]
  BY DEF Fill
<1>3. c = [to \in Types |-> c[to]]
  BY DEF CacheType
<1> QED
  BY <1>1, <1>2, <1>3

(***************************************************************************)
(* A conversion fails or gets the same object whatever conversions that    *)
(* succeeded came before it.                                               *)
(***************************************************************************)
LEMMA ConvertFilled ==
  ASSUME LayoutIndependent, NEW c, Sound(c), Placed(c), NEW A,
         NEW h \in Holder, NEW r, Asks(r),
         NEW x, x = convertTo(c, h, r), NEW y, y = convertTo(Fill(c, A), h, r)
  PROVE  /\ y.outcome = x.outcome /\ y.ptr = x.ptr
         /\ x.outcome # "failed" => y.cache = Fill(c, A \union Asked(c, h, r))
<1> DEFINE rc == ReqConst(r)
           pt == PtrType(r.type, ValueReqConst(r))
           d  == Fill(c, A)
           p  == isAPriv(c, h, r.type, rc)
           p2 == isAPriv(d, h, r.type, rc)
           q  == isAPriv(p.cache, h, pt, TRUE)
           q2 == isAPriv(p2.cache, h, pt, TRUE)
<1>1. r.type \in Types /\ rc \in BOOLEAN /\ pt \in Types /\ Layouts # {} /\ c \in CacheType
  BY CastRulesAssumption DEF Asks, Request, ReqConst, PtrType, Holder, Sound
<1>2. Sound(d)
  BY <1>1, FillSound, LayoutIndependent
<1>3. p2.ptr = p.ptr
  <2>1. FilledOk(c, A, h, r.type, rc)
    BY <1>1, ProbeFilled, LayoutIndependent
  <2> QED
    BY <2>1 DEF FilledOk
<1>4. /\ x = IF p.ptr # NullPtr THEN [outcome |-> "object", ptr |-> p.ptr, cache |-> p.cache]
             ELSE IF q.ptr # NullPtr THEN [outcome |-> "pointee", ptr |-> q.ptr, cache |-> q.cache]
             ELSE [outcome |-> Converter(h, r), ptr |-> NullPtr, cache |-> q.cache]
      /\ y = IF p2.ptr # NullPtr THEN [outcome |-> "object", ptr |-> p2.ptr, cache |-> p2.cache]
             ELSE IF q2.ptr # NullPtr THEN [outcome |-> "pointee", ptr |-> q2.ptr, cache |-> q2.cache]
             ELSE [outcome |-> Converter(h, r), ptr |-> NullPtr, cache |-> q2.cache]
  BY DEF convertTo
<1>5. Asked(c, h, r) = Pair(h, r.type) \union IF p.ptr # NullPtr THEN {} ELSE Pair(h, pt)
  BY DEF Asked, Found
<1>6. CASE RefusedBy(h, r.type, rc) # {}
  <2>1. x.outcome = "failed" /\ x.ptr = NullPtr
    BY <1>6, ConvertSound
  <2>2. y.outcome = "failed" /\ y.ptr = NullPtr
    BY <1>2, <1>6, ConvertSound
  <2> QED
    BY <2>1, <2>2
<1>7. CASE RefusedBy(h, r.type, rc) = {}
  <2>1. /\ FilledOk(c, {}, h, r.type, rc) /\ FilledOk(c, A, h, r.type, rc)
        /\ FilledOk(c, Pair(h, r.type), h, pt, TRUE)
        /\ FilledOk(c, A \union Pair(h, r.type), h, pt, TRUE)
    BY <1>1, ProbeFilled, LayoutIndependent
  <2>2. p.cache = Fill(c, Pair(h, r.type))
    <3>1. Fill(c, {}) = c /\ {} \union Pair(h, r.type) = Pair(h, r.type)
      BY <1>1, FillNothing
    <3> QED
      BY <1>7, <2>1, <3>1 DEF FilledOk
  <2>3. p2.cache = Fill(c, A \union Pair(h, r.type))
    BY <1>7, <2>1 DEF FilledOk
  <2>4. RefusedBy(h, pt, TRUE) = {}
    BY DEF RefusedBy, ConstOk
  <2>5. q.ptr = isAPriv(c, h, pt, TRUE).ptr
    BY <2>1, <2>2 DEF FilledOk
  <2>6. /\ q2.ptr = isAPriv(c, h, pt, TRUE).ptr
        /\ q2.cache = Fill(c, (A \union Pair(h, r.type)) \union Pair(h, pt))
    BY <2>1, <2>3, <2>4 DEF FilledOk
  <2>7. (A \union Pair(h, r.type)) \union Pair(h, pt) = A \union (Pair(h, r.type) \union Pair(h, pt))
    OBVIOUS
  <2> HIDE DEF p, p2, q, q2, d, pt, rc
  <2>8. CASE p.ptr # NullPtr
    <3>1. Asked(c, h, r) = Pair(h, r.type)
      BY <1>5, <2>8
    <3> QED
      BY <1>3, <1>4, <2>3, <2>8, <3>1
  <2>9. CASE p.ptr = NullPtr
    <3>1. Asked(c, h, r) = Pair(h, r.type) \union Pair(h, pt)
      BY <1>5, <2>9
    <3>2. q2.cache = Fill(c, A \union Asked(c, h, r)) /\ q2.ptr = q.ptr
      BY <2>5, <2>6, <2>7, <3>1
    <3> QED
      BY <1>3, <1>4, <2>9, <3>2
  <2> QED
    BY <2>8, <2>9
<1> QED
  BY <1>6, <1>7

-----------------------------------------------------------------------------
(* The arguments of a call, one after the other in any order                *)

Start(c, params) ==
  [cache |-> c, failed |-> FALSE, refused |-> {},
   answers |-> [i \in 1..Len(params) |-> Nothing]]

Argument(x, params, args, i) == convertArg(x, args[i], params[i], i)

\* after[n] is what the first n arguments of order leave
IsRun(after, c, params, args, order, N) ==
  after = [n \in 0..N |->
             IF n = 0 THEN Start(c, params)
             ELSE Argument(after[n - 1], params, args, order[n])]

LEMMA RunExists ==
  ASSUME NEW c, NEW params, NEW args, NEW order, NEW N \in Nat
  PROVE  \E after : IsRun(after, c, params, args, order, N)
<1> DEFINE P(k, f) == IsRun(f, c, params, args, order, k)
           S == {k \in Nat : \E f : P(k, f)}
<1>1. 0 \in S
  <2> DEFINE f == [n \in 0..0 |-> Start(c, params)]
  <2>1. P(0, f)
    BY DEF IsRun
  <2> QED
    BY <2>1
<1>2. ASSUME NEW k \in Nat, k \in S PROVE k + 1 \in S
  <2>1. PICK f : P(k, f)
    BY <1>2
  <2>2. \A n \in 0..k : f[n] = IF n = 0 THEN Start(c, params)
                               ELSE Argument(f[n - 1], params, args, order[n])
    BY <2>1 DEF IsRun
  <2> DEFINE g == [n \in 0..(k + 1) |->
                     IF n <= k THEN f[n] ELSE Argument(f[k], params, args, order[n])]
  <2>3. \A n \in 0..(k + 1) : g[n] = IF n = 0 THEN Start(c, params)
                                     ELSE Argument(g[n - 1], params, args, order[n])
    <3> TAKE n \in 0..(k + 1)
    <3>1. CASE n = 0
      BY <2>2, <3>1
    <3>2. CASE n \in 1..k
      <4>1. g[n] = f[n] /\ g[n - 1] = f[n - 1]
        BY <3>2
      <4>2. f[n] = Argument(f[n - 1], params, args, order[n])
        BY <2>2, <3>2
      <4> QED
        BY <3>2, <4>1, <4>2
    <3>3. CASE n = k + 1
      <4>1. g[n] = Argument(f[k], params, args, order[n]) /\ g[n - 1] = f[k] /\ n # 0
        BY <3>3
      <4> QED
        BY <4>1
    <3> QED
      BY <3>1, <3>2, <3>3
  <2>4. g = [n \in 0..(k + 1) |-> g[n]]
    OBVIOUS
  <2> HIDE DEF g
  <2>5. P(k + 1, g)
    BY <2>3, <2>4, Zenon DEF IsRun
  <2> QED
    BY <2>5
<1> HIDE DEF S
<1>3. Nat \subseteq S
  BY <1>1, <1>2, SetInduction
<1> QED
  BY <1>3 DEF S

LEMMA ArgumentsRun ==
  ASSUME NEW c, NEW params, NEW args, NEW order, Len(order) \in Nat
  PROVE  \E after :
           /\ after[0] = Start(c, params)
           /\ \A n \in 1..Len(order) : after[n] = Argument(after[n - 1], params, args, order[n])
           /\ convertArgs(c, params, args, order) = after[Len(order)]
<1> DEFINE N == Len(order)
           after == CHOOSE f : IsRun(f, c, params, args, order, N)
<1>1. IsRun(after, c, params, args, order, N)
  BY RunExists, Zenon
<1>2. convertArgs(c, params, args, order) = after[N]
  BY DEF convertArgs, IsRun, Start, Argument
<1> HIDE DEF after
<1>3. after[0] = Start(c, params)
  BY <1>1 DEF IsRun
<1>4. \A n \in 1..N : after[n] = Argument(after[n - 1], params, args, order[n])
  BY <1>1 DEF IsRun
<1> QED
  BY <1>2, <1>3, <1>4

\* A call that has enough arguments
Enough(params, args, order) ==
  /\ params \in Seq(Requests) /\ args \in [1..Len(params) -> Holders]
  /\ order \in Orders(params)

LEMMA OrderFacts ==
  ASSUME NEW params, NEW args, NEW order, Enough(params, args, order)
  PROVE  LET n == Len(params)
         IN  /\ n \in Nat /\ Len(order) = n
             /\ order \in [1..n -> 1..n]
             /\ \A i, j \in 1..n : i # j => order[i] # order[j]
             /\ \A i \in 1..n : \E k \in 1..n : order[k] = i
             /\ \A i \in 1..n : args[i] \in Holders /\ args[i] \in Holder
                                  /\ params[i] \in Requests /\ Asks(params[i])
<1> DEFINE n == Len(params)
<1>1. n \in Nat
  BY DEF Enough
<1>2. IsFiniteSet(1..n) /\ Cardinality(1..n) = n
  BY <1>1, FS_Interval
<1>3. /\ order \in [1..n -> 1..n]
      /\ \A i, j \in 1..n : i # j => order[i] # order[j]
  BY <1>2 DEF Enough, Orders, SetToSeqs
<1>4. order \in Injection(1..n, 1..n)
  BY <1>3 DEF Injection, IsInjective
<1>5. order \in Surjection(1..n, 1..n)
  BY <1>2, <1>4, FS_Injection
<1>6. \A i \in 1..n : \E k \in 1..n : order[k] = i
  BY <1>5 DEF Surjection
<1>7. Len(order) = n
  BY <1>1, <1>3
<1>8. \A i \in 1..n : params[i] \in Requests /\ args[i] \in Holders
  BY DEF Enough
<1>9. \A i \in 1..n : args[i] \in Holder /\ Asks(params[i])
  BY <1>8, CastRulesAssumption DEF Asks
<1> QED
  BY <1>1, <1>3, <1>6, <1>7, <1>8, <1>9

\* What the first k arguments of order leave: x, of a conversion started on c
ArgumentsOk(x, c, params, args, order, k) ==
  /\ Sound(x.cache)
  /\ x.failed \in BOOLEAN /\ x.answers \in [1..Len(params) -> Answer]
  /\ Lost(x.cache) = Lost(c) \union x.refused
  /\ LayoutIndependent /\ Placed(c) => Placed(x.cache)
  /\ ~x.failed =>
       /\ x.refused = {}
       /\ \A j \in 1..k : params[order[j]].mode = "ref" =>
                            ~RefersToConst(args[order[j]], x.answers[order[j]])

(***************************************************************************)
(* Converting one more argument keeps the cache sound, and gives no        *)
(* non-const access unless it fails the call.                              *)
(***************************************************************************)
LEMMA ArgumentKept ==
  ASSUME NEW params, NEW args, NEW order, Enough(params, args, order), NEW c,
         NEW k \in Nat, k + 1 \in 1..Len(params), NEW x, ArgumentsOk(x, c, params, args, order, k),
         NEW y, y = Argument(x, params, args, order[k + 1])
  PROVE  ArgumentsOk(y, c, params, args, order, k + 1)
<1> DEFINE n == Len(params)
           i == order[k + 1]
           h == args[i]
           r == params[i]
           z == convertTo(x.cache, h, r)
           a == [outcome |-> z.outcome, ptr |-> z.ptr]
           b == RefusedBy(h, r.type, ReqConst(r))
<1>1. /\ n \in Nat /\ order \in [1..n -> 1..n] /\ i \in 1..n /\ h \in Holders /\ h \in Holder
      /\ Asks(r) /\ \A p, q \in 1..n : p # q => order[p] # order[q]
  BY OrderFacts
<1>2. /\ Sound(x.cache) /\ x.failed \in BOOLEAN /\ x.answers \in [1..n -> Answer]
      /\ Lost(x.cache) = Lost(c) \union x.refused
      /\ LayoutIndependent /\ Placed(c) => Placed(x.cache)
  BY DEF ArgumentsOk
<1>3. CASE x.failed
  <2>1. y = x
    BY <1>3 DEF Argument, convertArg
  <2> QED
    BY <1>3, <2>1 DEF ArgumentsOk
<1>4. CASE ~x.failed
  <2>1. y = [cache |-> z.cache, failed |-> z.outcome = "failed", refused |-> x.refused \union b,
             answers |-> [x.answers EXCEPT ![i] = a]]
    BY <1>4 DEF Argument, convertArg
  <2>2. /\ Sound(z.cache) /\ a \in Answer
        /\ Lost(z.cache) = Lost(x.cache) \union b
        /\ z.outcome # "failed" => b = {}
        /\ LayoutIndependent /\ Placed(x.cache) => Placed(z.cache)
    <3> DEFINE d == x.cache
    <3>1. Sound(d) /\ h \in Holder /\ Asks(r) /\ z = convertTo(d, h, r)
      BY <1>1, <1>2
    <3> HIDE DEF d, z, h, r
    <3>2. /\ Sound(z.cache) /\ [outcome |-> z.outcome, ptr |-> z.ptr] \in Answer
          /\ Lost(z.cache) = Lost(d) \union RefusedBy(h, r.type, ReqConst(r))
          /\ z.outcome # "failed" => RefusedBy(h, r.type, ReqConst(r)) = {}
          /\ LayoutIndependent /\ Placed(d) => Placed(z.cache)
      BY <3>1, ConvertSound
    <3> QED
      BY <3>2 DEF d
  <2>3. z.outcome # "failed" /\ r.mode = "ref" => ~RefersToConst(h, z)
    BY <1>1, <1>2, ConvertKeepsConst
  <2>4. RefersToConst(h, z) <=> RefersToConst(h, a)
    BY DEF RefersToConst
  <2>5. /\ y.cache = z.cache /\ y.refused = x.refused \union b
        /\ y.failed = (z.outcome = "failed")
        /\ y.answers = [x.answers EXCEPT ![i] = a]
    BY <2>1
  <2>6. /\ x.refused = {}
        /\ \A j \in 1..k : params[order[j]].mode = "ref" =>
                             ~RefersToConst(args[order[j]], x.answers[order[j]])
    BY <1>4 DEF ArgumentsOk
  <2> DEFINE l == k + 1
  <2>7. l \in 1..n /\ 1..l = 1..k \union {l} /\ l \notin 1..k /\ 1..k \subseteq 1..n
    BY <1>1
  <2>8. i = order[l]
    OBVIOUS
  <2> HIDE DEF z, a, b, h, r, n, i, l
  <2>9. y.answers \in [1..n -> Answer] /\ y.answers[i] = a
        /\ \A j \in 1..n : j # i => y.answers[j] = x.answers[j]
    BY <1>1, <1>2, <2>2, <2>5
  <2>10. ASSUME ~y.failed, NEW j \in 1..l, params[order[j]].mode = "ref"
         PROVE  ~RefersToConst(args[order[j]], y.answers[order[j]])
    <3>1. CASE j = l
      BY <2>3, <2>4, <2>5, <2>8, <2>9, <2>10, <3>1 DEF h, r
    <3>2. CASE j \in 1..k
      <4>1. j # l /\ j \in 1..n /\ order[j] # i /\ order[j] \in 1..n
        BY <1>1, <2>7, <2>8, <3>2
      <4>2. y.answers[order[j]] = x.answers[order[j]]
        BY <2>9, <4>1
      <4> QED
        BY <2>6, <2>10, <3>2, <4>2
    <3> QED
      BY <2>7, <2>10, <3>1, <3>2
  <2>11. /\ Sound(y.cache) /\ y.failed \in BOOLEAN
         /\ Lost(y.cache) = Lost(c) \union y.refused
         /\ LayoutIndependent /\ Placed(c) => Placed(y.cache)
         /\ ~y.failed => y.refused = {}
    BY <1>2, <2>2, <2>5, <2>6
  <2>12. ArgumentsOk(y, c, params, args, order, l)
    BY <2>9, <2>10, <2>11 DEF ArgumentsOk, n
  <2> QED
    BY <2>12 DEF l
<1> QED
  BY <1>2, <1>3, <1>4

LEMMA StartOk ==
  ASSUME NEW params, NEW args, NEW order, Enough(params, args, order), NEW c, Sound(c)
  PROVE  ArgumentsOk(Start(c, params), c, params, args, order, 0)
<1>1. Len(params) \in Nat /\ Nothing \in Answer
  BY OrderFacts DEF Nothing, Answer
<1>2. [i \in 1..Len(params) |-> Nothing] \in [1..Len(params) -> Answer]
  BY <1>1
<1>3. 1..0 = {}
  OBVIOUS
<1> QED
  BY <1>2, <1>3 DEF ArgumentsOk, Start

(***************************************************************************)
(* All arguments of a call.                                                *)
(***************************************************************************)
LEMMA ArgumentsConverted ==
  ASSUME NEW params, NEW args, NEW order, Enough(params, args, order), NEW c, Sound(c)
  PROVE  ArgumentsOk(convertArgs(c, params, args, order), c, params, args, order, Len(params))
<1> DEFINE n == Len(params)
<1>1. n \in Nat /\ Len(order) = n
  BY OrderFacts
<1>2. PICK after : /\ after[0] = Start(c, params)
                   /\ \A k \in 1..n : after[k] = Argument(after[k - 1], params, args, order[k])
                   /\ convertArgs(c, params, args, order) = after[n]
  BY <1>1, ArgumentsRun
<1> DEFINE S == {k \in Nat : k <= n => ArgumentsOk(after[k], c, params, args, order, k)}
<1>3. 0 \in S
  BY <1>1, <1>2, StartOk
<1>4. ASSUME NEW k \in Nat, k \in S PROVE k + 1 \in S
  <2>1. CASE k + 1 <= n
    <3>1. k + 1 \in 1..n /\ ArgumentsOk(after[k], c, params, args, order, k) /\ (k + 1) - 1 = k
      BY <1>1, <1>4, <2>1
    <3>2. after[k + 1] = Argument(after[k], params, args, order[k + 1])
      BY <1>2, <3>1
    <3>3. ArgumentsOk(after[k + 1], c, params, args, order, k + 1)
      BY <3>1, <3>2, ArgumentKept
    <3> QED
      BY <3>3
  <2>2. CASE ~(k + 1 <= n)
    BY <2>2
  <2> QED
    BY <2>1, <2>2
<1> HIDE DEF S
<1>5. Nat \subseteq S
  BY <1>3, <1>4, SetInduction
<1> QED
  BY <1>1, <1>2, <1>5 DEF S

Reply(x) == [outcome |-> x.outcome, ptr |-> x.ptr]

\* A conversion on the cache the arguments start from, whatever comes before it
Alone(c, h, r) == Reply(convertTo(c, h, r))

\* What the first k arguments leave: a failure if one of them fails alone, and
\* otherwise what each gets alone and the verdicts of their questions
ArgumentsAlone(x, c, params, args, order, k) ==
  IF \A j \in 1..k : Alone(c, args[order[j]], params[order[j]]).outcome # "failed"
    THEN /\ ~x.failed
         /\ x.cache = Fill(c, UNION {Asked(c, args[order[j]], params[order[j]]) : j \in 1..k})
         /\ \A j \in 1..k : x.answers[order[j]] = Alone(c, args[order[j]], params[order[j]])
  ELSE x.failed

LEMMA ArgumentAlone ==
  ASSUME LayoutIndependent, NEW params, NEW args, NEW order, Enough(params, args, order),
         NEW c, Sound(c), Placed(c), NEW k \in Nat, k + 1 \in 1..Len(params),
         NEW x, ArgumentsOk(x, c, params, args, order, k),
         ArgumentsAlone(x, c, params, args, order, k),
         NEW y, y = Argument(x, params, args, order[k + 1])
  PROVE  ArgumentsAlone(y, c, params, args, order, k + 1)
<1> DEFINE n == Len(params)
           l == k + 1
           i == order[l]
           h == args[i]
           r == params[i]
           z == convertTo(x.cache, h, r)
           Q(j) == Asked(c, args[order[j]], params[order[j]])
           One(j) == Alone(c, args[order[j]], params[order[j]])
           A == UNION {Q(j) : j \in 1..k}
<1>0. /\ n \in Nat /\ order \in [1..n -> 1..n]
      /\ \A p, q \in 1..n : p # q => order[p] # order[q]
      /\ \A p \in 1..n : args[p] \in Holder /\ Asks(params[p])
  BY OrderFacts
<1>1. /\ n \in Nat /\ order \in [1..n -> 1..n] /\ i \in 1..n /\ h \in Holder
      /\ Asks(r) /\ \A p, q \in 1..n : p # q => order[p] # order[q]
  BY <1>0
<1>2. l \in 1..n /\ 1..l = 1..k \union {l} /\ l \notin 1..k /\ 1..k \subseteq 1..n
  BY <1>1
<1>3. x.answers \in [1..n -> Answer] /\ x.failed \in BOOLEAN
  BY DEF ArgumentsOk
<1>4. CASE x.failed
  <2>1. y = x
    BY <1>4 DEF Argument, convertArg
  <2>2. ~ \A j \in 1..k : One(j).outcome # "failed"
    BY <1>4 DEF ArgumentsAlone
  <2> HIDE DEF l
  <2>3. ~ \A j \in 1..l : One(j).outcome # "failed"
    BY <1>2, <2>2
  <2>4. ArgumentsAlone(y, c, params, args, order, l)
    BY <1>4, <2>1, <2>3 DEF ArgumentsAlone
  <2> QED
    BY <2>4 DEF l
<1>5. CASE ~x.failed
  <2>1. /\ \A j \in 1..k : One(j).outcome # "failed"
        /\ x.cache = Fill(c, A)
        /\ \A j \in 1..k : x.answers[order[j]] = One(j)
    BY <1>5 DEF ArgumentsAlone
  <2>2. /\ y.cache = z.cache /\ y.failed = (z.outcome = "failed")
        /\ y.answers = [x.answers EXCEPT ![i] = [outcome |-> z.outcome, ptr |-> z.ptr]]
    BY <1>5 DEF Argument, convertArg
  <2>3. /\ z.outcome = One(l).outcome /\ z.ptr = One(l).ptr
        /\ One(l).outcome # "failed" => z.cache = Fill(c, A \union Q(l))
    <3> DEFINE w == convertTo(c, h, r)
    <3>1. w = convertTo(c, h, r) /\ z = convertTo(Fill(c, A), h, r) /\ Asks(r) /\ h \in Holder
      BY <1>1, <2>1
    <3>2. One(l).outcome = w.outcome /\ One(l).ptr = w.ptr /\ Q(l) = Asked(c, h, r)
      BY DEF Alone, Reply
    <3> HIDE DEF z, A, h, r, w, One, Q
    <3>3. /\ z.outcome = w.outcome /\ z.ptr = w.ptr
          /\ w.outcome # "failed" => z.cache = Fill(c, A \union Asked(c, h, r))
      BY <3>1, ConvertFilled
    <3> QED
      BY <3>2, <3>3
  <2>4. [outcome |-> z.outcome, ptr |-> z.ptr] = One(l)
    BY <2>3 DEF Alone, Reply
  <2>5. UNION {Q(j) : j \in 1..l} = A \union Q(l)
    <3> HIDE DEF l, Q
    <3> QED
      BY <1>2
  <2>6. i = order[l]
    OBVIOUS
  <2> HIDE DEF l, z, h, r, n, i
  <2>7. CASE One(l).outcome # "failed"
    <3>1. \A j \in 1..l : One(j).outcome # "failed"
      BY <1>2, <2>1, <2>7
    <3>2. ~y.failed /\ y.cache = Fill(c, UNION {Q(j) : j \in 1..l})
      <4> HIDE DEF One, Q, A
      <4> QED
        BY <2>2, <2>3, <2>5, <2>7
    <3>3. y.answers[i] = One(l) /\ \A j \in 1..n : j # i => y.answers[j] = x.answers[j]
      BY <1>1, <1>3, <2>2, <2>4
    <3>4. \A j \in 1..l : y.answers[order[j]] = One(j)
      <4> TAKE j \in 1..l
      <4>1. CASE j = l
        BY <2>6, <3>3, <4>1
      <4>2. CASE j \in 1..k
        <5>1. order[j] # i /\ order[j] \in 1..n
          BY <1>1, <1>2, <2>6, <4>2
        <5> QED
          BY <2>1, <3>3, <4>2, <5>1
      <4> QED
        BY <1>2, <4>1, <4>2
    <3>5. ArgumentsAlone(y, c, params, args, order, l)
      BY <3>1, <3>2, <3>4 DEF ArgumentsAlone
    <3> QED
      BY <3>5 DEF l
  <2>8. CASE One(l).outcome = "failed"
    <3>1. ~ \A j \in 1..l : One(j).outcome # "failed"
      BY <1>2, <2>8
    <3>2. y.failed
      BY <2>2, <2>3, <2>8
    <3>3. ArgumentsAlone(y, c, params, args, order, l)
      BY <3>1, <3>2 DEF ArgumentsAlone
    <3> QED
      BY <3>3 DEF l
  <2> QED
    BY <2>7, <2>8
<1> QED
  BY <1>3, <1>4, <1>5

(***************************************************************************)
(* All arguments of a call, in terms that know nothing of their order.     *)
(***************************************************************************)
OrderFree(x, c, params, args) ==
  IF \A i \in 1..Len(params) : Alone(c, args[i], params[i]).outcome # "failed"
    THEN /\ ~x.failed /\ x.refused = {}
         /\ x.cache = Fill(c, UNION {Asked(c, args[i], params[i]) : i \in 1..Len(params)})
         /\ x.answers = [i \in 1..Len(params) |-> Alone(c, args[i], params[i])]
  ELSE x.failed

LEMMA OrderUnseen ==
  ASSUME LayoutIndependent, NEW params, NEW args, NEW order, Enough(params, args, order),
         NEW c, Sound(c), Placed(c)
  PROVE  OrderFree(convertArgs(c, params, args, order), c, params, args)
<1> DEFINE n == Len(params)
<1>1. n \in Nat /\ Len(order) = n /\ order \in [1..n -> 1..n]
      /\ \A i \in 1..n : \E k \in 1..n : order[k] = i
  BY OrderFacts
<1>2. PICK after : /\ after[0] = Start(c, params)
                   /\ \A k \in 1..n : after[k] = Argument(after[k - 1], params, args, order[k])
                   /\ convertArgs(c, params, args, order) = after[n]
  <2>1. \E after : /\ after[0] = Start(c, params)
                   /\ \A k \in 1..Len(order) :
                        after[k] = Argument(after[k - 1], params, args, order[k])
                   /\ convertArgs(c, params, args, order) = after[Len(order)]
    <3>1. Len(order) \in Nat
      BY <1>1
    <3> QED
      BY <3>1, ArgumentsRun
  <2>2. Len(order) = n
    BY <1>1
  <2> QED
    BY <2>1, <2>2
<1> DEFINE x == convertArgs(c, params, args, order)
           S == {k \in Nat : k <= n => /\ ArgumentsOk(after[k], c, params, args, order, k)
                                       /\ ArgumentsAlone(after[k], c, params, args, order, k)}
<1>3. 0 \in S
  <2>1. ArgumentsOk(after[0], c, params, args, order, 0)
    BY <1>2, StartOk
  <2>2. 1..0 = {} /\ Fill(c, {}) = c
    BY FillNothing DEF Sound
  <2>3. UNION {Asked(c, args[order[j]], params[order[j]]) : j \in 1..0} = {}
    BY <2>2
  <2>4. ~after[0].failed /\ after[0].cache = c
    BY <1>2 DEF Start
  <2>5. ArgumentsAlone(after[0], c, params, args, order, 0)
    BY <2>2, <2>3, <2>4 DEF ArgumentsAlone
  <2> QED
    BY <2>1, <2>5
<1>4. ASSUME NEW k \in Nat, k \in S PROVE k + 1 \in S
  <2>1. CASE k + 1 <= n
    <3>1. /\ k + 1 \in 1..n /\ (k + 1) - 1 = k
          /\ ArgumentsOk(after[k], c, params, args, order, k)
          /\ ArgumentsAlone(after[k], c, params, args, order, k)
      BY <1>1, <1>4, <2>1
    <3>2. after[k + 1] = Argument(after[k], params, args, order[k + 1])
      BY <1>2, <3>1
    <3>3. ArgumentsOk(after[k + 1], c, params, args, order, k + 1)
      BY <3>1, <3>2, ArgumentKept
    <3>4. ArgumentsAlone(after[k + 1], c, params, args, order, k + 1)
      BY <3>1, <3>2, ArgumentAlone, LayoutIndependent
    <3> QED
      BY <3>3, <3>4
  <2>2. CASE ~(k + 1 <= n)
    BY <2>2
  <2> QED
    BY <2>1, <2>2
<1> HIDE DEF S
<1>5. Nat \subseteq S
  BY <1>3, <1>4, SetInduction
<1>6. ArgumentsOk(x, c, params, args, order, n) /\ ArgumentsAlone(x, c, params, args, order, n)
  BY <1>1, <1>2, <1>5 DEF S
<1> HIDE DEF x
<1> DEFINE One(i) == Alone(c, args[i], params[i])
           Q(i) == Asked(c, args[i], params[i])
<1>7. (\A j \in 1..n : One(order[j]).outcome # "failed")
        <=> \A i \in 1..n : One(i).outcome # "failed"
  <2> HIDE DEF One, n
  <2> QED
    BY <1>1
<1>8. CASE \A i \in 1..n : One(i).outcome # "failed"
  <2>1. /\ ~x.failed
        /\ x.cache = Fill(c, UNION {Q(order[j]) : j \in 1..n})
        /\ \A j \in 1..n : x.answers[order[j]] = One(order[j])
    BY <1>6, <1>7, <1>8 DEF ArgumentsAlone
  <2>2. x.refused = {} /\ x.answers \in [1..n -> Answer]
    BY <1>6, <2>1 DEF ArgumentsOk
  <2>3. {Q(order[j]) : j \in 1..n} = {Q(i) : i \in 1..n}
    <3> HIDE DEF Q, n
    <3> QED
      BY <1>1
  <2>4. \A i \in 1..n : x.answers[i] = One(i)
    <3> HIDE DEF One, n
    <3> QED
      BY <1>1, <2>1
  <2>5. x.answers = [i \in 1..n |-> One(i)]
    <3> HIDE DEF One, n
    <3> QED
      BY <2>2, <2>4
  <2> QED
    BY <1>8, <2>1, <2>2, <2>3, <2>5 DEF OrderFree, x
<1>9. CASE ~ \A i \in 1..n : One(i).outcome # "failed"
  <2>1. x.failed
    BY <1>6, <1>7, <1>9 DEF ArgumentsAlone
  <2> QED
    BY <1>9, <2>1 DEF OrderFree, x
<1> QED
  BY <1>8, <1>9

-----------------------------------------------------------------------------
(* A call                                                                   *)

Denials == {"insufficientArguments", "noObject", "constVariant", "volatileVariant"}

Unbound == {"wrongType", "constObject"}

Returns(x, outcome, answer, args, refusals, c) ==
  /\ x.cache = c /\ x.refused = refusals
  /\ x.result = [outcome |-> outcome, answer |-> answer, args |-> args,
                 const |-> FALSE, unread |-> FALSE]

\* What verifyObject refused
Refusals(t, m, h) ==
  IF t.outcome = "wrongType" THEN {} ELSE RefusedBy(h, m.clazz, m.const)

\* The body runs, or an argument fails
Body(x, answer, refusals, conv) ==
  Returns(x, IF conv.failed THEN "argument" ELSE "ran", answer, conv.answers,
          refusals \union conv.refused, conv.cache)

\* A call that the program can make
Callable(m, via, h, args, order) ==
  /\ m \in Callables /\ via \in Vias /\ h \in Holders \union {NoObject}
  /\ via = "none" <=> h = NoObject
  /\ args \in ArgLists(m) /\ order \in Orders(m.params)

\* What a call does, its cases one after the other
CallIs(x, c, m, via, h, args, order, t) ==
  IF Denied(m, via, args) # "no"
    THEN /\ Denied(m, via, args) \in Denials
         /\ Returns(x, Denied(m, via, args), Nothing, <<>>, {}, c)
  ELSE /\ Enough(m.params, args, order)
       /\ m.kind = "method" => h \in Holders /\ (~m.const => via \notin ConstVia)
       /\ IF m.kind = "abstract" THEN Returns(x, "abstract", Nothing, <<>>, {}, c)
          ELSE IF m.kind # "method" THEN Body(x, Nothing, {}, convertArgs(c, m.params, args, order))
          ELSE IF t.outcome \in Unbound THEN Returns(x, t.outcome, Reply(t), <<>>, Refusals(t, m, h), t.cache)
          ELSE Body(x, Reply(t), Refusals(t, m, h), convertArgs(t.cache, m.params, args, order))

LEMMA FailedReturns ==
  ASSUME NEW o, NEW t, NEW args, NEW r, NEW c, NEW x, x = Failed(o, t, args, r, c)
  PROVE  Returns(x, o, Reply(t), args, r, c)
BY DEF Failed, Outcome, Returns, Reply

LEMMA NothingReply ==
  Reply(Nothing) = Nothing
BY DEF Reply, Nothing

LEMMA CallCases ==
  ASSUME NEW m, NEW via, NEW h, NEW args, NEW order, Callable(m, via, h, args, order),
         NEW c, NEW x, x = call(c, m, via, h, args, order)
  PROVE  CallIs(x, c, m, via, h, args, order, receiver(c, m, h))
<1> DEFINE t == receiver(c, m, h)
<1>1. m.kind \in Kinds /\ m.params \in Seq(Requests)
  BY InvocationAssumption DEF Callable
<1>2. CASE Denied(m, via, args) # "no"
  <2>1. x = Failed(Denied(m, via, args), Nothing, <<>>, {}, c)
    BY <1>2 DEF call
  <2>2. Denied(m, via, args) \in Denials
    BY <1>2 DEF Denied, Denials
  <2>3. Returns(x, Denied(m, via, args), Reply(Nothing), <<>>, {}, c)
    BY <2>1, FailedReturns
  <2>4. Returns(x, Denied(m, via, args), Nothing, <<>>, {}, c)
    BY <2>3, NothingReply
  <2> QED
    BY <1>2, <2>2, <2>4 DEF CallIs
<1>3. CASE Denied(m, via, args) = "no"
  <2>1. ~(Len(args) < Len(m.params)) /\ (m.kind = "method" => via # "none")
        /\ (via \in ConstVia => m.const)
    BY <1>3 DEF Denied
  <2>2. Enough(m.params, args, order)
    <3>1. PICK n \in 0..Len(m.params) : args \in [1..n -> Holders]
      BY DEF Callable, ArgLists
    <3>2. Len(m.params) \in Nat
      BY <1>1
    <3>3. Len(args) = n
      BY <3>1, <3>2
    <3>4. n = Len(m.params)
      BY <2>1, <3>1, <3>2, <3>3
    <3> QED
      BY <1>1, <3>1, <3>4 DEF Enough, Callable
  <2>3. m.kind = "method" => h \in Holders
    BY <2>1 DEF Callable
  <2>4. CASE m.kind # "method"
    <3>1. x = bindFunction(c, m, args, order)
      BY <1>3, <2>4 DEF call
    <3>3. CASE m.kind = "abstract"
      <4>1. Returns(x, "abstract", Nothing, <<>>, {}, c)
        <5>1. x = Failed("abstract", Nothing, <<>>, {}, c)
          BY <3>1, <3>3 DEF bindFunction
        <5> QED
          BY <5>1, FailedReturns, NothingReply
      <4> QED
        BY <1>3, <2>2, <2>4, <3>3, <4>1 DEF CallIs
    <3>4. CASE m.kind # "abstract"
      <4> DEFINE conv == convertArgs(c, m.params, args, order)
      <4>1. x = body(Nothing, {}, conv)
        BY <3>1, <3>4 DEF bindFunction
      <4> HIDE DEF conv
      <4>2. Body(x, Nothing, {}, conv)
        <5>1. Body(x, Reply(Nothing), {}, conv)
          BY <4>1, FailedReturns DEF body, Body
        <5> QED
          BY <5>1, NothingReply
      <4> QED
        BY <1>3, <2>2, <2>4, <3>4, <4>2 DEF CallIs, conv
    <3> QED
      BY <3>3, <3>4
  <2>5. CASE m.kind = "method"
    <3> DEFINE conv == convertArgs(t.cache, m.params, args, order)
    <3>1. x = bindReceiver(t, m, h, args, order)
      BY <1>3, <2>5 DEF call, bindMethod
    <3> HIDE DEF t
    <3>2. CASE t.outcome \in Unbound
      <4>1. x = Failed(t.outcome, t, <<>>, Refusals(t, m, h), t.cache)
        BY <3>1, <3>2 DEF bindReceiver, Unbound, Refusals
      <4>2. Returns(x, t.outcome, Reply(t), <<>>, Refusals(t, m, h), t.cache)
        BY <4>1, FailedReturns
      <4>3. CallIs(x, c, m, via, h, args, order, t)
        BY <1>3, <2>1, <2>2, <2>3, <2>5, <3>2, <4>2 DEF CallIs
      <4> QED
        BY <4>3 DEF t
    <3>3. CASE t.outcome \notin Unbound
      <4>1. x = body(t, Refusals(t, m, h), conv)
        BY <3>1, <3>3 DEF bindReceiver, Unbound, Refusals
      <4> HIDE DEF conv
      <4>2. Body(x, Reply(t), Refusals(t, m, h), conv)
        BY <4>1, FailedReturns DEF body, Body
      <4>3. CallIs(x, c, m, via, h, args, order, t)
        BY <1>3, <2>1, <2>2, <2>3, <2>5, <3>3, <4>2 DEF CallIs, conv
      <4> QED
        BY <4>3 DEF t
    <3> QED
      BY <3>2, <3>3
  <2> QED
    BY <2>4, <2>5
<1> QED
  BY <1>2, <1>3

\* What ReceiverSound says of the receiver of a method
ReceiverOk(t, c, m, h) ==
  /\ Sound(t.cache) /\ Reply(t) \in Answer
  /\ Lost(t.cache) = Lost(c) \union Refusals(t, m, h)
  /\ t.outcome \notin Unbound => Refusals(t, m, h) = {} /\ (~m.const => ~RefersToConst(h, t))
  /\ LayoutIndependent /\ Placed(c) =>
       /\ Placed(t.cache)
       /\ ScalarsAreNoBases /\ t.outcome \notin Unbound =>
            Reply(t) = OracleVerify(h, m.clazz, m.const)
       /\ t.outcome \in Unbound =>
            \/ OracleVerify(h, m.clazz, m.const).outcome = t.outcome
            \/ h.type # m.clazz /\ <<m.clazz, h.type>> \in Lost(c)

LEMMA ReceiverFacts ==
  ASSUME NEW m \in Callables, NEW h \in Holders, NEW c, Sound(c),
         NEW t, t = receiver(c, m, h)
  PROVE  ReceiverOk(t, c, m, h)
<1> DEFINE clazz == m.clazz
           b == m.const
<1>1. clazz \in Types \ (Strings \union PointersToConst) /\ b \in BOOLEAN
  BY InvocationAssumption
<1>2. t = verifyObject(c, h, clazz, b)
  BY DEF receiver
<1> HIDE DEF clazz, b
<1>3. LET lost == IF t.outcome = "wrongType" THEN {} ELSE RefusedBy(h, clazz, b)
          ran  == t.outcome \notin {"wrongType", "constObject"}
      IN  /\ Sound(t.cache)
          /\ [outcome |-> t.outcome, ptr |-> t.ptr] \in Answer
          /\ Lost(t.cache) = Lost(c) \union lost
          /\ ran => lost = {} /\ (~b => ~RefersToConst(h, t))
          /\ LayoutIndependent /\ Placed(c) =>
               /\ Placed(t.cache)
               /\ ScalarsAreNoBases /\ ran =>
                    [outcome |-> t.outcome, ptr |-> t.ptr] = OracleVerify(h, clazz, b)
               /\ ~ran => \/ OracleVerify(h, clazz, b).outcome = t.outcome
                          \/ h.type # clazz /\ <<clazz, h.type>> \in Lost(c)
  BY <1>1, <1>2, ReceiverSound
<1> QED
  BY <1>3 DEF ReceiverOk, Reply, Refusals, Unbound, clazz, b

(***************************************************************************)
(* A call, or an access, keeps the cache sound; what the run may see of it *)
(* is a result of its type.                                                *)
(***************************************************************************)
StepOk(x, c) ==
  /\ Sound(x.cache) /\ x.result \in Result
  /\ Lost(x.cache) = Lost(c) \union x.refused
  /\ LayoutIndependent /\ Placed(c) => Placed(x.cache)

LEMMA ReturnsOk ==
  ASSUME NEW o \in Outcomes, NEW a \in Answer, NEW args \in Seq(Answer), NEW r, NEW c, NEW d,
         NEW x, Returns(x, o, a, args, r, d), Sound(d), Lost(d) = Lost(c) \union r,
         LayoutIndependent /\ Placed(c) => Placed(d)
  PROVE  StepOk(x, c)
<1>1. x.result \in Result
  BY DEF Returns, Result
<1> QED
  BY <1>1 DEF Returns, StepOk

\* No body that runs got non-const access to a const object
ArgumentsConst(x, m, args) ==
  x.result.outcome = "ran" =>
    \A i \in 1..Len(m.params) :
      m.params[i].mode = "ref" => ~RefersToConst(args[i], x.result.args[i])

CallConst(x, m, via, h, args) ==
  /\ ArgumentsConst(x, m, args)
  /\ x.result.outcome = "ran" /\ m.kind = "method" /\ ~m.const =>
       via \notin ConstVia /\ ~RefersToConst(h, x.result.answer)

LEMMA BodyOk ==
  ASSUME NEW m, NEW args, NEW order, Enough(m.params, args, order), NEW c, NEW d, Sound(d),
         NEW a \in Answer, NEW r, Lost(d) = Lost(c) \union r,
         LayoutIndependent /\ Placed(c) => Placed(d),
         NEW x, Body(x, a, r, convertArgs(d, m.params, args, order))
  PROVE  StepOk(x, c) /\ ArgumentsConst(x, m, args)
<1> DEFINE n == Len(m.params)
           v == convertArgs(d, m.params, args, order)
           o == IF v.failed THEN "argument" ELSE "ran"
<1>1. ArgumentsOk(v, d, m.params, args, order, n)
  BY ArgumentsConverted
<1>2. n \in Nat /\ order \in [1..n -> 1..n] /\ \A i \in 1..n : \E k \in 1..n : order[k] = i
  BY OrderFacts
<1> HIDE DEF v
<1>3. /\ Sound(v.cache) /\ v.failed \in BOOLEAN /\ v.answers \in [1..n -> Answer]
      /\ Lost(v.cache) = Lost(d) \union v.refused
      /\ LayoutIndependent /\ Placed(d) => Placed(v.cache)
      /\ ~v.failed => \A j \in 1..n : m.params[order[j]].mode = "ref" =>
                        ~RefersToConst(args[order[j]], v.answers[order[j]])
  BY <1>1 DEF ArgumentsOk
<1>4. Returns(x, o, a, v.answers, r \union v.refused, v.cache)
  BY DEF Body, v
<1>5. v.answers \in Seq(Answer) /\ o \in Outcomes
  <2>1. v.answers \in Seq(Answer)
    <3> HIDE DEF n
    <3> QED
      BY <1>2, <1>3
  <2>2. o \in Outcomes
    BY DEF Outcomes
  <2> QED
    BY <2>1, <2>2
<1>6. Lost(v.cache) = Lost(c) \union (r \union v.refused)
  BY <1>3
<1>7. LayoutIndependent /\ Placed(c) => Placed(v.cache)
  BY <1>3
<1>8. /\ x.result.outcome = o /\ x.result.answer = a /\ x.result.args = v.answers
  BY <1>4 DEF Returns
<1>9. StepOk(x, c)
  <2> HIDE DEF o
  <2>1. /\ v.answers \in Seq(Answer) /\ o \in Outcomes /\ Sound(v.cache)
        /\ Lost(v.cache) = Lost(c) \union (r \union v.refused)
    BY <1>3, <1>5, <1>6
  <2> DEFINE e == v.cache
             s == r \union v.refused
             w == v.answers
  <2>2. /\ w \in Seq(Answer) /\ o \in Outcomes /\ Sound(e) /\ Lost(e) = Lost(c) \union s
        /\ Returns(x, o, a, w, s, e)
        /\ LayoutIndependent /\ Placed(c) => Placed(e)
    BY <1>4, <1>7, <2>1
  <2> HIDE DEF e, s, w
  <2> QED
    BY <2>2, ReturnsOk
<1>10. ASSUME x.result.outcome = "ran", NEW i \in 1..n, m.params[i].mode = "ref"
       PROVE  ~RefersToConst(args[i], x.result.args[i])
  <2>1. ~v.failed
    BY <1>8, <1>10
  <2>2. PICK j \in 1..n : order[j] = i
    BY <1>2
  <2> QED
    BY <1>3, <1>8, <1>10, <2>1, <2>2
<1> QED
  BY <1>8, <1>9, <1>10 DEF ArgumentsConst

LEMMA CallKept ==
  ASSUME NEW m, NEW via, NEW h, NEW args, NEW order, Callable(m, via, h, args, order),
         NEW c, Sound(c), NEW x, x = call(c, m, via, h, args, order)
  PROVE  StepOk(x, c) /\ CallConst(x, m, via, h, args)
<1> DEFINE t == receiver(c, m, h)
<1>1. CallIs(x, c, m, via, h, args, order, t)
  BY CallCases
<1>2. m \in Callables
  BY DEF Callable
<1>3. Nothing \in Answer /\ <<>> \in Seq(Answer)
  BY DEF Nothing, Answer
<1>4. h \in Holders => ReceiverOk(t, c, m, h)
  BY <1>2, ReceiverFacts
<1> HIDE DEF t
<1>5. ASSUME NEW o \in Outcomes, o # "ran", Returns(x, o, Nothing, <<>>, {}, c)
      PROVE  StepOk(x, c) /\ CallConst(x, m, via, h, args)
  <2>1. Lost(c) = Lost(c) \union {}
    OBVIOUS
  <2>2. StepOk(x, c)
    BY <1>3, <1>5, <2>1, ReturnsOk
  <2> QED
    BY <1>5, <2>2 DEF Returns, CallConst, ArgumentsConst
<1>6. CASE Denied(m, via, args) # "no"
  <2> DEFINE o == Denied(m, via, args)
  <2>1. o \in Denials /\ Returns(x, o, Nothing, <<>>, {}, c)
    BY <1>1, <1>6 DEF CallIs
  <2> HIDE DEF o
  <2>2. o \in Outcomes /\ o # "ran"
    BY <2>1 DEF Denials, Outcomes
  <2> QED
    BY <1>5, <2>1, <2>2
<1>7. CASE Denied(m, via, args) = "no"
  <2>1. /\ Enough(m.params, args, order)
        /\ m.kind = "method" => h \in Holders /\ (~m.const => via \notin ConstVia)
    BY <1>1, <1>7 DEF CallIs
  <2>2. CASE m.kind = "abstract"
    <3>1. Returns(x, "abstract", Nothing, <<>>, {}, c)
      BY <1>1, <1>7, <2>2 DEF CallIs
    <3>2. "abstract" \in Outcomes
      BY DEF Outcomes
    <3> QED
      BY <1>5, <3>1, <3>2
  <2>3. CASE m.kind \notin {"abstract", "method"}
    <3>1. Body(x, Nothing, {}, convertArgs(c, m.params, args, order))
      BY <1>1, <1>7, <2>3 DEF CallIs
    <3>2. Lost(c) = Lost(c) \union {}
      OBVIOUS
    <3>3. StepOk(x, c) /\ ArgumentsConst(x, m, args)
      BY <1>3, <2>1, <3>1, <3>2, BodyOk
    <3> QED
      BY <2>3, <3>3 DEF CallConst
  <2>4. CASE m.kind = "method" /\ t.outcome \in Unbound
    <3>1. Returns(x, t.outcome, Reply(t), <<>>, Refusals(t, m, h), t.cache)
      BY <1>1, <1>7, <2>4 DEF CallIs
    <3>2. ReceiverOk(t, c, m, h)
      BY <1>4, <2>1, <2>4
    <3> DEFINE d == t.cache
               s == Refusals(t, m, h)
               a == Reply(t)
               o == t.outcome
    <3>3. /\ Sound(d) /\ a \in Answer /\ Lost(d) = Lost(c) \union s /\ o \in Outcomes
          /\ LayoutIndependent /\ Placed(c) => Placed(d)
      <4>1. o \in Outcomes
        BY <2>4 DEF Unbound, Outcomes
      <4> QED
        BY <3>2, <4>1 DEF ReceiverOk
    <3>4. Returns(x, o, a, <<>>, s, d)
      BY <3>1
    <3> HIDE DEF d, s, a, o
    <3>5. StepOk(x, c)
      BY <1>3, <3>3, <3>4, ReturnsOk
    <3> QED
      BY <2>4, <3>1, <3>5 DEF Returns, CallConst, ArgumentsConst, Unbound
  <2>5. CASE m.kind = "method" /\ t.outcome \notin Unbound
    <3>1. Body(x, Reply(t), Refusals(t, m, h), convertArgs(t.cache, m.params, args, order))
      BY <1>1, <1>7, <2>5 DEF CallIs
    <3>2. ReceiverOk(t, c, m, h)
      BY <1>4, <2>1, <2>5
    <3> DEFINE d == t.cache
               s == Refusals(t, m, h)
               a == Reply(t)
    <3>3. /\ Sound(d) /\ a \in Answer /\ Lost(d) = Lost(c) \union s
          /\ LayoutIndependent /\ Placed(c) => Placed(d)
      BY <3>2 DEF ReceiverOk
    <3>4. Body(x, a, s, convertArgs(d, m.params, args, order))
      BY <3>1
    <3> HIDE DEF d, s, a
    <3>5. StepOk(x, c) /\ ArgumentsConst(x, m, args)
      <4>1. StepOk(x, c)
        BY <2>1, <3>3, <3>4, BodyOk
      <4>2. ArgumentsConst(x, m, args)
        BY <2>1, <3>3, <3>4, BodyOk
      <4> QED
        BY <4>1, <4>2
    <3>6. x.result.answer = a
      BY <3>4 DEF Body, Returns
    <3>7. ~m.const => ~RefersToConst(h, t)
      BY <2>5, <3>2 DEF ReceiverOk
    <3>8. RefersToConst(h, t) <=> RefersToConst(h, a)
      BY DEF RefersToConst, a, Reply
    <3> QED
      BY <2>1, <2>5, <3>5, <3>6, <3>7, <3>8 DEF CallConst
  <2> QED
    BY <2>2, <2>3, <2>4, <2>5
<1> QED
  BY <1>6, <1>7

(***************************************************************************)
(* The arguments of a body that runs are what the casts give; one that     *)
(* fails the call is refused by the casts, or was lost before the call.    *)
(***************************************************************************)
LEMMA ArgumentsRight ==
  ASSUME LayoutIndependent, NEW params, NEW args, NEW order, Enough(params, args, order),
         NEW c, Sound(c), Placed(c), NEW v, v = convertArgs(c, params, args, order)
  PROVE  /\ ScalarsAreNoBases /\ ~v.failed =>
              \A i \in 1..Len(params) : v.answers[i] = OracleConvertTo(args[i], params[i])
         /\ v.failed => \E i \in 1..Len(params) :
              \/ OracleConvertTo(args[i], params[i]).outcome = "failed"
              \/ args[i].type # params[i].type /\ <<params[i].type, args[i].type>> \in Lost(c)
<1> DEFINE n == Len(params)
<1>1. \A i \in 1..n : args[i] \in Holder /\ Asks(params[i])
  BY OrderFacts
<1>2. OrderFree(v, c, params, args)
  BY OrderUnseen
<1>3. ASSUME ScalarsAreNoBases, ~v.failed, NEW i \in 1..n
      PROVE  v.answers[i] = OracleConvertTo(args[i], params[i])
  <2>1. v.answers[i] = Alone(c, args[i], params[i]) /\ Alone(c, args[i], params[i]).outcome # "failed"
    BY <1>2, <1>3 DEF OrderFree
  <2> DEFINE h == args[i]
             r == params[i]
             w == convertTo(c, h, r)
  <2>2. h \in Holder /\ Asks(r) /\ w = convertTo(c, h, r)
    BY <1>1, <1>3
  <2>3. v.answers[i] = [outcome |-> w.outcome, ptr |-> w.ptr] /\ w.outcome # "failed"
    BY <2>1 DEF Alone, Reply
  <2> HIDE DEF h, r, w
  <2>4. [outcome |-> w.outcome, ptr |-> w.ptr] = OracleConvertTo(h, r)
    <3>1. /\ ScalarsAreNoBases /\ w.outcome # "failed" =>
               [outcome |-> w.outcome, ptr |-> w.ptr] = OracleConvertTo(h, r)
          /\ w.outcome = "failed" =>
               \/ OracleConvertTo(h, r).outcome = "failed"
               \/ h.type # r.type /\ <<r.type, h.type>> \in Lost(c)
      BY <2>2, ConvertAnswers
    <3> QED
      BY <1>3, <2>3, <3>1
  <2>5. v.answers[i] = OracleConvertTo(h, r)
    BY <2>3, <2>4
  <2> QED
    BY <2>5 DEF h, r
<1>4. ASSUME v.failed
      PROVE  \E i \in 1..n :
               \/ OracleConvertTo(args[i], params[i]).outcome = "failed"
               \/ args[i].type # params[i].type /\ <<params[i].type, args[i].type>> \in Lost(c)
  <2>1. PICK i \in 1..n : Alone(c, args[i], params[i]).outcome = "failed"
    BY <1>2, <1>4 DEF OrderFree
  <2> DEFINE h == args[i]
             r == params[i]
             w == convertTo(c, h, r)
  <2>2. h \in Holder /\ Asks(r) /\ w = convertTo(c, h, r)
    BY <1>1, <2>1
  <2>3. w.outcome = "failed"
    BY <2>1 DEF Alone, Reply
  <2> HIDE DEF h, r, w
  <2>4. \/ OracleConvertTo(h, r).outcome = "failed"
        \/ h.type # r.type /\ <<r.type, h.type>> \in Lost(c)
    BY <2>2, <2>3, ConvertAnswers
  <2> QED
    BY <2>1, <2>4 DEF h, r
<1> QED
  BY <1>3, <1>4

\* A body that runs has its objects
CallRight(x, m, h, args) ==
  x.result.outcome = "ran" =>
    /\ \A i \in 1..Len(m.params) : x.result.args[i] = OracleConvertTo(args[i], m.params[i])
    /\ m.kind = "method" => x.result.answer = OracleVerify(h, m.clazz, m.const)

\* A call fails for what the casts refuse, or for what was lost
CallFails(x, c, m, h, args) ==
  /\ x.result.outcome \in Unbound =>
       \/ OracleVerify(h, m.clazz, m.const).outcome = x.result.outcome
       \/ h.type # m.clazz /\ <<m.clazz, h.type>> \in Lost(c)
  /\ x.result.outcome = "argument" =>
       \E i \in 1..Len(m.params) :
         \/ OracleConvertTo(args[i], m.params[i]).outcome = "failed"
         \/ args[i].type # m.params[i].type /\ <<m.params[i].type, args[i].type>> \in Lost(c)

LEMMA CallAnswers ==
  ASSUME LayoutIndependent, NEW m, NEW via, NEW h, NEW args, NEW order,
         Callable(m, via, h, args, order), NEW c, Sound(c), Placed(c),
         NEW x, x = call(c, m, via, h, args, order)
  PROVE  (ScalarsAreNoBases => CallRight(x, m, h, args)) /\ CallFails(x, c, m, h, args)
<1> DEFINE t == receiver(c, m, h)
<1>1. CallIs(x, c, m, via, h, args, order, t)
  BY CallCases
<1>2. m \in Callables
  BY DEF Callable
<1>3. h \in Holders => ReceiverOk(t, c, m, h)
  BY <1>2, ReceiverFacts
<1> HIDE DEF t
<1>4. ASSUME NEW o \in Outcomes, o \notin {"ran", "argument"} \union Unbound,
             x.result.outcome = o
      PROVE  CallRight(x, m, h, args) /\ CallFails(x, c, m, h, args)
  BY <1>4 DEF CallRight, CallFails
<1>5. CASE Denied(m, via, args) # "no"
  <2>1. Denied(m, via, args) \in Denials /\ x.result.outcome = Denied(m, via, args)
    BY <1>1, <1>5 DEF CallIs, Returns
  <2>2. x.result.outcome \in Outcomes /\ x.result.outcome \notin {"ran", "argument"} \union Unbound
    BY <2>1 DEF Denials, Outcomes, Unbound
  <2> QED
    BY <1>4, <2>2
<1>6. CASE Denied(m, via, args) = "no"
  <2>1. Enough(m.params, args, order) /\ (m.kind = "method" => h \in Holders)
    BY <1>1, <1>6 DEF CallIs
  <2>2. ASSUME NEW d, Sound(d), Placed(d), Lost(d) = Lost(c), NEW a, NEW s,
               Body(x, a, s, convertArgs(d, m.params, args, order)),
               ScalarsAreNoBases /\ m.kind = "method" => a = OracleVerify(h, m.clazz, m.const)
        PROVE  (ScalarsAreNoBases => CallRight(x, m, h, args)) /\ CallFails(x, c, m, h, args)
    <3> DEFINE v == convertArgs(d, m.params, args, order)
    <3>1. /\ ScalarsAreNoBases /\ ~v.failed =>
               \A i \in 1..Len(m.params) : v.answers[i] = OracleConvertTo(args[i], m.params[i])
          /\ v.failed => \E i \in 1..Len(m.params) :
               \/ OracleConvertTo(args[i], m.params[i]).outcome = "failed"
               \/ args[i].type # m.params[i].type /\ <<m.params[i].type, args[i].type>> \in Lost(d)
      BY <2>1, <2>2, ArgumentsRight
    <3> HIDE DEF v
    <3>2. /\ x.result.outcome = IF v.failed THEN "argument" ELSE "ran"
          /\ x.result.args = v.answers /\ x.result.answer = a
      BY <2>2 DEF Body, Returns, v
    <3>3. ScalarsAreNoBases => CallRight(x, m, h, args)
      BY <2>2, <3>1, <3>2 DEF CallRight
    <3>4. CallFails(x, c, m, h, args)
      BY <2>2, <3>1, <3>2 DEF CallFails, Unbound
    <3> QED
      BY <3>3, <3>4
  <2>3. CASE m.kind = "abstract"
    <3>1. x.result.outcome = "abstract"
      BY <1>1, <1>6, <2>3 DEF CallIs, Returns
    <3> QED
      BY <1>4, <3>1 DEF Outcomes, Unbound
  <2>4. CASE m.kind \notin {"abstract", "method"}
    <3>1. Body(x, Nothing, {}, convertArgs(c, m.params, args, order))
      BY <1>1, <1>6, <2>4 DEF CallIs
    <3> QED
      BY <2>2, <2>4, <3>1
  <2>5. CASE m.kind = "method" /\ t.outcome \in Unbound
    <3>1. x.result.outcome = t.outcome
      BY <1>1, <1>6, <2>5 DEF CallIs, Returns, Unbound
    <3>2. \/ OracleVerify(h, m.clazz, m.const).outcome = t.outcome
          \/ h.type # m.clazz /\ <<m.clazz, h.type>> \in Lost(c)
      BY <1>3, <2>1, <2>5 DEF ReceiverOk
    <3> QED
      BY <2>5, <3>1, <3>2 DEF CallRight, CallFails, Unbound
  <2>6. CASE m.kind = "method" /\ t.outcome \notin Unbound
    <3>1. Body(x, Reply(t), Refusals(t, m, h), convertArgs(t.cache, m.params, args, order))
      BY <1>1, <1>6, <2>6 DEF CallIs
    <3>2. /\ Sound(t.cache) /\ Placed(t.cache) /\ Lost(t.cache) = Lost(c)
          /\ ScalarsAreNoBases => Reply(t) = OracleVerify(h, m.clazz, m.const)
      BY <1>3, <2>1, <2>6 DEF ReceiverOk
    <3> DEFINE d == t.cache
               a == Reply(t)
               s == Refusals(t, m, h)
    <3>3. /\ Sound(d) /\ Placed(d) /\ Lost(d) = Lost(c)
          /\ Body(x, a, s, convertArgs(d, m.params, args, order))
          /\ (ScalarsAreNoBases => a = OracleVerify(h, m.clazz, m.const))
      BY <3>1, <3>2
    <3> HIDE DEF d, a, s
    <3> QED
      BY <2>2, <3>3
  <2> QED
    BY <2>3, <2>4, <2>5, <2>6
<1> QED
  BY <1>5, <1>6

(***************************************************************************)
(* Two orders of evaluation end in the same outcome, and a body that runs  *)
(* in one runs in the other, with the same result and cache.               *)
(***************************************************************************)
LEMMA CallOrder ==
  ASSUME LayoutIndependent, NEW m, NEW via, NEW h, NEW args, NEW o1, NEW o2,
         Callable(m, via, h, args, o1), Callable(m, via, h, args, o2),
         NEW c, Sound(c), Placed(c),
         NEW x, x = call(c, m, via, h, args, o1), NEW y, y = call(c, m, via, h, args, o2)
  PROVE  /\ y.result.outcome = x.result.outcome
         /\ x.result.outcome = "ran" => y.result = x.result /\ y.cache = x.cache
<1> DEFINE t == receiver(c, m, h)
<1>1. CallIs(x, c, m, via, h, args, o1, t) /\ CallIs(y, c, m, via, h, args, o2, t)
  BY CallCases
<1>2. m \in Callables
  BY DEF Callable
<1>3. h \in Holders => ReceiverOk(t, c, m, h)
  BY <1>2, ReceiverFacts
<1> HIDE DEF t
<1>4. ASSUME NEW o, NEW a, NEW b, NEW r, NEW d, Returns(x, o, a, b, r, d), Returns(y, o, a, b, r, d)
      PROVE  y.result.outcome = x.result.outcome /\ y.result = x.result /\ y.cache = x.cache
  BY <1>4 DEF Returns
<1>5. CASE Denied(m, via, args) # "no"
  <2>1. /\ Returns(x, Denied(m, via, args), Nothing, <<>>, {}, c)
        /\ Returns(y, Denied(m, via, args), Nothing, <<>>, {}, c)
    BY <1>1, <1>5 DEF CallIs
  <2> QED
    BY <1>4, <2>1
<1>6. CASE Denied(m, via, args) = "no"
  <2>1. /\ Enough(m.params, args, o1) /\ Enough(m.params, args, o2)
        /\ m.kind = "method" => h \in Holders
    BY <1>1, <1>6 DEF CallIs
  <2>2. ASSUME NEW d, Sound(d), Placed(d), NEW a, NEW s,
               Body(x, a, s, convertArgs(d, m.params, args, o1)),
               Body(y, a, s, convertArgs(d, m.params, args, o2))
        PROVE  /\ y.result.outcome = x.result.outcome
               /\ x.result.outcome = "ran" => y.result = x.result /\ y.cache = x.cache
    <3> DEFINE v == convertArgs(d, m.params, args, o1)
               w == convertArgs(d, m.params, args, o2)
               n == Len(m.params)
    <3>1. OrderFree(v, d, m.params, args)
      BY <2>1, <2>2, OrderUnseen
    <3>2. OrderFree(w, d, m.params, args)
      BY <2>1, <2>2, OrderUnseen
    <3>3. Body(x, a, s, v) /\ Body(y, a, s, w)
      BY <2>2
    <3> HIDE DEF v, w
    <3>4. CASE \A i \in 1..n : Alone(d, args[i], m.params[i]).outcome # "failed"
      <4>1. ~v.failed /\ ~w.failed /\ v.refused = w.refused /\ v.cache = w.cache
            /\ v.answers = w.answers
        BY <3>1, <3>2, <3>4 DEF OrderFree
      <4>2. /\ Returns(x, "ran", a, v.answers, s \union v.refused, v.cache)
            /\ Returns(y, "ran", a, v.answers, s \union v.refused, v.cache)
        BY <3>3, <4>1 DEF Body
      <4> QED
        BY <1>4, <4>2
    <3>5. CASE ~ \A i \in 1..n : Alone(d, args[i], m.params[i]).outcome # "failed"
      <4>1. v.failed /\ w.failed
        BY <3>1, <3>2, <3>5 DEF OrderFree
      <4> QED
        BY <3>3, <4>1 DEF Body, Returns
    <3> QED
      BY <3>4, <3>5
  <2>3. CASE m.kind = "abstract"
    <3>1. Returns(x, "abstract", Nothing, <<>>, {}, c) /\ Returns(y, "abstract", Nothing, <<>>, {}, c)
      BY <1>1, <1>6, <2>3 DEF CallIs
    <3> QED
      BY <1>4, <3>1
  <2>4. CASE m.kind \notin {"abstract", "method"}
    <3>1. /\ Body(x, Nothing, {}, convertArgs(c, m.params, args, o1))
          /\ Body(y, Nothing, {}, convertArgs(c, m.params, args, o2))
      BY <1>1, <1>6, <2>4 DEF CallIs
    <3> QED
      BY <2>2, <3>1
  <2>5. CASE m.kind = "method" /\ t.outcome \in Unbound
    <3>1. /\ Returns(x, t.outcome, Reply(t), <<>>, Refusals(t, m, h), t.cache)
          /\ Returns(y, t.outcome, Reply(t), <<>>, Refusals(t, m, h), t.cache)
      BY <1>1, <1>6, <2>5 DEF CallIs
    <3> QED
      BY <1>4, <3>1
  <2>6. CASE m.kind = "method" /\ t.outcome \notin Unbound
    <3> DEFINE d == t.cache
               a == Reply(t)
               s == Refusals(t, m, h)
    <3>1. /\ Body(x, a, s, convertArgs(d, m.params, args, o1))
          /\ Body(y, a, s, convertArgs(d, m.params, args, o2))
      BY <1>1, <1>6, <2>6 DEF CallIs
    <3>2. Sound(d) /\ Placed(d)
      BY <1>3, <2>1, <2>6 DEF ReceiverOk
    <3> HIDE DEF d, a, s
    <3> QED
      BY <2>2, <3>1, <3>2
  <2> QED
    BY <2>3, <2>4, <2>5, <2>6
<1> QED
  BY <1>5, <1>6

-----------------------------------------------------------------------------
(* An access to an attribute                                                *)

LEMMA OutcomeOk ==
  ASSUME NEW o \in Outcomes, NEW t, Reply(t) \in Answer, NEW k \in BOOLEAN, NEW u \in BOOLEAN,
         NEW c, NEW d, Sound(d), NEW r, Lost(d) = Lost(c) \union r,
         LayoutIndependent /\ Placed(c) => Placed(d),
         NEW x, x = Outcome(o, t, <<>>, k, u, r, d)
  PROVE  StepOk(x, c)
<1>1. /\ x.cache = d /\ x.refused = r
      /\ x.result = [outcome |-> o, answer |-> Reply(t), args |-> <<>>, const |-> k, unread |-> u]
  BY DEF Outcome, Reply
<1>2. <<>> \in Seq(Answer)
  OBVIOUS
<1>3. x.result \in Result
  <2> DEFINE a == Reply(t)
             e == <<>>
  <2>1. a \in Answer /\ e \in Seq(Answer)
        /\ x.result = [outcome |-> o, answer |-> a, args |-> e, const |-> k, unread |-> u]
    BY <1>1, <1>2
  <2> HIDE DEF a, e
  <2> QED
    BY <2>1 DEF Result
<1> QED
  BY <1>1, <1>3 DEF StepOk

\* What ConvertSound says of a conversion an access makes
AccessOk(x, c, h, r) ==
  /\ Sound(x.cache) /\ Reply(x) \in Answer
  /\ Lost(x.cache) = Lost(c) \union RefusedBy(h, r.type, ReqConst(r))
  /\ LayoutIndependent /\ Placed(c) => Placed(x.cache)

LEMMA AccessFacts ==
  ASSUME NEW c, Sound(c), NEW h \in Holders, NEW r, Asks(r), NEW x, x = convertTo(c, h, r)
  PROVE  AccessOk(x, c, h, r)
<1>1. h \in Holder
  BY CastRulesAssumption
<1>2. /\ Sound(x.cache) /\ [outcome |-> x.outcome, ptr |-> x.ptr] \in Answer
      /\ Lost(x.cache) = Lost(c) \union RefusedBy(h, r.type, ReqConst(r))
      /\ LayoutIndependent /\ Placed(c) => Placed(x.cache)
  BY <1>1, ConvertSound
<1> QED
  BY <1>2 DEF AccessOk, Reply

\* A conversion of the object of an attribute
ObjectRequest(a, r) ==
  /\ Asks(r) /\ r.type = a.clazz

LEMMA ObjectRequests ==
  ASSUME NEW a \in Attributes, NEW mode \in Mode
  PROVE  /\ ObjectRequest(a, ForClass(a.clazz, mode)) /\ ForClass(a.clazz, mode).mode = mode
         /\ mode # "ref" => \A h : RefusedBy(h, a.clazz, ReqConst(ForClass(a.clazz, mode))) = {}
<1>1. a.clazz \in Types /\ a.clazz \notin PointersToConst
  BY InvocationAssumption
<1> QED
  BY <1>1 DEF ObjectRequest, ForClass, Asks, Request, RefusedBy, ConstOk, ReqConst

\* The reference of a get is to const where it has to be
GetConst(x, a, h, viaConst) ==
  x.result.outcome = "reference" /\ ~x.result.const =>
    ~a.const /\ ~viaConst /\ ~RefersToConst(h, x.result.answer)

LEMMA GetKept ==
  ASSUME NEW a \in Attributes, NEW h \in Holders, NEW b \in BOOLEAN, NEW c, Sound(c),
         NEW x, x = get(c, a, h, b)
  PROVE  StepOk(x, c) /\ GetConst(x, a, h, b)
<1> DEFINE mode == IF b \/ isConst(h) THEN "cref" ELSE "ref"
           r == ForClass(a.clazz, mode)
           z == convertTo(c, h, r)
           o == IF z.outcome = "failed" THEN "wrongClass" ELSE "reference"
           k == mode = "cref" \/ a.const
           s == RefusedBy(h, a.clazz, mode = "cref")
<1>1. x = Outcome(o, z, <<>>, k, FALSE, s, z.cache)
  BY DEF get
<1>2. mode \in Mode /\ mode \in {"ref", "cref"}
  BY DEF Mode
<1>3. ObjectRequest(a, r) /\ r.mode = mode
  BY <1>2, ObjectRequests
<1>4. Asks(r) /\ r.type = a.clazz /\ (ReqConst(r) <=> mode = "cref")
  BY <1>2, <1>3 DEF ObjectRequest, ReqConst
<1>5. s = RefusedBy(h, r.type, ReqConst(r))
  BY <1>4 DEF RefusedBy, ConstOk
<1>6. AccessOk(z, c, h, r)
  BY <1>4, AccessFacts
<1>7. o \in Outcomes /\ k \in BOOLEAN
  BY InvocationAssumption DEF Outcomes
<1>8. StepOk(x, c)
  <2> DEFINE d == z.cache
  <2>1. /\ Sound(d) /\ Reply(z) \in Answer /\ Lost(d) = Lost(c) \union s
        /\ LayoutIndependent /\ Placed(c) => Placed(d)
    BY <1>5, <1>6 DEF AccessOk
  <2>2. x = Outcome(o, z, <<>>, k, FALSE, s, d)
    BY <1>1
  <2> HIDE DEF d, z, o, k, s
  <2> QED
    BY <1>7, <2>1, <2>2, OutcomeOk
<1>9. ASSUME x.result.outcome = "reference", ~x.result.const
      PROVE  ~a.const /\ ~b /\ ~RefersToConst(h, x.result.answer)
  <2>1. x.result.outcome = o /\ x.result.const = k /\ x.result.answer = Reply(z)
    BY <1>1 DEF Outcome, Reply
  <2>2. z.outcome # "failed" /\ mode = "ref" /\ ~a.const
    BY <1>2, <1>9, <2>1
  <2>3. ~b
    BY <2>2
  <2>4. ~RefersToConst(h, z)
    BY <1>3, <1>4, <2>2, ConvertKeepsConst
  <2>5. ~RefersToConst(h, Reply(z))
    BY <2>4 DEF RefersToConst, Reply
  <2> QED
    BY <2>1, <2>2, <2>3, <2>5
<1> QED
  BY <1>8, <1>9 DEF GetConst

\* The value of a set, converted
AssignedOk(v, c) ==
  /\ v.failed \in BOOLEAN /\ v.copiesUnread \in BOOLEAN
  /\ Sound(v.cache) /\ Lost(v.cache) = Lost(c)
  /\ LayoutIndependent /\ Placed(c) => Placed(v.cache)

LEMMA AssignedKept ==
  ASSUME NEW a \in Attributes, NEW val \in Holders, NEW c, Sound(c),
         NEW v, v = assignedValue(c, a, val)
  PROVE  AssignedOk(v, c)
<1> DEFINE r == ForClass(a.type, "value")
           z == convertTo(c, val, r)
<1>1. Asks(r) /\ \A h : RefusedBy(h, r.type, ReqConst(r)) = {}
  BY InvocationAssumption DEF ForClass, Asks, Request, Mode, RefusedBy, ConstOk, ReqConst
<1>2. AccessOk(z, c, val, r)
  BY <1>1, AccessFacts
<1>3. v.cache = z.cache /\ v.failed = (z.outcome = "failed")
      /\ v.copiesUnread = (z.outcome = "failed" /\ a.type \in Types \ (Scalars \union Pointers))
  BY DEF assignedValue
<1>4. v.failed \in BOOLEAN /\ v.copiesUnread \in BOOLEAN
  BY <1>3, Zenon
<1>5. /\ Sound(z.cache) /\ Lost(z.cache) = Lost(c)
      /\ LayoutIndependent /\ Placed(c) => Placed(z.cache)
  BY <1>1, <1>2 DEF AccessOk
<1> QED
  BY <1>3, <1>4, <1>5 DEF AssignedOk

LEMMA SetKept ==
  ASSUME NEW a \in Attributes, NEW h \in Holders, NEW val \in Holders, NEW b \in BOOLEAN,
         NEW c, Sound(c), NEW x, x = set(c, a, h, val, b)
  PROVE  StepOk(x, c)
<1> DEFINE rv == ForClass(a.clazz, "value")
           isA == convertTo(c, h, rv)
           mode == IF b THEN "cref" ELSE "ref"
           r == ForClass(a.clazz, mode)
           z == convertTo(isA.cache, h, r)
           v == assignedValue(z.cache, a, val)
           s == RefusedBy(h, a.clazz, b)
<1>1. "value" \in Mode /\ mode \in Mode /\ (mode = "cref" <=> b)
  BY DEF Mode
<1>2. Asks(rv) /\ rv.type = a.clazz /\ RefusedBy(h, rv.type, ReqConst(rv)) = {}
  BY <1>1, ObjectRequests DEF ObjectRequest
<1>3. Asks(r) /\ r.type = a.clazz /\ r.mode = mode
  BY <1>1, ObjectRequests DEF ObjectRequest
<1>4. s = RefusedBy(h, r.type, ReqConst(r))
  BY <1>1, <1>3 DEF RefusedBy, ConstOk, ReqConst
<1>5. /\ Sound(isA.cache) /\ Reply(isA) \in Answer /\ Lost(isA.cache) = Lost(c)
      /\ LayoutIndependent /\ Placed(c) => Placed(isA.cache)
  <2>1. AccessOk(isA, c, h, rv)
    BY <1>2, AccessFacts
  <2> HIDE DEF isA, rv
  <2> QED
    BY <1>2, <2>1 DEF AccessOk
<1>6. /\ Sound(z.cache) /\ Reply(z) \in Answer /\ Lost(z.cache) = Lost(c) \union s
      /\ LayoutIndependent /\ Placed(c) => Placed(z.cache)
  <2> DEFINE d == isA.cache
  <2>1. Sound(d) /\ z = convertTo(d, h, r) /\ Lost(d) = Lost(c)
        /\ (LayoutIndependent /\ Placed(c) => Placed(d))
    BY <1>5
  <2> HIDE DEF d, z, r, s
  <2>2. AccessOk(z, d, h, r)
    BY <1>3, <2>1, AccessFacts
  <2> QED
    BY <1>4, <2>1, <2>2 DEF AccessOk
<1>7. /\ v.failed \in BOOLEAN /\ v.copiesUnread \in BOOLEAN
      /\ Sound(v.cache) /\ Lost(v.cache) = Lost(c) \union s
      /\ LayoutIndependent /\ Placed(c) => Placed(v.cache)
  <2> DEFINE d == z.cache
  <2>1. Sound(d) /\ v = assignedValue(d, a, val) /\ Lost(d) = Lost(c) \union s
        /\ (LayoutIndependent /\ Placed(c) => Placed(d))
    BY <1>6
  <2> HIDE DEF d, v, s
  <2>2. AssignedOk(v, d)
    BY <2>1, AssignedKept
  <2> QED
    BY <2>1, <2>2 DEF AssignedOk
<1> DEFINE o == IF v.failed THEN "wrongValue" ELSE "wrote"
           u == \/ v.copiesUnread
                \/ ~v.failed /\ z.outcome = "failed"
<1>8. \/ x = Outcome("wrongClass", isA, <<>>, FALSE, FALSE, {}, isA.cache)
      \/ \E p \in {"constAttribute", "constObject", "notAssignable"} :
           x = Outcome(p, z, <<>>, FALSE, FALSE, s, z.cache)
      \/ x = Outcome(o, z, <<>>, FALSE, u, s, v.cache)
  <2>1. set(c, a, h, val, b) =
          IF isA.outcome = "failed" THEN Failed("wrongClass", isA, <<>>, {}, isA.cache)
          ELSE IF a.const THEN Failed("constAttribute", z, <<>>, s, z.cache)
          ELSE IF b THEN Failed("constObject", z, <<>>, s, z.cache)
          ELSE IF ~a.assignable THEN Failed("notAssignable", z, <<>>, s, z.cache)
          ELSE Outcome(o, z, <<>>, FALSE, u, s, v.cache)
    BY DEF set
  <2> HIDE DEF isA, z, v, s, o, u
  <2> QED
    BY <2>1 DEF Failed
<1> HIDE DEF isA, z, v, s
<1>9. u \in BOOLEAN
  BY <1>7
<1> HIDE DEF u
<1>10. ASSUME NEW p \in Outcomes, NEW t, Reply(t) \in Answer, NEW q \in BOOLEAN,
              NEW d, Sound(d), NEW w, Lost(d) = Lost(c) \union w,
              LayoutIndependent /\ Placed(c) => Placed(d),
              x = Outcome(p, t, <<>>, FALSE, q, w, d)
       PROVE  StepOk(x, c)
  BY <1>10, OutcomeOk
<1>11. CASE x = Outcome("wrongClass", isA, <<>>, FALSE, FALSE, {}, isA.cache)
  <2>1. "wrongClass" \in Outcomes /\ Lost(isA.cache) = Lost(c) \union {}
    BY <1>5 DEF Outcomes
  <2> QED
    BY <1>5, <1>10, <1>11, <2>1
<1>12. CASE \E p \in {"constAttribute", "constObject", "notAssignable"} :
             x = Outcome(p, z, <<>>, FALSE, FALSE, s, z.cache)
  <2>1. {"constAttribute", "constObject", "notAssignable"} \subseteq Outcomes
    BY DEF Outcomes
  <2>2. PICK p \in Outcomes : x = Outcome(p, z, <<>>, FALSE, FALSE, s, z.cache)
    BY <1>12, <2>1
  <2> QED
    BY <1>6, <1>10, <2>2
<1>13. CASE x = Outcome(o, z, <<>>, FALSE, u, s, v.cache)
  <2>1. o \in Outcomes
    BY DEF Outcomes
  <2> HIDE DEF o
  <2> QED
    BY <1>6, <1>7, <1>9, <1>10, <1>13, <2>1
<1> QED
  BY <1>8, <1>11, <1>12, <1>13

\* Without an object: a static attribute, or none
LEMMA NoObjectKept ==
  ASSUME NEW a \in Attributes, NEW c, Sound(c), NEW x,
         \/ x = getStatic(c, a)
         \/ \E val \in Holders : x = setStatic(c, a, val)
         \/ x = Failed("noObject", Nothing, <<>>, {}, c)
  PROVE  StepOk(x, c) /\ x.result.outcome # "reference"
<1>1. Reply(Nothing) \in Answer /\ Lost(c) = Lost(c) \union {}
  BY DEF Reply, Nothing, Answer
<1>2. ASSUME NEW p \in Outcomes, NEW q \in BOOLEAN, NEW d, Sound(d), Lost(d) = Lost(c),
             LayoutIndependent /\ Placed(c) => Placed(d), p # "reference",
             x = Outcome(p, Nothing, <<>>, FALSE, q, {}, d)
      PROVE  StepOk(x, c) /\ x.result.outcome # "reference"
  <2>1. Lost(d) = Lost(c) \union {}
    BY <1>2
  <2>2. StepOk(x, c)
    BY <1>1, <1>2, <2>1, OutcomeOk
  <2> QED
    BY <1>2, <2>2 DEF Outcome
<1>3. {"copy", "noObject", "constAttribute", "wrongValue", "wrote"} \subseteq Outcomes
  BY DEF Outcomes
<1>4. CASE x = getStatic(c, a) \/ x = Failed("noObject", Nothing, <<>>, {}, c)
  <2>1. PICK p \in {"copy", "noObject"} : x = Outcome(p, Nothing, <<>>, FALSE, FALSE, {}, c)
    BY <1>4 DEF getStatic, Failed
  <2> QED
    BY <1>2, <1>3, <2>1
<1>5. CASE \E val \in Holders : x = setStatic(c, a, val)
  <2>1. PICK val \in Holders : x = setStatic(c, a, val)
    BY <1>5
  <2> DEFINE v == assignedValue(c, a, val)
             o == IF v.failed THEN "wrongValue" ELSE "wrote"
  <2>2. /\ v.failed \in BOOLEAN /\ v.copiesUnread \in BOOLEAN
        /\ Sound(v.cache) /\ Lost(v.cache) = Lost(c)
        /\ LayoutIndependent /\ Placed(c) => Placed(v.cache)
    BY AssignedKept DEF AssignedOk
  <2>3. \/ x = Outcome("constAttribute", Nothing, <<>>, FALSE, FALSE, {}, c)
        \/ x = Outcome(o, Nothing, <<>>, FALSE, v.copiesUnread, {}, v.cache)
    BY <2>1 DEF setStatic, Failed
  <2>4. o \in Outcomes /\ o # "reference"
    BY <1>3
  <2> HIDE DEF v, o
  <2>5. CASE x = Outcome("constAttribute", Nothing, <<>>, FALSE, FALSE, {}, c)
    BY <1>2, <1>3, <2>5
  <2>6. CASE x = Outcome(o, Nothing, <<>>, FALSE, v.copiesUnread, {}, v.cache)
    BY <1>2, <2>2, <2>4, <2>6
  <2> QED
    BY <2>3, <2>5, <2>6
<1> QED
  BY <1>4, <1>5

-----------------------------------------------------------------------------
(* The steps of the program                                                 *)

\* The cache is sound, and what it lost is what was refused
CacheInv ==
  /\ Sound(cache) /\ refused = Lost(cache)
  /\ LayoutIndependent => Placed(cache)

\* What Done leaves of a call or an access
Leaves(op, of, via, object, args, x) ==
  /\ last' = [op |-> op, of |-> of, via |-> via, object |-> object, args |-> args,
              result |-> x.result]
  /\ cache' = x.cache /\ refused' = refused \union x.refused
  /\ UNCHANGED registryVars

LEMMA DoneLeaves ==
  ASSUME NEW op, NEW of, NEW via, NEW object, NEW args, NEW x,
         Done(op, of, via, object, args, x)
  PROVE  Leaves(op, of, via, object, args, x)
BY DEF Done, Leaves

IsCall(m, via, h, args, order, x) ==
  /\ Callable(m, via, h, args, order)
  /\ x = call(cache, m, via, h, args, order)
  /\ Leaves("call", m, via, h, args, x)

IsGet(a, via, h, x) ==
  /\ a \in Attributes /\ GetConst(x, a, h, via = "const")
  /\ Leaves("get", a, via, h, <<>>, x)

IsSet(a, via, h, val, x) ==
  a \in Attributes /\ Leaves("set", a, via, h, <<val>>, x)

(***************************************************************************)
(* Every step is the registration of a function, a call, a get or a set,   *)
(* and what it converts keeps the cache sound.                             *)
(***************************************************************************)
LEMMA Steps ==
  ASSUME Sound(cache), Next
  PROVE  \/ \E f \in Functions : Load(f)
         \/ \E x : /\ StepOk(x, cache)
                   /\ \/ \E m, via, h, args, order : IsCall(m, via, h, args, order, x)
                      \/ \E a, via, h : IsGet(a, via, h, x)
                      \/ \E a, via, h, val : IsSet(a, via, h, val, x)
<1>1. ASSUME NEW m \in Callables, NEW args \in ArgLists(m), NEW order \in Orders(m.params),
             NEW via \in Vias, NEW h \in Holders \union {NoObject},
             CallMethod(m, via, h, args, order)
      PROVE  \E x : StepOk(x, cache) /\ IsCall(m, via, h, args, order, x)
  <2> DEFINE x == call(cache, m, via, h, args, order)
  <2>1. (via = "none" <=> h = NoObject) /\ Done("call", m, via, h, args, x)
    BY <1>1 DEF CallMethod
  <2>2. Callable(m, via, h, args, order)
    BY <2>1 DEF Callable
  <2>3. StepOk(x, cache)
    BY <2>2, CallKept
  <2> QED
    BY <2>1, <2>2, <2>3, DoneLeaves DEF IsCall
<1>2. ASSUME NEW m \in Callables, NEW args \in ArgLists(m), NEW order \in Orders(m.params),
             CallFunction(m, args, order)
      PROVE  \E x : StepOk(x, cache) /\ IsCall(m, "none", NoObject, args, order, x)
  <2> DEFINE x == call(cache, m, "none", NoObject, args, order)
  <2>1. Done("call", m, "none", NoObject, args, x)
    BY <1>2 DEF CallFunction
  <2>2. Callable(m, "none", NoObject, args, order)
    BY DEF Callable, Vias
  <2>3. StepOk(x, cache)
    BY <2>2, CallKept
  <2> QED
    BY <2>1, <2>2, <2>3, DoneLeaves DEF IsCall
<1>3. ASSUME NEW a \in Attributes, NEW via, NEW h, NEW x,
             StepOk(x, cache) /\ x.result.outcome # "reference", Done("get", a, via, h, <<>>, x)
      PROVE  \E y : StepOk(y, cache) /\ IsGet(a, via, h, y)
  <2>1. GetConst(x, a, h, via = "const")
    BY <1>3 DEF GetConst
  <2> QED
    BY <1>3, <2>1, DoneLeaves DEF IsGet
<1>4. ASSUME NEW a \in Attributes, NEW via, NEW h, NEW val, NEW x,
             StepOk(x, cache), Done("set", a, via, h, <<val>>, x)
      PROVE  \E y : StepOk(y, cache) /\ IsSet(a, via, h, val, y)
  BY <1>4, DoneLeaves DEF IsSet
<1>5. ASSUME NEW a \in Attributes, GetNoObject(a)
      PROVE  \E x : StepOk(x, cache) /\ IsGet(a, "none", NoObject, x)
  <2>1. \E x : /\ x = getStatic(cache, a) \/ x = Failed("noObject", Nothing, <<>>, {}, cache)
               /\ Done("get", a, "none", NoObject, <<>>, x)
    BY <1>5 DEF GetNoObject
  <2> QED
    BY <1>3, <2>1, NoObjectKept
<1>6. ASSUME NEW a \in Attributes, NEW val \in Holders, SetNoObject(a, val)
      PROVE  \E x : StepOk(x, cache) /\ IsSet(a, "none", NoObject, val, x)
  <2>1. \E x : /\ x = setStatic(cache, a, val) \/ x = Failed("noObject", Nothing, <<>>, {}, cache)
               /\ Done("set", a, "none", NoObject, <<val>>, x)
    BY <1>6 DEF SetNoObject
  <2> QED
    BY <1>4, <2>1, NoObjectKept
<1>7. ASSUME NEW a \in Attributes, NEW via \in Vias, NEW h \in Holders, Get(a, via, h)
      PROVE  \E x : StepOk(x, cache) /\ IsGet(a, via, h, x)
  <2>1. CASE a.static
    <3>1. Done("get", a, via, h, <<>>, getStatic(cache, a))
      BY <1>7, <2>1 DEF Get
    <3> QED
      BY <1>3, <3>1, NoObjectKept
  <2>2. CASE ~a.static
    <3> DEFINE b == via = "const"
               x == get(cache, a, h, b)
    <3>1. Done("get", a, via, h, <<>>, x)
      BY <1>7, <2>2 DEF Get
    <3>2. b \in BOOLEAN
      OBVIOUS
    <3>3. StepOk(x, cache) /\ GetConst(x, a, h, b)
      <4> HIDE DEF b
      <4> QED
        BY <3>2, GetKept
    <3> HIDE DEF x
    <3> QED
      BY <3>1, <3>3, DoneLeaves DEF IsGet
  <2> QED
    BY <2>1, <2>2
<1>8. ASSUME NEW a \in Attributes, NEW via \in Vias, NEW h \in Holders, NEW val \in Holders,
             Set(a, via, h, val)
      PROVE  \E x : StepOk(x, cache) /\ IsSet(a, via, h, val, x)
  <2>1. CASE a.static
    <3>1. Done("set", a, via, h, <<val>>, setStatic(cache, a, val))
      BY <1>8, <2>1 DEF Set
    <3> QED
      BY <1>4, <3>1, NoObjectKept
  <2>2. CASE ~a.static
    <3> DEFINE b == via = "const"
               x == set(cache, a, h, val, b)
    <3>1. Done("set", a, via, h, <<val>>, x)
      BY <1>8, <2>2 DEF Set
    <3>2. b \in BOOLEAN
      OBVIOUS
    <3>3. StepOk(x, cache)
      <4> HIDE DEF b
      <4> QED
        BY <3>2, SetKept
    <3> HIDE DEF x
    <3> QED
      BY <1>4, <3>1, <3>3
  <2> QED
    BY <2>1, <2>2
<1> QED
  BY <1>1, <1>2, <1>5, <1>6, <1>7, <1>8, Zenon DEF Next

LEMMA CacheInit ==
  ASSUME Init
  PROVE  CacheInv
<1>1. /\ cache \in CacheType /\ refused = {}
      /\ \A to, from \in Types : cache[to][from] = NotCached
  BY DEF Init, CacheType
<1>2. \A to, from \in Types : ~Possible(cache, to, from) /\ ~Impossible(cache, to, from)
  BY <1>1 DEF Possible, Impossible, conversionKnown
<1>3. Lost(cache) = {} /\ Exists(cache) /\ Placed(cache)
  BY <1>2 DEF Lost, Exists, Placed
<1> QED
  BY <1>1, <1>3 DEF CacheInv, Sound

LEMMA CacheNext ==
  ASSUME CacheInv, [Next]_vars
  PROVE  CacheInv'
<1>1. CASE Next
  <2>1. CASE \E f \in Functions : Load(f)
    <3>1. cache' = cache /\ refused' = refused
      BY <2>1 DEF Load
    <3> QED
      BY <3>1 DEF CacheInv, Sound, Exists, Lost, Placed, Possible, Impossible, conversionKnown
  <2>2. CASE \E x : StepOk(x, cache) /\ cache' = x.cache /\ refused' = refused \union x.refused
    <3>1. PICK x : StepOk(x, cache) /\ cache' = x.cache /\ refused' = refused \union x.refused
      BY <2>2
    <3>2. /\ Sound(x.cache) /\ Lost(x.cache) = Lost(cache) \union x.refused
          /\ LayoutIndependent => Placed(x.cache)
      BY <3>1 DEF StepOk, CacheInv
    <3>3. Sound(cache') /\ Lost(cache') = Lost(cache) \union x.refused
          /\ (LayoutIndependent => Placed(cache'))
      BY <3>1, <3>2
    <3> QED
      BY <3>1, <3>3 DEF CacheInv
  <2> QED
    BY <1>1, <2>1, <2>2, Steps DEF CacheInv, IsCall, IsGet, IsSet, Leaves
<1>2. CASE UNCHANGED vars
  BY <1>2 DEF vars, CacheInv, Sound, Exists, Lost, Placed, Possible, Impossible, conversionKnown
<1> QED
  BY <1>1, <1>2

(***************************************************************************)
(* In every reachable state the cache only holds casts that exist, each at *)
(* its offset, and what it lost is what was refused.                       *)
(***************************************************************************)
THEOREM CacheAlwaysSound ==
  Spec => []CacheInv
<1>1. Init => CacheInv
  BY CacheInit
<1>2. CacheInv /\ [Next]_vars => CacheInv'
  BY CacheNext
<1> QED
  BY <1>1, <1>2, PTL DEF Spec

-----------------------------------------------------------------------------
(* What a step shows                                                        *)

\* A call of a step
LEMMA CallSteps ==
  ASSUME CacheInv, Next, last'.op = "call"
  PROVE  \E m, via, h, args, order, x : IsCall(m, via, h, args, order, x)
BY Steps DEF CacheInv, IsCall, IsGet, IsSet, Leaves, Load

LEMMA GetSteps ==
  ASSUME CacheInv, Next, last'.op = "get"
  PROVE  \E a, via, h, x : IsGet(a, via, h, x)
BY Steps DEF CacheInv, IsCall, IsGet, IsSet, Leaves, Load

(***************************************************************************)
(* ConstKept: no call and no get gives non-const access to a const object. *)
(***************************************************************************)
THEOREM ConstAlwaysKept ==
  Spec => ConstKept
<1>1. ASSUME CacheInv, Next
      PROVE  /\ Ran => \A i \in 1..Len(last'.of.params) :
                  last'.of.params[i].mode = "ref" =>
                    ~RefersToConst(last'.args[i], last'.result.args[i])
             /\ Ran /\ last'.of.kind = "method" /\ ~last'.of.const =>
                  last'.via \notin ConstVia /\ ~RefersToConst(last'.object, last'.result.answer)
             /\ last'.op = "get" /\ last'.result.outcome = "reference" /\ ~last'.result.const =>
                  /\ ~last'.of.const /\ last'.via # "const"
                  /\ ~RefersToConst(last'.object, last'.result.answer)
  <2>1. ASSUME Ran
        PROVE  /\ \A i \in 1..Len(last'.of.params) :
                    last'.of.params[i].mode = "ref" =>
                      ~RefersToConst(last'.args[i], last'.result.args[i])
               /\ last'.of.kind = "method" /\ ~last'.of.const =>
                    last'.via \notin ConstVia /\ ~RefersToConst(last'.object, last'.result.answer)
    <3>1. PICK m, via, h, args, order, x : IsCall(m, via, h, args, order, x)
      BY <1>1, <2>1, CallSteps DEF Ran
    <3>2. CallConst(x, m, via, h, args)
      BY <1>1, <3>1, CallKept DEF CacheInv, IsCall
    <3>3. /\ last'.of = m /\ last'.via = via /\ last'.object = h /\ last'.args = args
          /\ last'.result = x.result
      BY <3>1 DEF IsCall, Leaves
    <3>4. x.result.outcome = "ran"
      BY <2>1, <3>3 DEF Ran
    <3> QED
      BY <3>2, <3>3, <3>4 DEF CallConst, ArgumentsConst
  <2>2. ASSUME last'.op = "get", last'.result.outcome = "reference", ~last'.result.const
        PROVE  /\ ~last'.of.const /\ last'.via # "const"
               /\ ~RefersToConst(last'.object, last'.result.answer)
    <3>1. PICK a, via, h, x : IsGet(a, via, h, x)
      BY <1>1, <2>2, GetSteps
    <3>2. /\ last'.of = a /\ last'.via = via /\ last'.object = h /\ last'.result = x.result
      BY <3>1 DEF IsGet, Leaves
    <3> QED
      BY <2>2, <3>1, <3>2 DEF IsGet, GetConst
  <2> QED
    BY <2>1, <2>2
<1> QED
  BY <1>1, CacheAlwaysSound, PTL DEF Spec, ConstKept

(***************************************************************************)
(* BodiesGetTheirObjects, where no class has a virtual base and none       *)
(* derives from a number: what a body gets is what the casts give.         *)
(***************************************************************************)
THEOREM BodiesAlwaysGetTheirObjects ==
  ASSUME LayoutIndependent, ScalarsAreNoBases
  PROVE  Spec => BodiesGetTheirObjects
<1>1. ASSUME CacheInv, Next, Ran
      PROVE  /\ \A i \in 1..Len(last'.of.params) :
                  last'.result.args[i] = OracleConvertTo(last'.args[i], last'.of.params[i])
             /\ last'.of.kind = "method" =>
                  last'.result.answer = OracleVerify(last'.object, last'.of.clazz, last'.of.const)
  <2>1. PICK m, via, h, args, order, x : IsCall(m, via, h, args, order, x)
    BY <1>1, CallSteps DEF Ran
  <2>2. CallRight(x, m, h, args)
    BY <1>1, <2>1, CallAnswers, LayoutIndependent, ScalarsAreNoBases DEF CacheInv, IsCall
  <2>3. /\ last'.of = m /\ last'.object = h /\ last'.args = args /\ last'.result = x.result
    BY <2>1 DEF IsCall, Leaves
  <2>4. x.result.outcome = "ran"
    BY <1>1, <2>3 DEF Ran
  <2> QED
    BY <2>2, <2>3, <2>4 DEF CallRight
<1> QED
  BY <1>1, CacheAlwaysSound, PTL DEF Spec, BodiesGetTheirObjects

(***************************************************************************)
(* ArgumentOrderUnseen, where no class has a virtual base: each order of   *)
(* evaluation leads to the same outcome, result and cache.                 *)
(***************************************************************************)
THEOREM ArgumentOrderNeverSeen ==
  ASSUME LayoutIndependent
  PROVE  Spec => ArgumentOrderUnseen
<1>1. ASSUME CacheInv, Next, last'.op = "call", NEW o \in Orders(last'.of.params),
             NEW y, y = call(cache, last'.of, last'.via, last'.object, last'.args, o)
      PROVE  /\ y.result.outcome = last'.result.outcome
             /\ Ran => y.result = last'.result /\ y.cache = cache'
  <2>1. PICK m, via, h, args, order, x : IsCall(m, via, h, args, order, x)
    BY <1>1, CallSteps
  <2>2. /\ last'.of = m /\ last'.via = via /\ last'.object = h /\ last'.args = args
        /\ last'.result = x.result /\ cache' = x.cache
    BY <2>1 DEF IsCall, Leaves
  <2>3. Callable(m, via, h, args, o) /\ y = call(cache, m, via, h, args, o)
    BY <1>1, <2>1, <2>2 DEF IsCall, Callable
  <2>4. /\ y.result.outcome = x.result.outcome
        /\ x.result.outcome = "ran" => y.result = x.result /\ y.cache = x.cache
    BY <1>1, <2>1, <2>3, CallOrder, LayoutIndependent DEF CacheInv, IsCall
  <2> QED
    BY <2>2, <2>4 DEF Ran
<1>2. ASSUME CacheInv, Next
      PROVE  last'.op = "call" => SameInEveryOrder
  BY <1>1, <1>2 DEF SameInEveryOrder
<1> QED
  BY <1>2, CacheAlwaysSound, PTL DEF Spec, ArgumentOrderUnseen

(***************************************************************************)
(* FailuresAreCasts, where no class has a virtual base: a call fails for   *)
(* what the casts refuse, or for what an earlier call was refused.         *)
(***************************************************************************)
THEOREM FailuresAlwaysCasts ==
  ASSUME LayoutIndependent
  PROVE  Spec => FailuresAreCasts
<1>1. ASSUME CacheInv, Next, last'.op = "call"
      PROVE  /\ last'.result.outcome \in {"wrongType", "constObject"} =>
                  \/ OracleVerify(last'.object, last'.of.clazz, last'.of.const).outcome
                       = last'.result.outcome
                  \/ RefusedFor(last'.object, ForClass(last'.of.clazz, "ref"))
             /\ last'.result.outcome = "argument" =>
                  \E i \in 1..Len(last'.of.params) :
                    \/ OracleConvertTo(last'.args[i], last'.of.params[i]).outcome = "failed"
                    \/ RefusedFor(last'.args[i], last'.of.params[i])
  <2>1. PICK m, via, h, args, order, x : IsCall(m, via, h, args, order, x)
    BY <1>1, CallSteps
  <2>2. CallFails(x, cache, m, h, args)
    BY <1>1, <2>1, CallAnswers, LayoutIndependent DEF CacheInv, IsCall
  <2>3. /\ last'.of = m /\ last'.object = h /\ last'.args = args /\ last'.result = x.result
        /\ refused = Lost(cache)
    BY <1>1, <2>1 DEF IsCall, Leaves, CacheInv
  <2>4. ForClass(m.clazz, "ref").type = m.clazz
    BY DEF ForClass
  <2> QED
    BY <2>2, <2>3, <2>4 DEF CallFails, RefusedFor, Unbound
<1> QED
  BY <1>1, CacheAlwaysSound, PTL DEF Spec, FailuresAreCasts

-----------------------------------------------------------------------------
(* The registry of functions                                                *)

\* What is made was made for a line whose initialiser has run
RegistryInv ==
  /\ RegistryTypeOK /\ FunctionsFound
  /\ \A s \in Signatures : impls[s] # NotMade =>
       \E f \in ToSet(registered) : FuncPtr(f) = s

LEMMA RegistryStart ==
  ASSUME RegistryInit
  PROVE  RegistryInv
<1>1. /\ impls = [s \in Signatures |-> NotMade]
      /\ registry = [n \in Names |-> <<>>] /\ registered = <<>>
  BY DEF RegistryInit
<1>2. RegistryTypeOK
  <2>1. <<>> \in Seq(Signatures) /\ <<>> \in Seq(Functions)
    OBVIOUS
  <2>2. registry \in [Names -> Seq(Signatures)]
    BY <1>1, <2>1
  <2> QED
    BY <1>1, <2>1, <2>2 DEF RegistryTypeOK
<1>3. ASSUME NEW n \in Names PROVE ListsInOrder(n)
  <2> DEFINE line == [k \in 1..0 |-> 0]
  <2>1. registry[n] = <<>> /\ Len(registry[n]) = 0 /\ Len(registered) = 0
    BY <1>1
  <2>2. line \in [1..0 -> 1..0] /\ DOMAIN line = {} /\ 1..0 = {}
    OBVIOUS
  <2> HIDE DEF line
  <2> QED
    BY <2>1, <2>2 DEF ListsInOrder
<1>4. ToSet(registered) = {}
  BY <1>1 DEF ToSet
<1> QED
  BY <1>1, <1>2, <1>3, <1>4 DEF RegistryInv, FunctionsFound

\* f is the function called where g is asked for
Calls(g, f) ==
  /\ f \in ToSet(registered) /\ FuncPtr(f) = FuncPtr(g)
  /\ NamedFirst(f)
  /\ f = g <=> NamedFirst(g)

LEMMA RegistryStep ==
  ASSUME RegistryInv, NEW f \in Functions, RegisterFunction(f)
  PROVE  RegistryInv'
<1> DEFINE N == Len(registered)
           s == FuncPtr(f)
<1>1. /\ impls \in [Signatures -> Functions \union {NotMade}]
      /\ registry \in [Names -> Seq(Signatures)]
      /\ registered \in Seq(Functions)
      /\ N \in Nat /\ Len(registered) = N
  BY DEF RegistryInv, RegistryTypeOK
<1>2. /\ f \notin ToSet(registered)
      /\ impls' = [impls EXCEPT ![s] = IF @ = NotMade THEN f ELSE @]
      /\ registry' = [registry EXCEPT ![f.name] = Append(@, s)]
      /\ registered' = Append(registered, f)
  BY DEF RegisterFunction, make_function, registerFunction
<1>3. s \in Signatures /\ f.name \in Names
  BY DEF Signatures, Names
<1>4. /\ registered' \in Seq(Functions) /\ Len(registered') = N + 1
      /\ registered'[N + 1] = f /\ \A i \in 1..N : registered'[i] = registered[i]
  BY <1>1, <1>2
<1>5. ToSet(registered') = ToSet(registered) \union {f}
  <2>1. ToSet(registered') = {registered'[i] : i \in 1..(N + 1)}
        /\ ToSet(registered) = {registered[i] : i \in 1..N}
    <3>1. DOMAIN registered' = 1..(N + 1) /\ DOMAIN registered = 1..N
      BY <1>1, <1>4
    <3> HIDE DEF N
    <3> QED
      BY <3>1 DEF ToSet
  <2> HIDE DEF N
  <2> QED
    BY <1>1, <1>4, <2>1
<1>6. /\ impls' \in [Signatures -> Functions \union {NotMade}]
      /\ impls'[s] = IF impls[s] = NotMade THEN f ELSE impls[s]
      /\ \A t \in Signatures : t # s => impls'[t] = impls[t]
  <2> HIDE DEF s
  <2> QED
    BY <1>1, <1>2, <1>3
<1>7. /\ registry' \in [Names -> Seq(Signatures)]
      /\ registry'[f.name] = Append(registry[f.name], s)
      /\ \A n \in Names : n # f.name => registry'[n] = registry[n]
  <2> HIDE DEF s
  <2>1. Append(registry[f.name], s) \in Seq(Signatures)
    BY <1>1, <1>3
  <2> QED
    BY <1>1, <1>2, <1>3, <2>1
<1> HIDE DEF N
<1>8. RegistryTypeOK'
  BY <1>4, <1>6, <1>7 DEF RegistryTypeOK
<1>9. ASSUME NEW n \in Names PROVE ListsInOrder(n)'
  <2> DEFINE K == Len(registry[n])
  <2>1. K \in Nat /\ registry[n] \in Seq(Signatures)
    BY <1>1
  <2>2. PICK line \in [1..K -> 1..N] :
          /\ \A j, k \in 1..K : j < k => line[j] < line[k]
          /\ \A i \in 1..N : registered[i].name = n <=> \E k \in 1..K : line[k] = i
          /\ \A k \in 1..K : registry[n][k] = FuncPtr(registered[line[k]])
    BY <1>1 DEF RegistryInv, FunctionsFound, ListsInOrder
  <2>3. CASE n # f.name
    <3>1. registry'[n] = registry[n] /\ Len(registry'[n]) = K
      BY <1>7, <2>3
    <3>2. line \in [1..K -> 1..(N + 1)] /\ DOMAIN line = 1..K
      BY <1>1, <2>2
    <3>3. \A i \in 1..(N + 1) : registered'[i].name = n <=> \E k \in 1..K : line[k] = i
      <4> TAKE i \in 1..(N + 1)
      <4>1. CASE i = N + 1
        <5>1. \A k \in 1..K : line[k] \in 1..N /\ line[k] # i
          BY <1>1, <2>2, <4>1
        <5> QED
          BY <1>4, <2>3, <4>1, <5>1
      <4>2. CASE i \in 1..N
        BY <1>4, <2>2, <4>2
      <4> QED
        BY <1>1, <4>1, <4>2
    <3>4. \A k \in 1..K : registry'[n][k] = FuncPtr(registered'[line[k]])
      BY <1>4, <2>2, <3>1
    <3> HIDE DEF K
    <3> QED
      BY <1>4, <2>2, <3>1, <3>2, <3>3, <3>4 DEF ListsInOrder
  <2>4. CASE n = f.name
    <3> DEFINE L == K + 1
               M == N + 1
               new == [k \in 1..L |-> IF k = L THEN M ELSE line[k]]
    <3>1. registry'[n] = Append(registry[n], s)
      BY <1>7, <2>4
    <3>2. /\ Len(registry'[n]) = L /\ registry'[n][L] = s
          /\ \A k \in 1..K : registry'[n][k] = registry[n][k]
      BY <1>3, <2>1, <3>1
    <3>3. /\ L \in 1..L /\ M \in 1..M /\ 1..L = 1..K \union {L} /\ 1..M = 1..N \union {M}
          /\ L \notin 1..K /\ M \notin 1..N
      BY <1>1, <2>1
    <3>4. /\ new \in [1..L -> 1..M] /\ DOMAIN new = 1..L /\ new[L] = M
          /\ \A k \in 1..K : new[k] = line[k] /\ new[k] \in 1..N
      BY <2>2, <3>3
    <3>5. \A j, k \in 1..L : j < k => new[j] < new[k]
      <4> TAKE j, k \in 1..L
      <4> HAVE j < k
      <4>1. j \in 1..K
        BY <2>1
      <4>2. CASE k = L
        BY <1>1, <3>4, <4>1, <4>2
      <4>3. CASE k \in 1..K
        BY <2>2, <3>4, <4>1, <4>3
      <4> QED
        BY <3>3, <4>2, <4>3
    <3> HIDE DEF new
    <3>6. \A i \in 1..M : registered'[i].name = n <=> \E k \in 1..L : new[k] = i
      <4> HIDE DEF L
      <4> TAKE i \in 1..M
      <4>1. CASE i = M
        BY <1>4, <2>4, <3>3, <3>4, <4>1
      <4>2. CASE i \in 1..N
        <5>1. registered'[i].name = n <=> \E k \in 1..K : line[k] = i
          BY <1>4, <2>2, <4>2
        <5>2. i # M
          BY <3>3, <4>2
        <5> QED
          BY <3>3, <3>4, <5>1, <5>2
      <4> QED
        BY <3>3, <4>1, <4>2
    <3>7. \A k \in 1..L : registry'[n][k] = FuncPtr(registered'[new[k]])
      <4> TAKE k \in 1..L
      <4>1. CASE k = L
        BY <1>4, <3>2, <3>4, <4>1
      <4>2. CASE k \in 1..K
        BY <1>4, <2>2, <3>2, <3>4, <4>2
      <4> QED
        BY <3>3, <4>1, <4>2
    <3>8. Len(registered') = M
      BY <1>4
    <3> HIDE DEF L, M, K, s
    <3>9. /\ new \in [1..Len(registry'[n]) -> 1..Len(registered')]
          /\ \A j, k \in DOMAIN new : j < k => new[j] < new[k]
          /\ \A i \in 1..Len(registered') :
               registered'[i].name = n <=> \E k \in DOMAIN new : new[k] = i
          /\ \A k \in DOMAIN new : registry'[n][k] = FuncPtr(registered'[new[k]])
      BY <3>2, <3>4, <3>5, <3>6, <3>7, <3>8
    <3> QED
      BY <3>9 DEF ListsInOrder
  <2> QED
    BY <2>3, <2>4
<1>10. \A g \in ToSet(registered) :
         /\ FuncPtr(g) \in Signatures
         /\ \E i \in 1..N : registered[i] = g
  BY <1>1 DEF ToSet, Signatures
<1>11. ASSUME NEW g \in ToSet(registered)
       PROVE  NamedFirst(g)' <=> NamedFirst(g)
  <2>1. PICK p \in 1..N : registered[p] = g
    BY <1>10
  <2>2. NamedFirst(g) => NamedFirst(g)'
    <3> SUFFICES ASSUME NamedFirst(g), NEW i \in 1..(N + 1),
                        FuncPtr(registered'[i]) = FuncPtr(g)
                 PROVE  \E j \in 1..i : registered'[j] = g
      BY <1>4 DEF NamedFirst
    <3>1. CASE i = N + 1
      BY <1>1, <1>4, <2>1, <3>1
    <3>2. CASE i \in 1..N
      <4>1. PICK j \in 1..i : registered[j] = g
        BY <1>1, <1>4, <3>2 DEF NamedFirst
      <4> QED
        BY <1>1, <1>4, <3>2, <4>1
    <3> QED
      BY <1>1, <3>1, <3>2
  <2>3. NamedFirst(g)' => NamedFirst(g)
    <3> SUFFICES ASSUME NamedFirst(g)', NEW i \in 1..N, FuncPtr(registered[i]) = FuncPtr(g)
                 PROVE  \E j \in 1..i : registered[j] = g
      BY <1>1 DEF NamedFirst
    <3>1. i \in 1..(N + 1) /\ FuncPtr(registered'[i]) = FuncPtr(g)
      BY <1>1, <1>4
    <3>2. PICK j \in 1..i : registered'[j] = g
      BY <1>4, <3>1 DEF NamedFirst
    <3> QED
      BY <1>1, <1>4, <3>2
  <2> QED
    BY <2>2, <2>3
<1>12. \A g \in ToSet(registered) : Calls(g, impls[FuncPtr(g)])
  BY DEF RegistryInv, FunctionsFound, Calls
<1>13. \A g \in ToSet(registered) :
         impls[FuncPtr(g)] # NotMade /\ impls'[FuncPtr(g)] = impls[FuncPtr(g)]
  <2>1. \A g \in ToSet(registered) : impls[FuncPtr(g)] # NotMade
    BY <1>1, <1>12, FunctionsAssumption DEF ToSet, Calls
  <2> QED
    BY <1>6, <1>10, <2>1
<1>14. ASSUME NEW g \in ToSet(registered'), NEW e, e = impls'[FuncPtr(g)]
       PROVE  Calls(g, e)'
  <2>1. CASE g \in ToSet(registered)
    <3>1. Calls(g, e)
      BY <1>12, <1>13, <1>14, <2>1
    <3>2. e \in ToSet(registered)
      BY <3>1 DEF Calls
    <3>3. (NamedFirst(g)' <=> NamedFirst(g)) /\ (NamedFirst(e)' <=> NamedFirst(e))
      BY <1>11, <2>1, <3>2
    <3> QED
      BY <1>5, <3>1, <3>3 DEF Calls
  <2>2. CASE g = f /\ impls[s] = NotMade
    <3>1. \A i \in 1..N : FuncPtr(registered[i]) # s
      <4> SUFFICES ASSUME NEW i \in 1..N, FuncPtr(registered[i]) = s PROVE FALSE
        OBVIOUS
      <4>1. registered[i] \in ToSet(registered)
        BY <1>1 DEF ToSet
      <4> QED
        BY <1>13, <2>2, <4>1
    <3>2. e = f
      BY <1>6, <1>14, <2>2
    <3>3. NamedFirst(f)'
      <4> SUFFICES ASSUME NEW i \in 1..(N + 1), FuncPtr(registered'[i]) = s
                   PROVE  \E j \in 1..i : registered'[j] = f
        BY <1>4 DEF NamedFirst
      <4>1. i = N + 1
        BY <1>1, <1>4, <3>1
      <4> QED
        BY <1>1, <1>4, <4>1
    <3> QED
      BY <1>5, <2>2, <3>2, <3>3 DEF Calls
  <2>3. CASE g = f /\ impls[s] # NotMade
    <3>1. PICK k \in ToSet(registered) : FuncPtr(k) = s
      BY <1>3, <2>3 DEF RegistryInv
    <3>2. e = impls[FuncPtr(k)]
      BY <1>6, <1>14, <2>3, <3>1
    <3>3. e \in ToSet(registered) /\ FuncPtr(e) = s /\ NamedFirst(e)
      BY <1>12, <3>1, <3>2 DEF Calls
    <3>4. NamedFirst(e)'
      BY <1>11, <3>3
    <3>5. ~NamedFirst(f)'
      <4>1. PICK i \in 1..N : registered[i] = k
        BY <1>10
      <4>2. i \in 1..(N + 1) /\ FuncPtr(registered'[i]) = FuncPtr(f)
        BY <1>1, <1>4, <3>1, <4>1
      <4>3. \A j \in 1..i : registered'[j] # f
        <5> SUFFICES ASSUME NEW j \in 1..i, registered'[j] = f PROVE FALSE
          OBVIOUS
        <5>1. j \in 1..N
          BY <1>1
        <5>2. registered[j] = f
          BY <1>4, <5>1
        <5> QED
          BY <1>1, <1>2, <5>1, <5>2 DEF ToSet
      <4> QED
        BY <1>4, <4>2, <4>3 DEF NamedFirst
    <3>6. e # f
      BY <1>2, <3>3
    <3> QED
      BY <1>5, <2>3, <3>3, <3>4, <3>5, <3>6 DEF Calls
  <2> QED
    BY <1>5, <2>1, <2>2, <2>3
<1>15. FunctionsFound'
  BY <1>9, <1>14 DEF FunctionsFound, Calls
<1>16. ASSUME NEW t \in Signatures, impls'[t] # NotMade
       PROVE  \E g \in ToSet(registered') : FuncPtr(g) = t
  <2>1. CASE t = s
    BY <1>5, <2>1
  <2>2. CASE t # s
    BY <1>5, <1>6, <1>16, <2>2 DEF RegistryInv
  <2> QED
    BY <2>1, <2>2
<1> QED
  BY <1>8, <1>15, <1>16 DEF RegistryInv

\* The last result is one
LastOK == last.op # "none" => last.result \in Result

(***************************************************************************)
(* RegistryOK: the state has its types, and a name finds the functions     *)
(* registered under it, whatever the order of the initialisers and         *)
(* wherever a library is loaded.                                           *)
(***************************************************************************)
THEOREM RegistryAlwaysOK ==
  Spec => []RegistryOK
<1>1. Init => RegistryInv /\ LastOK
  BY RegistryStart DEF Init, LastOK
<1>2. CacheInv /\ RegistryInv /\ LastOK /\ [Next]_vars => RegistryInv' /\ LastOK'
  <2> SUFFICES ASSUME CacheInv, RegistryInv, LastOK, [Next]_vars
               PROVE  RegistryInv' /\ LastOK'
    OBVIOUS
  <2>1. ASSUME UNCHANGED registryVars PROVE RegistryInv'
    BY <2>1 DEF registryVars, RegistryInv, RegistryTypeOK, FunctionsFound, ListsInOrder, NamedFirst
  <2>2. CASE UNCHANGED vars
    <3>1. UNCHANGED registryVars /\ last' = last
      BY <2>2 DEF vars, registryVars
    <3> QED
      BY <2>1, <3>1 DEF LastOK
  <2>3. CASE \E f \in Functions : Load(f)
    <3>1. PICK f \in Functions : RegisterFunction(f) /\ last' = [op |-> "none"]
      BY <2>3 DEF Load
    <3> QED
      BY <3>1, RegistryStep DEF LastOK
  <2>4. CASE \E x : /\ StepOk(x, cache)
                    /\ \E op, of, via, object, args : Leaves(op, of, via, object, args, x)
    <3>1. UNCHANGED registryVars /\ last'.result \in Result
      BY <2>4 DEF Leaves, StepOk
    <3> QED
      BY <2>1, <3>1 DEF LastOK
  <2> QED
    BY <2>2, <2>3, <2>4, Steps DEF CacheInv, IsCall, IsGet, IsSet
<1>3. CacheInv /\ RegistryInv /\ LastOK => RegistryOK
  <2> SUFFICES ASSUME CacheInv, RegistryInv, LastOK PROVE RegistryOK
    OBVIOUS
  <2>1. cache \in [Types -> [Types -> Entry \union {NotCached}]]
    BY DEF CacheInv, Sound, CacheType
  <2>2. refused \subseteq Types \X Types
    BY DEF CacheInv, Lost
  <2> QED
    BY <2>1, <2>2 DEF RegistryOK, TypeOK, RegistryInv, LastOK
<1> QED
  BY <1>1, <1>2, <1>3, CacheAlwaysSound, PTL DEF Spec
=============================================================================
