----------------------------- MODULE ProxyProofs -----------------------------
(***************************************************************************)
(* What the reference counting of proxies guarantees for any number of     *)
(* Proxies, references, ProxyImpls, interfaces and methods, with handlers  *)
(* that capture Proxies and at any depth of calls.                         *)
(***************************************************************************)
EXTENDS Proxy, FiniteSetTheorems, SequenceTheorems, TLAPS

-----------------------------------------------------------------------------
(* No pointer dangles                                                       *)

\* A new ProxyImpl finds an empty m_map
HandlersOfNone == \A i \in Impls \ impls, m \in Methods : handlers[i][m] = None

HeapInv == HeapOK /\ HandlersOfNone

(***************************************************************************)
(* Counting what goes yields numbers.                                      *)
(***************************************************************************)
LEMMA OneType == \A k : One(k) \in [Impls -> Nat]
BY DEF One

LEMMA GoneType ==
  ASSUME NEW i
  PROVE  [k \in Impls |-> Cardinality({m \in Methods : handlers[i][m] = k})] \in [Impls -> Nat]
<1> SUFFICES ASSUME NEW k \in Impls
             PROVE  Cardinality({m \in Methods : handlers[i][m] = k}) \in Nat
  OBVIOUS
<1> DEFINE R == {m \in Methods : handlers[i][m] = k}
<1> R \in SUBSET Methods
  OBVIOUS
<1> QED
  BY FinitenessAssumption, FS_Subset, FS_CardinalityType

LEMMA CountedType ==
  ASSUME TypeOK, NEW made \in [Impls -> Nat], NEW gone \in [Impls -> Nat], Counted(made, gone)
  PROVE  handleCount' \in [Impls -> Int] /\ interfaces' \subseteq interfaces
BY DEF TypeOK, Counted

(***************************************************************************)
(* Nothing in the program makes a pointer dangle.                          *)
(***************************************************************************)
LEMMA HeapStep == HeapInv /\ [Next]_vars => HeapInv'
<1> SUFFICES ASSUME HeapInv, [Next]_vars PROVE HeapInv'
  OBVIOUS
<1> USE DEF HeapInv, HeapOK, HandlersOfNone, NoDangling
<1>0. TypeOK /\ One(None) \in [Impls -> Nat]
  BY OneType
<1>1. ASSUME NEW h \in Handles, Destroy(h) PROVE HeapInv'
  <2>1. handleCount' \in [Impls -> Int] /\ interfaces' \subseteq interfaces
    BY <1>0, <1>1, OneType, CountedType DEF Destroy
  <2> QED
    BY <1>0, <1>1, <2>1 DEF Destroy, TypeOK
<1>2. ASSUME NEW h \in Handles, NEW list \in Lists, New(h, list) PROVE HeapInv'
  <2> PICK i \in Impls \ impls :
         LET made == {<<i, c>> : c \in Accepted(list)}
         IN  /\ impls' = impls \union {i}
             /\ handleCount' = [handleCount EXCEPT ![i] = 1]
             /\ interfaces' = interfaces \union made
             /\ stubs' = stubs \union made
             /\ declared' = [declared EXCEPT ![i] = Accepted(list)]
             /\ handle' = IF Rejected(list) THEN handle ELSE [handle EXCEPT ![h] = i]
             /\ UNCHANGED <<ref, handlers, calls>>
    BY <1>2 DEF New
  <2>1. Accepted(list) \subseteq Classes
    BY ProxyAssumption DEF Accepted
  <2> QED
    BY <1>0, <2>1 DEF TypeOK, Stub, Handler
<1>3. ASSUME NEW h \in Handles, NEW g \in Handles, Copy(h, g) PROVE HeapInv'
  <2>1. handleCount' \in [Impls -> Int] /\ interfaces' \subseteq interfaces
    BY <1>0, <1>3, OneType, CountedType DEF Copy
  <2> QED
    BY <1>0, <1>3, <2>1 DEF Copy, TypeOK
<1>4. ASSUME NEW h \in Handles, NEW g \in Handles, Assign(h, g) PROVE HeapInv'
  <2>1. handleCount' \in [Impls -> Int] /\ interfaces' \subseteq interfaces
    BY <1>0, <1>4, OneType, CountedType DEF Assign
  <2> QED
    BY <1>0, <1>4, <2>1 DEF Assign, TypeOK
<1>5. ASSUME NEW h \in Handles, NEW m \in Methods, NEW handler \in Handler,
             AddImplementation(h, m, handler)
      PROVE  HeapInv'
  <2>1. handleCount' \in [Impls -> Int] /\ interfaces' \subseteq interfaces
    BY <1>0, <1>5, OneType, CountedType DEF AddImplementation
  <2>2. handle[h] \in impls /\ handler \in impls \union {Plain}
    BY <1>0, <1>5 DEF AddImplementation, TypeOK
  <2>3. handlers' = [handlers EXCEPT ![handle[h]][m] = handler]
    BY <1>5 DEF AddImplementation
  <2>4. handlers' \in [Impls -> [Methods -> Handler]]
    BY <1>0, <2>2, <2>3 DEF TypeOK
  <2>5. \A i \in Impls, n \in Methods :
          handlers'[i][n] = IF i = handle[h] /\ n = m THEN handler ELSE handlers[i][n]
    BY <1>0, <2>2, <2>3 DEF TypeOK
  <2> QED
    BY <1>0, <1>5, <2>1, <2>2, <2>4, <2>5 DEF AddImplementation, TypeOK
<1>6. ASSUME NEW h \in Handles, NEW c \in Classes, NEW r \in Refs, Reference(h, c, r)
      PROVE  HeapInv'
  BY <1>0, <1>6 DEF Reference, TypeOK
<1>7. ASSUME NEW r \in Refs, NEW q \in Refs, ShareOrDrop(r, q) PROVE HeapInv'
  BY <1>0, <1>7 DEF ShareOrDrop, TypeOK
<1>8. ASSUME NEW r \in Refs, NEW m \in Methods, Call(r, m) PROVE HeapInv'
  <2> DEFINE f == [stub |-> ref[r], via |-> r, method |-> m]
  <2>1. f \in Frame
    BY <1>0, <1>8 DEF Call, TypeOK, Frame
  <2>2. calls' \in Seq(Frame)
    BY <1>0, <1>8, <2>1 DEF Call, TypeOK
  <2> QED
    BY <1>0, <1>8, <2>2 DEF Call, TypeOK
<1>9. ASSUME Return PROVE HeapInv'
  BY <1>0, <1>9 DEF Return, TypeOK
<1>10. ASSUME NEW s \in Stub, DestroyStub(s) PROVE HeapInv'
  BY <1>0, <1>10 DEF DestroyStub, StubOwned, TypeOK
<1>11. ASSUME NEW i \in Impls, DestroyImpl(i) PROVE HeapInv'
  <2>1. handleCount' \in [Impls -> Int] /\ interfaces' \subseteq interfaces
    BY <1>0, <1>11, GoneType, CountedType DEF DestroyImpl
  <2>2. /\ \A h \in Handles : handle[h] # i
        /\ \A s \in stubs : s[1] # i
        /\ \A j \in impls, m \in Methods : handlers[j][m] # i
    <3>1. ~ImplOwned(i)
      BY <1>11 DEF DestroyImpl
    <3>2. \A s \in stubs : s[2] \in Classes /\ s = <<s[1], s[2]>>
      BY <1>0 DEF TypeOK, Stub
    <3>3. ASSUME NEW j \in impls, NEW m \in Methods, handlers[j][m] = i PROVE FALSE
      <4>1. <<j, m>> \in Captured(i)
        BY <3>3 DEF Captured
      <4> QED
        BY <3>1, <4>1 DEF ImplOwned
    <3> QED
      BY <3>1, <3>2, <3>3 DEF ImplOwned
  <2>3. handlers' \in [Impls -> [Methods -> Handler]]
    BY <1>0, <1>11 DEF DestroyImpl, TypeOK, Handler
  <2>4. \A j \in Impls, m \in Methods :
          handlers'[j][m] = IF j = i THEN None ELSE handlers[j][m]
    BY <1>0, <1>11 DEF DestroyImpl, TypeOK
  <2> QED
    BY <1>0, <1>11, <2>1, <2>2, <2>3, <2>4 DEF DestroyImpl, TypeOK
<1>12. CASE UNCHANGED vars
  BY <1>0, <1>12 DEF vars, TypeOK
<1> QED
  BY <1>1, <1>2, <1>3, <1>4, <1>5, <1>6, <1>7, <1>8, <1>9, <1>10, <1>11, <1>12
     DEF Next, Destructors

(***************************************************************************)
(* HeapOK for every instance: handles, captured handles and stubs point to *)
(* ProxyImpls that exist (proxy.h: m_impl, proxy.cpp: m_map), references   *)
(* and m_interfaces to stubs that exist, whatever the program does and in  *)
(* whichever order the destructors run.                                    *)
(***************************************************************************)
LEMMA HeapInvariant == Spec => []HeapInv
<1>1. Init => HeapInv
  BY ProxyAssumption DEF Init, HeapInv, HeapOK, HandlersOfNone, NoDangling, TypeOK, Handler
<1> QED
  BY <1>1, HeapStep, PTL DEF Spec

THEOREM HeapWellFormed == Spec => []HeapOK
<1>1. HeapInv => HeapOK
  BY DEF HeapInv
<1> QED
  BY <1>1, HeapInvariant, PTL

-----------------------------------------------------------------------------
(* The handle count                                                         *)

\* The Proxies on ProxyImpl i, and how many they are, captured ones included
On(i)     == {h \in Handles : handle[h] = i}
Number(i) == Cardinality(On(i)) + Cardinality(Captured(i))

\* m_interfaces of ProxyImpl i
Row(i) == {c \in Classes : <<i, c>> \in interfaces}

\* No constructor throws after it registered an interface
WholeLists == \A list \in Lists : Rejected(list) => Accepted(list) = {}

\* What a constructor that did so leaves: the count of a Proxy that never was
Leaked(i) == ~WholeLists /\ Number(i) = 0 /\ handleCount[i] = 1

CountInv ==
  \A i \in impls : ImplOwned(i) => handleCount[i] = Number(i) \/ Leaked(i)

RowInv ==
  \A i \in impls : ImplOwned(i) =>
    /\ Number(i) # 0 => Row(i) = declared[i]
    /\ Number(i) = 0 => Row(i) = {} \/ Leaked(i)

CountsInv == CountInv /\ RowInv

(***************************************************************************)
(* The Proxies of a ProxyImpl, captured ones or not, can be counted.       *)
(***************************************************************************)
LEMMA Countable ==
  /\ \A S \in SUBSET Handles : IsFiniteSet(S) /\ Cardinality(S) \in Nat
  /\ \A S \in SUBSET (Impls \X Methods) : IsFiniteSet(S) /\ Cardinality(S) \in Nat
  /\ \A S \in SUBSET Methods : IsFiniteSet(S) /\ Cardinality(S) \in Nat
<1>1. IsFiniteSet(Impls \X Methods)
  BY FinitenessAssumption, FS_Product
<1> QED
  BY <1>1, FinitenessAssumption, FS_Subset, FS_CardinalityType

LEMMA NumberType ==
  ASSUME HeapInv, NEW i \in Impls
  PROVE  /\ Number(i) \in Nat
         /\ Number(i) = 0 <=> On(i) = {} /\ Captured(i) = {}
<1>1. On(i) \in SUBSET Handles /\ Captured(i) \in SUBSET (Impls \X Methods)
  BY DEF On, Captured, HeapInv, HeapOK, TypeOK
<1> QED
  BY <1>1, Countable, FS_EmptySet DEF Number

(***************************************************************************)
(* One handle changes its ProxyImpl: the old one has one Proxy less, the   *)
(* new one has one more.                                                   *)
(***************************************************************************)
LEMMA OnUpdate ==
  ASSUME HeapInv, NEW h \in Handles, NEW k \in Impls \union {None},
         handle' = [handle EXCEPT ![h] = k], NEW i \in Impls
  PROVE  Cardinality(On(i)') = Cardinality(On(i)) + One(k)[i] - One(handle[h])[i]
<1>1. IsFiniteSet(On(i)) /\ Cardinality(On(i)) \in Nat
  BY Countable DEF On
<1>2. On(i)' = IF k = i THEN On(i) \union {h} ELSE On(i) \ {h}
  BY DEF On, HeapInv, HeapOK, TypeOK
<1>3. h \in On(i) <=> handle[h] = i
  BY DEF On
<1>4. Cardinality(On(i) \union {h}) =
        IF handle[h] = i THEN Cardinality(On(i)) ELSE Cardinality(On(i)) + 1
  BY <1>1, <1>3, FS_AddElement
<1>5. Cardinality(On(i) \ {h}) =
        IF handle[h] = i THEN Cardinality(On(i)) - 1 ELSE Cardinality(On(i))
  BY <1>1, <1>3, FS_RemoveElement
<1>6. CASE k = i
  BY <1>1, <1>2, <1>4, <1>6 DEF One
<1>7. CASE k # i
  BY <1>1, <1>2, <1>5, <1>7 DEF One
<1> QED
  BY <1>6, <1>7

(***************************************************************************)
(* The same for the handler that a method gets.                            *)
(***************************************************************************)
LEMMA CapturedUpdate ==
  ASSUME HeapInv, NEW j \in impls, NEW m \in Methods, NEW k \in Handler,
         handlers' = [handlers EXCEPT ![j][m] = k], impls' = impls, NEW i \in Impls
  PROVE  Cardinality(Captured(i)') = Cardinality(Captured(i)) + One(k)[i] - One(handlers[j][m])[i]
<1>1. Captured(i) \in SUBSET (Impls \X Methods)
  BY DEF Captured, HeapInv, HeapOK, TypeOK
<1>2. IsFiniteSet(Captured(i)) /\ Cardinality(Captured(i)) \in Nat
  BY <1>1, Countable
<1>3. j \in Impls /\ handlers \in [Impls -> [Methods -> Handler]]
  BY DEF HeapInv, HeapOK, TypeOK
<1>4. \A l \in Impls, n \in Methods :
        handlers'[l][n] = IF l = j /\ n = m THEN k ELSE handlers[l][n]
  BY <1>3
<1>5. impls \subseteq Impls
  BY DEF HeapInv, HeapOK, TypeOK
<1>6. Captured(i)' = IF k = i THEN Captured(i) \union {<<j, m>>} ELSE Captured(i) \ {<<j, m>>}
  BY <1>4, <1>5 DEF Captured
<1>7. <<j, m>> \in Captured(i) <=> handlers[j][m] = i
  BY DEF Captured
<1>8. Cardinality(Captured(i) \union {<<j, m>>}) =
        IF handlers[j][m] = i THEN Cardinality(Captured(i)) ELSE Cardinality(Captured(i)) + 1
  BY <1>2, <1>7, FS_AddElement
<1>9. Cardinality(Captured(i) \ {<<j, m>>}) =
        IF handlers[j][m] = i THEN Cardinality(Captured(i)) - 1 ELSE Cardinality(Captured(i))
  BY <1>2, <1>7, FS_RemoveElement
<1>10. CASE k = i
  BY <1>2, <1>6, <1>8, <1>10 DEF One
<1>11. CASE k # i
  BY <1>2, <1>6, <1>9, <1>11 DEF One
<1> QED
  BY <1>10, <1>11

(***************************************************************************)
(* A ProxyImpl goes with its m_map: the others lose the Proxies captured   *)
(* in it, as many as decHandleCount is run for.                            *)
(***************************************************************************)
LEMMA CapturedDestroy ==
  ASSUME HeapInv, NEW i \in impls, NEW k \in Impls, impls' = impls \ {i},
         handlers' = [handlers EXCEPT ![i] = [m \in Methods |-> None]]
  PROVE  Cardinality(Captured(k)') =
           Cardinality(Captured(k)) - Cardinality({m \in Methods : handlers[i][m] = k})
<1> DEFINE R == {m \in Methods : handlers[i][m] = k}
<1>1. Captured(k) \in SUBSET (Impls \X Methods) /\ i \in Impls
  BY DEF Captured, HeapInv, HeapOK, TypeOK
<1>2. IsFiniteSet(Captured(k)) /\ IsFiniteSet(R) /\ Cardinality(R) \in Nat
  BY <1>1, Countable
<1>3. Captured(k)' = Captured(k) \ ({i} \X R)
  BY DEF Captured, HeapInv, HeapOK, TypeOK
<1>4. Captured(k) \cap ({i} \X R) = {i} \X R
  BY DEF Captured
<1>5. Cardinality({i} \X R) = Cardinality(R)
  <2>1. IsFiniteSet({i}) /\ Cardinality({i}) = 1
    BY FS_Singleton
  <2>2. Cardinality({i} \X R) = Cardinality({i}) * Cardinality(R)
    BY <2>1, <1>2, FS_Product
  <2> QED
    BY <2>1, <2>2, <1>2
<1>6. Cardinality(Captured(k) \ ({i} \X R)) =
        Cardinality(Captured(k)) - Cardinality(Captured(k) \cap ({i} \X R))
  BY <1>2, FS_Difference
<1> QED
  BY <1>3, <1>4, <1>5, <1>6

(***************************************************************************)
(* Where the Proxies that come and go are counted, the count stays the     *)
(* number of Proxies, and the interfaces go exactly when none is left.     *)
(***************************************************************************)
LEMMA CountedExact ==
  ASSUME HeapInv, CountsInv, NEW made \in [Impls -> Nat], NEW gone \in [Impls -> Nat],
         Counted(made, gone), declared' = declared, impls' \subseteq impls,
         NEW i \in impls', ImplOwned(i), Number(i)' \in Nat,
         Number(i)' = Number(i) + made[i] - gone[i], Number(i) = 0 => made[i] = 0
  PROVE  /\ handleCount'[i] = Number(i)' \/ Leaked(i)'
         /\ Number(i)' # 0 => Row(i)' = declared'[i]
         /\ Number(i)' = 0 => Row(i)' = {} \/ Leaked(i)'
<1>1. i \in Impls /\ i \in impls /\ Number(i) \in Nat
  BY NumberType DEF HeapInv, HeapOK, TypeOK
<1>2. /\ made[i] \in Nat /\ gone[i] \in Nat /\ handleCount[i] \in Int
      /\ handleCount'[i] = handleCount[i] + made[i] - gone[i]
  BY <1>1 DEF Counted, HeapInv, HeapOK, TypeOK
<1>3. Row(i)' = IF gone[i] > 0 /\ ~(handleCount'[i] > 0) THEN {} ELSE Row(i)
  BY <1>1 DEF Counted, Row
<1>4. handleCount[i] = Number(i) \/ Leaked(i)
  BY <1>1 DEF CountsInv, CountInv
<1>5. Leaked(i) => Leaked(i)'
  BY <1>1, <1>2 DEF Leaked
<1>6. CASE Number(i) = 0
  BY <1>1, <1>2, <1>3, <1>4, <1>5, <1>6 DEF CountsInv, RowInv
<1>7. CASE Number(i) # 0
  <2>1. handleCount[i] = Number(i) /\ Row(i) = declared[i]
    BY <1>1, <1>4, <1>7 DEF Leaked, CountsInv, RowInv
  <2> QED
    BY <1>1, <1>2, <1>3, <1>7, <2>1
<1> QED
  BY <1>6, <1>7

(***************************************************************************)
(* Every step keeps the handle counts exact and the interfaces in step     *)
(* with them.                                                              *)
(***************************************************************************)
LEMMA CountsStep == HeapInv /\ CountsInv /\ [Next]_vars => CountsInv'
<1> SUFFICES ASSUME HeapInv, CountsInv, [Next]_vars PROVE CountsInv'
  OBVIOUS
<1>0. TypeOK /\ NoDangling /\ TypeOK'
  BY HeapStep DEF HeapInv, HeapOK
<1>N. \A i \in Impls : Number(i) \in Nat /\ Number(i)' \in Nat
  <2> SUFFICES ASSUME NEW i \in Impls PROVE Number(i) \in Nat /\ Number(i)' \in Nat
    OBVIOUS
  <2>1. On(i)' \in SUBSET Handles /\ Captured(i)' \in SUBSET (Impls \X Methods)
    BY <1>0 DEF On, Captured, TypeOK
  <2>2. Number(i)' \in Nat
    BY <2>1, Countable DEF Number
  <2> QED
    BY <2>2, NumberType
<1>O. ASSUME NEW i \in Impls
      PROVE  /\ Cardinality(On(i)) \in Nat /\ Cardinality(Captured(i)) \in Nat
             /\ \A h \in Handles : handle[h] = i => Number(i) # 0
  <2>1. On(i) \in SUBSET Handles /\ Captured(i) \in SUBSET (Impls \X Methods)
    BY <1>0 DEF On, Captured, TypeOK
  <2>2. \A h \in Handles : handle[h] = i => On(i) # {}
    BY DEF On
  <2> QED
    BY <2>1, <2>2, Countable, NumberType
<1> DEFINE Good(i) == /\ handleCount'[i] = Number(i)' \/ Leaked(i)'
                      /\ Number(i)' # 0 => Row(i)' = declared'[i]
                      /\ Number(i)' = 0 => Row(i)' = {} \/ Leaked(i)'
<1> SUFFICES ASSUME NEW i \in impls', ImplOwned(i)' PROVE Good(i)
  BY DEF CountsInv, CountInv, RowInv
<1>I. i \in Impls
  BY <1>0 DEF TypeOK
<1> HIDE DEF Good
<1>F. ASSUME NEW made \in [Impls -> Nat], NEW gone \in [Impls -> Nat],
             Counted(made, gone), declared' = declared, impls' \subseteq impls, ImplOwned(i),
             Number(i)' = Number(i) + made[i] - gone[i], Number(i) = 0 => made[i] = 0
      PROVE  Good(i)
  BY <1>F, <1>I, <1>N, CountedExact DEF Good
<1>S. ASSUME UNCHANGED <<handle, impls, handleCount, interfaces, handlers, declared>>,
             stubs' \subseteq stubs
      PROVE  Good(i)
  <2>1. Number(i)' = Number(i) /\ Row(i)' = Row(i)
    BY <1>S DEF Number, On, Captured, Row
  <2>2. ImplOwned(i)
    BY <1>S DEF ImplOwned, Captured
  <2> QED
    BY <1>S, <2>1, <2>2 DEF Good, Leaked, CountsInv, CountInv, RowInv
<1>1. ASSUME NEW h \in Handles, NEW k \in Impls \union {None},
             handle' = [handle EXCEPT ![h] = k],
             k # None => \E g \in Handles : handle[g] = k,
             Counted(One(k), One(handle[h])),
             UNCHANGED <<impls, handlers, stubs, declared>>
      PROVE  Good(i)
  <2>1. Captured(i)' = Captured(i)
    BY <1>1 DEF Captured
  <2>2. Number(i)' = Number(i) + One(k)[i] - One(handle[h])[i]
    <3>1. Cardinality(On(i)') = Cardinality(On(i)) + One(k)[i] - One(handle[h])[i]
      BY <1>1, <1>I, OnUpdate
    <3>2. One(k)[i] \in Nat /\ One(handle[h])[i] \in Nat
      BY <1>I, OneType
    <3> QED
      BY <2>1, <3>1, <3>2, <1>I, <1>O DEF Number
  <2>3. ImplOwned(i)
    <3>1. CASE k = i
      BY <1>1, <1>I, <3>1, ProxyAssumption DEF ImplOwned
    <3>2. CASE k # i
      <4>1. \A g \in Handles : handle'[g] = i => handle[g] = i
        BY <1>0, <1>1, <3>2 DEF TypeOK
      <4> QED
        BY <1>1, <2>1, <4>1 DEF ImplOwned
    <3> QED
      BY <3>1, <3>2
  <2>4. Number(i) = 0 => One(k)[i] = 0
    BY <1>1, <1>I, <1>O, ProxyAssumption DEF One
  <2> QED
    BY <1>1, <1>F, <2>2, <2>3, <2>4, OneType
<1>2. ASSUME NEW h \in Handles, Destroy(h) PROVE Good(i)
  BY <1>1, <1>2 DEF Destroy
<1>3. ASSUME NEW h \in Handles, NEW list \in Lists, New(h, list) PROVE Good(i)
  <2> DEFINE A == Accepted(list)
  <2> PICK j \in Impls \ impls :
         LET made == {<<j, c>> : c \in Accepted(list)}
         IN  /\ impls' = impls \union {j}
             /\ handleCount' = [handleCount EXCEPT ![j] = 1]
             /\ interfaces' = interfaces \union made
             /\ stubs' = stubs \union made
             /\ declared' = [declared EXCEPT ![j] = Accepted(list)]
             /\ handle' = IF Rejected(list) THEN handle ELSE [handle EXCEPT ![h] = j]
             /\ UNCHANGED <<ref, handlers, calls>>
    BY <1>3 DEF New
  <2>1. A \subseteq Classes
    BY ProxyAssumption DEF Accepted
  <2>2. handle[h] = None
    BY <1>3 DEF New
  <2>3. CASE i = j
    <3>1. On(j) = {} /\ Captured(j) = {}
      BY <1>0, ProxyAssumption DEF On, Captured, NoDangling
    <3>2. Captured(j)' = {}
      BY <1>0, ProxyAssumption DEF Captured, NoDangling, HeapInv, HandlersOfNone
    <3>3. On(j)' = IF Rejected(list) THEN {} ELSE {h}
      BY <1>0, <3>1 DEF On, TypeOK
    <3>4. Row(j)' = A /\ declared'[j] = A /\ handleCount'[j] = 1
      BY <1>0, <2>1 DEF Row, TypeOK, NoDangling
    <3>5. Number(j)' = IF Rejected(list) THEN 0 ELSE 1
      <4>1. Cardinality(Captured(j)') = 0
        BY <3>2, FS_EmptySet
      <4>2. Cardinality(On(j)') = IF Rejected(list) THEN 0 ELSE 1
        BY <3>3, FS_EmptySet, FS_Singleton
      <4> QED
        BY <4>1, <4>2 DEF Number
    <3>6. CASE Rejected(list)
      <4>1. Number(j)' = 0 /\ On(j)' = {}
        BY <3>3, <3>5, <3>6
      <4>2. A # {}
        <5>1. PICK c \in Classes : <<j, c>> \in stubs'
          BY <2>3, <3>2, <4>1 DEF ImplOwned, On
        <5>2. <<j, c>> \notin stubs
          BY <1>0 DEF NoDangling
        <5> QED
          BY <5>1, <5>2
      <4>3. ~WholeLists
        BY <3>6, <4>2 DEF WholeLists
      <4> QED
        BY <2>3, <3>4, <4>1, <4>3 DEF Good, Leaked
    <3>7. CASE ~Rejected(list)
      BY <2>3, <3>4, <3>5, <3>7 DEF Good
    <3> QED
      BY <3>6, <3>7
  <2>4. CASE i # j
    <3>1. On(i)' = On(i)
      BY <1>0, <1>I, <2>2, <2>4, ProxyAssumption DEF On, TypeOK
    <3>2. Captured(i)' = Captured(i)
      BY <1>0, <1>I, ProxyAssumption DEF Captured, HeapInv, HandlersOfNone
    <3>3. Number(i)' = Number(i)
      BY <3>1, <3>2 DEF Number
    <3>4. Row(i)' = Row(i) /\ declared'[i] = declared[i] /\ handleCount'[i] = handleCount[i]
      BY <1>0, <1>I, <2>4 DEF Row, TypeOK
    <3>5. ImplOwned(i)
      <4>1. ASSUME NEW c \in Classes, <<i, c>> \in stubs' PROVE <<i, c>> \in stubs
        BY <2>4, <4>1
      <4> QED
        BY <3>1, <3>2, <4>1 DEF ImplOwned, On
    <3> QED
      BY <2>4, <3>3, <3>4, <3>5 DEF Good, Leaked, CountsInv, CountInv, RowInv
  <2> QED
    BY <2>3, <2>4
<1>4. ASSUME NEW h \in Handles, NEW g \in Handles, Copy(h, g) PROVE Good(i)
  BY <1>0, <1>1, <1>4 DEF Copy, TypeOK
<1>5. ASSUME NEW h \in Handles, NEW g \in Handles, Assign(h, g) PROVE Good(i)
  BY <1>0, <1>1, <1>5 DEF Assign, TypeOK
<1>6. ASSUME NEW h \in Handles, NEW m \in Methods, NEW handler \in Handler,
             AddImplementation(h, m, handler)
      PROVE  Good(i)
  <2> DEFINE j == handle[h]
             old == handlers[j][m]
  <2>0. /\ j \in impls /\ handlers' = [handlers EXCEPT ![j][m] = handler]
        /\ Counted(One(handler), One(old))
        /\ UNCHANGED <<handle, ref, impls, stubs, declared, calls>>
    BY <1>0, <1>6 DEF AddImplementation, NoDangling
  <2> HIDE DEF j, old
  <2>1. On(i)' = On(i)
    BY <2>0 DEF On
  <2>2. Number(i)' = Number(i) + One(handler)[i] - One(old)[i]
    <3>1. Cardinality(Captured(i)') = Cardinality(Captured(i)) + One(handler)[i] - One(old)[i]
      BY <2>0, <1>I, CapturedUpdate DEF old
    <3>2. One(handler)[i] \in Nat /\ One(old)[i] \in Nat
      BY <1>I, OneType
    <3> QED
      BY <2>1, <3>1, <3>2, <1>I, <1>O DEF Number
  <2>3. handler = i => \E g \in Handles : handle[g] = i
    BY <1>6, <1>I, ProxyAssumption DEF AddImplementation
  <2>4. ImplOwned(i)
    <3>1. CASE handler = i
      BY <2>3, <3>1 DEF ImplOwned
    <3>2. CASE handler # i
      <4>1. Captured(i)' \subseteq Captured(i)
        BY <1>0, <2>0, <3>2 DEF Captured, TypeOK
      <4> QED
        BY <2>0, <4>1 DEF ImplOwned
    <3> QED
      BY <3>1, <3>2
  <2>5. Number(i) = 0 => One(handler)[i] = 0
    BY <1>I, <1>O, <2>3 DEF One
  <2> QED
    BY <1>F, <2>0, <2>2, <2>4, <2>5, OneType
<1>7. ASSUME NEW h \in Handles, NEW c \in Classes, NEW r \in Refs, Reference(h, c, r)
      PROVE  Good(i)
  BY <1>7, <1>S DEF Reference
<1>8. ASSUME NEW r \in Refs, NEW q \in Refs, ShareOrDrop(r, q) PROVE Good(i)
  BY <1>8, <1>S DEF ShareOrDrop
<1>9. ASSUME NEW r \in Refs, NEW m \in Methods, Call(r, m) PROVE Good(i)
  BY <1>9, <1>S DEF Call
<1>10. ASSUME Return PROVE Good(i)
  BY <1>10, <1>S DEF Return
<1>11. ASSUME NEW s \in Stub, DestroyStub(s) PROVE Good(i)
  BY <1>11, <1>S DEF DestroyStub
<1>12. ASSUME NEW j \in Impls, DestroyImpl(j) PROVE Good(i)
  <2> DEFINE gone == [k \in Impls |-> Cardinality({m \in Methods : handlers[j][m] = k})]
  <2>0. /\ j \in impls /\ impls' = impls \ {j}
        /\ Counted(One(None), gone)
        /\ handlers' = [handlers EXCEPT ![j] = [m \in Methods |-> None]]
        /\ UNCHANGED <<handle, ref, stubs, declared, calls>>
    BY <1>12 DEF DestroyImpl
  <2>1. On(i)' = On(i)
    BY <2>0 DEF On
  <2>2. Number(i)' = Number(i) + One(None)[i] - gone[i]
    <3>1. Cardinality(Captured(i)') = Cardinality(Captured(i)) - gone[i]
      BY <2>0, <1>I, CapturedDestroy
    <3>2. One(None)[i] = 0 /\ gone[i] \in Nat
      BY <1>I, GoneType, ProxyAssumption DEF One
    <3> HIDE DEF gone
    <3> QED
      BY <2>1, <3>1, <3>2, <1>I, <1>O DEF Number
  <2>3. ImplOwned(i)
    <3>1. Captured(i)' \subseteq Captured(i)
      BY <1>0, <2>0 DEF Captured, TypeOK
    <3> QED
      BY <2>0, <3>1 DEF ImplOwned
  <2>4. One(None)[i] = 0
    BY <1>I, ProxyAssumption DEF One
  <2>5. gone \in [Impls -> Nat] /\ One(None) \in [Impls -> Nat]
    BY GoneType, OneType
  <2> HIDE DEF gone
  <2> QED
    BY <1>F, <2>0, <2>2, <2>3, <2>4, <2>5
<1>13. CASE UNCHANGED vars
  BY <1>13, <1>S DEF vars
<1> QED
  BY <1>2, <1>3, <1>4, <1>5, <1>6, <1>7, <1>8, <1>9, <1>10, <1>11, <1>12, <1>13
     DEF Next, Destructors

LEMMA CountsInvariant == Spec => [](HeapInv /\ CountsInv)
<1>1. Init => CountsInv
  BY DEF Init, CountsInv, CountInv, RowInv
<1> QED
  BY <1>1, CountsStep, HeapInvariant, PTL DEF Spec

(***************************************************************************)
(* HandleCountExact for every instance, unless a constructor throws after  *)
(* it registered an interface: m_handleCount is the number of Proxies on a *)
(* ProxyImpl, through copies, moves, assignments to itself, handlers that  *)
(* capture Proxies (its own included) and ProxyImpls that go with theirs.  *)
(***************************************************************************)
THEOREM HandlesCounted ==
  ASSUME WholeLists
  PROVE  Spec => []HandleCountExact
<1>1. HeapInv /\ CountsInv => HandleCountExact
  BY DEF CountsInv, CountInv, Leaked, Number, On, HandleCountExact
<1> QED
  BY <1>1, CountsInvariant, PTL

(***************************************************************************)
(* InterfacesWhileHandled for every such instance: the interfaces are all  *)
(* there while a Proxy is left, and none is once the last one went, so the *)
(* cycle of proxy.cpp:65 is broken neither too early nor never.            *)
(***************************************************************************)
THEOREM InterfacesFollowHandles ==
  ASSUME WholeLists
  PROVE  Spec => []InterfacesWhileHandled
<1>1. ASSUME HeapInv, CountsInv PROVE InterfacesWhileHandled
  <2> SUFFICES ASSUME NEW i \in impls, ImplOwned(i)
               PROVE  Row(i) = IF (\E h \in Handles : handle[h] = i) \/ Captured(i) # {}
                               THEN declared[i] ELSE {}
    BY DEF InterfacesWhileHandled, Row
  <2>1. Number(i) = 0 <=> On(i) = {} /\ Captured(i) = {}
    BY <1>1, NumberType DEF HeapInv, HeapOK, TypeOK
  <2>2. On(i) = {} <=> ~\E h \in Handles : handle[h] = i
    BY DEF On
  <2>3. ~Leaked(i)
    BY DEF Leaked
  <2> QED
    BY <1>1, <2>1, <2>2, <2>3 DEF CountsInv, RowInv
<1> QED
  BY <1>1, CountsInvariant, PTL

-----------------------------------------------------------------------------
(* Calls in progress                                                        *)

\* A stub was made for an interface its ProxyImpl was declared with
StubsDeclared == \A s \in stubs : s[2] \in declared[s[1]]

\* As long as the ProxyImpl of a call exists, it has the handler and was
\* declared with the interface; no other ProxyImpl takes its place
CallsDeclared ==
  \A n \in 1..Len(calls) :
    LET s == calls[n].stub
    IN  s[1] \in impls => /\ s[2] \in declared[s[1]]
                          /\ handlers[s[1]][calls[n].method] # None

CallsInv == StubsDeclared /\ CallsDeclared

(***************************************************************************)
(* Every step keeps what the calls in progress rely on.                    *)
(***************************************************************************)
LEMMA CallsStep == HeapInv /\ CallsInv /\ [Next]_vars => CallsInv'
<1> SUFFICES ASSUME HeapInv, CallsInv, [Next]_vars PROVE CallsInv'
  OBVIOUS
<1> USE DEF CallsInv, StubsDeclared, CallsDeclared
<1>0. TypeOK /\ NoDangling
  BY DEF HeapInv, HeapOK
<1>C. \A n \in 1..Len(calls) : calls[n] \in Frame /\ calls[n].stub[1] \in Impls
                                 /\ calls[n].method \in Methods
  <2>1. \A n \in 1..Len(calls) : calls[n] \in Frame
    BY <1>0 DEF TypeOK
  <2> QED
    BY <2>1 DEF Frame, Stub
<1>1. ASSUME UNCHANGED <<declared, calls>>, stubs' \subseteq stubs, impls' \subseteq impls,
             \A i \in impls', m \in Methods : handlers[i][m] # None => handlers'[i][m] # None
      PROVE  CallsInv'
  BY <1>1, <1>C
<1>2. ASSUME NEW h \in Handles, Destroy(h) PROVE CallsInv'
  BY <1>1, <1>2 DEF Destroy
<1>3. ASSUME NEW h \in Handles, NEW list \in Lists, New(h, list) PROVE CallsInv'
  <2> PICK i \in Impls \ (impls \union {calls[n].stub[1] : n \in 1..Len(calls)}) :
         /\ impls' = impls \union {i}
         /\ stubs' = stubs \union {<<i, c>> : c \in Accepted(list)}
         /\ declared' = [declared EXCEPT ![i] = Accepted(list)]
         /\ UNCHANGED <<handlers, calls>>
    BY <1>3 DEF New
  <2>1. StubsDeclared'
    BY <1>0 DEF TypeOK, NoDangling
  <2>2. CallsDeclared'
    BY <1>0, <1>C DEF TypeOK
  <2> QED
    BY <2>1, <2>2
<1>4. ASSUME NEW h \in Handles, NEW g \in Handles, Copy(h, g) PROVE CallsInv'
  BY <1>1, <1>4 DEF Copy
<1>5. ASSUME NEW h \in Handles, NEW g \in Handles, Assign(h, g) PROVE CallsInv'
  BY <1>1, <1>5 DEF Assign
<1>6. ASSUME NEW h \in Handles, NEW m \in Methods, NEW handler \in Handler,
             AddImplementation(h, m, handler)
      PROVE  CallsInv'
  <2>1. \A i \in impls, n \in Methods : handlers[i][n] # None => handlers'[i][n] # None
    BY <1>0, <1>6 DEF AddImplementation, TypeOK
  <2> QED
    BY <1>1, <1>6, <2>1 DEF AddImplementation
<1>7. ASSUME NEW h \in Handles, NEW c \in Classes, NEW r \in Refs, Reference(h, c, r)
      PROVE  CallsInv'
  BY <1>1, <1>7 DEF Reference
<1>8. ASSUME NEW r \in Refs, NEW q \in Refs, ShareOrDrop(r, q) PROVE CallsInv'
  BY <1>1, <1>8 DEF ShareOrDrop
<1>9. ASSUME NEW r \in Refs, NEW m \in Methods, Call(r, m) PROVE CallsInv'
  <2> DEFINE f == [stub |-> ref[r], via |-> r, method |-> m]
  <2>1. f \in Frame /\ calls \in Seq(Frame) /\ calls' = <<f>> \o calls
    BY <1>0, <1>9 DEF Call, TypeOK, Frame
  <2>2. \A n \in 1..Len(calls') : calls'[n] = f \/ \E k \in 1..Len(calls) : calls'[n] = calls[k]
    <3> SUFFICES ASSUME NEW n \in 1..Len(calls')
                 PROVE  calls'[n] = f \/ \E k \in 1..Len(calls) : calls'[n] = calls[k]
      OBVIOUS
    <3> HIDE DEF f
    <3>1. <<f>> \in Seq(Frame) /\ Len(<<f>>) = 1 /\ <<f>>[1] = f
      BY <2>1
    <3>2. Len(calls') = 1 + Len(calls) /\ Len(calls) \in Nat
      BY <2>1, <3>1, ConcatProperties, LenProperties
    <3>3. calls'[n] = IF n <= 1 THEN <<f>>[n] ELSE calls[n - 1]
      BY <2>1, <3>1, <3>2, ConcatProperties
    <3>4. CASE n = 1
      BY <3>1, <3>3, <3>4
    <3>5. CASE n # 1
      BY <3>2, <3>3, <3>5
    <3> QED
      BY <3>4, <3>5
  <2>3. f.stub \in stubs /\ f.method = m /\ handlers[f.stub[1]][m] # None
    BY <1>0, <1>9 DEF Call, NoDangling
  <2> HIDE DEF f
  <2>4. UNCHANGED <<impls, stubs, handlers, declared>>
    BY <1>9 DEF Call
  <2> QED
    BY <2>2, <2>3, <2>4
<1>10. ASSUME Return PROVE CallsInv'
  <2>1. calls \in Seq(Frame) /\ calls # <<>> /\ calls' = Tail(calls)
    BY <1>0, <1>10 DEF Return, TypeOK
  <2>2. \A n \in 1..Len(calls') : n + 1 \in 1..Len(calls) /\ calls'[n] = calls[n + 1]
    BY <2>1
  <2>3. UNCHANGED <<impls, stubs, handlers, declared>>
    BY <1>10 DEF Return
  <2> QED
    BY <2>2, <2>3
<1>11. ASSUME NEW s \in Stub, DestroyStub(s) PROVE CallsInv'
  BY <1>1, <1>11 DEF DestroyStub
<1>12. ASSUME NEW i \in Impls, DestroyImpl(i) PROVE CallsInv'
  <2>1. \A j \in impls', m \in Methods : handlers'[j][m] = handlers[j][m]
    BY <1>0, <1>12 DEF DestroyImpl, TypeOK
  <2> QED
    BY <1>1, <1>12, <2>1 DEF DestroyImpl
<1>13. CASE UNCHANGED vars
  <2>1. UNCHANGED <<impls, stubs, handlers, declared, calls>>
    BY <1>13 DEF vars
  <2> QED
    BY <2>1
<1> QED
  BY <1>2, <1>3, <1>4, <1>5, <1>6, <1>7, <1>8, <1>9, <1>10, <1>11, <1>12, <1>13
     DEF Next, Destructors

(***************************************************************************)
(* CallsKeptAlive for every instance and every depth of calls: while the   *)
(* variant a call was made through or any Proxy on its ProxyImpl is kept,  *)
(* its stub, its ProxyImpl and a handler for its method are there.  No     *)
(* assumption on the constructors is needed: what a throwing one leaks     *)
(* keeps too much alive, never too little.                                 *)
(***************************************************************************)
THEOREM CallsStayAlive == Spec => []CallsKeptAlive
<1>1. Init => CallsInv
  BY DEF Init, CallsInv, StubsDeclared, CallsDeclared
<1>2. ASSUME HeapInv, CountsInv, CallsInv PROVE CallsKeptAlive
  <2> SUFFICES ASSUME NEW n \in 1..Len(calls),
                      ref[calls[n].via] = calls[n].stub
                        \/ \E h \in Handles : handle[h] = calls[n].stub[1]
               PROVE  /\ calls[n].stub \in stubs /\ calls[n].stub[1] \in impls
                      /\ handlers[calls[n].stub[1]][calls[n].method] # None
    BY DEF CallsKeptAlive
  <2> DEFINE s == calls[n].stub
  <2>0. TypeOK /\ NoDangling
    BY <1>2 DEF HeapInv, HeapOK
  <2>1. /\ s[1] \in Impls /\ s = <<s[1], s[2]>> /\ s # None
        /\ calls[n].via \in Refs /\ calls[n].method \in Methods
    <3>1. calls[n] \in Frame
      BY <2>0 DEF TypeOK
    <3> QED
      BY <3>1, ProxyAssumption DEF Frame, Stub
  <2>2. CASE ref[calls[n].via] = s
    <3>1. s \in stubs /\ s[1] \in impls
      BY <2>0, <2>1, <2>2 DEF NoDangling
    <3> QED
      BY <1>2, <3>1 DEF CallsInv, CallsDeclared
  <2>3. CASE \E h \in Handles : handle[h] = s[1]
    <3>1. s[1] \in impls
      BY <2>0, <2>1, <2>3, ProxyAssumption DEF NoDangling
    <3>2. On(s[1]) # {} /\ ImplOwned(s[1])
      BY <2>3 DEF On, ImplOwned
    <3>3. Row(s[1]) = declared[s[1]]
      BY <1>2, <2>1, <3>1, <3>2, NumberType DEF CountsInv, RowInv
    <3>4. s[2] \in declared[s[1]] /\ handlers[s[1]][calls[n].method] # None
      BY <1>2, <3>1 DEF CallsInv, CallsDeclared
    <3>5. <<s[1], s[2]>> \in interfaces
      BY <3>3, <3>4 DEF Row
    <3> QED
      BY <2>0, <2>1, <3>1, <3>4, <3>5 DEF NoDangling
  <2> QED
    BY <2>2, <2>3
<1> QED
  BY <1>1, <1>2, CallsStep, CountsInvariant, PTL DEF Spec
=============================================================================
