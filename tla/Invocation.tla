------------------------------ MODULE Invocation ------------------------------
(***************************************************************************)
(* Calls and attribute accesses through the reflection API: the checks of  *)
(* MethodImpl, ConstructorImpl and FunctionImpl, the receiver and the      *)
(* arguments converted one by one through the thread's conversion cache,   *)
(* in an order C++ leaves open, and AttributeImpl's get and set.  The      *)
(* functions called are those the registry of functions finds by name.     *)
(***************************************************************************)
EXTENDS Conversions, FunctionRegistry

CONSTANTS
  Callables,    \* the methods, constructors and functions to call
  Attributes,   \* the registered attributes
  NoObject      \* the receiver of a call without one

VARIABLES
  cache,        \* m_cache[to][from]
  refused,      \* history: <<to, from>> asked of a const object as non-const
  last          \* the last call or access, and what came of it

vars == <<cache, refused, last, impls, registry, registered>>

\* method, static method, constructor, constructor of an abstract class, function
Kinds == {"method", "static", "constructor", "abstract", "function"}

\* The overload of callArgArray: how the variant with the receiver is qualified
ConstVia    == {"const", "constVolatile"}
VolatileVia == {"volatile", "constVolatile"}
Vias        == {"none", "mutable"} \union ConstVia \union VolatileVia

ASSUME InvocationAssumption ==
  /\ \A m \in Callables : /\ m.kind \in Kinds /\ m.clazz \in Types \ (Strings \union PointersToConst)
                          /\ m.const \in BOOLEAN /\ m.volatile \in BOOLEAN
                          /\ m.params \in Seq(Requests)
                          /\ m.kind # "method" => ~m.const /\ ~m.volatile
  /\ Functions = {m \in Callables : m.kind = "function"}
  /\ \A a \in Attributes : /\ a.clazz \in Types \ (Scalars \union PointersToConst) /\ a.type \in Types
                           /\ a.const \in BOOLEAN /\ a.assignable \in BOOLEAN
                           /\ a.static \in BOOLEAN
  /\ NoObject \notin Holders
  /\ \A h \in Holders, t \in Types : h.type = PointerTo[t] => h.type \notin PointersToConst

\* Bound: no arguments past the last parameter, which no callable ever reads
ArgLists(m) == UNION {[1..n -> Holders] : n \in 0..Len(m.params)}

Pointers == PointersToConst \union {PointerTo[t] : t \in Types}

Answer == [outcome : {"none", "object", "pointee", "converted", "failed",
                      "wrongType", "constObject"},
           ptr : Int \union {NullPtr}]

\* What stops a call or an access, and what it does otherwise
Outcomes == {"insufficientArguments", "noObject", "constVariant", "volatileVariant",
             "wrongType", "constObject", "abstract", "argument", "wrongClass",
             "constAttribute", "notAssignable", "wrongValue",
             "ran", "reference", "copy", "wrote"}

Result == [outcome : Outcomes, answer : Answer, args : Seq(Answer), const : BOOLEAN,
           unread : BOOLEAN]

TypeOK ==
  /\ RegistryTypeOK
  /\ cache \in [Types -> [Types -> Entry \union {NotCached}]]
  /\ refused \subseteq Types \X Types
  /\ last.op # "none" => last.result \in Result

\* What a call or an access comes to: what the receiver and the arguments were
\* converted to, whether the result refers to const, and whether the reference a
\* failed conversion returns has been used; with the cache and what was refused
Outcome(outcome, x, args, const, unread, refusals, c) ==
  [result |-> [outcome |-> outcome, answer |-> [outcome |-> x.outcome, ptr |-> x.ptr],
               args |-> args, const |-> const, unread |-> unread],
   refused |-> refusals, cache |-> c]

Nothing == [outcome |-> "none", ptr |-> NullPtr]

Failed(outcome, x, args, refusals, c) ==
  Outcome(outcome, x, args, FALSE, FALSE, refusals, c)

ForClass(clazz, mode) == [type |-> clazz, mode |-> mode]

-----------------------------------------------------------------------------
\* The checks of the five overloads of MethodImpl::call, and the one of
\* ConstructorImpl::call and FunctionImpl::call
Denied(m, via, args) ==
  IF Len(args) < Len(m.params) THEN "insufficientArguments"
  ELSE IF m.kind = "method" /\ via = "none" THEN "noObject"
  ELSE IF via \in ConstVia /\ ~m.const THEN "constVariant"
  ELSE IF via \in VolatileVia /\ ~m.volatile THEN "volatileVariant"
  ELSE "no"

\* Fault: convertTo for convertToThrow, a failed argument is passed on.
convertArgUnchecked(x, holder, param, i) ==
  LET y == convertTo(x.cache, holder, param)
  IN  [cache   |-> y.cache, failed |-> FALSE,
       refused |-> x.refused \union RefusedBy(holder, param.type, ReqConst(param)),
       answers |-> [x.answers EXCEPT ![i] = [outcome |-> y.outcome, ptr |-> y.ptr]]]

\* args[I].convertToThrow<...>: after the first failure no other is converted
convertArg(x, holder, param, i) ==
  LET y == convertTo(x.cache, holder, param)
  IN  IF x.failed THEN x
      ELSE [cache   |-> y.cache, failed |-> y.outcome = "failed",
            refused |-> x.refused
                          \union RefusedBy(holder, param.type, ReqConst(param)),
            answers |-> [x.answers EXCEPT ![i] = [outcome |-> y.outcome, ptr |-> y.ptr]]]

convertArgs(c, params, args, order) ==
  LET after[n \in 0..Len(order)] ==
        IF n = 0
          THEN [cache |-> c, failed |-> FALSE, refused |-> {},
                answers |-> [i \in 1..Len(params) |-> Nothing]]
        ELSE convertArg(after[n - 1], args[order[n]], params[order[n]], order[n])
  IN  after[Len(order)]

\* The orders in which a compiler may evaluate the arguments of one call
Orders(params) == SetToSeqs(1..Len(params))

\* Fault: is_const is false for every kind of method.
receiverNeverConst(c, m, h) == verifyObject(c, h, m.clazz, FALSE)

receiver(c, m, h) == verifyObject(c, h, m.clazz, m.const)

\* The body, on the receiver and the converted arguments
body(this, asked, conv) ==
  Failed(IF conv.failed THEN "argument" ELSE "ran", this, conv.answers,
         asked \union conv.refused, conv.cache)

bindReceiver(this, m, h, args, order) ==
  LET asked == IF this.outcome = "wrongType" THEN {}
               ELSE RefusedBy(h, m.clazz, m.const)
  IN  IF this.outcome \in {"wrongType", "constObject"}
        THEN Failed(this.outcome, this, <<>>, asked, this.cache)
      ELSE body(this, asked, convertArgs(this.cache, m.params, args, order))

\* bindcall of a method: the receiver, the arguments, the body
bindMethod(c, m, h, args, order) == bindReceiver(receiver(c, m, h), m, h, args, order)

\* bindcall of what has no receiver
bindFunction(c, m, args, order) ==
  IF m.kind = "abstract" THEN Failed("abstract", Nothing, <<>>, {}, c)
  ELSE body(Nothing, {}, convertArgs(c, m.params, args, order))

call(c, m, via, h, args, order) ==
  IF Denied(m, via, args) # "no"
    THEN Failed(Denied(m, via, args), Nothing, <<>>, {}, c)
  ELSE IF m.kind = "method" THEN bindMethod(c, m, h, args, order)
  ELSE bindFunction(c, m, args, order)

-----------------------------------------------------------------------------
\* IValueHolder::isConst: set for a const object and for a held const X*
isConst(h) == h.const \/ h.type \in PointersToConst

\* AttributeImpl::get: a reference to the attribute
get(c, a, h, hasToBeConst) ==
  LET mode == IF hasToBeConst \/ isConst(h) THEN "cref" ELSE "ref"
      x    == convertTo(c, h, ForClass(a.clazz, mode))
  IN  Outcome(IF x.outcome = "failed" THEN "wrongClass" ELSE "reference", x, <<>>,
              mode = "cref" \/ a.const, FALSE,
              RefusedBy(h, a.clazz, mode = "cref"), x.cache)

\* value.convertTo<Type>(&success), copied before success is tested
assignedValue(c, a, val) ==
  LET v == convertTo(c, val, ForClass(a.type, "value"))
  IN  [cache |-> v.cache, failed |-> v.outcome = "failed",
       copiesUnread |-> v.outcome = "failed" /\ a.type \in Types \ (Scalars \union Pointers)]

\* AttributeImpl::set: isA<Clazz>, then Clazz& or const Clazz& without a test
set(c, a, h, val, viaConst) ==
  LET isA  == convertTo(c, h, ForClass(a.clazz, "value"))
      x    == convertTo(isA.cache, h,
                ForClass(a.clazz, IF viaConst THEN "cref" ELSE "ref"))
      v    == assignedValue(x.cache, a, val)
      asked == RefusedBy(h, a.clazz, viaConst)
  IN  IF isA.outcome = "failed" THEN Failed("wrongClass", isA, <<>>, {}, isA.cache)
      ELSE IF a.const THEN Failed("constAttribute", x, <<>>, asked, x.cache)
      ELSE IF viaConst THEN Failed("constObject", x, <<>>, asked, x.cache)
      ELSE IF ~a.assignable THEN Failed("notAssignable", x, <<>>, asked, x.cache)
      ELSE Outcome(IF v.failed THEN "wrongValue" ELSE "wrote", x, <<>>, FALSE,
                   \/ v.copiesUnread
                   \/ ~v.failed /\ x.outcome = "failed",
                   asked, v.cache)

\* ptr_type::get and set, of a static attribute
getStatic(c, a) == Outcome("copy", Nothing, <<>>, FALSE, FALSE, {}, c)

setStatic(c, a, val) ==
  LET v == assignedValue(c, a, val)
  IN  IF a.const THEN Failed("constAttribute", Nothing, <<>>, {}, c)
      ELSE Outcome(IF v.failed THEN "wrongValue" ELSE "wrote", Nothing, <<>>, FALSE,
                   v.copiesUnread, {}, v.cache)

-----------------------------------------------------------------------------
Init ==
  /\ cache = [to \in Types |-> [from \in Types |-> NotCached]]
  /\ refused = {}
  /\ last = [op |-> "none"]
  /\ RegistryInit

Done(op, of, via, object, args, outcome) ==
  /\ \E x \in {outcome} :
       /\ last' = [op |-> op, of |-> of, via |-> via, object |-> object, args |-> args,
                   result |-> x.result]
       /\ cache' = x.cache
       /\ refused' = refused \union x.refused
  /\ UNCHANGED registryVars

\* Method::callArgArray
CallMethod(m, via, h, args, order) ==
  /\ m.kind \in {"method", "static"}
  /\ via = "none" <=> h = NoObject
  /\ Done("call", m, via, h, args, call(cache, m, via, h, args, order))

\* Constructor::callArgArray; Function::callArgArray, of a function found by name
CallFunction(m, args, order) ==
  /\ \/ m.kind \in {"constructor", "abstract"}
     \/ \E name \in Names : m \in findFunctions(name)
  /\ Done("call", m, "none", NoObject, args,
          call(cache, m, "none", NoObject, args, order))

\* A static initialiser of the program, or of a library it loads
Load(f) ==
  /\ RegisterFunction(f)
  /\ last' = [op |-> "none"]
  /\ UNCHANGED <<cache, refused>>

\* Attribute::get(object)
Get(a, via, h) ==
  /\ via \in {"mutable", "const"}
  /\ Done("get", a, via, h, <<>>,
          IF a.static THEN getStatic(cache, a) ELSE get(cache, a, h, via = "const"))

\* Attribute::set(object, value)
Set(a, via, h, val) ==
  /\ via \in {"mutable", "const"}
  /\ Done("set", a, via, h, <<val>>,
          IF a.static THEN setStatic(cache, a, val)
          ELSE set(cache, a, h, val, via = "const"))

\* Attribute::get() and Attribute::set(value)
GetNoObject(a) ==
  Done("get", a, "none", NoObject, <<>>,
       IF a.static THEN getStatic(cache, a)
       ELSE Failed("noObject", Nothing, <<>>, {}, cache))

SetNoObject(a, val) ==
  Done("set", a, "none", NoObject, <<val>>,
       IF a.static THEN setStatic(cache, a, val)
       ELSE Failed("noObject", Nothing, <<>>, {}, cache))

Next ==
  \/ \E m \in Callables : \E args \in ArgLists(m), order \in Orders(m.params) :
       \/ \E via \in Vias, h \in Holders \union {NoObject} :
            CallMethod(m, via, h, args, order)
       \/ CallFunction(m, args, order)
  \/ \E f \in Functions : Load(f)
  \/ \E a \in Attributes :
       \/ GetNoObject(a)
       \/ \E val \in Holders : SetNoObject(a, val)
       \/ \E via \in Vias, h \in Holders :
            \/ Get(a, via, h)
            \/ \E val \in Holders : Set(a, via, h, val)

Spec == Init /\ [][Next]_vars

-----------------------------------------------------------------------------
\* The C++ object an answer about h refers to is const
RefersToConst(h, answer) ==
  IF answer.outcome = "pointee" THEN h.type \in PointersToConst ELSE h.const

Ran == last'.op = "call" /\ last'.result.outcome = "ran"

(***************************************************************************)
(* The state has its types, and the registry finds the functions that were *)
(* registered (FunctionRegistry).                                          *)
(***************************************************************************)
RegistryOK == TypeOK /\ FunctionsFound

(***************************************************************************)
(* A body never gets non-const access to a const object, whichever way it  *)
(* is reached: not as its receiver (the variant, the object held and the   *)
(* object pointed to are each const or not), not as an argument, and not   *)
(* through the reference a get returns.                                    *)
(***************************************************************************)
ConstKept == [][
  /\ Ran => \A i \in 1..Len(last'.of.params) :
       last'.of.params[i].mode = "ref" =>
         ~RefersToConst(last'.args[i], last'.result.args[i])
  /\ Ran /\ last'.of.kind = "method" /\ ~last'.of.const =>
       last'.via \notin ConstVia /\ ~RefersToConst(last'.object, last'.result.answer)
  /\ last'.op = "get" /\ last'.result.outcome = "reference" /\ ~last'.result.const =>
       /\ ~last'.of.const /\ last'.via # "const"
       /\ ~RefersToConst(last'.object, last'.result.answer)
  ]_vars

(***************************************************************************)
(* A body that runs has the objects the casts would have given it, each at *)
(* its own offset, whatever the cache went through before and during the   *)
(* call: a stale entry may fail a call, it cannot misdirect one.           *)
(***************************************************************************)
BodiesGetTheirObjects == [][Ran =>
  /\ \A i \in 1..Len(last'.of.params) :
       last'.result.args[i] = OracleConvertTo(last'.args[i], last'.of.params[i])
  /\ last'.of.kind = "method" =>
       last'.result.answer = OracleVerify(last'.object, last'.of.clazz, last'.of.const)
  ]_vars

\* The last call, and all its evaluation orders
SameInEveryOrder ==
  \A order \in Orders(last'.of.params) :
    LET x == call(cache, last'.of, last'.via, last'.object, last'.args, order)
    IN  /\ x.result.outcome = last'.result.outcome
        /\ Ran => x.result = last'.result /\ x.cache = cache'

(***************************************************************************)
(* The compiler's choice of evaluation order cannot be seen in a call that *)
(* succeeds: every order succeeds, with the same objects and the same      *)
(* cache, although each conversion reads what the others left there.       *)
(***************************************************************************)
ArgumentOrderUnseen == [][last'.op = "call" => SameInEveryOrder]_vars

\* A question asked for r of h was refused before
RefusedFor(h, r) == h.type # r.type /\ <<r.type, h.type>> \in refused

(***************************************************************************)
(* A call that is refused for its receiver or for an argument is one the   *)
(* casts refuse, or one of its conversions was refused by an earlier call: *)
(* no call can fail because of what its own arguments left in the cache.   *)
(***************************************************************************)
FailuresAreCasts == [][last'.op = "call" =>
  /\ last'.result.outcome \in {"wrongType", "constObject"} =>
       \/ OracleVerify(last'.object, last'.of.clazz, last'.of.const).outcome
            = last'.result.outcome
       \/ RefusedFor(last'.object, ForClass(last'.of.clazz, "ref"))
  /\ last'.result.outcome = "argument" =>
       \E i \in 1..Len(last'.of.params) :
         \/ OracleConvertTo(last'.args[i], last'.of.params[i]).outcome = "failed"
         \/ RefusedFor(last'.args[i], last'.of.params[i])
  ]_vars

(***************************************************************************)
(* variant.h:1069 says of what a failed conversion returns "something must *)
(* be returned in order to compile, but this value should never be read":  *)
(* no access to an attribute uses such a reference.                        *)
(***************************************************************************)
FailedConversionsAreNeverRead ==
  last.op \in {"get", "set"} => ~last.result.unread
=============================================================================
