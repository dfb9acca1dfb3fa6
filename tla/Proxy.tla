-------------------------------- MODULE Proxy --------------------------------
(***************************************************************************)
(* Dynamic proxies.  A Proxy is a handle on a ProxyImpl; the ProxyImpl     *)
(* keeps one stub object per interface, each stub keeps the ProxyImpl, and *)
(* only the explicit handle count (decHandleCount) breaks that cycle.      *)
(* Clients keep stubs through VariantValues made by reference() and call   *)
(* methods on them; a handler may do anything a client may, while its call *)
(* is running.                                                             *)
(***************************************************************************)
EXTENDS Integers, Sequences, FiniteSets

CONSTANTS
  Handles,      \* Proxy objects of the program
  Refs,         \* VariantValues of the program that hold a stub
  Impls,        \* addresses of ProxyImpls (the heap's bound)
  Classes, Methods,
  Proxyable,    \* classes with a stub creator and no unresolved bases
  Lists,        \* the interface lists Proxies are made for
  Captures,     \* whether a handler may capture a Proxy
  MaxCalls,     \* bound on the depth of calls in progress
  None, Plain   \* no object; a handler that captures nothing

ASSUME ProxyAssumption ==
  /\ Lists \subseteq Seq(Classes) /\ Proxyable \subseteq Classes
  /\ Captures \in BOOLEAN /\ MaxCalls \in Nat
  /\ {None, Plain} \cap Impls = {} /\ None # Plain
  /\ None \notin Impls \X Classes

\* What the handle count counts is finite: a program has finitely many objects,
\* an interface finitely many methods
ASSUME FinitenessAssumption ==
  IsFiniteSet(Handles) /\ IsFiniteSet(Impls) /\ IsFiniteSet(Methods)

VARIABLES
  handle,       \* handle[h]: m_impl of Proxy h, None when there is no such Proxy
  ref,          \* ref[r]: the stub held by r
  impls,        \* ProxyImpls that exist
  handleCount,  \* m_handleCount
  interfaces,   \* m_interfaces: <<i, c>> when ProxyImpl i has a stub for c
  stubs,        \* stub objects that exist
  handlers,     \* m_map: None, Plain, or the ProxyImpl of the captured Proxy
  declared,     \* history: the interfaces a ProxyImpl was made for
  calls         \* calls in progress, the innermost first

vars == <<handle, ref, impls, handleCount, interfaces, stubs, handlers, declared, calls>>

Stub    == Impls \X Classes
Handler == Impls \union {None, Plain}
Frame   == [stub : Stub, via : Refs, method : Methods]

TypeOK ==
  /\ handle \in [Handles -> Impls \union {None}]
  /\ ref \in [Refs -> Stub \union {None}]
  /\ impls \subseteq Impls
  /\ handleCount \in [Impls -> Int]
  /\ interfaces \subseteq Stub /\ stubs \subseteq Stub
  /\ handlers \in [Impls -> [Methods -> Handler]]
  /\ declared \in [Impls -> SUBSET Classes]
  /\ calls \in Seq(Frame)

-----------------------------------------------------------------------------
(* shared_ptr ownership                                                     *)

\* Fault: a VariantValue does not count as an owner
StubOwnedByMap(s) == s \in interfaces

StubOwned(s) == s \in interfaces \/ \E r \in Refs : ref[r] = s

Captured(i) == {jm \in impls \X Methods : handlers[jm[1]][jm[2]] = i}

ImplOwned(i) ==
  \/ \E h \in Handles : handle[h] = i
  \/ \E c \in Classes : <<i, c>> \in stubs
  \/ Captured(i) # {}

\* No destructor is pending: a shared_ptr destroys its object within the call
\* that drops the last owner
Settled == (\A s \in stubs : StubOwned(s)) /\ (\A i \in impls : ImplOwned(i))

-----------------------------------------------------------------------------
(* The handle count                                                         *)

One(i) == [k \in Impls |-> IF k = i THEN 1 ELSE 0]

\* Fault: the interfaces are cleared one handle too early
CountedEarly(made, gone) ==
  LET count == [i \in Impls |-> handleCount[i] + made[i] - gone[i]]
  IN  /\ handleCount' = count
      /\ interfaces' = {s \in interfaces : gone[s[1]] > 0 => count[s[1]] > 1}

\* Handles made before handles destroyed; each destroyed one runs
\* decHandleCount, which clears the interfaces when none is left
Counted(made, gone) ==
  LET count == [i \in Impls |-> handleCount[i] + made[i] - gone[i]]
  IN  /\ handleCount' = count
      /\ interfaces' = {s \in interfaces : gone[s[1]] > 0 => count[s[1]] > 0}

-----------------------------------------------------------------------------
Init ==
  /\ handle = [h \in Handles |-> None] /\ ref = [r \in Refs |-> None]
  /\ impls = {} /\ interfaces = {} /\ stubs = {} /\ calls = <<>>
  /\ handleCount = [i \in Impls |-> 0]
  /\ handlers = [i \in Impls |-> [m \in Methods |-> None]]
  /\ declared = [i \in Impls |-> {}]

\* The classes registered before the constructor meets one it rejects
Accepted(list) ==
  {list[n] : n \in {k \in 1..Len(list) : \A j \in 1..k : list[j] \in Proxyable}}

Rejected(list) == \E n \in 1..Len(list) : list[n] \notin Proxyable

\* Proxy(std::vector<Class>).  When it throws, the Proxy does not exist and
\* its destructor does not run.
New(h, list) ==
  /\ Settled /\ handle[h] = None
  /\ \E i \in Impls \ (impls \union {calls[n].stub[1] : n \in 1..Len(calls)}) :
       LET made == {<<i, c>> : c \in Accepted(list)}
       IN  /\ impls' = impls \union {i}
           /\ handleCount' = [handleCount EXCEPT ![i] = 1]
           /\ interfaces' = interfaces \union made
           /\ stubs' = stubs \union made
           /\ declared' = [declared EXCEPT ![i] = Accepted(list)]
           /\ handle' = IF Rejected(list) THEN handle ELSE [handle EXCEPT ![h] = i]
           /\ UNCHANGED <<ref, handlers, calls>>

\* Fault: the move constructor leaves the count to its source
CopyUncounted(h, g) ==
  /\ Settled /\ handle[h] = None /\ handle[g] # None
  /\ handle' = [handle EXCEPT ![h] = handle[g]]
  /\ UNCHANGED <<ref, impls, handleCount, interfaces, stubs, handlers, declared, calls>>

\* Proxy(const Proxy&), and Proxy(Proxy&&), which does not take from its source
Copy(h, g) ==
  /\ Settled /\ handle[h] = None /\ handle[g] # None
  /\ handle' = [handle EXCEPT ![h] = handle[g]]
  /\ Counted(One(handle[g]), One(None))
  /\ UNCHANGED <<ref, impls, stubs, handlers, declared, calls>>

\* Fault: memberwise assignment
AssignUncounted(h, g) ==
  /\ Settled /\ handle[h] # None /\ handle[g] # None
  /\ handle' = [handle EXCEPT ![h] = handle[g]]
  /\ UNCHANGED <<ref, impls, handleCount, interfaces, stubs, handlers, declared, calls>>

\* operator=(Proxy that): copy, swap, and that goes with the old m_impl
Assign(h, g) ==
  /\ Settled /\ handle[h] # None /\ handle[g] # None
  /\ handle' = [handle EXCEPT ![h] = handle[g]]
  /\ Counted(One(handle[g]), One(handle[h]))
  /\ UNCHANGED <<ref, impls, stubs, handlers, declared, calls>>

\* Fault: the destructor is the implicit one
DestroyUncounted(h) ==
  /\ Settled /\ handle[h] # None
  /\ handle' = [handle EXCEPT ![h] = None]
  /\ UNCHANGED <<ref, impls, handleCount, interfaces, stubs, handlers, declared, calls>>

\* ~Proxy()
Destroy(h) ==
  /\ Settled /\ handle[h] # None
  /\ handle' = [handle EXCEPT ![h] = None]
  /\ Counted(One(None), One(handle[h]))
  /\ UNCHANGED <<ref, impls, stubs, handlers, declared, calls>>

\* A handler is copied into m_map; the one it replaces is destroyed
AddImplementation(h, m, handler) ==
  /\ Settled /\ handle[h] # None
  /\ handler # None
  /\ handler = Plain \/ (Captures /\ \E g \in Handles : handle[g] = handler)
  /\ handlers' = [handlers EXCEPT ![handle[h]][m] = handler]
  /\ Counted(One(handler), One(handlers[handle[h]][m]))
  /\ UNCHANGED <<handle, ref, impls, stubs, declared, calls>>

\* r = proxy.reference(c): shares the stub, or is empty
Reference(h, c, r) ==
  /\ Settled /\ handle[h] # None
  /\ LET s == <<handle[h], c>>
     IN  ref' = [ref EXCEPT ![r] = IF s \in interfaces THEN s ELSE None]
  /\ UNCHANGED <<handle, impls, handleCount, interfaces, stubs, handlers, declared, calls>>

\* q = r.createReference(), or r goes
ShareOrDrop(r, q) ==
  /\ Settled /\ ref[r] # None
  /\ ref' \in {[ref EXCEPT ![q] = ref[r]], [ref EXCEPT ![r] = None]}
  /\ UNCHANGED <<handle, impls, handleCount, interfaces, stubs, handlers, declared, calls>>

\* A method of the stub: callArgArray finds a handler and runs it (it throws
\* "method not implemented" otherwise)
Call(r, m) ==
  /\ Settled /\ ref[r] # None /\ Len(calls) < MaxCalls
  /\ handlers[ref[r][1]][m] # None
  /\ calls' = <<[stub |-> ref[r], via |-> r, method |-> m]>> \o calls
  /\ UNCHANGED <<handle, ref, impls, handleCount, interfaces, stubs, handlers, declared>>

\* The handler returns or throws
Return ==
  /\ Settled /\ calls # <<>>
  /\ calls' = Tail(calls)
  /\ UNCHANGED <<handle, ref, impls, handleCount, interfaces, stubs, handlers, declared>>

-----------------------------------------------------------------------------
(* Destructors, run by the operation that dropped the last owner            *)

DestroyStub(s) ==
  /\ s \in stubs /\ ~StubOwned(s)
  /\ stubs' = stubs \ {s}
  /\ UNCHANGED <<handle, ref, impls, handleCount, interfaces, handlers, declared, calls>>

\* m_map goes with the ProxyImpl, and with it every captured Proxy
DestroyImpl(i) ==
  LET gone == [k \in Impls |-> Cardinality({m \in Methods : handlers[i][m] = k})]
  IN  /\ i \in impls /\ ~ImplOwned(i)
      /\ impls' = impls \ {i}
      /\ Counted(One(None), gone)
      /\ handlers' = [handlers EXCEPT ![i] = [m \in Methods |-> None]]
      /\ UNCHANGED <<handle, ref, stubs, declared, calls>>

Destructors == (\E s \in Stub : DestroyStub(s)) \/ (\E i \in Impls : DestroyImpl(i))

Next ==
  \/ \E h \in Handles : Destroy(h) \/ \E list \in Lists : New(h, list)
  \/ \E h, g \in Handles : Copy(h, g) \/ Assign(h, g)
  \/ \E h \in Handles, m \in Methods, handler \in Handler : AddImplementation(h, m, handler)
  \/ \E h \in Handles, c \in Classes, r \in Refs : Reference(h, c, r)
  \/ \E r, q \in Refs : ShareOrDrop(r, q)
  \/ \E r \in Refs, m \in Methods : Call(r, m)
  \/ Return
  \/ Destructors

\* A destructor that is due runs: nothing else happens in the thread before it
Spec == Init /\ [][Next]_vars /\ WF_vars(Destructors)

-----------------------------------------------------------------------------
(***************************************************************************)
(* No pointer dangles: handles, captured handles and stubs point to        *)
(* ProxyImpls that exist, references and m_interfaces to stubs that exist. *)
(***************************************************************************)
NoDangling ==
  /\ \A h \in Handles : handle[h] # None => handle[h] \in impls
  /\ \A r \in Refs : ref[r] # None => ref[r] \in stubs
  /\ interfaces \subseteq stubs
  /\ \A s \in stubs : s[1] \in impls
  /\ \A i \in impls, m \in Methods : handlers[i][m] \in impls \union {None, Plain}

(***************************************************************************)
(* The heap is well formed: its parts have their types, and every pointer in *)
(* them leads to something that exists.                                    *)
(***************************************************************************)
HeapOK == TypeOK /\ NoDangling

(***************************************************************************)
(* The handle count of a ProxyImpl is the number of Proxies on it, those   *)
(* captured by handlers included: that is what decides when the stubs go.  *)
(***************************************************************************)
HandleCountExact ==
  \A i \in impls : ImplOwned(i) =>
    handleCount[i] = Cardinality({h \in Handles : handle[h] = i}) + Cardinality(Captured(i))

(***************************************************************************)
(* As long as a Proxy exists, each of its interfaces has a stub; when none *)
(* does, m_interfaces is empty, so it no longer keeps its ProxyImpl.       *)
(***************************************************************************)
InterfacesWhileHandled ==
  \A i \in impls : ImplOwned(i) =>
    {c \in Classes : <<i, c>> \in interfaces} =
      IF (\E h \in Handles : handle[h] = i) \/ Captured(i) # {} THEN declared[i] ELSE {}

(***************************************************************************)
(* A running call keeps its stub, its ProxyImpl and a handler for as long  *)
(* as the variant it was made through or any Proxy on it is kept.          *)
(***************************************************************************)
CallsKeptAlive ==
  \A n \in 1..Len(calls) :
    LET s == calls[n].stub
    IN  ref[calls[n].via] = s \/ (\E h \in Handles : handle[h] = s[1]) =>
          s \in stubs /\ s[1] \in impls /\ handlers[s[1]][calls[n].method] # None

-----------------------------------------------------------------------------
\* ProxyImpls the program still has a way to: from its Proxies and references,
\* and from the handlers of those
ClosedUnderCapture(S) ==
  \A i \in S, m \in Methods : handlers[i][m] \in impls => handlers[i][m] \in S

Reachable ==
  LET roots == {i \in impls : (\E h \in Handles : handle[h] = i)
                                \/ \E r \in Refs : ref[r] # None /\ ref[r][1] = i}
  IN  {i \in impls : \A S \in SUBSET impls :
                       roots \subseteq S /\ ClosedUnderCapture(S) => i \in S}

(***************************************************************************)
(* "if there are no handles we can clear the interfaces that form a        *)
(* circular reference to this object" (proxy.cpp:65): a ProxyImpl nobody   *)
(* can reach any more is gone once the destructors have run.               *)
(***************************************************************************)
NoLeak == Settled => impls \subseteq Reachable

(***************************************************************************)
(* A ProxyImpl the program lost its last way to is destroyed, stubs and     *)
(* captured handles included, unless a handler of a ProxyImpl that is lost *)
(* as well keeps it: only cycles of captures, and what they hold, stay.    *)
(***************************************************************************)
Lost == impls \ Reachable

KeptByLost(i) == \E j \in Lost, m \in Methods : handlers[j][m] = i

LostAreDestroyed ==
  \A i \in Impls : i \in Lost ~> (i \notin impls \/ KeptByLost(i))
=============================================================================
