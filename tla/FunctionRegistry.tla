--------------------------- MODULE FunctionRegistry ---------------------------
(***************************************************************************)
(* The registry of functions.  Each REFL_FUNCTION line is a static          *)
(* initialiser: make_function builds a FunctionImpl and the registry lists  *)
(* it under the name.  The FunctionImpl is a static local of a template    *)
(* that has only the type of the function as a parameter, so the program   *)
(* has one for each type, made by the first initialiser that needs it.     *)
(* The order of the initialisers of different files is not specified, and   *)
(* those of a library run when it is loaded.                               *)
(***************************************************************************)
EXTENDS SequencesExt

CONSTANTS
  Functions,    \* the REFL_FUNCTION lines of the program and its libraries
  NotMade       \* a static FunctionImpl before its initialisation

VARIABLES
  impls,        \* the static FunctionImpl of each make_function<FuncPtr>
  registry,     \* m_registry: pointers to them, by name
  registered    \* history: the lines whose initialiser has run, in order

registryVars == <<impls, registry, registered>>

\* FuncPtr, the template parameter
FuncPtr(f) == [result |-> f.result, params |-> f.params]

Signatures == {FuncPtr(f) : f \in Functions}
Names      == {f.name : f \in Functions}

ASSUME FunctionsAssumption == NotMade \notin Functions

RegistryTypeOK ==
  /\ impls \in [Signatures -> Functions \union {NotMade}]
  /\ registry \in [Names -> Seq(Signatures)]
  /\ registered \in Seq(Functions)

-----------------------------------------------------------------------------
\* Fault: a later registration makes the FunctionImpl again.
make_functionAgain(f) == impls' = [impls EXCEPT ![FuncPtr(f)] = f]

\* The static local: its initialiser is only evaluated once
make_function(f) ==
  impls' = [impls EXCEPT ![FuncPtr(f)] = IF @ = NotMade THEN f ELSE @]

registerFunction(f) ==
  registry' = [registry EXCEPT ![f.name] = Append(@, FuncPtr(f))]

RegistryInit ==
  /\ impls = [s \in Signatures |-> NotMade]
  /\ registry = [n \in Names |-> <<>>]
  /\ registered = <<>>

\* FuncRegHelper
RegisterFunction(f) ==
  /\ f \notin ToSet(registered)
  /\ make_function(f)
  /\ registerFunction(f)
  /\ registered' = Append(registered, f)

\* The functions findFunctions gives for a name, each by what it calls
findFunctions(name) == {impls[s] : s \in ToSet(registry[name])}

-----------------------------------------------------------------------------
\* The list of a name: its lines whose initialisers have run, in their order
ListsInOrder(name) ==
  \E line \in [1..Len(registry[name]) -> 1..Len(registered)] :
    /\ \A j, k \in DOMAIN line : j < k => line[j] < line[k]
    /\ \A i \in 1..Len(registered) :
         registered[i].name = name <=> \E k \in DOMAIN line : line[k] = i
    /\ \A k \in DOMAIN line : registry[name][k] = FuncPtr(registered[line[k]])

NamedFirst(f) ==
  \A i \in 1..Len(registered) : FuncPtr(registered[i]) = FuncPtr(f) =>
    \E j \in 1..i : registered[j] = f

(***************************************************************************)
(* A name finds one function for each of its registrations, in the order   *)
(* of the initialisers and with the arguments and result registered: what  *)
(* is called takes what it is given.  It is the function of that name for  *)
(* the first registered of its type; every later one of the same type,     *)
(* under any name, is that first function instead.                         *)
(***************************************************************************)
FunctionsFound ==
  /\ \A n \in Names : ListsInOrder(n)
  /\ \A f \in ToSet(registered) :
       LET called == impls[FuncPtr(f)]
       IN  /\ called \in ToSet(registered) /\ FuncPtr(called) = FuncPtr(f)
           /\ NamedFirst(called)
           /\ called = f <=> NamedFirst(f)
=============================================================================
