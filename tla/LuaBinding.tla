------------------------------ MODULE LuaBinding ------------------------------
(***************************************************************************)
(* The Lua module.  Userdata hold VariantValues and Proxies, the registry  *)
(* holds the functions that handle a proxy's methods, and a C++ program    *)
(* shares objects with the script.  Two heaps meet here: Lua collects what *)
(* is unreachable when it likes, C++ destroys what has no owner at once,   *)
(* and an error raised with luaL_error leaves the C++ functions in between *)
(* without running their destructors (Lua is compiled as C).               *)
(***************************************************************************)
EXTENDS Naturals, Sequences, FiniteSets

CONSTANTS
  MaxSlots,     \* bound on the userdata and strings of the script
  MaxRefs,      \* bound on the functions luaL_ref keeps in the registry
  Plain,        \* C++ objects
  Stubs,        \* stub objects, each with its own ProxyImpl
  Strings,      \* Lua strings
  LibObjects,   \* C++ objects whose class a library loaded by the script has
  MaxGarbage,   \* what the program's Lua stack has room for
  Within(_, _), \* bound on what a step makes of the state: the sizes before, after
  None

Slots   == 1..MaxSlots
Refs    == 1..MaxRefs
Objects == Plain \union Stubs \union Strings

VARIABLES
  ud,           \* ud[s]: what slot s holds
  roots,        \* the slots the script has in its variables
  alive,        \* objects that exist
  kept,         \* objects the C++ program keeps (a VariantValue or a local)
  leaked,       \* objects owned by a C++ local whose destructor never runs
  call,         \* the handler call in progress
  handler,      \* handler[o]: the LuaClosureWrapper in the ProxyImpl of stub o
  registry,     \* registry[r]: the slots the function at r captures
  coroutine,    \* "none", "held" by the script, "lost", or "gone"
  lib,          \* the Library userdata: "held", "lost", "unloaded"
  closed,       \* after lua_close
  traceback,    \* debug.traceback is a function
  garbage,      \* values left on the stack of the program's lua_State
  fault,        \* the undefined behaviour or abort the program ran into
  misuse        \* history: what the script did that may end in a fault

heap == <<ud, roots, kept, leaked, call>>
env  == <<coroutine, lib, closed, traceback, garbage>>
vars == <<heap, alive, handler, registry, env, fault, misuse>>

\* An "ended" userdata has had its __gc called by the script
Userdata == [is : {"free", "own", "view", "proxy", "string", "ended"},
             of : Objects \union {None}]
Free     == [is |-> "free", of |-> None]
Ended    == [is |-> "ended", of |-> None]
Wrapper  == [ref : Refs, thread : {"main", "coroutine"}]
\* arg: the argument that the ArgArray in Lua_Method::call shares
NoCall   == [obj |-> None, arg |-> None, by |-> None, replaced |-> FALSE]
Faults   == {"owner", "view", "replaced", "coroutine", "closed", "unloaded", "panic", "stack",
             "ended", "modulo", "attribute", "empty"}
Empty    == {None}   \* a free entry of the registry

ASSUME LuaBindingAssumption ==
  /\ MaxSlots \in Nat /\ MaxRefs \in Nat /\ MaxGarbage \in Nat
  /\ None \notin Objects \union Refs \union Slots \union Wrapper \union Faults
  /\ LibObjects \subseteq Plain
  /\ Plain \cap Stubs = {} /\ Strings \cap (Plain \union Stubs) = {}

TypeOK ==
  /\ ud \in [Slots -> Userdata] /\ roots \subseteq Slots
  /\ alive \subseteq Objects /\ kept \subseteq Objects /\ leaked \subseteq Objects
  /\ call.obj \in Stubs \union {None} /\ call.arg \in Plain \union {None} /\ call.by \in {"script", "program", None}
  /\ call.replaced \in BOOLEAN
  /\ \A o \in Stubs : handler[o] = None \/ handler[o] \in Wrapper
  /\ \A r \in Refs : registry[r] = Empty \/ registry[r] \subseteq Slots
  /\ coroutine \in {"none", "held", "lost", "gone"} /\ lib \in {"held", "lost", "unloaded"}
  /\ closed \in BOOLEAN /\ traceback \in BOOLEAN /\ garbage \in 0..MaxGarbage
  /\ fault \in Faults \union {None} /\ misuse \subseteq Faults

-----------------------------------------------------------------------------
(* Who keeps what                                                           *)

Owners(u, o) == {s \in Slots : u[s].of = o /\ u[s].is \in {"own", "proxy", "string"}}

\* A function in the registry is a root of the collector: so is what it captures
Captured(reg) == UNION {reg[r] : r \in {q \in Refs : reg[q] # Empty}}

Reach(rts, reg) == rts \union Captured(reg)

Reachable == Reach(roots, registry)

\* Fault: the handler runs without a share in the stub
OwnedBySlots(u, k, l, c, o) == Owners(u, o) # {} \/ o \in k \/ o \in l

\* The method's object and arguments are locals of Lua_Method::call, or the
\* object is one of the program
Locals(c) == {c.obj, c.arg} \ {None}

Owned(u, k, l, c, o) == Owners(u, o) # {} \/ o \in k \/ o \in l \/ o \in Locals(c)

\* What the script holds a view of, but no owner
Orphaned(u, rts, reg, k, l, c) ==
  \E s \in Reach(rts, reg) :
    u[s].is = "view" /\ Owners(u, u[s].of) \cap Reach(rts, reg) = {}
      /\ u[s].of \notin k \union l \union Locals(c)

\* What goes wrong when object o, or its wrapper w, is used or destroyed
Bad(o, w) ==
  {f \in {"coroutine", "closed", "unloaded"} :
     \/ f = "coroutine" /\ w # None /\ coroutine = "gone" /\ w.thread = "coroutine"
     \/ f = "closed" /\ w # None /\ closed
     \/ f = "unloaded" /\ o \in LibObjects /\ lib = "unloaded"}

\* Fault: the deleter of a wrapper does not call luaL_unref
ReleasedNone(reg, gone) == reg

\* luaL_unref for the wrappers that are destroyed
Released(reg, gone) ==
  [r \in Refs |-> IF \E w \in gone : w.ref = r THEN Empty ELSE reg[r]]

\* The end of every step, given the objects, handlers and registry it made:
\* what lost its last owner is destroyed, and a stub takes its ProxyImpl and
\* the handler there along.  al, wr, reg: after the step's own assignments;
\* gone: wrappers the step itself destroyed; fs: faults it ran into; ms: misuse.
Settle(al, wr, reg, gone, fs, ms) ==
  LET dead  == {o \in al : ~Owned(ud', kept', leaked', call', o)}
      ended == {wr[o] : o \in dead \cap Stubs} \ {None}
      reg1  == Released(reg, gone \union ended)
      bad   == fs \union UNION {Bad(o, IF o \in Stubs THEN wr[o] ELSE None) : o \in dead}
  IN  /\ alive' = al \ dead
      /\ handler' = [o \in Stubs |-> IF o \in dead THEN None ELSE wr[o]]
      /\ registry' = IF closed' THEN [r \in Refs |-> Empty] ELSE reg1
      /\ IF bad = {} THEN fault' = fault ELSE fault' \in bad
      /\ misuse' = misuse \union ms \union
           (IF Orphaned(ud', roots', reg1, kept', leaked', call') THEN {"view"} ELSE {})

\* What grows with the length of a behaviour
Sizes ==
  [used |-> Cardinality({s \in Slots : ud[s] # Free}), alive |-> Cardinality(alive),
   kept |-> Cardinality(kept), misuse |-> misuse, leaked |-> leaked # {}, calls |-> call # NoCall,
   env |-> {e \in {"coroutine", "lib", "traceback"} :
              \/ e = "coroutine" /\ coroutine # "none"
              \/ e = "lib" /\ lib # "held" /\ ~closed
              \/ e = "traceback" /\ ~traceback}]

Bounded == Within(Sizes, Sizes')

Settled(fs, ms) == Settle(alive, handler, registry, {}, fs, ms) /\ Bounded

\* The program runs and the state is open
Runs == fault = None /\ ~closed

Fresh(s) == ud[s] = Free

\* The script gets a new userdata; which free slot it is makes no difference
Put(s, is, o) ==
  /\ Fresh(s) /\ \A t \in Slots : Fresh(t) => s <= t
  /\ ud' = [ud EXCEPT ![s] = [is |-> is, of |-> o]] /\ roots' = roots \union {s}

\* An address, or a string, nothing mentions
New(o) == o \notin alive \union leaked /\ \A s \in Slots : ud[s].of # o

Broken(s) ==
  LET o == ud[s].of
  IN  IF ud[s].is = "ended" THEN {"ended"}
      ELSE IF o \in alive THEN Bad(o, None)
      ELSE {IF ud[s].is = "view" THEN "view" ELSE "owner"}

-----------------------------------------------------------------------------
(* Stacks                                                                   *)

\* On the stack: a value that is neither a userdata of ours nor a string; the
\* userdata of the method, constructor or attribute the shorthand pushes
Table  == 0
Callee == MaxSlots + 1

\* lua_pushvalue(L, 1); lua_remove(L, 1)
Rotate(stack) == Append(Tail(stack), stack[1])

Rotated(stack, n) ==
  LET after[i \in 0..n] == IF i = 0 THEN stack ELSE Rotate(after[i - 1])
  IN  after[n]

\* Fault: one rotation too few
method_stubShort(stack, method) == Rotated(Append(stack, method), Len(stack) - 1)

\* obj:name(args): the closure's stack is obj, args
method_stub(stack, method) == Rotated(Append(stack, method), Len(stack))

\* class:construct(args)
construct(stack, constructor) ==
  Rotated(Append(Tail(stack), constructor), Len(stack) - 1)

\* v.attribute: the stack is v, name
index(stack, attribute) == Tail(Tail(Append(Append(stack, attribute), stack[1])))

\* v.attribute = val: the stack is v, name, val
newindex(stack, attribute) == Rotate(Tail(Tail(Append(Append(stack, attribute), stack[1]))))

\* method_stub's choice among the methods with the name and number of arguments
Resolve(methods) ==
  CASE Len(methods) = 1 -> methods[1]
    [] Len(methods) = 2 /\ methods[1].const # methods[2].const
         /\ methods[1].args = methods[2].args ->
         IF methods[2].const THEN methods[2] ELSE methods[1]
    [] OTHER -> None

\* Fault: the table stays whatever was pushed
AfterCallbackDirty(top, intact) == "table"

\* pushTraceBack, the predicate's call, removeTraceBack: what is left on top.
\* With debug.traceback replaced the table debug stays.
AfterCallback(top, intact) == IF intact THEN top ELSE "table"

\* The callback of findFirst and findAll on the nth of the candidates: "yes",
\* "no", or an error ("fails": raised by the predicate, or not a boolean)
Verdict(verdicts, n, intact) ==
  LET top[k \in 1..n] == IF k = 1 THEN "function" ELSE AfterCallback(top[k - 1], intact)
  IN  IF top[n] = "function" THEN verdicts[n] ELSE "fails"

\* The candidates up to the first that ends the search; what the search returns
findFirst(verdicts, intact) ==
  LET ends == {n \in 1..Len(verdicts) : Verdict(verdicts, n, intact) # "no"}
      last == CHOOSE n \in ends : \A m \in ends : n <= m
  IN  IF ends = {} THEN <<"nothing", 0>>
      ELSE IF Verdict(verdicts, last, intact) = "yes" THEN <<"found", last>> ELSE <<"error", last>>

findAll(verdicts, intact) ==
  LET all == 1..Len(verdicts)
  IN  IF \E n \in all : Verdict(verdicts, n, intact) = "fails" THEN <<"error", {}>>
      ELSE <<"found", {n \in all : Verdict(verdicts, n, intact) = "yes"}>>

-----------------------------------------------------------------------------
(* The script                                                               *)

Init ==
  /\ ud = [s \in Slots |-> Free] /\ roots = {} /\ alive = {} /\ kept = {} /\ leaked = {}
  /\ call = NoCall /\ handler = [o \in Stubs |-> None]
  /\ registry = [r \in Refs |-> Empty]
  /\ coroutine = "none" /\ lib = "held" /\ closed = FALSE
  /\ traceback = TRUE /\ garbage = 0
  /\ fault = None /\ misuse = {}

\* What the running code has at hand: its variables and, in a handler, what
\* the handler captures
AtHand ==
  roots \union (IF call.obj # None /\ handler[call.obj] # None
                  THEN registry[handler[call.obj].ref] ELSE {})

Holds(s, kinds) == s \in AtHand /\ ud[s].is \in kinds

FromLost(o) == IF o \in LibObjects /\ lib # "held" THEN {"unloaded"} ELSE {}

\* Class:construct, a function or a method that returns a value; a Lua string
Construct(s, o) ==
  /\ Runs /\ New(o) /\ o \notin Stubs
  /\ Put(s, IF o \in Strings THEN "string" ELSE "own", o)
  /\ UNCHANGED <<kept, leaked, call, env>>
  /\ Settle(alive \union {o}, handler, registry, {}, Bad(o, None), FromLost(o))
  /\ Bounded

\* Variant.new(v) shares what v holds; Variant.new(string) keeps the pointer
\* lua_tostring returned
newInstance(s, t) ==
  /\ Runs /\ Holds(s, {"own", "view", "string"})
  /\ Put(t, IF ud[s].is = "own" THEN "own" ELSE "view", ud[s].of)
  /\ UNCHANGED <<kept, leaked, call, env>>
  /\ Settled({}, {})

\* v.attribute, Attribute:get, a method that returns a reference, castUp: a
\* reference to (a part of) the object, which it does not own
get(s, t) ==
  /\ Runs /\ Holds(s, {"own", "view"}) /\ ud[s].of \in Plain
  /\ Put(t, "view", ud[s].of)
  /\ UNCHANGED <<kept, leaked, call, env>>
  /\ Settled(Broken(s), {})

\* Everything else reads the object: tonumber, assign, ==, a method, ...
Use(s) ==
  /\ Runs /\ Holds(s, {"own", "view", "ended"}) /\ Broken(s) # {}
  /\ UNCHANGED <<heap, env>>
  /\ Settled(Broken(s), {})

\* A call that is undefined whatever came before it
Undefined(f) ==
  /\ Runs /\ UNCHANGED <<heap, env>>
  /\ Settled({f}, {f})

\* v % 0 divides two ints
mod == Undefined("modulo")

\* Variant.new():assign(v) dereferences the null holder
assign == Undefined("empty")

\* v.attribute = w, where v or w is not what the attribute needs: the conversion
\* fails, and what it returns is read before or without a look at success
set(s, t) ==
  /\ Holds(s, {"own", "view"}) /\ Holds(t, {"own", "view"})
  /\ Undefined("attribute")

\* getmetatable(v).__gc(v): ~Lua_Variant or ~Lua_Proxy, in a userdata that stays
finalise(s) ==
  /\ Runs /\ Holds(s, {"own", "view", "proxy"})
  /\ ud' = [ud EXCEPT ![s] = Ended]
  /\ UNCHANGED <<roots, kept, leaked, call, env>>
  /\ Settled({}, {"ended"})

\* A variable goes out of scope or is assigned
Drop(s) ==
  /\ Runs /\ s \in roots /\ roots' = roots \ {s}
  /\ UNCHANGED <<ud, kept, leaked, call, env>>
  /\ Settled({}, {})

\* getFromStack for each value until a table, which it reports with luaL_error:
\* the shares it made until then stay in locals that are never destroyed
LeakedBy(stack) ==
  LET n == CHOOSE k \in 1..Len(stack) : stack[k] = Table /\ \A j \in 1..(k - 1) : stack[j] # Table
  IN  {ud[stack[k]].of : k \in {j \in 1..(n - 1) : ud[stack[j]].is = "own"}}

\* obj:name(args) where one of the arguments is no variant
CallFails(stack) ==
  /\ Runs /\ \A n \in 1..(Len(stack) - 1) : Holds(stack[n], {"own", "view", "string"})
  /\ ud[stack[1]].is # "string"
  /\ leaked' = leaked \union LeakedBy(Tail(method_stub(stack, Callee)))
  /\ UNCHANGED <<ud, roots, kept, call, env>>
  /\ Settled({}, {})

-----------------------------------------------------------------------------
(* Proxies and their handlers                                               *)

\* Proxy.create(class); which free address the stub gets makes no difference
create(s, o) ==
  /\ Runs /\ o \in Stubs /\ New(o) /\ o = CHOOSE q \in Stubs : New(q)
  /\ Put(s, "proxy", o)
  /\ UNCHANGED <<kept, leaked, call, env>>
  /\ Settle(alive \union {o}, handler, registry, {}, {}, {})
  /\ Bounded

\* proxy:reference(class) shares the stub
reference(s, t) ==
  /\ Runs /\ Holds(s, {"proxy"})
  /\ Put(t, "own", ud[s].of)
  /\ UNCHANGED <<kept, leaked, call, env>>
  /\ Settled({}, {})

\* luaL_ref for the function, which captures the slots in C; the wrapper that
\* is replaced is destroyed then, also when its function is running
addImplementation(s, C, thread) ==
  /\ Runs /\ Holds(s, {"proxy"}) /\ C \subseteq AtHand
  /\ thread = "coroutine" => coroutine = "held"
  /\ LET o    == ud[s].of
         old  == handler[o]
         runs == call.obj = o /\ ~call.replaced
     IN  \E r \in Refs :
           /\ registry[r] = Empty /\ \A q \in Refs : registry[q] = Empty => r <= q
           /\ roots' = IF runs THEN roots \union registry[old.ref] ELSE roots
           /\ call' = [call EXCEPT !.replaced = @ \/ runs]
           /\ UNCHANGED <<ud, kept, leaked, env>>
           /\ Settle(alive, [handler EXCEPT ![o] = [ref |-> r, thread |-> thread]],
                     [registry EXCEPT ![r] = C], {old} \ {None},
                     Bad(o, old), IF runs THEN {"replaced"} ELSE {})
           /\ Bounded

\* The stub's method runs LuaClosureWrapper::operator() for the script or for
\* the program.  An argument passed by reference comes as a view in slot t.
Enter(o, by, t, arg) ==
  /\ call = NoCall /\ handler[o] # None
  /\ IF arg = None THEN UNCHANGED <<ud, roots>> ELSE Put(t, "view", arg)
  /\ call' = [obj |-> o, by |-> by, replaced |-> FALSE,
              arg |-> IF by = "script" THEN arg ELSE None]
  /\ UNCHANGED <<kept, leaked, env>>
  /\ Settled(Bad(o, handler[o]), {})

CallStub(s, t, arg) ==
  /\ Runs /\ Holds(s, {"own"}) /\ ud[s].of \in Stubs
  /\ arg = None \/ (arg \in Plain /\ Owners(ud, arg) \cap AtHand # {})
  /\ Enter(ud[s].of, "script", t, arg)

\* ~LuaClosureWrapper has run
WrapperGone == call.replaced \/ call.obj \notin alive

\* What the end of a call runs into.  A wrapper that is gone is read all the
\* same; a result that is no variant aborts a program that runs no protected
\* call; what pushTraceBack leaves on the program's stack adds up.
EndsIn(result) ==
  IF WrapperGone THEN {"replaced"}
  ELSE IF call.by # "program" THEN {}
  ELSE IF result = "table" THEN {"panic"}
  ELSE IF ~traceback /\ garbage = MaxGarbage THEN {"stack"} ELSE {}

\* lua_pcall has returned.  An error ends in an exception, which unwinds; a
\* result that is no variant is reported with luaL_error, which does not.
Return(result) ==
  LET ends == EndsIn(result)
  IN  /\ Runs /\ call # NoCall
      /\ call' = NoCall
      /\ leaked' = IF result = "table" /\ ends = {} THEN leaked \union Locals(call) ELSE leaked
      /\ garbage' = IF call.by = "program" /\ ~traceback /\ ends = {} THEN garbage + 1 ELSE garbage
      /\ UNCHANGED <<ud, roots, kept, coroutine, lib, closed, traceback>>
      /\ Settled(ends, ends \cap {"panic"})

-----------------------------------------------------------------------------
(* The C++ program                                                          *)

\* A C++ function stores its argument
ProgramKeeps(s) ==
  /\ Runs /\ Holds(s, {"own"})
  /\ kept' = kept \union {ud[s].of}
  /\ UNCHANGED <<ud, roots, leaked, call, env>>
  /\ Settled({}, {})

ProgramDrops(o) ==
  /\ fault = None /\ o \in kept
  /\ kept' = kept \ {o}
  /\ UNCHANGED <<ud, roots, leaked, call, env>>
  /\ Settled({}, {})

ProgramCalls(o, t, arg) ==
  /\ fault = None /\ o \in kept \cap Stubs
  /\ arg = None \/ (arg \in kept \cap Plain /\ ~closed)
  /\ Enter(o, "program", t, arg)

\* The destructor runs again in what the script finalised itself
EndedTwice(slots) == IF \E s \in slots : ud[s] = Ended THEN {"ended"} ELSE {}

\* lua_close finalises everything, the libraries last; the registry goes
Close ==
  /\ Runs /\ call = NoCall
  /\ ud' = [s \in Slots |-> Free] /\ roots' = {}
  /\ lib' = "unloaded" /\ closed' = TRUE
  /\ UNCHANGED <<kept, leaked, call, coroutine, traceback, garbage>>
  /\ Settled(EndedTwice(Slots), {m \in {"closed", "unloaded"} :
                    \/ m = "closed" /\ \E o \in kept \cap Stubs : handler[o] # None
                    \/ m = "unloaded" /\ kept \cap LibObjects # {}})

-----------------------------------------------------------------------------
(* Coroutine, library, debug.traceback                                      *)

Coroutine(before, after, ms) ==
  /\ Runs /\ coroutine = before /\ coroutine' = after
  /\ UNCHANGED <<heap, lib, closed, traceback, garbage>>
  /\ Settled({}, ms)

CreateCoroutine == Coroutine("none", "held", {})

DropCoroutine ==
  Coroutine("held", "lost",
    IF \E o \in Stubs : handler[o] # None /\ handler[o].thread = "coroutine"
      THEN {"coroutine"} ELSE {})

\* Not while a handler runs: it may run there
CollectCoroutine == call = NoCall /\ Coroutine("lost", "gone", {})

\* The script has a way to an object of the library, or the program keeps one
LibInUse(slots) == \E o \in alive \cap LibObjects :
                     o \in kept \union Locals(call) \/ \E s \in slots : ud[s].of = o

Library(before, after, slots) ==
  /\ Runs /\ lib = before /\ lib' = after
  /\ UNCHANGED <<heap, coroutine, closed, traceback, garbage>>
  /\ Settled({}, IF LibInUse(slots) THEN {"unloaded"} ELSE {})

\* An incremental collector that has marked an object before the script drops it
\* finalises it in its next cycle: it may come after the Library, so an object
\* that is not finalised yet counts, whether the script can get to it or not
DropLibrary == Library("held", "lost", Slots)

\* Library:close
close == Library("held", "unloaded", Slots)

CollectLibrary == Library("lost", "unloaded", {})

ReplaceTraceback ==
  /\ Runs /\ traceback /\ traceback' = FALSE
  /\ UNCHANGED <<heap, coroutine, lib, closed, garbage>>
  /\ Settled({}, {"stack"})

\* The collector: __gc, which destroys the C++ object in the userdata.  No bound
\* holds it up
gc(s) ==
  /\ Runs /\ s \notin Reachable /\ ~Fresh(s)
  /\ ud' = [ud EXCEPT ![s] = Free]
  /\ UNCHANGED <<roots, kept, leaked, call, env>>
  /\ Settle(alive, handler, registry, {}, EndedTwice({s}), {})

\* The program crashed, or is done with Lua and with everything it kept
Over == (fault # None \/ closed) /\ UNCHANGED vars

Next ==
  \/ \E s \in Slots, o \in Objects : Construct(s, o) \/ create(s, o)
  \/ \E s, t \in Slots : newInstance(s, t) \/ get(s, t) \/ set(s, t) \/ reference(s, t)
  \/ \E s \in Slots : Use(s) \/ Drop(s) \/ ProgramKeeps(s) \/ finalise(s) \/ gc(s)
  \/ \E s \in Slots : CallFails(<<s, Table>>)
  \/ \E s, t \in Slots : s # t /\ CallFails(<<s, t, Table>>)
  \/ \E s \in Slots, C \in SUBSET Slots, thread \in {"main", "coroutine"} :
       Cardinality(C) <= 1 /\ addImplementation(s, C, thread)
  \/ \E s, t \in Slots, arg \in Plain \union {None} : CallStub(s, t, arg)
  \/ \E result \in {"value", "error", "table"} : Return(result)
  \/ \E o \in Plain \union Stubs : ProgramDrops(o)
  \/ \E o \in Stubs, t \in Slots, arg \in Plain \union {None} : ProgramCalls(o, t, arg)
  \/ Close \/ CreateCoroutine \/ DropCoroutine \/ CollectCoroutine
  \/ DropLibrary \/ close \/ CollectLibrary \/ ReplaceTraceback
  \/ mod \/ assign
  \/ Over

\* A full collection finds every userdata that is unreachable
Spec == Init /\ [][Next]_vars /\ \A s \in Slots : WF_vars(gc(s))

-----------------------------------------------------------------------------
(***************************************************************************)
(* Every fault of this model has a cause the script or the program could   *)
(* have avoided, and none of the others leads to it: a view (a reference,  *)
(* an attribute, a variant of a string) kept longer than every owner; a    *)
(* handler that replaces itself; a handler registered in a coroutine that  *)
(* is dropped; a stub the program keeps past lua_close; a library dropped  *)
(* while objects of its classes exist; a handler that returns no variant   *)
(* to the program; debug.traceback replaced; __gc called by the script;    *)
(* and, at once, v % 0, an attribute set through a conversion that fails,  *)
(* assign on an empty variant.  In particular no owner ever finds its      *)
(* object destroyed ("owner" has no cause).                                *)
(***************************************************************************)
FaultsHaveACause == fault # None => fault \in misuse

(***************************************************************************)
(* luaL_ref and luaL_unref are paired: while the state is open, the        *)
(* registry holds a function for each handler of a ProxyImpl that exists,  *)
(* a different one for each, and no other.                                 *)
(***************************************************************************)
RegistryExact ==
  fault = None /\ ~closed =>
    /\ \A o \in Stubs : handler[o] # None => o \in alive
    /\ \A r \in Refs : Cardinality({o \in Stubs : handler[o] # None /\ handler[o].ref = r})
                         = IF registry[r] = Empty THEN 0 ELSE 1

(***************************************************************************)
(* Userdata, owners and handlers have their types, and the registry holds the *)
(* functions of the handlers that exist.                                   *)
(***************************************************************************)
RegistryOK == TypeOK /\ RegistryExact

\* The slots the script or the program can get to, through the handlers of
\* stubs that one of them can call
ScriptReach ==
  LET S[n \in 0..Cardinality(Stubs)] ==
        IF n = 0 THEN roots
        ELSE S[n - 1] \union
             UNION {registry[handler[o].ref] : o \in
                      {q \in Stubs : handler[q] # None /\
                         (q \in kept \/ q = call.obj \/ Owners(ud, q) \cap S[n - 1] # {})}}
  IN  S[Cardinality(Stubs)]

Lost(o) ==
  /\ o \in alive \ (kept \union leaked \union Locals(call))
  /\ Owners(ud, o) \cap ScriptReach = {}

(***************************************************************************)
(* An object neither side can get to any more is destroyed, unless a       *)
(* handler captures it whose stub is lost itself (a handler that captures  *)
(* its own proxy keeps it for ever) or was leaked by an error.             *)
(***************************************************************************)
LostAreDestroyed ==
  \A o \in Plain \union Stubs :
    Lost(o) ~> \/ o \notin alive \/ fault # None \/ closed
               \/ \E q \in Stubs : handler[q] # None /\
                    Owners(ud, o) \cap registry[handler[q].ref] # {}

Verdicts == UNION {[1..n -> {"yes", "no", "fails"}] : n \in 0..3}

\* What a search that runs with or without a debug.traceback has to return
SearchRight(intact) ==
  \A v \in Verdicts :
    LET yes == {n \in 1..Len(v) : v[n] = "yes"}
        one == findFirst(v, intact)
        all == findAll(v, intact)
    IN  /\ one[1] = "found" =>
             one[2] \in yes /\ \A n \in 1..(one[2] - 1) : v[n] = "no"
        /\ one[1] = "nothing" => \A n \in 1..Len(v) : v[n] = "no"
        /\ all[1] = "found" => all[2] = yes
        /\ intact =>
             /\ one[1] = "error" => v[one[2]] = "fails"
             /\ all[1] = "error" => \E n \in 1..Len(v) : v[n] = "fails"

RightWhen == {intact \in BOOLEAN : SearchRight(intact)}

(***************************************************************************)
(* findFirst returns the first candidate the predicate accepts, findAll    *)
(* all of them, and both report an error of the predicate, as long as      *)
(* debug.traceback is a function; without it a search that needs a second  *)
(* candidate reports an error of its own, and never a wrong answer.        *)
(***************************************************************************)
PredicateFound == traceback \in RightWhen

Candidates == [const : BOOLEAN, args : {"same", "other"}, id : {1, 2}]

ConstTwins ==
  {m \in Candidates \X Candidates : m[1].id # m[2].id /\ m[1].args = m[2].args
                                      /\ m[1].const # m[2].const}

ResolvedRight ==
  \A m \in Candidates \X Candidates :
    LET chosen == Resolve(<<m[1], m[2]>>)
    IN  IF m \in ConstTwins
        THEN chosen.const /\ chosen = Resolve(<<m[2], m[1]>>)
        ELSE m[1].id # m[2].id => chosen = None

(***************************************************************************)
(* The shorthands call what they stand for: the method, constructor or     *)
(* attribute gets the object, then the arguments in their order; and of    *)
(* two methods that differ in const only the const one is called, in       *)
(* whatever order the class lists them.                                    *)
(***************************************************************************)
SugarCallsRight ==
  /\ \A n \in 1..3 : \A stack \in [1..n -> AtHand] :
       /\ method_stub(stack, Callee) = <<Callee>> \o stack
       /\ construct(stack, Callee) = <<Callee>> \o Tail(stack)
  /\ \A v, val \in AtHand :
       /\ index(<<v, Table>>, Callee) = <<Callee, v>>
       /\ newindex(<<v, Table, val>>, Callee) = <<Callee, v, val>>
  /\ ResolvedRight
=============================================================================
