# SelfPortrait in TLA+

SelfPortrait is a run-time reflection library for C++11: macros (or a clang
based parser that writes them) register classes, methods, attributes and
functions at static-initialisation time, and a program calls them through
type-erased values. This directory holds TLA+ models of the library's run-time
core, of its Lua binding and of the parser, the TLC configurations that check them, and theorems about them proved
with TLAPS. Paths below are relative to `src/src/`.

## 1. The system

| part | state it keeps | operations |
|---|---|---|
| **VariantValue** (`reflection/variant.h`, `variant.cpp`) | a union of embedded numbers, a string and a `shared_ptr<IValueHolder>`; which member is alive is known only to the function pointers `m_deleter` and `m_getter` | constructors, copy, move, `operator=`, `construct<T>`, `createReference`, `assign`, accessors, destructor |
| **Conversions and their cache** (`variant.h`, `conversion_cache.*`, `call_utils.h`) | a `thread_local` map (to, from) → (possible, offset) that remembers the verdicts of throwing and catching a pointer | `isA`, `value`, `convertTo`, `convertToThrow`, `moveValue`, `verifyObject` |
| **Meta-classes and the registry** (`reflection/class.*`, `reflection.cpp`, `reflection_impl.h`) | per class: unresolved base names, flattened superclasses and members, cast functions; two maps of registered classes | static registration, lookup, handle copies (which resolve bases), `castUp`, searches |
| **Invocation** (`method.*`, `constructor.*`, `function.*`, `attribute.*`) | static `MethodImpl`, `FunctionImpl` ... objects; `FunctionRegistry` | calls with argument checks and conversions, attribute get and set, function lookup |
| **Dynamic proxies** (`proxy.*`, `reflection.cpp`, stubs of `reflection_impl.h`) | `ProxyImpl`: a stub per interface, handlers per method, an explicit handle count | constructors, copy, assign, destroy, `addImplementation`, `reference`, method calls on stubs |
| **String and number conversions** (`str_conversion.h`, `str_utils.*`) | none | printing, scanning, formatting; normalising and splitting the spellings of types |
| **SmallArray** (`utils/SmallArray.h`) | an array with inline elements and a `realloc`ed tail; the default `ArgArray` (`selfportrait_config.h`), in which every call carries its arguments | `push_back`, `emplace_back`, indexing, destruction |
| **Lua binding** (`lua_module/`, `utils/lua_utils.*`) | Lua userdata that own or refer to C++ objects, proxies whose handlers are Lua functions in the registry, libraries it loaded | one C function per method of the C++ API, shorthands (`v:method()`, `v.attribute`), the collector's `__gc` |
| **Parser** (`parser/`) | the definitions found in a header | collects classes and functions with libclang, decides which are interfaces, prints registration code |

How they interact. A method call converts the receiver with `verifyObject` and
every argument with `convertToThrow`, both of which read and write the
conversion cache of the thread; the result is placed in a VariantValue. A
Class handle is copied at almost every step (lookup, lists of superclasses,
`castUp`), and each copy may mutate the meta-class. A Proxy builds a stub per
interface through the meta-class, keeps the stubs in VariantValues, and hands
them out as shared references made by `createReference`; a call on a stub comes
back into the ProxyImpl, which runs a handler of the program, which may call
anything again.

What is hard here, and what each part must get right:

* *VariantValue*: exception safety and ownership by hand. The tag must tell
  which union member is alive after every path, throws included; holders must
  neither leak nor be freed under a sharer; a copy must not be an alias.
* *Conversions*: results remembered for one object are reused for another. The
  cache must not invent conversions, must not drop const (its key does), and
  should not be observable.
* *Meta-classes*: the order of static initialisers in different files is not
  specified and bases are resolved lazily, by an iteration that erases from the
  list it walks. No base may be lost, nothing may be inherited that is no base,
  and `castUp` must find the cast functions along the path it picks.
* *Functions*: the one `FunctionImpl` of all functions of a type is made by
  whichever static initialiser comes first; a name should find what was
  registered under it.
* *SmallArray*: elements are relocated as bytes and counted before they are
  constructed. Until something fails it has to be the sequence the calls expect.
* *Lua binding*: two heaps with different ideas of lifetime. C++ destroys at
  once, Lua when it likes and in any order; errors jump over destructors; the
  program may outlive the Lua state whose functions its objects call.
* *Parser*: a recursive walk with a stack, left by exceptions in the middle. Each
  member must be recorded with its class, a class must be taken for an interface
  only if a stub can implement it, and the text of a type must survive the
  preprocessor and the library's splitting.
* *Proxies*: a cycle of shared pointers broken by a count. The count must
  follow every copy, move, swap and captured handle; nothing reachable may be
  destroyed and nothing unreachable kept.

There is no persistence and no network. The library starts no threads; the
cache is `thread_local`, so the models are of one thread, and the interleaving
they explore is that of calls, callbacks, handlers and static initialisers.
`PROJECT.json` lists the hazards line by line.

## 2. Modules

| module | models | kind |
|---|---|---|
| `CastRules` | what C++ decides about a thrown pointer, and what each conversion asks for | operators only |
| `CastOracle` | the conversions as the cast itself answers them (the `NO_RTTI` build) | abstract specification |
| `Conversions` | the conversions of the default build: from a cache to an answer and the cache it leaves | operators only |
| `ConversionsProofs` | lemmas about `Conversions` | TLAPS |
| `ConversionCache` | one thread that converts, with its cache | detailed specification |
| `ConversionCacheProofs` | theorems about `ConversionCache`, the refinement included | TLAPS |
| `VariantValue` | the life of several VariantValues and their holders | specification |
| `VariantValueProofs` | theorems about `VariantValue` | TLAPS |
| `ClassRegistry` | registration, resolution and flattening of bases, `castUp`, searches, `overrides` and `overloads` | specification |
| `ClassRegistryProofs` | theorems about `ClassRegistry` | TLAPS |
| `FunctionRegistry` | registration of functions by static initialisers, lookup by name | state and actions, without a `Next` of its own |
| `Invocation` | calls and attribute accesses, their checks, receiver and arguments; composed of `Conversions` and `FunctionRegistry` | specification |
| `InvocationProofs` | theorems about `Invocation` and `FunctionRegistry` | TLAPS |
| `Proxy` | Proxies, ProxyImpls, stubs, references, handlers, calls | specification |
| `ProxyProofs` | theorems about `Proxy` | TLAPS |
| `ArgSequence` | the sequence a call expects of an `ArgArray` | abstract specification |
| `SmallArray` | the array of raw memory that implements it | detailed specification |
| `SmallArrayProofs` | theorems about `SmallArray`, the refinement included | TLAPS |
| `LuaBinding` | userdata, registry, handlers, collector and program around one Lua state | specification |
| `LuaBindingProofs` | theorems about `LuaBinding` | TLAPS |
| `Spelling` | how the text of a type is written by the parser and read back by the library | operators only |
| `Parser` | the walk over a translation unit, what it records, what is printed of it | specification |
| `MC*` | instances for TLC | constants |

Each operator whose comment starts with "Fault:" is a wrong variant of the
definition after it. Nothing in the specifications uses them: they exist to
show that a property notices when the code changes that way.

### CastRules, CastOracle, Conversions, ConversionCache

A *holder* is the static type it was built for, whether that type is const, and
the most derived type of the object (only a reference holder can differ in it).
A *request* is the `T` of `convertTo<T>`: a type, by value, by reference or by
const reference. `Castable` says which handler catches which thrown pointer,
`BaseOffset` where the base subobject lies. `isAPriv` is the code's function
with its order of tests: same type; a possible entry that const allows; an
impossible entry; otherwise the cast, whose verdict is written into the cache.
`convertTo` asks for the object, then for the object a held pointer points to,
then the converter; `verifyObject` asks for a const receiver and, for a
non-const method, for a non-const one. Every operation threads the cache through
all the questions it asks; these operators are in `Conversions`, which has no state.
`ConversionCache` has the cache as its state and an action for each operation; `last` is the last call with its answer;
`refused` is a history variable, the conversions asked of a const object as
non-const. `moveValue` asks the questions of `convertTo` and then casts the const it
asked for away, so it is an action of its own: `ConstDroppedOnlyByMoves` says that it
is the only call that works on a const object through a pointer to non-const, and
that neither the cache nor the other calls ever do. What a number or string
conversion yields is abstracted to "converted"; `Strings` are the types that are
converted for a parameter `const std::string&` too.

### VariantValue

`m` is the memory: the two tags `m_deleter` and `m_getter`, the union member really
alive, `m_impl`, the owners, type and object of every holder, the value of every
object. `Numbers` says which of the ten numeric members a program uses; `Named` is
the member whose address a getter returns, which for `getterFLOAT` is `m_double`. Each operation is the sequence of deleter,
re-tagging and placement new in the code, applied to `m` as a function; a throw
leaves the memory as it is at that point. An operation that uses a member that
is not there sets `m.fault`, after which nothing is claimed. Each number is a member
of its own, so a tag that names another one would be seen; only the copy of a string
can throw. `assign` answers false when an assignment operator throws, which leaves
the object half assigned. Held types
are told apart by what `clone` and `assign` may do with them.

### ClassRegistry

`resolveBases` keeps the iterator of the code: `erase` returns the next element
and the loop increments once more, so the base after a found one is skipped and
the end wraps round to the beginning, as the end of a `std::list` does in the
implementation the project builds with. Every copy of a handle in the code is a
`Copy` here, including the copies of arguments and of list elements, because
each may resolve further bases. So the calls nest: copying a handle resolves bases,
which copies handles of the bases and registers them, and so on. A `Nesting` says
what each call does to the meta-classes, `Nested[n]` when it nests at most `n` deep;
`Around` makes the next from the last. Each call is for a base of the one around it,
so `Handles` takes as many levels as there are classes: the deepest calls are for
classes without bases, which make no others. Loops are recursive functions of the place they
have come to. `BasesAssumption` is what C++ guarantees: finitely many classes, a base
named once by a class, and a class defined after its bases. `Ancestors` is the
closure of `Bases`. A method per class stands for its members.
The history variable `last` holds the outcome of the last call.
`findAll` hands each method of the list to a predicate that asks for its class;
that makes a handle, which may resolve a base and append to the list while the
loop goes through it. `overrides` and `overloads` make handles of both classes
between their tests, in either order. Methods are compared by name, kind,
qualifiers and argument types; `methods` lists each by the class it was written in.

### FunctionRegistry

`impls` is the static local `FunctionImpl` of each `make_function<FuncPtr>`, made
once by the first registration of a function of that type; `registry` lists, by
name, the `FunctionImpl` each registration got. `registered` is a history of the
static initialisers in their order. `RegisterFunction` becomes the action `Load` of
`Invocation`, which may happen between any two calls, as it does when a library is
loaded; functions are called through `findFunctions`.

### Invocation

The operators of `Conversions` take the cache as an argument, so that a call threads
one cache through `verifyObject` and through every argument. The order of the arguments is a permutation chosen by the step,
because the code expands them into one call expression; the first failure ends
the call. `Denied` is the sequence of checks in the five overloads of
`MethodImpl::call`, of which constructors and functions have the first. `get` and
`set` follow `AttributeImpl` question by question; `unread` says that the
reference which a failed conversion returns was used. `isConst` is the flag of
the holder, which a held `const X*` sets as well. What a body does is left out, and so
is where its result goes: that is `VariantValue`'s `Construct`.
`InvocationAssumption` says what the types of C++ make true and no code tests: a
receiver is of a class and not a pointer to const, the class of an attribute is not a
number, and the type of a held `X*` is not a `const Y*`.

### Proxy

Ownership is derived from the state: a stub is owned by `m_interfaces` and by
the references of the program, a ProxyImpl by Proxies, by its stubs and by
Proxies that handlers captured. An object without owners is destroyed by
`DestroyStub` or `DestroyImpl`; every operation of the program waits for
`Settled`, since destructors run within the call that dropped the last owner.
A handler that is running (`calls`) may do whatever the program may, which is
how callbacks into the ProxyImpl that is being called are covered.

### ArgSequence and SmallArray

`mem` remembers of each element where it was constructed, because `realloc` copies
bytes and an element that points into itself (a VariantValue with a short string
embedded) is good only there. Growing picks any block, so a block that stays and
one that moves are both covered. The events after which the array is no longer a
sequence (a constructor that throws, no memory, a reference to an own element
pushed, a self-pointing element moved) are collected in `happened`; until then the
array, read by `Contents`, is an `ArgSequence`. The variants are abstracted to
three: the empty one, one that may be copied as bytes, one that may not.

### LuaBinding

A *slot* is a userdata (or a string) of the script: it owns its object, refers to
an object that others own (a *view*: what attributes, references and `castUp`
return, and a Variant made of a string), or is a Proxy. Ownership is derived as in
`Proxy`; every step ends with `Settle`, which destroys what lost its last owner,
runs `luaL_unref` for the wrappers that go with it, and records a fault if that
touches something gone. `Reachable` is what the collector sees: the script's
variables and whatever a function in the registry captures. A handler call is
entered by the script or by the program and ends with a value, an error, or a
result that is no variant. `luaL_error` leaves C++ functions without running
destructors, so the shares their locals had go to `leaked`; the module is built
against a Lua compiled as C, as the comment in `builtin_exception_translator` has
it. A handler call from the script has the stub and one argument as locals of
`Lua_Method::call` (`Locals`): they own what they refer to until the call returns, and
are leaked when it ends in `luaL_error`. `misuse` is a history of what the script or the
program did that may end in a fault, one kind for each fault; `FaultsHaveACause` says
that no fault of the model comes from anything else, and makes no claim about causes
that are not modelled (section 5). Some kinds are undefined at once: `v % 0`, `assign`
on an empty variant, an attribute set through a conversion that fails. A userdata
whose `__gc` the script called is `Ended`; any use, and the collector's own `__gc`,
then touches what is gone. The Library may be finalised before or after anything else
that is unreachable, as an incremental collector does; so `DropLibrary` is a misuse if
any object of the library is left, also an unreachable one. The shorthands are modelled
by what they do to the stack, the searches by the verdicts of the predicate.

### Parser and Spelling

`work` is the recursion of `handleDecl`, a frame per call in progress with the
declarations still to come; a `Decl` carries only what the code asks clang. An
exception of `treatType` is an early end of that one `handleDecl`, except for the
bases of a class, whose exception passes between `pushClass` and `popClass`. What
is printed is a set of operators over the finished records: `is_interface`,
`StubMethods` with the test that `printAsStub` throws for, `Lines` with the text
of the types. The reference is read from the unit itself: `Interface` is the
definition of `definitions.h:111-122` as C++ reads it (static data members are
attributes, conversion operators are methods, a constructor with default arguments for
all its parameters is a default constructor), `MembersOf` and `Declarations` what C++
says. Conversion operators and static data members are declarations the walk visits and
records nothing of (`Passed`); the properties name them where the code and the
definition part.
`Spelling` keeps of a type's text only what the code distinguishes: blanks, marks,
commas and other characters. The word `COMMA` is not expanded by `#__VA_ARGS__`, so it
is in the name the run time has; `TypesReadBack` compares with `Marked`, the spelling
with that word, and says that exactly the types without a comma keep clang's own.

## 3. Runs

| run | what it asks | instance and why it is enough | result |
|---|---|---|---|
| `conversion_cache` | is a possible entry right, who works on a const object as a non-const one, which entries are negative, which answers differ from the cast's | a base at a nonzero offset, a derived class, pointers to both, a string, const and non-const holders; the cache has one entry per pair and the code looks at one pair (and the pointer pair) per question, so two related types and two holders per type reach every state an entry can be in | passes |
| `conversion_cache_transparent` | does `ConversionCache` implement `CastOracle` | the same types with no const holder, two layouts, six requests, numbers among them | passes |
| `variant_value` | tags, owners, aliasing, containment of failures, and the complete list of misuses that lead to undefined behaviour | three variants and three holders: a source, a target and a third that shares with either; a copyable type that can be assigned and a move-only one; a double and a float, the two numbers a getter mixes up, and a string; two values; held constructors and assignments and string copies may throw | passes |
| `class_registry` | no base lost, nothing foreign inherited, members and superclasses agree, `castUp`'s path check, progress of resolution, does a search see what it appends, do `overrides` and `overloads` depend on the order of the handles they make | five classes: three bases in one list (erase, skip, wrap), a diamond, depth two; one method down both sides, overloads that differ in arguments, their number or const, static ones; all registration orders with every operation in between | passes |
| `class_no_cast` | `castUp` finds a cast function on each step of its path | a chain of four classes, the smallest where the path skips a class | violated |
| `invocation` | is const kept on every way into a body or out of an attribute, does a running body have the objects the casts give, can the evaluation order be seen, does a failure have a reason, which function does a name find | a base at a nonzero offset, const and non-const objects and pointers to both; one callable per kind and qualifier; two arguments, the least of which one can leave in the cache what the other reads; a conversion reads no more than two entries; three functions, two overloads under one name, one with the type of a function of another name | passes |
| `invocation_unread` | "this value should never be read" (`variant.h:1069`) | as above | violated |
| `proxy` | nothing dangles, the count is exact, interfaces live as long as handles, calls keep what they run on, what is lost is destroyed | two handles, two references, two ProxyImpls: enough for a cycle of captures across two ProxyImpls, a self-assignment and a swap; two interfaces and a rejected class; one call in progress | passes |
| `proxy_constructor_leak` | nothing unreachable stays | a list whose second class is rejected | violated |
| `small_array` | is it the sequence the calls expect, through inline and allocated elements and moving blocks; what damages it | two inline elements and up to five, so that the block is allocated and extended twice with each kind of element before, in and behind it; two addresses | passes |
| `lua_binding` | what each crash of the program was announced by, is the registry exact, is what is lost destroyed, do searches and shorthands call the right thing | two userdata and the argument of a call, two registered functions, one C++ object (of a loaded library), two stubs, one string; one accident per behaviour | passes |
| `parser` | members at home, classes recorded once, interfaces as documented, no stub that cannot be printed, what is read back of the types | 11658 units: every two of fifteen members of a class, a base that is public, private or a private typedef, four orders of declarations, two places; every one and two of six types as arguments | passes |

But for `ConversionCache`, type invariants are checked as a conjunct of what says
the state is well formed (`MemoryOK`, `MetaOK`, `HeapOK`, `RegistryOK`,
`ElementsOK`, `RecordsOK`).

`variant_value` and `invocation` are checked under `VIEW MemoryView`: `last` only labels the step for
the action properties, which TLC evaluates on every step, and no action reads it.

Deadlock checking is on except in `proxy`: handlers that capture Proxies in a
cycle leak ProxyImpls for good, and when the two addresses of the instance are
used up and no handle, reference or call is left, nothing can happen. In
`VariantValue` the stuttering action `Crashed` marks the end of a program whose
behaviour is undefined; `Damaged` of `SmallArray` and `Over` of `LuaBinding` alike.
In `Parser` only the finished walk stutters (`Printed`), so that the absence of
deadlock says the walk is never stuck.

Bounds. `Holders` and `Impls` bound the heap: an allocation needs a free
address. Three holders for three variants is one short of what three variants
can hold while a fourth is under construction, and no operation builds a fourth.
A call of `Invocation` takes no arguments past the last parameter, because
`callArgArray` never reads them. `MaxCalls` bounds nested calls; an inner call
adds a frame to a sequence whose frames are independent. `MaxSize` and `Blocks` bound
the array of `SmallArray`: every growth past the second excess element repeats the
one before. In `LuaBinding`, `MaxSlots` and `MaxRefs` bound the script, and `Within` how
far a step of the script or the program may take a behaviour: `MCWithin` allows two
objects at a time and one argument, one kept by the program, one kind of accident, and
one of coroutine, library and `debug.traceback`, since two accidents in one behaviour
give each other no new cause. It is a guard of the actions that make something and not
a constraint on states, and `gc` does not have it: whatever the bounds, a finaliser that
is due can run, so that `LostAreDestroyed` is about whole behaviours. `MaxGarbage` stands for the room on the program's Lua stack. A nested
handler call, and a view of a stub that `castUp` makes, are outside the instance and
the model. Everything else is finite by itself.

Fairness. `Proxy` states weak fairness of the destructors: a
`shared_ptr` runs its deleter in the call that drops the last owner, so a
destructor that is due cannot be put off. `LuaBinding` states weak fairness of
`gc(s)` for each slot: a full collection finalises every userdata that is
unreachable then, and what is unreachable stays so. No fairness is assumed of
the program or the script.

### What the violated runs show

* `class_no_cast`: flattening happens when a base is resolved and is never
  repeated; with an unlucky order of static initialisers `inheritancePath` steps
  over a class and `castUp` throws its internal error.
* `invocation_unread`: a failed conversion returns a reference to the value as if
  it had the type asked for. `assignable_helper::set` copies it before it looks at
  `success`, and `AttributeImpl::set` asks for `Clazz&` without a flag and writes
  through the answer, so that a set through a non-const variant that holds a const
  object writes to the const object (and, for a base, not where the base is).
* `proxy_constructor_leak`: if a later class of the list is rejected, the
  constructor throws with the cycle already built and no destructor to break it.

### Seen while modelling

Facts the properties state as they are. The first two are disagreements with a
comment that `AnswersAreCasts` and `UndefinedOnlyByMisuse` already describe
exactly; for the others nothing in the repository claims otherwise.

*Conversions.* `moveValue<X>` asks for a `const X` and moves out of what it finds, a
const object too; the stubs of a proxy take their results with it
(`reflection_impl.h:603-622`), so a handler that returns a const object, or a
reference to one, has it moved from. `verifyObject<std::string>` would keep a reference to
a temporary (`converter<const std::string&>` yields a new string); no class of a
receiver is a string. A refusal for const is written into the cache as impossible for the
pair of types ("conversion is known to fail, we won't even try", `variant.h:969`), so
after one non-const request of a const object, non-const objects of the type are
refused too. With a virtual base the remembered offset of one object is applied to
another. A request for `const X*&` (or `value<const X*>`) asks for a `const X**`,
which an `X**` is not, under the same key as the questions for `X* const*`, so that
it may be given an offset or leave a refusal it should not; such requests are kept
out of `Requests` by `CastRulesAssumption` and `ValueModelled`, and everything said
of the cache is said of programs without them.

*VariantValue.* `operator=(std::string)` and the constructors set the tag before
the string is copied ("the variant will be in a consistent state",
`variant.h:785`); if the copy throws, the destructor destroys a string that was
never built. `getterFLOAT` returns the address of `m_double` (`variant.h:1328`), which is
also that of `m_float`. A moved-from variant passes `isValid()` with a null holder.

*Meta-classes.* A lookup of a class registered before its bases lists only every
other one (`PassMakesProgress` is what remains true); superclasses flattened too
early are never completed. `overloads` computes whether the arguments differ
and does not use it: it says yes to methods that
override each other. It also makes fewer handles than `overrides` and may say no
where `overrides`, which resolves more bases on its way, says yes.

*Functions.* Of the functions of one type every later one is the first registered,
whatever its name (`FunctionsFound`).

*SmallArray.* `construct` (`SmallArray.h:159-162`) is declared to return a `T&` and has no
return statement, so every push is undefined by the letter; no caller uses the
result, and the model is of builds that return from it. A string among the arguments past the inline elements is broken when
the block moves; a constructor that throws leaves a counted element that was never
built.

*Lua binding.* `Variant.new("text")` keeps the pointer `lua_tostring` returned. A
handler that returns a table aborts a program that calls it outside of a
protected call, and leaks the call's objects otherwise. A script that replaces
`debug.traceback` leaves the table `debug` on the stack under every callback:
searches then fail at the second candidate, and the stack of a program that calls
handlers fills. A handler registered in a coroutine is called and released through
that coroutine's state. A handler that captures its own proxy is never collected. A
library may be unloaded with objects of its classes alive. A handler that replaces
itself is read after its wrapper was destroyed. `v % 0` divides two ints, `__gc` of a
userdata can be called by the script, and `assign` does not ask whether the variant has
a value.

*Parser.* A member of a private type is silently left out, and so are a deleted
constructor, a static data member and a conversion operator: `is_interface` counts none of
them, so a class with a pure virtual `operator bool` gets a stub that does not
override it. A constructor all of whose parameters have default arguments is not
taken for a default constructor. The names of types with commas reach the run time with the
word `COMMA` in them. A base that is a private typedef throws
between `pushClass` and `popClass`, after which the class takes in whatever follows.
A further declaration of a class pushes an empty record and takes over its place
in the index. Whether a class lies in the main file is asked of its first
declaration. A method that reaches a class along two paths is printed twice in its
stub. `REFL_` lines written by hand with a comma inside a type are split in two, and
`*&` and `* &` are not normalised to the same name (clang writes the first only).

## 4. Proofs

`ConversionCacheProofs` proves, for any sets of types, holders and requests that
meet `CastRulesAssumption` and `NotCachedAssumption`:

* `TypeCorrect`: `Spec => []TypeOK`;
* `ConstSafety`: `Spec => []ConstDroppedOnlyByMoves`;
* `Refusals`: `Spec => []ImpossibleIffRefused`;
* `OffsetsSound`, `AnswersSound`: `Spec => []PossibleEntriesSound` and
  `Spec => []AnswersAreCasts`, for programs without virtual bases
  (`LayoutIndependent`);
* `Transparent`: `Spec => CacheIsTransparent`, without virtual bases and const
  objects.

The argument. None of the properties of an answer is inductive by itself, since
an answer depends on entries left by earlier calls. The strengthening
`SafetyInv` says of every entry what is needed later: a possible entry comes from
a castable pair and carries its offset, an impossible entry of a castable
pair is in `refused`, and conversely, and no question for what a held pointer
points to has ever been refused (so that `AnswersAreCasts` need only blame a
refusal of the very type asked for). Each operation asks one to four questions,
so there is one lemma about `isAPriv` (it keeps the invariant of the cache it is
given and says what its answer is) which is applied to the cache threaded through
`convertTo`, `value` and `verifyObject`. These lemmas are about operators and not
about a state, so they stand in `ConversionsProofs`, where `InvocationProofs` finds
them too; the step lemmas then only assemble their results. `AnswerInv` adds the answer. For `Transparent` the invariant gives that
the cache never has a negative entry for a castable pair, so every step of
`Next` is a step of the oracle's.

`VariantValueProofs` proves, for any number of variants, holders, types and values that
meet `MemoryAssumption`:

* `TagsTellTheTruth`: `Spec => []MemoryOK`, and `NoHolderLeaks`: `Spec => []OwnersExact`;
* `OthersKeepTheirValues`, `CopiesEqualTheirSource`, `FailuresTouchNothingElse` and
  `MisusesAreTheseOnly`: `Spec` implies the action properties `NoActionAtADistance`,
  `CopiesAreIndependent`, `FailureIsContained` and `UndefinedOnlyByMisuse`.

The argument. The tags and the owners say nothing of what a holder holds, and without
that a step that reads through one shared holder cannot be followed. `Good` adds
`HoldersTrue`: a holder that lives has a type, what it refers to is an object of the
program or one that a living holder holds itself, and a free holder holds nothing. An
operation is a sequence of destructor calls and placement news, in the middle of which
no invariant of the whole memory holds; `Ready` is what holds there, with one variant
left out. There is a lemma per part (`Good` to `Ready`, `Ready` to `Good`), each of
which also says that every other variant is `Untouched`; each operation chains these,
and `StepOk` collects what the four action properties need.

`ClassRegistryProofs` proves all that the run `class_registry` checks, for any classes,
bases and methods that meet `BasesAssumption` and `MethodsAssumption`, and any order
of the static initialisers:

* `MetaAlwaysOK`: `Spec => []MetaOK`, and `NoBaseIsLost`: `Spec => []NoBaseLost`;
* `PathAlwaysSound`: `Spec => []PathSound`, about the two checks `castUp` makes of the
  path (the third, for a cast function, fails: `class_no_cast`);
* `SearchAlwaysSeesAll`: `Spec => []SearchSeesAll`;
* `ComparisonsRelated`: `Spec => []MethodsRelated`;
* `PassAlwaysMakesProgress`: `Spec => PassMakesProgress`.

The argument. The inductive invariant `RegistryInv` has, besides types and `PathSound`,
that every meta-class is `Sound`: each base waits or was found and none is there twice,
what is listed is registered and above the class, the bases found are among it, and the
members are those of what is listed. `MetaOK` and `NoBaseLost` are not inductive one
without the other, since what is flattened into a class is what its bases list. A loop
is a recursive function over the places it can come to; `LoopExists` and `ChainExists`
show that there is one and `LoopEnds` that it ends, from a number that falls with each
turn, or stays while another falls (the bases that still wait, then those after the
iterator: that is why wrapping round does no harm). The nesting of the calls is an
induction over the levels, along an order in which every class comes after its bases:
`NestedSound` says of level `n` that for the first `n` classes its calls keep
`Sound` and leave alone every class but the one they are for and those above it.
`HuntEnds` and `ClimbEnds` are about the loops of `findAll` and
`inheritancePath`, `PassResolves` about a pass all of whose bases are registered.
For `MethodsRelated` the order of two handles has to make no difference, though each
may resolve bases of the same classes. `Agree(a, x, y)` says of two states of the
meta-classes that outside of `a` and the classes above it the same bases wait, and the
same is listed but for classes above `a` (`Kept`). Copying a handle of `a`
leaves a state that agrees with the one before (`CopyOwn`), and copying any other
handle on both sides keeps the agreement (`CopyAgree`, from `NestedAgree` over the
levels, `LoopsAgree` for two loops in step, and `FlattenAgree` for two lists that
differ in classes above `a`); so either order leads to the same answer.

`ProxyProofs` proves, for any number of Proxies, references, ProxyImpls, classes and
methods, any interface lists and any depth of calls:

* `HeapWellFormed`: `Spec => []HeapOK`;
* `HandlesCounted`, `InterfacesFollowHandles`: `Spec => []HandleCountExact` and
  `Spec => []InterfacesWhileHandled`, if `WholeLists`;
* `CallsStayAlive`: `Spec => []CallsKeptAlive`.

`FinitenessAssumption` says that handles and methods are finitely many, since a count
is a number. `WholeLists` says that no constructor throws after it registered an
interface; a constructor that does is what `proxy_constructor_leak` shows, and the
invariant names what it leaves (`Leaked`), so the hypothesis is used only where the
two theorems need it. The argument. The count is inductive only together with the
interfaces it decides about (a ProxyImpl that is destroyed takes captured Proxies of
others with it, whose counts must have been positive) and only for ProxyImpls that
are owned; `HandlersOfNone` says that a fresh address has no handlers. Captured
Proxies of ProxyImpl `i` are spread over the handlers of all others; the lemmas on
cardinalities say what one replaced handler and one ProxyImpl that goes take away.
`CallsInv` keeps for each call that a stub which is still there is one of an interface
its ProxyImpl was made for.

`SmallArrayProofs` proves, for any number of inline elements and any size, values and
addresses that meet `SmallArrayAssumption` (which says `"moved"` is among the events
allowed: whether `realloc` moves the block is not the program's choice):

* `DamageIsExplained`: `Spec => []ElementsOK`;
* `SequenceImplemented`: `Spec => IsSequence`, the refinement of `ArgSequence`.

The argument. `ArrayInv` adds that the memory past the counted elements is raw, which
is what makes a new slot start without a trace of an old element. Each way of growing
moves the block or leaves it; `MoveExplained` says that an element that was sound
before and is not after is one `MoveEvents` names. The refinement follows step by step
from what `Contents` is after each placement; a step after an event maps to the
abstract array that is `broken`.

`LuaBindingProofs` proves, for any number of userdata, registry entries, objects, strings
and stubs that meet `LuaBindingAssumption`:

* `FaultsAreMisuses`: `Spec => []FaultsHaveACause`;
* `RegistryStaysPaired`: `Spec => []RegistryOK`;
* `ShorthandsKeepTheOrder`, `SearchesAnswerRight`: `Spec => []SugarCallsRight` and
  `Spec => []PredicateFound`. These two are about the stack of one call, for up to three
  arguments or candidates; the rotations and loops they need are unfolded.

The argument. That each fault has a cause is not inductive: a fault is found when
something is destroyed, and its cause lies steps before. `Inv` says of a state without
a fault that ownership is true (`HeapTrue`), that handlers and registry entries are
paired one to one (`HandlersTrue`), and that every fault which could still come has
been announced among the misuses (`Announced`: a handler of a lost coroutine, an
object of a library that is going, a view of what is gone, ...). Every action ends with
`Settle`; `SettleStep` proves once that from a state `Prepared`, in which the
survivors are `Steady` and the dangers `WillBeAnnounced`, `Settle` leads back to `Inv`, so
that each action's lemma is about its own assignments only.

`InvocationProofs` proves, for any types, holders, callables with any number of
parameters, and attributes that meet `InvocationAssumption` and the assumptions of
`Conversions`, and for any order of the static initialisers:

* `CacheAlwaysSound`: `Spec => []CacheInv`, the inductive invariant;
* `ConstAlwaysKept`: `Spec => ConstKept`;
* `BodiesAlwaysGetTheirObjects`: `Spec => BodiesGetTheirObjects`, if
  `LayoutIndependent` and `ScalarsAreNoBases`;
* `ArgumentOrderNeverSeen` and `FailuresAlwaysCasts`: `Spec => ArgumentOrderUnseen` and
  `Spec => FailuresAreCasts`, if `LayoutIndependent`;
* `RegistryAlwaysOK`: `Spec => []RegistryOK`, types and `FunctionsFound` together.

`LayoutIndependent` says that no class has a virtual base: with one, a remembered
offset is applied to an object it is wrong for. `ScalarsAreNoBases` says that no
class derives from a number or from `std::string`. Of `std::string` C++ allows it; an
object of such a class would be taken apart by the cast, or read by the converter if
an earlier refusal keeps the cast from being tried, and the two answers differ.
The instance of `MCInvocation` meets both.

The argument. `CacheInv` says of the cache left by all earlier calls that each
conversion it has is one that exists (`Exists`), that what it lost is exactly what was
refused and never a question about a held pointer (`Sound`), and, without virtual
bases, that each offset is right (`Placed`). One conversion keeps this and loses
exactly `RefusedBy`; one that succeeds loses nothing. The arguments of a call are a
recursive function of how many are converted. What holds after `n` of them is an
induction, and the library's induction theorems take an operator as a parameter, which
the provers cannot instantiate; `SetInduction` is induction for a set of numbers, got
from the least number outside of it, and serves for each such claim with the set of
the `n` for which it holds. That the order cannot be seen is harder than that each
order is sound, since two orders pass through different caches. The key is
`Fill(c, A)`, the cache `c` with the cast's verdict written in for each pair of `A` it
has no entry for. Every question is answered by it as by `c` itself, and a conversion
that succeeds only adds the pairs it asked about to `A`; so orders of arguments that
all succeed end in the same filled cache with the same answers, and an argument that
fails from `c` fails wherever it comes.
`RegistryInv` adds to `FunctionsFound` that a `FunctionImpl` is only made by a line of
its type; that the list of a name is in the
order of registration is stated by the positions of its entries (`ListsInOrder`).

What is only model-checked, and why:

* liveness under fairness (`LostAreDestroyed` of `Proxy` and of `LuaBinding`) is out of
  the prover's reach;
* `Parser` and `Spelling`: the interface decision, what a stub has to print, and the
  splitting of spellings are RECURSIVE operators, of which the prover can say nothing.
  They follow the hierarchy of a unit and the text of a type: what they compute is an
  induction over data. That keeps `InterfaceAsDocumented`, `StubsPrintable` and
  `TypesReadBack` with TLC. `RecordsOK` and `RecordedOnce` are about the walk alone and are
  not proved yet: see the plan;
* the properties of the three violated runs, which are false.

## 5. Not modelled, and the plan

Next, in this order:

1. Numbers and equality: numbers to numbers, strings to numbers, `equals`, as
   operators checked against a reference definition.
2. Proofs of `RecordsOK` and `RecordedOnce`, once the walk and what is printed of it stand
   in modules of their own. They need an assumption on units that `MCParser` meets by its
   data (a declaration is a member of one class or namespace, and comes once), and an
   invariant that relates the frames of `work` to `stack`.

Not modelled in what is modelled: annotations of meta-classes; how a cast function of
`castUp` may fail by itself (`cast_helper`: a class that is not polymorphic, an object
that is not of the class); nested handler calls and views of stubs in `LuaBinding`, its
userdata of meta-objects (whose `__gc` a script may call as well, and which may refer
to classes of a library that is closed), a handler's error value that is no string (`lua_tostring` then yields
null), and the one quotient of two ints that overflows; template instantiation in `Parser` (a specialization
inside a class becomes an inner class of it) and whatever libclang answers.

Left out for good: the template metaprogramming helpers (no run-time state),
`out.cpp` (generated), `runner.cpp` and the benchmarks (programs that use the
library), the set-up of libclang in `parser.cpp`, and text formatting other than the
spelling of types, about which there is a property. Races between threads are not modelled: the repository does not
say which objects may be shared, and only the conversion cache is made
thread-safe, by being thread-local.
