----------------------------- MODULE VariantValue -----------------------------
(***************************************************************************)
(* The life of VariantValues: a union whose active member is known only to *)
(* the function pointers m_deleter and m_getter, numbers and strings held  *)
(* in place, everything else behind a shared_ptr<IValueHolder>.  Every     *)
(* constructor, assignment and accessor is one action, written as the      *)
(* sequence of destructor calls and placement news the code performs; using *)
(* a member that is not there is undefined behaviour, recorded in m.fault. *)
(***************************************************************************)
EXTENDS Naturals

CONSTANTS
  Variants,     \* the VariantValue objects of the program
  Holders,      \* heap addresses of IValueHolders (the heap's bound)
  Numbers,      \* the numeric members of the union the program uses
  Externals,    \* objects of the program a variant may refer to
  Types,        \* the types held behind m_impl
  Copyable,     \* those constructible from const T&
  Movable,      \* those constructible from T&& (CloneHelper of ValueHolder<T&>)
  Assignable,   \* those really_assignable
  Values,       \* what an object's value is told apart by
  MayThrow,     \* what may throw: "object" constructors, "string" allocations
  NullPtr,      \* the null pointer
  Dangling      \* a pointer or a value whose object is gone

VARIABLES
  m,            \* the memory: see Memory
  last          \* the last call: operation, variants involved, how it ended

vars == <<m, last>>

NumericMembers == {"UINT8", "INT8", "UINT16", "INT16", "UINT32", "INT32", "UINT64",
                   "INT64", "DOUBLE", "FLOAT"}

Embedded == Numbers \union {"STRING"}
Objects  == Externals \union Holders \union Variants

ASSUME MemoryAssumption ==
  /\ Variants \intersect Holders = {}
  /\ Externals \intersect (Holders \union Variants) = {}
  /\ NullPtr \notin Holders /\ Dangling \notin Objects
  /\ Copyable \subseteq Types
  /\ Numbers \subseteq NumericMembers
  /\ Values # {}

Memory == [
  deleter : [Variants -> Embedded \union {"dead", "NULL", "DEFAULT"}],
  getter  : [Variants -> Embedded \union {"dead", "NULL", "DEFAULT"}],
  member  : [Variants -> Embedded \union {"none", "DEFAULT"}],
  impl    : [Variants -> Holders \union {NullPtr}],
  owners  : [Holders -> SUBSET Variants],
  type    : [Holders -> Types \union {Dangling}],
  object  : [Holders -> Objects \union {Dangling}],
  val     : [Objects -> Values \union {Dangling}],
  fault   : {"none", "undefined"} ]

(***************************************************************************)
(* deleter and getter are m_deleter and m_getter by the names of their     *)
(* functions (deleterINT32, getterINT32), "dead" where no VariantValue     *)
(* exists; member is the union member whose lifetime is running; owners[h] *)
(* are the shared_ptrs that count for h, a holder lives while it has one;  *)
(* object[h] is what the holder holds: itself for a ValueHolder<T>, the    *)
(* referred object for a ValueHolder<T&>.  val of a variant is its         *)
(* embedded value.                                                         *)
(***************************************************************************)
TypeOK ==
  /\ m \in Memory
  /\ m.fault = "none" => \A h \in Holders : m.owners[h] # {} => m.type[h] \in Types

-----------------------------------------------------------------------------
Undefined(s) == [s EXCEPT !.fault = "undefined"]

isValid(s, v) == s.deleter[v] # "NULL"
isEmbedded(s, v) == s.deleter[v] # "DEFAULT"

\* Object o ends: its value is garbage, what refers to it dangles
Ended(s, o) ==
  [s EXCEPT !.val[o] = Dangling,
            !.object = [h \in Holders |->
               IF s.object[h] = o THEN Dangling ELSE s.object[h]]]

\* ~shared_ptr<IValueHolder>, which deletes the holder with the last owner
Release(s, v, h) ==
  LET rest == [s EXCEPT !.owners[h] = @ \ {v}]
  IN  IF rest.owners[h] # {} THEN rest
      ELSE Ended([rest EXCEPT !.type[h] = Dangling, !.object[h] = Dangling], h)

\* Fault: the holder is deleted whoever else owns it
deleterUncounted(s, v) ==
  LET h == s.impl[v]
      ended == [s EXCEPT !.member[v] = "none", !.impl[v] = NullPtr]
  IN  IF ~isValid(s, v) THEN s
      ELSE IF s.member[v] # s.deleter[v] THEN Undefined(s)
      ELSE IF s.deleter[v] \in Embedded THEN Ended(ended, v)
      ELSE IF h = NullPtr THEN ended
      ELSE Ended([ended EXCEPT !.owners[h] = @ \ {v}, !.type[h] = Dangling,
                               !.object[h] = Dangling], h)

\* m_deleter(this)
deleter(s, v) ==
  LET ended == [s EXCEPT !.member[v] = "none", !.impl[v] = NullPtr]
  IN  IF ~isValid(s, v) THEN s
      ELSE IF s.member[v] # s.deleter[v] THEN Undefined(s)
      ELSE IF s.deleter[v] \in Embedded THEN Ended(ended, v)
      ELSE IF s.impl[v] = NullPtr THEN ended
      ELSE Release(ended, v, s.impl[v])

\* m_deleter = deleterX; m_getter = getterX
Tagged(s, v, tag) == [s EXCEPT !.deleter[v] = tag, !.getter[v] = tag]

\* new(&m_int32) ValueHolder<std::int32_t>(x) and its siblings
PlaceEmbedded(s, v, tag, x) ==
  [Tagged(s, v, tag) EXCEPT !.member[v] = tag, !.val[v] = x]

\* new(&m_impl) shared_ptr<IValueHolder>(p), then the DEFAULT tag
PlaceImpl(s, v, h) ==
  LET placed == [Tagged(s, v, "DEFAULT") EXCEPT !.member[v] = "DEFAULT", !.impl[v] = h]
  IN  IF h = NullPtr THEN placed ELSE [placed EXCEPT !.owners[h] = @ \union {v}]

\* new ValueHolder<T>(x), new ValueHolder<T&>(o)
NewHolder(s, h, t, x) == [s EXCEPT !.type[h] = t, !.object[h] = h, !.val[h] = x]
NewRefHolder(s, h, t, o) == [s EXCEPT !.type[h] = t, !.object[h] = o]

FreeHolders(s) == {h \in Holders : s.owners[h] = {}}

-----------------------------------------------------------------------------
(* impl() of a variant, dereferenced                                        *)

Held(s, v) == IF isEmbedded(s, v) THEN v ELSE s.object[s.impl[v]]

\* The member that m_deleter names is there, and m_impl is not null
MemberOk(s, v) ==
  /\ isValid(s, v) /\ s.member[v] = s.deleter[v]
  /\ isEmbedded(s, v) \/ s.impl[v] # NullPtr

\* The member whose address a getter returns: getterFLOAT names m_double
Named(getter) == IF getter = "FLOAT" THEN "DOUBLE" ELSE getter

\* impl() finds a holder, and there is what the holder refers to.  m_double and
\* m_float share their address, and each begins with its IValueHolder: getterFLOAT
\* does find the holder of a float.
HolderOk(s, v) ==
  /\ isValid(s, v) /\ s.member[v] = s.getter[v]
  /\ isEmbedded(s, v) \/ s.impl[v] # NullPtr

ObjectOk(s, v) == HolderOk(s, v) /\ Held(s, v) # Dangling

TypeOf(s, v) == IF isEmbedded(s, v) THEN s.member[v] ELSE s.type[s.impl[v]]

ReallyAssignable(s, v) == TypeOf(s, v) \in Assignable \union Embedded

-----------------------------------------------------------------------------
\* Fault: the copy shares the holder instead of cloning it
CopyFromShallow(s, v, u, h, throws) ==
  IF s.deleter[u] = "DEFAULT" THEN PlaceImpl(s, v, s.impl[u])
  ELSE PlaceEmbedded(s, v, s.deleter[u], s.val[u])

\* Fault: the tag is taken over before clone() can throw
CopyFromTagFirst(s, v, u, h, throws) ==
  IF throws THEN Tagged(s, v, s.deleter[u]) ELSE PlaceImpl(s, v, s.impl[u])

\* Fault: a null clone is kept
CopyFromNullClone(s, v, u, h, throws) ==
  IF s.deleter[u] = "DEFAULT" THEN PlaceImpl(s, v, NullPtr)
  ELSE Tagged(s, v, "NULL")

\* The common part of the copy constructor and of copy assignment, after the
\* old value of v is gone.  A string is tagged before it is copied; clone()
\* yields null for a type that cannot be copied.
CopyFrom(s, v, u, h, throws) ==
  LET tag == s.deleter[u]
      g   == s.impl[u]
      ref == s.object[g] # g
  IN  IF tag = "NULL" THEN Tagged(s, v, tag)
      ELSE IF ~MemberOk(s, u) THEN Undefined(s)
      ELSE IF tag \in Embedded THEN
        IF throws THEN Tagged(s, v, tag) ELSE PlaceEmbedded(s, v, tag, s.val[u])
      ELSE IF throws \/ s.type[g] \notin (IF ref THEN Movable ELSE Copyable)
        THEN Tagged(s, v, "NULL")
      ELSE PlaceImpl(IF ref THEN NewRefHolder(s, h, s.type[g], s.object[g])
                     ELSE NewHolder(s, h, s.type[g], s.val[g]), v, h)

\* The same for moves: embedded values are copied, m_impl is moved and the
\* tag of the source stays.
MoveFrom(s, v, u, throws) ==
  LET tag == s.deleter[u]
      g   == s.impl[u]
  IN  IF tag = "NULL" THEN Tagged(s, v, tag)
      ELSE IF s.member[u] # tag THEN Undefined(s)
      ELSE IF tag \in Embedded THEN
        IF throws THEN Tagged(s, v, tag) ELSE PlaceEmbedded(s, v, tag, s.val[u])
      ELSE IF g = NullPtr THEN PlaceImpl(s, v, NullPtr)
      ELSE PlaceImpl([s EXCEPT !.impl[u] = NullPtr, !.owners[g] = @ \ {u}], v, g)

\* A copy or move of u may throw where it copies a string or an object
CopyMayThrow(s, u) ==
  \/ s.deleter[u] = "STRING" /\ "string" \in MayThrow
  \/ s.deleter[u] = "DEFAULT" /\ MemberOk(s, u) /\ "object" \in MayThrow
     /\ s.object[s.impl[u]] = s.impl[u]

MoveMayThrow(s, u) == s.deleter[u] = "STRING" /\ "string" \in MayThrow

Ends(throws) == IF throws THEN "threw" ELSE "returned"

\* clone() returned null: "type has no copy constructor"
Uncloned(s, u, after, v) == isValid(s, u) /\ ~isValid(after, v)

Running == m.fault = "none"
Alive(v) == m.deleter[v] # "dead"

Call(op, v, u, end, after) ==
  /\ m' = after
  /\ last' = [op |-> op, target |-> v, source |-> u, end |-> end]

\* A constructor that throws leaves no variant
OrDead(s, v, end) == IF end = "threw" THEN Tagged(s, v, "dead") ELSE s

-----------------------------------------------------------------------------
SomeValue == CHOOSE x \in Values : TRUE

Init ==
  /\ m = [deleter |-> [v \in Variants |-> "dead"],
          getter  |-> [v \in Variants |-> "dead"],
          member  |-> [v \in Variants |-> "none"],
          impl    |-> [v \in Variants |-> NullPtr],
          owners  |-> [h \in Holders |-> {}],
          type    |-> [h \in Holders |-> Dangling],
          object  |-> [h \in Holders |-> Dangling],
          val     |-> [o \in Objects |-> IF o \in Externals THEN SomeValue ELSE Dangling],
          fault   |-> "none"]
  /\ last = [op |-> "none"]

\* VariantValue()
CtorEmpty(v) ==
  /\ Running /\ ~Alive(v)
  /\ Call("ctor", v, v, "returned", Tagged(m, v, "NULL"))

\* VariantValue(std::int32_t), ..., VariantValue(std::string)
CtorEmbedded(v) ==
  /\ Running /\ ~Alive(v)
  /\ \E tag \in Embedded, x \in Values :
       \/ Call("ctor", v, v, "returned", PlaceEmbedded(m, v, tag, x))
       \/ /\ tag = "STRING" /\ "string" \in MayThrow
          /\ Call("ctor", v, v, "threw", m)

\* VariantValue(const T&)
CtorValue(v) ==
  /\ Running /\ ~Alive(v)
  /\ \E h \in FreeHolders(m), t \in Copyable, x \in Values :
       \/ Call("ctor", v, v, "returned", PlaceImpl(NewHolder(m, h, t, x), v, h))
       \/ "object" \in MayThrow /\ Call("ctor", v, v, "threw", m)

\* VariantValue(const VariantValue&)
CtorCopy(v, u) ==
  /\ Running /\ ~Alive(v) /\ Alive(u)
  /\ \E h \in FreeHolders(m), throws \in BOOLEAN :
       LET after == CopyFrom(m, v, u, h, throws)
           end   == Ends(throws \/ Uncloned(m, u, after, v))
       IN  /\ throws => CopyMayThrow(m, u)
           /\ Call("copy", v, u, end, OrDead(after, v, end))

\* VariantValue(VariantValue&&)
CtorMove(v, u) ==
  /\ Running /\ ~Alive(v) /\ Alive(u)
  /\ \E throws \in BOOLEAN :
       /\ throws => MoveMayThrow(m, u)
       /\ Call("move", v, u, Ends(throws),
               OrDead(MoveFrom(m, v, u, throws), v, Ends(throws)))

\* ~VariantValue()
Dtor(v) ==
  /\ Running /\ Alive(v)
  /\ Call("dtor", v, v, "returned", Tagged(deleter(m, v), v, "dead"))

\* operator=(const VariantValue&)
AssignCopy(v, u) ==
  /\ Running /\ Alive(v) /\ Alive(u)
  /\ LET gone == deleter(m, v)
     IN  \E h \in FreeHolders(gone), throws \in BOOLEAN :
           LET after == CopyFrom(gone, v, u, h, throws)
           IN  /\ throws => CopyMayThrow(gone, u)
               /\ Call("copy", v, u,
                       Ends(throws \/ Uncloned(gone, u, after, v)), after)

\* Fault: the old value is not destroyed
AssignMoveOver(v, u) ==
  /\ Running /\ Alive(v) /\ Alive(u)
  /\ Call("move", v, u, "returned", MoveFrom(m, v, u, FALSE))

\* operator=(VariantValue&&)
AssignMove(v, u) ==
  /\ Running /\ Alive(v) /\ Alive(u)
  /\ LET gone == deleter(m, v)
     IN  \E throws \in BOOLEAN :
           /\ throws => MoveMayThrow(gone, u)
           /\ Call("move", v, u, Ends(throws), MoveFrom(gone, v, u, throws))

\* operator=(std::int32_t), ..., operator=(std::string), and construct of them
AssignEmbedded(v) ==
  /\ Running /\ Alive(v)
  /\ LET gone == deleter(m, v)
     IN  \E tag \in Embedded, x \in Values :
           \/ Call("set", v, v, "returned", PlaceEmbedded(gone, v, tag, x))
           \/ /\ tag = "STRING" /\ "string" \in MayThrow
              /\ Call("set", v, v, "threw", Tagged(gone, v, tag))

\* Fault: m_getter is not reset before the constructor can throw
ConstructHalfReset(v) ==
  /\ Running /\ Alive(v)
  /\ Call("construct", v, v, "threw", [deleter(m, v) EXCEPT !.deleter[v] = "NULL"])

\* operator=(T), whose argument is a copy, and construct<T>(args...) of values
\* that have nothing to do with v
Construct(v) ==
  /\ Running /\ Alive(v)
  /\ LET gone == Tagged(deleter(m, v), v, "NULL")
     IN  \E h \in FreeHolders(gone), t \in Types, x \in Values :
           \/ Call("construct", v, v, "returned",
                   PlaceImpl(NewHolder(gone, h, t, x), v, h))
           \/ "object" \in MayThrow /\ Call("construct", v, v, "threw", gone)

\* construct<T>(x), x a reference to the object that variant u holds
ConstructFrom(v, u) ==
  /\ Running /\ Alive(v) /\ Alive(u) /\ ObjectOk(m, u)
  /\ ~isEmbedded(m, u) /\ TypeOf(m, u) \in Copyable
  /\ LET gone == Tagged(deleter(m, v), v, "NULL")
         o    == Held(m, u)
         over == o \in Holders /\ gone.object[o] # o   \* the old value was x
     IN  \E h \in FreeHolders(gone) :
           \/ Call("constructFrom", v, u, "returned",
                   IF over THEN Undefined(gone)
                   ELSE PlaceImpl(NewHolder(gone, h, TypeOf(m, u), gone.val[o]), v, h))
           \/ /\ "object" \in MayThrow /\ ~over
              /\ Call("constructFrom", v, u, "threw", gone)

\* construct<T&>(x), x the object variant u holds (attributes and casts do)
ConstructRef(v, u) ==
  /\ Running /\ Alive(v) /\ Alive(u) /\ ObjectOk(m, u) /\ ~isEmbedded(m, u)
  /\ LET gone == Tagged(deleter(m, v), v, "NULL")
         o    == Held(m, u)
         left == IF o \in Holders /\ gone.object[o] # o THEN Dangling ELSE o
     IN  \E h \in FreeHolders(gone) :
           Call("constructRef", v, u, "returned",
                PlaceImpl(NewRefHolder(gone, h, TypeOf(m, u), left), v, h))

\* construct<T&>(x), x an object of the program
ConstructExternalRef(v) ==
  /\ Running /\ Alive(v)
  /\ LET gone == Tagged(deleter(m, v), v, "NULL")
     IN  \E h \in FreeHolders(gone), t \in Types, o \in Externals :
           Call("constructRef", v, v, "returned",
                PlaceImpl(NewRefHolder(gone, h, t, o), v, h))

\* v(u.createReference()): a string is copied into a local variant, which is
\* destroyed when the copy throws, and from there into v
createReference(v, u) ==
  /\ Running /\ ~Alive(v) /\ Alive(u)
  /\ \/ ~isValid(m, u) /\ Call("reference", v, u, "threw", m)
     \/ /\ isValid(m, u) /\ isEmbedded(m, u)
        /\ \/ Call("reference", v, u, "returned", MoveFrom(m, v, u, FALSE))
           \/ MoveMayThrow(m, u) /\ Call("reference", v, u, "threw", Undefined(m))
           \/ MoveMayThrow(m, u) /\ m.member[u] = "STRING"
              /\ Call("reference", v, u, "threw", m)
     \/ /\ ~isEmbedded(m, u)
        /\ Call("reference", v, u, "returned",
                IF m.member[u] # "DEFAULT" THEN Undefined(m)
                ELSE PlaceImpl(m, v, m.impl[u]))

\* The object assigned to is of a type whose assignment, or the copy before it,
\* may throw: copy_helper catches that and answers false
AssignMayThrow(v) ==
  IF TypeOf(m, v) \in Embedded THEN TypeOf(m, v) = "STRING" /\ "string" \in MayThrow
  ELSE "object" \in MayThrow

\* v.assign(u): through impl(), without check_valid(); noexcept
assign(v, u) ==
  /\ Running /\ Alive(v) /\ Alive(u)
  /\ \/ ~HolderOk(m, v) /\ Call("assign", v, u, "crashed", Undefined(m))
     \/ /\ HolderOk(m, v) /\ (~ReallyAssignable(m, v) \/ ~isValid(m, u))
        /\ Call("assign", v, u, "false", m)
     \/ /\ HolderOk(m, v) /\ ReallyAssignable(m, v) /\ isValid(m, u)
        /\ \/ /\ ~ObjectOk(m, u) \/ ~ObjectOk(m, v)
              /\ Call("assign", v, u, "crashed", Undefined(m))
           \/ /\ ObjectOk(m, u) /\ ObjectOk(m, v)
              /\ TypeOf(m, v) \notin Embedded \union {TypeOf(m, u)}
              /\ Call("assign", v, u, "false", m)
           \/ /\ ObjectOk(m, u) /\ ObjectOk(m, v)
              /\ TypeOf(m, v) \in Embedded \union {TypeOf(m, u)}
              /\ \E x \in Values :
                   \* a conversion to another type may yield any
                   \/ /\ TypeOf(m, v) = TypeOf(m, u) => x = m.val[Held(m, u)]
                      /\ Call("assign", v, u, "true", [m EXCEPT !.val[Held(m, v)] = x])
                   \* a string is as it was, an object may be half assigned
                   \/ /\ AssignMayThrow(v)
                      /\ TypeOf(m, v) = "STRING" => x = m.val[Held(m, v)]
                      /\ Call("assign", v, u, "false", [m EXCEPT !.val[Held(m, v)] = x])

\* value<T>(), convertTo<T>(), typeId(), ==, ...: check_valid(), then impl()
Read(u) ==
  /\ Running /\ Alive(u)
  /\ \/ ~isValid(m, u) /\ Call("read", u, u, "threw", m)
     \/ isValid(m, u) /\ ObjectOk(m, u) /\ Call("read", u, u, "returned", m)
     \/ isValid(m, u) /\ ~ObjectOk(m, u) /\ Call("read", u, u, "crashed", Undefined(m))

\* After undefined behaviour nothing is claimed
Crashed == ~Running /\ UNCHANGED vars

Next ==
  \/ \E v \in Variants :
       \/ CtorEmpty(v) \/ CtorEmbedded(v) \/ CtorValue(v) \/ Dtor(v)
       \/ AssignEmbedded(v) \/ Construct(v) \/ ConstructExternalRef(v) \/ Read(v)
  \/ \E v, u \in Variants :
       \/ CtorCopy(v, u) \/ CtorMove(v, u) \/ AssignCopy(v, u) \/ AssignMove(v, u)
       \/ ConstructFrom(v, u) \/ ConstructRef(v, u)
       \/ createReference(v, u) \/ assign(v, u)
  \/ Crashed

Spec == Init /\ [][Next]_vars

-----------------------------------------------------------------------------
\* A string whose copy threw: the tag says it is there, and it is not
Mistagged(s, v) == s.deleter[v] = "STRING" /\ s.member[v] = "none"

(***************************************************************************)
(* The tags tell the truth: m_deleter destroys the union member that is    *)
(* really there, on every path and after every throw of a held object's    *)
(* constructor, and m_getter is reset and set with it and returns that     *)
(* member's address, except that a float is found under the name of        *)
(* m_double.                                                               *)
(***************************************************************************)
MembersMatchTags ==
  Running => \A v \in Variants :
    \/ /\ m.deleter[v] \in {"dead", "NULL"} /\ m.getter[v] = m.deleter[v]
       /\ m.member[v] = "none"
    \/ /\ m.member[v] = m.deleter[v]
       /\ Named(m.getter[v]) = IF m.member[v] = "FLOAT" THEN "DOUBLE" ELSE m.member[v]
    \/ Mistagged(m, v)

(***************************************************************************)
(* The memory is well formed: what it holds has its types, and the tags tell *)
(* the truth about it.                                                     *)
(***************************************************************************)
MemoryOK == TypeOK /\ MembersMatchTags

(***************************************************************************)
(* No holder leaks and none is freed under a variant: the shared_ptrs that *)
(* count for a holder are those that live in a variant and point to it.    *)
(***************************************************************************)
OwnersExact ==
  Running => \A h \in Holders :
    m.owners[h] = {v \in Variants : m.member[v] = "DEFAULT" /\ m.impl[v] = h}

-----------------------------------------------------------------------------
Shown(s, v) ==
  IF ~ObjectOk(s, v) THEN <<>> ELSE <<TypeOf(s, v), s.val[Held(s, v)]>>

(***************************************************************************)
(* No action at a distance: a call changes what another variant shows only *)
(* by assigning to the object both show, by ending the object the other    *)
(* one refers to, or by moving from it.                                    *)
(***************************************************************************)
NoActionAtADistance ==
  [][Running' => \A w \in Variants \ {last'.target} :
       \/ Shown(m', w) = Shown(m, w)
       \/ last'.op = "move" /\ w = last'.source
       \/ last'.op = "assign" /\ Held(m, w) = Held(m, last'.target)
       \/ Held(m, w) # m.impl[w] /\ Held(m', w) = Dangling]_vars

\* What u shows outlives the old value of v
Survives(v, u) == Held(m, u) \in Holders => \E w \in m.owners[Held(m, u)] : w # v

(***************************************************************************)
(* A copy is equal to its source and independent of it, unless it is a copy *)
(* of a reference (or the source refers to what the target held: the       *)
(* target's old value goes first); a move hands over the very same object. *)
(***************************************************************************)
CopiesAreIndependent ==
  [][Running' /\ last'.end = "returned" =>
       LET v == last'.target  u == last'.source
       IN  /\ last'.op = "copy" /\ v # u /\ ObjectOk(m, u) /\ Survives(v, u) =>
                /\ Shown(m', v) = Shown(m, u) /\ Shown(m', u) = Shown(m, u)
                /\ Held(m', v) = Held(m', u) => m.object[m.impl[u]] # m.impl[u]
           /\ last'.op = "move" /\ v # u /\ ~isEmbedded(m, u) =>
                m'.impl[v] = m.impl[u] /\ m'.impl[u] = NullPtr]_vars

(***************************************************************************)
(* A call that throws leaves its target empty (or no variant at all, or a  *)
(* mistagged string) and everything the other variants show as it was,     *)
(* except what referred to the target's old value; assign, which never     *)
(* throws, changes nothing when it answers false, or the value of the one  *)
(* object assigned to, whose own assignment operator threw.                *)
(***************************************************************************)
FailureIsContained ==
  [][Running' /\ last'.end \in {"threw", "false"} =>
       /\ last'.end = "threw" /\ last'.op # "read" =>
            m'.deleter[last'.target] \in {"dead", "NULL"} \/ Mistagged(m', last'.target)
       /\ last'.end = "false" =>
            LET o == Held(m, last'.target)
            IN  \/ m' = m
                \/ o \in Objects \ Variants /\ m' = [m EXCEPT !.val[o] = m'.val[o]]
       /\ last'.end = "threw" =>
            \A w \in Variants \ {last'.target} :
              Shown(m', w) \in {Shown(m, w), <<>>}]_vars

(***************************************************************************)
(* Undefined behaviour needs a misuse of the interface, and these are all: *)
(* a non-empty variant assigned to itself, a variant used after it was     *)
(* moved from, a reference used after its object ended, a value            *)
(* constructed from the value it replaces, assign on an empty variant;     *)
(* or a string whose copy threw.                                           *)
(***************************************************************************)
MovedFrom(v) == m.deleter[v] = "DEFAULT" /\ m.impl[v] = NullPtr

RefersToEnded(v) ==
  m.deleter[v] = "DEFAULT" /\ ~MovedFrom(v) /\ Held(m, v) = Dangling

Misuse(op, v, u) ==
  \/ op \in {"copy", "move"} /\ v = u /\ isValid(m, v)
  \/ op \in {"copy", "assign", "read"} /\ MovedFrom(u)
  \/ op = "assign" /\ (~isValid(m, v) \/ MovedFrom(v))
  \/ op \in {"assign", "read"} /\ (RefersToEnded(v) \/ RefersToEnded(u))
  \/ op = "constructFrom" /\ ~Survives(v, u)

StringThrew(call) ==
  \/ Mistagged(m, call.target) \/ Mistagged(m, call.source)
  \/ call.op = "reference" /\ call.end = "threw"

UndefinedOnlyByMisuse ==
  [][\/ Running' \/ ~Running
     \/ Misuse(last'.op, last'.target, last'.source)
     \/ StringThrew(last')]_vars
=============================================================================
