------------------------- MODULE VariantValueProofs -------------------------
(***************************************************************************)
(* VariantValues for any number of variants, holders, objects and types:   *)
(* every constructor, assignment and accessor is a few destructor calls    *)
(* and placement news, and what each of those does to the memory is a      *)
(* lemma.                                                                  *)
(***************************************************************************)
EXTENDS VariantValue, TLAPS

-----------------------------------------------------------------------------
(* The inductive invariant, a predicate on the memory                       *)

\* m_getter is always the one that goes with m_deleter
Paired == {s \in Memory : s.getter = s.deleter}

TagTrue(s, v) ==
  \/ s.member[v] = IF s.deleter[v] \in {"dead", "NULL"} THEN "none" ELSE s.deleter[v]
  \/ Mistagged(s, v)

Exact(s) ==
  \A h \in Holders : s.owners[h] = {v \in Variants : s.member[v] = "DEFAULT" /\ s.impl[v] = h}

\* A holder that lives holds a typed object; what it refers to is an object of
\* the program or what a holder that lives holds, and a free one holds nothing
HoldersTrue(s) ==
  \A h \in Holders :
    /\ s.owners[h] # {} => s.type[h] \in Types
    /\ s.owners[h] = {} => s.object[h] = Dangling
    /\ s.object[h] \notin Variants
    /\ s.object[h] \in Holders => s.object[s.object[h]] = s.object[h]

Good(s) ==
  /\ s \in Paired
  /\ s.fault = "none" => Exact(s) /\ HoldersTrue(s) /\ \A v \in Variants : TagTrue(s, v)

\* Between the destructor of the old value of v and the next placement new
Ready(s, v) ==
  /\ s \in Paired
  /\ s.fault = "none" => /\ Exact(s) /\ HoldersTrue(s) /\ s.member[v] = "none"
                         /\ \A w \in Variants \ {v} : TagTrue(s, w)

\* What variant w is made of is the same in r as in s, unless what it refers
\* to has ended
Untouched(s, r, w) ==
  /\ r.deleter[w] = s.deleter[w] /\ r.member[w] = s.member[w]
  /\ r.impl[w] = s.impl[w] /\ r.val[w] = s.val[w]
  /\ LET g == s.impl[w]
     IN  s.member[w] = "DEFAULT" /\ g # NullPtr =>
           /\ r.type[g] = s.type[g]
           /\ \/ /\ r.object[g] = s.object[g]
                 /\ s.object[g] # Dangling => r.val[s.object[g]] = s.val[s.object[g]]
              \/ r.object[g] = Dangling /\ s.object[g] # g

-----------------------------------------------------------------------------
(* The parts                                                                *)

LEMMA EmbeddedNames ==
  /\ "STRING" \in Embedded
  /\ \A tag \in Embedded : tag \notin {"dead", "NULL", "DEFAULT", "none"}
BY MemoryAssumption DEF Embedded, NumericMembers

\* Where the tags go together, impl() finds what the deleter would destroy
LEMMA GetterFinds ==
  ASSUME NEW s \in Paired, NEW v
  PROVE  HolderOk(s, v) <=> MemberOk(s, v)
BY DEF Paired, HolderOk, MemberOk

LEMMA FaultStays ==
  ASSUME NEW s \in Paired
  PROVE  Undefined(s) \in Paired /\ Undefined(s).fault = "undefined"
BY DEF Undefined, Paired, Memory

LEMMA TaggedGood ==
  ASSUME NEW s, NEW v \in Variants, Ready(s, v), NEW tag \in {"dead", "NULL", "STRING"}
  PROVE  /\ Good(Tagged(s, v, tag)) /\ Tagged(s, v, tag).fault = s.fault
         /\ Tagged(s, v, tag).deleter[v] = tag /\ Tagged(s, v, tag).member = s.member
         /\ \A w \in Variants \ {v} : Untouched(s, Tagged(s, v, tag), w)
<1> DEFINE r == Tagged(s, v, tag)
<1>1. /\ r \in Paired /\ r.deleter[v] = tag /\ \A w \in Variants \ {v} : r.deleter[w] = s.deleter[w]
      /\ r.member = s.member /\ r.impl = s.impl /\ r.owners = s.owners /\ r.type = s.type
      /\ r.object = s.object /\ r.val = s.val /\ r.fault = s.fault
  BY DEF Ready, Tagged, Paired, Memory, Embedded
<1>2. \A w \in Variants \ {v} : Untouched(s, r, w)
  BY <1>1 DEF Untouched
<1> HIDE DEF r
<1>3. Good(r)
  BY <1>1 DEF Ready, Good, Exact, HoldersTrue, TagTrue, Mistagged
<1> QED
  BY <1>1, <1>2, <1>3 DEF r

LEMMA PlaceEmbeddedGood ==
  ASSUME NEW s, NEW v \in Variants, Ready(s, v), NEW tag \in Embedded,
         NEW x \in Values \union {Dangling}
  PROVE  LET r == PlaceEmbedded(s, v, tag, x)
         IN  /\ Good(r) /\ r.fault = s.fault /\ r.deleter[v] = tag /\ r.member[v] = tag
             /\ r.val[v] = x
             /\ \A w \in Variants \ {v} : s.fault = "none" => Untouched(s, r, w)
<1> DEFINE r == PlaceEmbedded(s, v, tag, x)
<1>0. v \in Objects
  BY DEF Objects
<1>1. /\ r \in Paired /\ r.deleter[v] = tag /\ \A w \in Variants \ {v} : r.deleter[w] = s.deleter[w]
      /\ r.member[v] = tag /\ \A w \in Variants \ {v} : r.member[w] = s.member[w]
      /\ r.val[v] = x /\ \A o \in Objects \ {v} : r.val[o] = s.val[o]
      /\ r.impl = s.impl /\ r.owners = s.owners /\ r.type = s.type
      /\ r.object = s.object /\ r.fault = s.fault
  BY <1>0, EmbeddedNames DEF Ready, PlaceEmbedded, Tagged, Paired, Memory
<1> HIDE DEF r
<1>2. ASSUME NEW w \in Variants \ {v}, s.fault = "none" PROVE Untouched(s, r, w)
  <2>1. s.impl[w] \in Holders \union {NullPtr} /\ w \in Objects
    BY DEF Ready, Paired, Memory, Objects
  <2>2. s.impl[w] \in Holders => s.object[s.impl[w]] \in (Objects \union {Dangling}) \ Variants
    BY <1>2 DEF Ready, Paired, Memory, HoldersTrue
  <2> QED
    BY <1>1, <2>1, <2>2 DEF Untouched
<1>3. Good(r)
  BY <1>1, EmbeddedNames DEF Ready, Good, Exact, HoldersTrue, TagTrue, Mistagged
<1> QED
  BY <1>1, <1>2, <1>3 DEF r

LEMMA PlaceImplEffect ==
  ASSUME NEW s \in Paired, NEW v \in Variants, NEW h \in Holders \union {NullPtr}
  PROVE  LET r == PlaceImpl(s, v, h)
         IN  /\ r \in Paired /\ r.deleter[v] = "DEFAULT"
             /\ \A w \in Variants \ {v} : r.deleter[w] = s.deleter[w]
             /\ r.member[v] = "DEFAULT" /\ \A w \in Variants \ {v} : r.member[w] = s.member[w]
             /\ r.impl[v] = h /\ \A w \in Variants \ {v} : r.impl[w] = s.impl[w]
             /\ h # NullPtr => r.owners[h] = s.owners[h] \union {v}
             /\ \A g \in Holders \ {h} : r.owners[g] = s.owners[g]
             /\ r.type = s.type /\ r.object = s.object /\ r.val = s.val /\ r.fault = s.fault
<1> DEFINE r == PlaceImpl(s, v, h)
           p == [Tagged(s, v, "DEFAULT") EXCEPT !.member[v] = "DEFAULT", !.impl[v] = h]
<1>1. /\ p \in Paired /\ p.deleter = [s.deleter EXCEPT ![v] = "DEFAULT"]
      /\ p.member = [s.member EXCEPT ![v] = "DEFAULT"]
      /\ p.impl = [s.impl EXCEPT ![v] = h] /\ p.owners = s.owners
      /\ p.type = s.type /\ p.object = s.object /\ p.val = s.val /\ p.fault = s.fault
  BY EmbeddedNames DEF Tagged, Paired, Memory
<1> HIDE DEF p
<1>2. /\ s.deleter \in [Variants -> Embedded \union {"dead", "NULL", "DEFAULT"}]
      /\ s.member \in [Variants -> Embedded \union {"none", "DEFAULT"}]
      /\ s.impl \in [Variants -> Holders \union {NullPtr}]
      /\ s.owners \in [Holders -> SUBSET Variants]
  BY DEF Paired, Memory
<1>3. CASE h = NullPtr
  <2>1. r = p
    BY <1>3 DEF PlaceImpl, p
  <2> QED
    BY <1>1, <1>2, <1>3, <2>1, MemoryAssumption
<1>4. CASE h # NullPtr
  <2>1. r = [p EXCEPT !.owners[h] = @ \union {v}]
    BY <1>4 DEF PlaceImpl, p
  <2> HIDE DEF r
  <2>0. p \in Paired /\ [p.owners EXCEPT ![h] = p.owners[h] \union {v}] \in [Holders -> SUBSET Variants]
    BY <1>1, <1>2, <1>4
  <2>2. /\ r \in Paired /\ r.deleter = p.deleter /\ r.member = p.member /\ r.impl = p.impl
        /\ r.owners = [p.owners EXCEPT ![h] = p.owners[h] \union {v}]
        /\ r.type = p.type /\ r.object = p.object /\ r.val = p.val /\ r.fault = p.fault
    BY <2>0, <2>1 DEF Paired, Memory
  <2>3. r.owners[h] = s.owners[h] \union {v} /\ \A g \in Holders \ {h} : r.owners[g] = s.owners[g]
    BY <1>1, <1>2, <1>4, <2>2
  <2> QED
    BY <1>1, <1>2, <2>2, <2>3 DEF r
<1> QED
  BY <1>3, <1>4

LEMMA NewHolderEffect ==
  ASSUME NEW s \in Paired, NEW h \in Holders, NEW t \in Types \union {Dangling},
         NEW x \in Values \union {Dangling}
  PROVE  LET r == NewHolder(s, h, t, x)
         IN  /\ r \in Paired /\ r.deleter = s.deleter /\ r.member = s.member
             /\ r.impl = s.impl /\ r.owners = s.owners /\ r.fault = s.fault
             /\ r.type[h] = t /\ \A g \in Holders \ {h} : r.type[g] = s.type[g]
             /\ r.object[h] = h /\ \A g \in Holders \ {h} : r.object[g] = s.object[g]
             /\ r.val[h] = x /\ \A o \in Objects \ {h} : r.val[o] = s.val[o]
<1>1. h \in Objects
  BY DEF Objects
<1> QED
  BY <1>1 DEF NewHolder, Paired, Memory

LEMMA NewRefHolderEffect ==
  ASSUME NEW s \in Paired, NEW h \in Holders, NEW t \in Types \union {Dangling},
         NEW o \in Objects \union {Dangling}
  PROVE  LET r == NewRefHolder(s, h, t, o)
         IN  /\ r \in Paired /\ r.deleter = s.deleter /\ r.member = s.member
             /\ r.impl = s.impl /\ r.owners = s.owners /\ r.val = s.val /\ r.fault = s.fault
             /\ r.type[h] = t /\ \A g \in Holders \ {h} : r.type[g] = s.type[g]
             /\ r.object[h] = o /\ \A g \in Holders \ {h} : r.object[g] = s.object[g]
BY DEF NewRefHolder, Paired, Memory

\* The shared_ptrs that point to a holder once v holds h
LEMMA ExactStep ==
  ASSUME NEW s, NEW r, NEW v \in Variants, NEW h \in Holders \union {NullPtr},
         Exact(s), s.member[v] = "none", r.member[v] = "DEFAULT", r.impl[v] = h,
         \A w \in Variants \ {v} : r.member[w] = s.member[w] /\ r.impl[w] = s.impl[w],
         h # NullPtr => r.owners[h] = s.owners[h] \union {v},
         \A g \in Holders \ {h} : r.owners[g] = s.owners[g]
  PROVE  Exact(r)
<1> SUFFICES ASSUME NEW g \in Holders, NEW w
             PROVE  w \in r.owners[g] <=> w \in Variants /\ r.member[w] = "DEFAULT" /\ r.impl[w] = g
  BY DEF Exact
<1>1. w \in s.owners[g] <=> w \in Variants /\ s.member[w] = "DEFAULT" /\ s.impl[w] = g
  BY DEF Exact
<1>2. g # NullPtr
  BY MemoryAssumption
<1>3. w \in r.owners[g] <=> w \in s.owners[g] \/ (g = h /\ w = v)
  BY <1>2
<1> QED
  BY <1>1, <1>3

LEMMA PlaceImplGood ==
  ASSUME NEW s, NEW v \in Variants, Ready(s, v), NEW h \in Holders \union {NullPtr},
         s.fault = "none" /\ h # NullPtr => s.owners[h] # {}
  PROVE  LET r == PlaceImpl(s, v, h)
         IN  /\ Good(r) /\ r.fault = s.fault /\ r.deleter[v] = "DEFAULT"
             /\ r.member[v] = "DEFAULT" /\ r.impl[v] = h
             /\ r.type = s.type /\ r.object = s.object /\ r.val = s.val
             /\ \A w \in Variants \ {v} : Untouched(s, r, w)
<1> DEFINE r == PlaceImpl(s, v, h)
<1>1. /\ r \in Paired /\ r.deleter[v] = "DEFAULT"
      /\ \A w \in Variants \ {v} : r.deleter[w] = s.deleter[w]
      /\ r.member[v] = "DEFAULT" /\ \A w \in Variants \ {v} : r.member[w] = s.member[w]
      /\ r.impl[v] = h /\ \A w \in Variants \ {v} : r.impl[w] = s.impl[w]
      /\ h # NullPtr => r.owners[h] = s.owners[h] \union {v}
      /\ \A g \in Holders \ {h} : r.owners[g] = s.owners[g]
      /\ r.type = s.type /\ r.object = s.object /\ r.val = s.val /\ r.fault = s.fault
  BY PlaceImplEffect DEF Ready
<1>2. \A w \in Variants \ {v} : Untouched(s, r, w)
  BY <1>1 DEF Untouched
<1> HIDE DEF r
<1>3. ASSUME s.fault = "none" PROVE Exact(r)
  BY <1>1, <1>3, ExactStep DEF Ready
<1>4. ASSUME s.fault = "none" PROVE HoldersTrue(r)
  <2>1. \A g \in Holders : r.owners[g] # {} <=> s.owners[g] # {}
    BY <1>1, <1>4, MemoryAssumption
  <2> QED
    BY <1>1, <1>4, <2>1 DEF Ready, HoldersTrue
<1>5. ASSUME s.fault = "none", NEW w \in Variants PROVE TagTrue(r, w)
  <2>1. CASE w = v
    BY <1>1, <2>1 DEF TagTrue
  <2>2. CASE w # v
    <3>1. TagTrue(s, w) /\ r.deleter[w] = s.deleter[w] /\ r.member[w] = s.member[w]
      BY <1>1, <1>5, <2>2 DEF Ready
    <3> QED
      BY <3>1 DEF TagTrue, Mistagged
  <2> QED
    BY <2>1, <2>2
<1>6. Good(r)
  BY <1>1, <1>3, <1>4, <1>5 DEF Good
<1> QED
  BY <1>1, <1>2, <1>6 DEF r

(***************************************************************************)
(* A new holder put into v: what the other variants show is not touched,   *)
(* for a free address is one that nothing refers to.                       *)
(***************************************************************************)
LEMMA NewGood ==
  ASSUME NEW s, NEW r \in Paired, NEW v \in Variants, Ready(s, v), NEW h \in FreeHolders(s),
         NEW t \in Types \union {Dangling}, NEW o \in Objects \union {Dangling},
         s.fault = "none" => t \in Types /\ o \notin Variants,
         s.fault = "none" /\ o \in Holders => o = h \/ s.object[o] = o,
         r.deleter[v] = "DEFAULT", \A w \in Variants \ {v} : r.deleter[w] = s.deleter[w],
         r.member[v] = "DEFAULT", \A w \in Variants \ {v} : r.member[w] = s.member[w],
         r.impl[v] = h, \A w \in Variants \ {v} : r.impl[w] = s.impl[w],
         r.owners[h] = {v}, \A g \in Holders \ {h} : r.owners[g] = s.owners[g],
         r.type[h] = t, \A g \in Holders \ {h} : r.type[g] = s.type[g],
         r.object[h] = o, \A g \in Holders \ {h} : r.object[g] = s.object[g],
         \A q \in Objects \ {h} : r.val[q] = s.val[q], r.fault = s.fault
  PROVE  /\ Good(r)
         /\ \A w \in Variants \ {v} : s.fault = "none" => Untouched(s, r, w)
<1>0. h \in Holders /\ s.owners[h] = {} /\ h \in Objects /\ h # NullPtr
  BY MemoryAssumption DEF FreeHolders, Objects
<1>2. ASSUME NEW w \in Variants \ {v}, s.fault = "none" PROVE Untouched(s, r, w)
  <2> DEFINE g == s.impl[w]
  <2>1. g \in Holders \union {NullPtr} /\ w \in Objects /\ w # h
    BY <1>0, MemoryAssumption DEF Ready, Paired, Memory, Objects
  <2>2. ASSUME s.member[w] = "DEFAULT", g # NullPtr
        PROVE  g \in Holders \ {h} /\ s.object[g] \in (Objects \union {Dangling}) \ {h}
    <3>1. w \in s.owners[g] /\ g \in Holders
      BY <1>2, <2>1, <2>2 DEF Ready, Exact
    <3>2. s.object[g] \in Objects \union {Dangling}
      BY <3>1 DEF Ready, Paired, Memory
    <3>3. s.object[h] = Dangling /\ (s.object[g] \in Holders => s.object[s.object[g]] = s.object[g])
      BY <1>0, <1>2, <3>1 DEF Ready, HoldersTrue
    <3>4. h # Dangling
      BY <1>0, MemoryAssumption
    <3> QED
      BY <1>0, <3>1, <3>2, <3>3, <3>4
  <2> HIDE DEF g
  <2>3. /\ r.deleter[w] = s.deleter[w] /\ r.member[w] = s.member[w]
        /\ r.impl[w] = s.impl[w] /\ r.val[w] = s.val[w]
    BY <2>1
  <2>4. ASSUME s.member[w] = "DEFAULT", g # NullPtr
        PROVE  /\ r.type[g] = s.type[g] /\ r.object[g] = s.object[g]
               /\ s.object[g] # Dangling => r.val[s.object[g]] = s.val[s.object[g]]
    BY <2>2, <2>4
  <2> QED
    BY <2>3, <2>4 DEF Untouched, g
<1>3. ASSUME s.fault = "none" PROVE Exact(r)
  BY <1>0, <1>3, ExactStep DEF Ready
<1>4. ASSUME s.fault = "none" PROVE HoldersTrue(r)
  <2>1. o \notin Variants
    BY <1>4
  <2>2. \A g \in Holders : r.owners[g] # {} <=> g = h \/ s.owners[g] # {}
    OBVIOUS
  <2>3. \A g \in Holders \ {h} :
          /\ s.owners[g] # {} => s.type[g] \in Types
          /\ s.owners[g] = {} => s.object[g] = Dangling
          /\ s.object[g] \notin Variants
          /\ s.object[g] \in Holders => s.object[s.object[g]] = s.object[g]
    BY <1>4 DEF Ready, HoldersTrue
  <2> SUFFICES ASSUME NEW g \in Holders
               PROVE  /\ r.owners[g] # {} => r.type[g] \in Types
                      /\ r.owners[g] = {} => r.object[g] = Dangling
                      /\ r.object[g] \notin Variants
                      /\ r.object[g] \in Holders => r.object[r.object[g]] = r.object[g]
    BY DEF HoldersTrue
  <2>4. CASE g = h
    <3>1. o \in Holders => r.object[o] = o
      BY <1>4
    <3>2. t \in Types /\ r.owners[h] # {}
      BY <1>4
    <3> QED
      BY <1>0, <2>1, <2>4, <3>1, <3>2
  <2>5. CASE g # h
    <3>1. s.object[h] = Dangling /\ h # Dangling /\ s.object[g] # h
      BY <1>0, <1>4, <2>3, <2>5, MemoryAssumption DEF Ready, HoldersTrue
    <3> QED
      BY <2>2, <2>3, <2>5, <3>1
  <2> QED
    BY <2>4, <2>5
<1>5. ASSUME s.fault = "none", NEW w \in Variants PROVE TagTrue(r, w)
  <2>1. CASE w = v
    BY <2>1 DEF TagTrue
  <2>2. CASE w # v
    <3>1. TagTrue(s, w) /\ r.deleter[w] = s.deleter[w] /\ r.member[w] = s.member[w]
      BY <1>5, <2>2 DEF Ready
    <3> QED
      BY <3>1 DEF TagTrue, Mistagged
  <2> QED
    BY <2>1, <2>2
<1>6. Good(r)
  BY <1>3, <1>4, <1>5 DEF Good
<1> QED
  BY <1>2, <1>6

LEMMA PlaceNewGood ==
  ASSUME NEW s, NEW v \in Variants, Ready(s, v), NEW h \in FreeHolders(s),
         NEW t \in Types \union {Dangling}, NEW x \in Values \union {Dangling},
         s.fault = "none" => t \in Types
  PROVE  LET r == PlaceImpl(NewHolder(s, h, t, x), v, h)
         IN  /\ Good(r) /\ r.fault = s.fault /\ r.deleter[v] = "DEFAULT"
             /\ r.member[v] = "DEFAULT" /\ r.impl[v] = h
             /\ r.type[h] = t /\ r.object[h] = h /\ r.val[h] = x
             /\ \A g \in Holders \ {h} : r.object[g] = s.object[g]
             /\ \A w \in Variants \ {v} : s.fault = "none" => Untouched(s, r, w)
<1> DEFINE r == PlaceImpl(NewHolder(s, h, t, x), v, h)
           n == NewHolder(s, h, t, x)
<1>0. h \in Holders /\ s.owners[h] = {} /\ h # NullPtr /\ h \in Objects /\ h \notin Variants
  BY MemoryAssumption DEF FreeHolders, Objects
<1>1. /\ n \in Paired /\ n.deleter = s.deleter /\ n.member = s.member
      /\ n.impl = s.impl /\ n.owners = s.owners /\ n.fault = s.fault
      /\ n.type[h] = t /\ \A g \in Holders \ {h} : n.type[g] = s.type[g]
      /\ n.object[h] = h /\ \A g \in Holders \ {h} : n.object[g] = s.object[g]
      /\ n.val[h] = x /\ \A o \in Objects \ {h} : n.val[o] = s.val[o]
  BY <1>0, NewHolderEffect DEF Ready
<1>2. r = PlaceImpl(n, v, h)
  OBVIOUS
<1> HIDE DEF n, r
<1>3. /\ r \in Paired /\ r.deleter[v] = "DEFAULT"
      /\ \A w \in Variants \ {v} : r.deleter[w] = s.deleter[w]
      /\ r.member[v] = "DEFAULT" /\ \A w \in Variants \ {v} : r.member[w] = s.member[w]
      /\ r.impl[v] = h /\ \A w \in Variants \ {v} : r.impl[w] = s.impl[w]
      /\ r.owners[h] = {v} /\ \A g \in Holders \ {h} : r.owners[g] = s.owners[g]
      /\ r.type = n.type /\ r.object = n.object /\ r.val = n.val /\ r.fault = s.fault
  BY <1>0, <1>1, <1>2, PlaceImplEffect
<1>4. Good(r) /\ \A w \in Variants \ {v} : s.fault = "none" => Untouched(s, r, w)
  BY <1>0, <1>1, <1>3, NewGood
<1> QED
  BY <1>1, <1>3, <1>4 DEF r

LEMMA PlaceNewRefGood ==
  ASSUME NEW s, NEW v \in Variants, Ready(s, v), NEW h \in FreeHolders(s),
         NEW t \in Types \union {Dangling}, NEW o \in Objects \union {Dangling},
         s.fault = "none" => t \in Types /\ o \notin Variants,
         s.fault = "none" /\ o \in Holders => s.object[o] = o
  PROVE  LET r == PlaceImpl(NewRefHolder(s, h, t, o), v, h)
         IN  /\ Good(r) /\ r.fault = s.fault /\ r.deleter[v] = "DEFAULT"
             /\ r.member[v] = "DEFAULT" /\ r.impl[v] = h
             /\ r.type[h] = t /\ r.object[h] = o /\ r.val = s.val
             /\ \A g \in Holders \ {h} : r.object[g] = s.object[g]
             /\ \A w \in Variants \ {v} : s.fault = "none" => Untouched(s, r, w)
<1> DEFINE r == PlaceImpl(NewRefHolder(s, h, t, o), v, h)
           n == NewRefHolder(s, h, t, o)
<1>0. h \in Holders /\ s.owners[h] = {} /\ h # NullPtr
  BY MemoryAssumption DEF FreeHolders
<1>1. /\ n \in Paired /\ n.deleter = s.deleter /\ n.member = s.member
      /\ n.impl = s.impl /\ n.owners = s.owners /\ n.val = s.val /\ n.fault = s.fault
      /\ n.type[h] = t /\ \A g \in Holders \ {h} : n.type[g] = s.type[g]
      /\ n.object[h] = o /\ \A g \in Holders \ {h} : n.object[g] = s.object[g]
  BY <1>0, NewRefHolderEffect DEF Ready
<1>2. r = PlaceImpl(n, v, h)
  OBVIOUS
<1> HIDE DEF n, r
<1>3. /\ r \in Paired /\ r.deleter[v] = "DEFAULT"
      /\ \A w \in Variants \ {v} : r.deleter[w] = s.deleter[w]
      /\ r.member[v] = "DEFAULT" /\ \A w \in Variants \ {v} : r.member[w] = s.member[w]
      /\ r.impl[v] = h /\ \A w \in Variants \ {v} : r.impl[w] = s.impl[w]
      /\ r.owners[h] = {v} /\ \A g \in Holders \ {h} : r.owners[g] = s.owners[g]
      /\ r.type = n.type /\ r.object = n.object /\ r.val = n.val /\ r.fault = s.fault
  BY <1>0, <1>1, <1>2, PlaceImplEffect
<1>4. Good(r) /\ \A w \in Variants \ {v} : s.fault = "none" => Untouched(s, r, w)
  BY <1>0, <1>1, <1>3, NewGood
<1> QED
  BY <1>1, <1>3, <1>4 DEF r

-----------------------------------------------------------------------------
(* m_deleter                                                                *)

LEMMA EndedEffect ==
  ASSUME NEW s \in Paired, NEW o \in Objects
  PROVE  LET r == Ended(s, o)
         IN  /\ r \in Paired /\ r.deleter = s.deleter /\ r.member = s.member
             /\ r.impl = s.impl /\ r.owners = s.owners /\ r.type = s.type /\ r.fault = s.fault
             /\ r.val[o] = Dangling /\ \A q \in Objects \ {o} : r.val[q] = s.val[q]
             /\ \A h \in Holders :
                  r.object[h] = IF s.object[h] = o THEN Dangling ELSE s.object[h]
<1> DEFINE f == [h \in Holders |-> IF s.object[h] = o THEN Dangling ELSE s.object[h]]
<1>1. f \in [Holders -> Objects \union {Dangling}]
  BY DEF Paired, Memory
<1>2. Ended(s, o) = [s EXCEPT !.val[o] = Dangling, !.object = f]
  BY DEF Ended
<1>3. \A h \in Holders : f[h] = IF s.object[h] = o THEN Dangling ELSE s.object[h]
  OBVIOUS
<1> HIDE DEF f
<1>4. [s EXCEPT !.val[o] = Dangling].val = [s.val EXCEPT ![o] = Dangling]
  BY DEF Paired, Memory
<1>5. [s.val EXCEPT ![o] = Dangling] \in [Objects -> Values \union {Dangling}]
  BY DEF Paired, Memory
<1>6. /\ Ended(s, o) \in Paired /\ Ended(s, o).val = [s.val EXCEPT ![o] = Dangling]
      /\ Ended(s, o).deleter = s.deleter /\ Ended(s, o).member = s.member
      /\ Ended(s, o).impl = s.impl /\ Ended(s, o).owners = s.owners
      /\ Ended(s, o).type = s.type /\ Ended(s, o).fault = s.fault
      /\ Ended(s, o).object = f
  BY <1>1, <1>2, <1>4, <1>5 DEF Paired, Memory
<1> QED
  BY <1>3, <1>6 DEF Paired, Memory

LEMMA ReleaseEffect ==
  ASSUME NEW s \in Paired, NEW v \in Variants, NEW h \in Holders
  PROVE  LET r == Release(s, v, h)
             last1 == s.owners[h] \ {v} = {}
         IN  /\ r \in Paired /\ r.deleter = s.deleter /\ r.member = s.member
             /\ r.impl = s.impl /\ r.fault = s.fault
             /\ r.owners[h] = s.owners[h] \ {v}
             /\ \A g \in Holders \ {h} : r.owners[g] = s.owners[g] /\ r.type[g] = s.type[g]
             /\ ~last1 => r.type = s.type /\ r.object = s.object /\ r.val = s.val
             /\ last1 => /\ r.object[h] = Dangling
                         /\ \A q \in Objects \ {h} : r.val[q] = s.val[q]
                         /\ \A g \in Holders \ {h} :
                              r.object[g] = IF s.object[g] = h THEN Dangling ELSE s.object[g]
<1> DEFINE r == Release(s, v, h)
           p == [s EXCEPT !.owners[h] = @ \ {v}]
           q == [p EXCEPT !.type[h] = Dangling, !.object[h] = Dangling]
<1>1. /\ p \in Paired /\ p.deleter = s.deleter /\ p.member = s.member /\ p.impl = s.impl
      /\ p.owners[h] = s.owners[h] \ {v} /\ \A g \in Holders \ {h} : p.owners[g] = s.owners[g]
      /\ p.type = s.type /\ p.object = s.object /\ p.val = s.val /\ p.fault = s.fault
  BY DEF Paired, Memory
<1>2. r = IF p.owners[h] # {} THEN p ELSE Ended(q, h)
  BY DEF Release
<1> HIDE DEF p, r
<1>3. /\ q \in Paired /\ q.deleter = p.deleter /\ q.member = p.member /\ q.impl = p.impl
      /\ q.owners = p.owners /\ q.val = p.val /\ q.fault = p.fault
      /\ \A g \in Holders \ {h} : q.type[g] = p.type[g] /\ q.object[g] = p.object[g]
      /\ q.object[h] = Dangling
  BY <1>1 DEF Paired, Memory
<1> HIDE DEF q
<1>4. h \in Objects
  BY DEF Objects
<1>5. CASE p.owners[h] # {}
  BY <1>1, <1>2, <1>5 DEF r
<1>6. CASE p.owners[h] = {}
  <2>1. r = Ended(q, h)
    BY <1>2, <1>6
  <2> QED
    BY <1>1, <1>3, <1>4, <1>6, <2>1, EndedEffect DEF r
<1> QED
  BY <1>5, <1>6

\* Only a reference to what v alone owned ends
Kept(s, r, v) ==
  \A g \in Holders :
    \/ s.owners[g] \subseteq {v} \/ r.object[g] = s.object[g]
    \/ s.object[g] \in Holders /\ s.owners[s.object[g]] \subseteq {v}

\* What the destructor of the old value of v leaves
Destroyed(s, r, v) ==
  /\ Ready(r, v) /\ r.deleter = s.deleter
  /\ r.fault = "none" => /\ s.fault = "none" /\ Kept(s, r, v)
                         /\ \A w \in Variants \ {v} : Untouched(s, r, w)
  /\ s.fault = "none" /\ ~Mistagged(s, v) => r.fault = "none"

\* v has no value any more; the holder it had, if any, lost one owner
LEMMA EmptiedReady ==
  ASSUME NEW s, NEW v \in Variants, Good(s), s.fault = "none", s.member[v] # "DEFAULT",
         NEW r \in Paired, r.deleter = s.deleter, r.member[v] = "none",
         \A w \in Variants \ {v} : r.member[w] = s.member[w] /\ r.impl[w] = s.impl[w],
         r.owners = s.owners, r.type = s.type, r.object = s.object,
         \A o \in Objects \ {v} : r.val[o] = s.val[o], r.fault = "none"
  PROVE  Destroyed(s, r, v)
<1>1. ASSUME NEW w \in Variants \ {v} PROVE Untouched(s, r, w)
  <2>1. s.impl[w] \in Holders \union {NullPtr} /\ w \in Objects
    BY DEF Good, Paired, Memory, Objects
  <2>2. s.impl[w] \in Holders => s.object[s.impl[w]] \in (Objects \union {Dangling}) \ Variants
    BY DEF Good, Paired, Memory, HoldersTrue
  <2> QED
    BY <2>1, <2>2 DEF Untouched
<1>2. Exact(r)
  <2> SUFFICES ASSUME NEW g \in Holders, NEW w \in Variants
               PROVE  w \in r.owners[g] <=> r.member[w] = "DEFAULT" /\ r.impl[w] = g
    BY DEF Exact, Paired, Memory
  <2>1. w \in s.owners[g] <=> s.member[w] = "DEFAULT" /\ s.impl[w] = g
    BY DEF Good, Exact
  <2> QED
    BY <2>1
<1>3. HoldersTrue(r)
  BY DEF Good, HoldersTrue
<1>4. ASSUME NEW w \in Variants \ {v} PROVE TagTrue(r, w)
  BY <1>4 DEF Good, TagTrue, Mistagged
<1> QED
  BY <1>1, <1>2, <1>3, <1>4 DEF Destroyed, Ready, Kept

LEMMA DeleterReady ==
  ASSUME NEW s, NEW v \in Variants, Good(s), s.deleter[v] # "dead"
  PROVE  Destroyed(s, deleter(s, v), v)
<1> DEFINE e == [s EXCEPT !.member[v] = "none", !.impl[v] = NullPtr]
           h == s.impl[v]
           r == deleter(s, v)
<1>0. s \in Paired
  BY DEF Good
<1>1. /\ e \in Paired /\ e.deleter = s.deleter /\ e.member[v] = "none" /\ e.impl[v] = NullPtr
      /\ \A w \in Variants \ {v} : e.member[w] = s.member[w] /\ e.impl[w] = s.impl[w]
      /\ e.owners = s.owners /\ e.type = s.type /\ e.object = s.object /\ e.val = s.val
      /\ e.fault = s.fault
  BY <1>0 DEF Paired, Memory
<1>2. /\ ~isValid(s, v) => r = s
      /\ isValid(s, v) /\ s.member[v] # s.deleter[v] => r = Undefined(s)
      /\ isValid(s, v) /\ s.member[v] = s.deleter[v] =>
           /\ s.deleter[v] \in Embedded => r = Ended(e, v)
           /\ s.deleter[v] \notin Embedded /\ h = NullPtr => r = e
           /\ s.deleter[v] \notin Embedded /\ h # NullPtr => r = Release(e, v, h)
  BY DEF deleter
<1> HIDE DEF e, r
<1>3. v \in Objects /\ h \in Holders \union {NullPtr}
  BY <1>0 DEF Paired, Memory, Objects
<1>4. CASE s.deleter[v] = "NULL"
  <2>1. r = s
    BY <1>2, <1>4 DEF isValid
  <2>2. s.fault = "none" => s.member[v] = "none"
    BY <1>4 DEF Good, TagTrue, Mistagged
  <2>3. \A w \in Variants : Untouched(s, s, w)
    BY DEF Untouched
  <2>4. Destroyed(s, s, v)
    BY <2>2, <2>3 DEF Good, Ready, Destroyed, Kept
  <2> QED
    BY <2>1, <2>4 DEF r
<1>5. CASE s.deleter[v] # "NULL" /\ s.member[v] # s.deleter[v]
  <2>1. r = Undefined(s)
    BY <1>2, <1>5 DEF isValid
  <2>2. r \in Paired /\ r.fault = "undefined" /\ r.deleter = s.deleter
    BY <1>0, <2>1 DEF Undefined, Paired, Memory
  <2>3. s.fault = "none" => Mistagged(s, v)
    BY <1>5 DEF Good, TagTrue
  <2>4. Destroyed(s, r, v)
    BY <2>2, <2>3 DEF Destroyed, Ready
  <2> QED
    BY <2>4 DEF r
<1>6. CASE s.deleter[v] # "NULL" /\ s.member[v] = s.deleter[v] /\ s.deleter[v] \in Embedded
  <2>1. r = Ended(e, v)
    BY <1>2, <1>6 DEF isValid
  <2>2. /\ r \in Paired /\ r.deleter = e.deleter /\ r.member = e.member
        /\ r.impl = e.impl /\ r.owners = e.owners /\ r.type = e.type /\ r.fault = e.fault
        /\ \A q \in Objects \ {v} : r.val[q] = e.val[q]
        /\ \A g \in Holders : r.object[g] = IF e.object[g] = v THEN Dangling ELSE e.object[g]
    BY <1>1, <1>3, <2>1, EndedEffect
  <2>3. CASE s.fault = "none"
    <3>1. \A g \in Holders : s.object[g] # v
      BY <2>3 DEF Good, HoldersTrue
    <3>2. r.object = s.object
      <4>1. \A g \in Holders : r.object[g] = s.object[g]
        BY <1>1, <2>2, <3>1
      <4> QED
        BY <1>0, <2>2, <4>1 DEF Paired, Memory
    <3>3. Destroyed(s, r, v)
      BY <1>1, <1>6, <2>2, <2>3, <3>2, EmptiedReady, EmbeddedNames
    <3> QED
      BY <3>3 DEF r
  <2>4. CASE s.fault # "none"
    <3>1. Destroyed(s, r, v)
      BY <1>1, <2>2, <2>4 DEF Destroyed, Ready
    <3> QED
      BY <3>1 DEF r
  <2> QED
    BY <2>3, <2>4
<1>7. CASE s.deleter[v] = "DEFAULT" /\ s.member[v] = "DEFAULT"
  <2>1. /\ h = NullPtr => r = e
        /\ h # NullPtr => r = Release(e, v, h)
    BY <1>2, <1>7, EmbeddedNames DEF isValid
  <2>2. CASE h = NullPtr
    <3>1. Destroyed(s, e, v)
      <4>1. ASSUME s.fault = "none", NEW w \in Variants \ {v} PROVE Untouched(s, e, w)
        BY <1>1 DEF Untouched
      <4>2. ASSUME s.fault = "none" PROVE Exact(e)
        <5> SUFFICES ASSUME NEW g \in Holders, NEW w \in Variants
                     PROVE  w \in e.owners[g] <=> e.member[w] = "DEFAULT" /\ e.impl[w] = g
          BY <1>1 DEF Exact, Paired, Memory
        <5>1. w \in s.owners[g] <=> s.member[w] = "DEFAULT" /\ s.impl[w] = g
          BY <4>2 DEF Good, Exact
        <5> QED
          BY <1>1, <2>2, <5>1, MemoryAssumption
      <4>3. ASSUME s.fault = "none" PROVE HoldersTrue(e)
        BY <1>1, <4>3 DEF Good, HoldersTrue
      <4>4. ASSUME s.fault = "none", NEW w \in Variants \ {v} PROVE TagTrue(e, w)
        BY <1>1, <4>4 DEF Good, TagTrue, Mistagged
      <4> QED
        BY <1>1, <4>1, <4>2, <4>3, <4>4 DEF Destroyed, Ready, Kept
    <3> QED
      BY <2>1, <2>2, <3>1 DEF r
  <2>3. CASE h # NullPtr
    <3>0. h \in Holders /\ r = Release(e, v, h)
      BY <1>3, <2>1, <2>3
    <3>1. /\ r \in Paired /\ r.deleter = s.deleter /\ r.member = e.member
          /\ r.impl = e.impl /\ r.fault = s.fault
          /\ r.owners[h] = s.owners[h] \ {v}
          /\ \A g \in Holders \ {h} : r.owners[g] = s.owners[g] /\ r.type[g] = s.type[g]
          /\ r.owners[h] # {} => r.type = s.type /\ r.object = s.object /\ r.val = s.val
          /\ r.owners[h] = {} => /\ r.object[h] = Dangling
                                 /\ \A q \in Objects \ {h} : r.val[q] = s.val[q]
                                 /\ \A g \in Holders \ {h} :
                                      r.object[g] = IF s.object[g] = h THEN Dangling ELSE s.object[g]
      BY <1>1, <3>0, ReleaseEffect
    <3>2. ASSUME s.fault = "none" PROVE Exact(r)
      <4> SUFFICES ASSUME NEW g \in Holders, NEW w \in Variants
                   PROVE  w \in r.owners[g] <=> r.member[w] = "DEFAULT" /\ r.impl[w] = g
        BY <3>1 DEF Exact, Paired, Memory
      <4>1. w \in s.owners[g] <=> s.member[w] = "DEFAULT" /\ s.impl[w] = g
        BY <3>2 DEF Good, Exact
      <4>2. w \in r.owners[g] <=> w \in s.owners[g] /\ ~(g = h /\ w = v)
        BY <3>1
      <4> QED
        BY <1>1, <3>1, <4>1, <4>2, MemoryAssumption
    <3>3. ASSUME s.fault = "none", NEW w \in Variants \ {v} PROVE Untouched(s, r, w)
      <4> DEFINE g == s.impl[w]
      <4>1. g \in Holders \union {NullPtr} /\ w \in Objects /\ w # h /\ h # NullPtr
        BY <1>0, <3>0, MemoryAssumption DEF Paired, Memory, Objects
      <4> HIDE DEF g
      <4>2. /\ r.deleter[w] = s.deleter[w] /\ r.member[w] = s.member[w]
            /\ r.impl[w] = s.impl[w] /\ r.val[w] = s.val[w]
        BY <1>1, <3>1, <4>1
      <4>3. ASSUME s.member[w] = "DEFAULT", g # NullPtr
            PROVE  /\ r.type[g] = s.type[g]
                   /\ \/ /\ r.object[g] = s.object[g]
                         /\ s.object[g] # Dangling => r.val[s.object[g]] = s.val[s.object[g]]
                      \/ r.object[g] = Dangling /\ s.object[g] # g
        <5>1. g \in Holders /\ w \in s.owners[g] /\ s.object[g] \in Objects \union {Dangling}
          BY <1>0, <3>3, <4>1, <4>3 DEF Good, Exact, Paired, Memory, g
        <5>2. CASE r.owners[h] # {}
          BY <3>1, <5>2
        <5>3. CASE r.owners[h] = {}
          <6>1. g # h
            BY <3>1, <5>1, <5>3
          <6> QED
            BY <3>1, <5>1, <5>3, <6>1
        <5> QED
          BY <5>2, <5>3
      <4> QED
        BY <4>2, <4>3 DEF Untouched, g
    <3>4. ASSUME s.fault = "none" PROVE HoldersTrue(r)
      <4> SUFFICES ASSUME NEW g \in Holders
                   PROVE  /\ r.owners[g] # {} => r.type[g] \in Types
                          /\ r.owners[g] = {} => r.object[g] = Dangling
                          /\ r.object[g] \notin Variants
                          /\ r.object[g] \in Holders => r.object[r.object[g]] = r.object[g]
        BY DEF HoldersTrue
      <4>1. /\ s.owners[g] # {} => s.type[g] \in Types
            /\ s.owners[g] = {} => s.object[g] = Dangling
            /\ s.object[g] \notin Variants
            /\ s.object[g] \in Holders => s.object[s.object[g]] = s.object[g]
        BY <3>4 DEF Good, HoldersTrue
      <4>2. Dangling \notin Variants \union Holders
        BY MemoryAssumption DEF Objects
      <4>3. v \in s.owners[h]
        BY <1>7, <3>0, <3>4 DEF Good, Exact
      <4>4. CASE r.owners[h] # {}
        BY <3>1, <4>1, <4>3, <4>4
      <4>5. CASE r.owners[h] = {} /\ g = h
        BY <3>1, <4>2, <4>5
      <4>6. CASE r.owners[h] = {} /\ g # h
        BY <3>1, <4>1, <4>2, <4>6
      <4> QED
        BY <4>4, <4>5, <4>6
    <3>5. ASSUME s.fault = "none", NEW w \in Variants \ {v} PROVE TagTrue(r, w)
      BY <1>1, <3>1, <3>5 DEF Good, TagTrue, Mistagged
    <3>6. Kept(s, r, v)
      BY <3>0, <3>1 DEF Kept
    <3>7. Destroyed(s, r, v)
      BY <1>1, <3>1, <3>2, <3>3, <3>4, <3>5, <3>6 DEF Destroyed, Ready
    <3> QED
      BY <3>7 DEF r
  <2> QED
    BY <2>2, <2>3
<1>8. s.deleter[v] \in Embedded \union {"NULL", "DEFAULT"}
  BY <1>0 DEF Paired, Memory
<1> QED
  BY <1>4, <1>5, <1>6, <1>7, <1>8

-----------------------------------------------------------------------------
(* The placement news of copies and moves                                   *)

\* What the copy r of u in v is, when it was made
CopyMade(s, r, v, u, h) ==
  /\ MemberOk(s, u) /\ u # v
  /\ isEmbedded(s, u) =>
       r.deleter[v] = s.deleter[u] /\ r.member[v] = s.deleter[u] /\ r.val[v] = s.val[u]
  /\ ~isEmbedded(s, u) =>
       LET g == s.impl[u]
       IN  /\ r.deleter[v] = "DEFAULT" /\ r.member[v] = "DEFAULT" /\ r.impl[v] = h
           /\ h \in Holders /\ s.owners[h] = {} /\ r.type[h] = s.type[g]
           /\ \A f \in Holders \ {h} : r.object[f] = s.object[f]
           /\ s.object[g] = g => r.object[h] = h /\ r.val[h] = s.val[g]
           /\ s.object[g] # g => r.object[h] = s.object[g] /\ r.val = s.val

\* v has no value after all
LeftEmpty(r, v) == r.member[v] = "none" /\ r.deleter[v] \in {"NULL", "STRING"}

(***************************************************************************)
(* The common part of copy construction and copy assignment: undefined     *)
(* only if the source cannot be used, and otherwise the copy is made or    *)
(* nothing is; no other variant is touched.                                *)
(***************************************************************************)
LEMMA CopyFromOk ==
  ASSUME NEW s, NEW v \in Variants, NEW u \in Variants, Ready(s, v), s.deleter[u] # "dead",
         NEW h \in FreeHolders(s), NEW throws \in BOOLEAN, throws => CopyMayThrow(s, u)
  PROVE  LET r == CopyFrom(s, v, u, h, throws)
         IN  /\ Good(r)
             /\ r.fault = "none" =>
                  s.fault = "none" /\ \A w \in Variants \ {v} : Untouched(s, r, w)
             /\ s.fault = "none" /\ r.fault # "none" => isValid(s, u) /\ ~MemberOk(s, u)
             /\ r.fault = "none" =>
                  IF throws \/ Uncloned(s, u, r, v) THEN LeftEmpty(r, v)
                  ELSE isValid(s, u) => CopyMade(s, r, v, u, h)
<1> DEFINE tag == s.deleter[u]
           g   == s.impl[u]
           ref == s.object[g] # g
           r   == CopyFrom(s, v, u, h, throws)
<1> DEFINE Goal == /\ Good(r)
                   /\ r.fault = "none" =>
                        s.fault = "none" /\ \A w \in Variants \ {v} : Untouched(s, r, w)
                   /\ s.fault = "none" /\ r.fault # "none" => isValid(s, u) /\ ~MemberOk(s, u)
                   /\ r.fault = "none" =>
                        IF throws \/ Uncloned(s, u, r, v) THEN LeftEmpty(r, v)
                        ELSE isValid(s, u) => CopyMade(s, r, v, u, h)
<1> SUFFICES Goal
  OBVIOUS
<1>0. /\ s \in Paired /\ tag \in Embedded \union {"NULL", "DEFAULT"}
      /\ g \in Holders \union {NullPtr} /\ h \in Holders /\ s.owners[h] = {}
      /\ s.val \in [Objects -> Values \union {Dangling}]
      /\ s.type \in [Holders -> Types \union {Dangling}]
      /\ s.object \in [Holders -> Objects \union {Dangling}]
  BY DEF Ready, Paired, Memory, FreeHolders
<1>1. /\ tag = "NULL" => r = Tagged(s, v, "NULL")
      /\ tag # "NULL" /\ ~MemberOk(s, u) => r = Undefined(s)
      /\ tag # "NULL" /\ MemberOk(s, u) =>
           /\ tag \in Embedded =>
                r = IF throws THEN Tagged(s, v, tag) ELSE PlaceEmbedded(s, v, tag, s.val[u])
           /\ tag \notin Embedded =>
                /\ throws \/ s.type[g] \notin (IF ref THEN Movable ELSE Copyable) =>
                     r = Tagged(s, v, "NULL")
                /\ ~(throws \/ s.type[g] \notin (IF ref THEN Movable ELSE Copyable)) =>
                     r = PlaceImpl(IF ref THEN NewRefHolder(s, h, s.type[g], s.object[g])
                                   ELSE NewHolder(s, h, s.type[g], s.val[g]), v, h)
  BY DEF CopyFrom
<1>T. ASSUME r = Tagged(s, v, "NULL"), throws \/ tag # "NULL" \/ ~isValid(s, u) PROVE Goal
  <2> HIDE DEF r
  <2>1. /\ Good(r) /\ r.fault = s.fault /\ r.deleter[v] = "NULL" /\ r.member = s.member
        /\ \A w \in Variants \ {v} : Untouched(s, r, w)
    BY <1>T, TaggedGood
  <2>2. r.fault = "none" => LeftEmpty(r, v)
    BY <2>1 DEF Ready, LeftEmpty
  <2>3. ~isValid(r, v) /\ (isValid(s, u) => Uncloned(s, u, r, v))
    BY <2>1 DEF isValid, Uncloned
  <2> QED
    BY <2>1, <2>2, <2>3
<1> HIDE DEF r, Goal
<1>2. CASE tag = "NULL"
  BY <1>1, <1>2, <1>T DEF isValid
<1>3. CASE tag # "NULL" /\ ~MemberOk(s, u)
  <2>1. r = Undefined(s)
    BY <1>1, <1>3
  <2>2. r \in Paired /\ r.fault = "undefined"
    BY <1>0, <2>1, FaultStays
  <2> QED
    BY <1>3, <2>2 DEF Goal, Good, isValid
<1>4. CASE tag \in Embedded /\ MemberOk(s, u)
  <2>0. u # v \/ s.fault # "none"
    BY <1>4, EmbeddedNames DEF MemberOk, Ready
  <2>1. CASE throws
    <3>1. tag = "STRING"
      BY <1>4, <2>1, EmbeddedNames DEF CopyMayThrow
    <3>2. r = Tagged(s, v, "STRING")
      BY <1>1, <1>4, <2>1, <3>1, EmbeddedNames
    <3>3. /\ Good(r) /\ r.fault = s.fault /\ r.deleter[v] = "STRING" /\ r.member = s.member
          /\ \A w \in Variants \ {v} : Untouched(s, r, w)
      BY <3>2, TaggedGood
    <3>4. r.fault = "none" => LeftEmpty(r, v)
      BY <3>3 DEF Ready, LeftEmpty
    <3> QED
      BY <2>1, <3>3, <3>4 DEF Goal
  <2>2. CASE ~throws
    <3>1. r = PlaceEmbedded(s, v, tag, s.val[u]) /\ s.val[u] \in Values \union {Dangling}
      BY <1>0, <1>1, <1>4, <2>2, EmbeddedNames DEF Objects
    <3>2. /\ Good(r) /\ r.fault = s.fault /\ r.deleter[v] = tag /\ r.member[v] = tag
          /\ r.val[v] = s.val[u]
          /\ \A w \in Variants \ {v} : s.fault = "none" => Untouched(s, r, w)
      BY <1>4, <3>1, PlaceEmbeddedGood
    <3>3. isEmbedded(s, u) /\ isValid(r, v)
      BY <1>4, <3>2, EmbeddedNames DEF isEmbedded, isValid
    <3>4. r.fault = "none" => CopyMade(s, r, v, u, h)
      BY <1>4, <2>0, <3>2, <3>3 DEF CopyMade
    <3> QED
      BY <2>2, <3>2, <3>3, <3>4 DEF Goal, Uncloned
  <2> QED
    BY <2>1, <2>2
<1>5. CASE tag = "DEFAULT" /\ MemberOk(s, u)
  <2>0. u # v \/ s.fault # "none"
    BY <1>5 DEF MemberOk, Ready
  <2>1. CASE throws \/ s.type[g] \notin (IF ref THEN Movable ELSE Copyable)
    <3>1. r = Tagged(s, v, "NULL")
      BY <1>1, <1>5, <2>1, EmbeddedNames
    <3> QED
      BY <1>5, <3>1, <1>T
  <2>2. CASE ~(throws \/ s.type[g] \notin (IF ref THEN Movable ELSE Copyable))
    <3>1. g \in Holders /\ ~isEmbedded(s, u) /\ s.member[u] = "DEFAULT" /\ g \in Objects
      BY <1>0, <1>5 DEF MemberOk, isEmbedded, Objects
    <3>2. /\ s.type[g] \in Types \union {Dangling} /\ s.val[g] \in Values \union {Dangling}
          /\ s.object[g] \in Objects \union {Dangling}
      BY <1>0, <3>1
    <3>3. ASSUME s.fault = "none"
          PROVE  /\ s.type[g] \in Types /\ s.object[g] \notin Variants
                 /\ s.object[g] \in Holders => s.object[s.object[g]] = s.object[g]
      <4>1. u \in s.owners[g]
        BY <3>1, <3>3 DEF Ready, Exact
      <4> QED
        BY <3>1, <3>3, <4>1 DEF Ready, HoldersTrue
    <3>4. CASE ref
      <4>1. r = PlaceImpl(NewRefHolder(s, h, s.type[g], s.object[g]), v, h)
        BY <1>1, <1>5, <2>2, <3>4, EmbeddedNames
      <4>2. /\ Good(r) /\ r.fault = s.fault /\ r.deleter[v] = "DEFAULT"
            /\ r.member[v] = "DEFAULT" /\ r.impl[v] = h
            /\ r.type[h] = s.type[g] /\ r.object[h] = s.object[g] /\ r.val = s.val
            /\ \A f \in Holders \ {h} : r.object[f] = s.object[f]
            /\ \A w \in Variants \ {v} : s.fault = "none" => Untouched(s, r, w)
        <5>1. /\ s.type[g] \in Types \union {Dangling} /\ s.object[g] \in Objects \union {Dangling}
              /\ s.fault = "none" => s.type[g] \in Types /\ s.object[g] \notin Variants
              /\ s.fault = "none" /\ s.object[g] \in Holders => s.object[s.object[g]] = s.object[g]
          BY <3>2, <3>3
        <5>2. LET n == PlaceImpl(NewRefHolder(s, h, s.type[g], s.object[g]), v, h)
              IN  /\ Good(n) /\ n.fault = s.fault /\ n.deleter[v] = "DEFAULT"
                  /\ n.member[v] = "DEFAULT" /\ n.impl[v] = h
                  /\ n.type[h] = s.type[g] /\ n.object[h] = s.object[g] /\ n.val = s.val
                  /\ \A f \in Holders \ {h} : n.object[f] = s.object[f]
                  /\ \A w \in Variants \ {v} : s.fault = "none" => Untouched(s, n, w)
          BY <5>1, PlaceNewRefGood
        <5> QED
          BY <4>1, <5>2
      <4>3. isValid(r, v)
        BY <4>2 DEF isValid
      <4>4. r.fault = "none" => CopyMade(s, r, v, u, h)
        BY <1>0, <1>5, <2>0, <3>1, <3>4, <4>2 DEF CopyMade
      <4> QED
        BY <2>2, <4>2, <4>3, <4>4 DEF Goal, Uncloned
    <3>5. CASE ~ref
      <4>1. r = PlaceImpl(NewHolder(s, h, s.type[g], s.val[g]), v, h)
        BY <1>1, <1>5, <2>2, <3>5, EmbeddedNames
      <4>2. /\ Good(r) /\ r.fault = s.fault /\ r.deleter[v] = "DEFAULT"
            /\ r.member[v] = "DEFAULT" /\ r.impl[v] = h
            /\ r.type[h] = s.type[g] /\ r.object[h] = h /\ r.val[h] = s.val[g]
            /\ \A f \in Holders \ {h} : r.object[f] = s.object[f]
            /\ \A w \in Variants \ {v} : s.fault = "none" => Untouched(s, r, w)
        <5>1. /\ s.type[g] \in Types \union {Dangling} /\ s.val[g] \in Values \union {Dangling}
              /\ s.fault = "none" => s.type[g] \in Types
          BY <3>2, <3>3
        <5> DEFINE y == s.type[g]
                   x == s.val[g]
                   n == PlaceImpl(NewHolder(s, h, y, x), v, h)
        <5>2. y \in Types \union {Dangling} /\ x \in Values \union {Dangling} /\ r = n
              /\ (s.fault = "none" => y \in Types)
          BY <4>1, <5>1
        <5> HIDE DEF y, x
        <5>3. /\ Good(n) /\ n.fault = s.fault /\ n.deleter[v] = "DEFAULT"
              /\ n.member[v] = "DEFAULT" /\ n.impl[v] = h
              /\ n.type[h] = y /\ n.object[h] = h /\ n.val[h] = x
              /\ \A f \in Holders \ {h} : n.object[f] = s.object[f]
              /\ \A w \in Variants \ {v} : s.fault = "none" => Untouched(s, n, w)
          BY <5>2, PlaceNewGood
        <5> HIDE DEF n
        <5> QED
          BY <5>2, <5>3 DEF y, x
      <4>3. isValid(r, v)
        BY <4>2 DEF isValid
      <4>4. r.fault = "none" => CopyMade(s, r, v, u, h)
        BY <1>0, <1>5, <2>0, <3>1, <3>5, <4>2 DEF CopyMade
      <4> QED
        BY <2>2, <4>2, <4>3, <4>4 DEF Goal, Uncloned
    <3> QED
      BY <3>4, <3>5
  <2> QED
    BY <2>1, <2>2
<1> QED
  BY <1>0, <1>2, <1>3, <1>4, <1>5

(***************************************************************************)
(* The common part of moves: the object changes hands, embedded values are *)
(* copied, and no third variant is touched.                                *)
(***************************************************************************)
LEMMA MoveFromOk ==
  ASSUME NEW s, NEW v \in Variants, NEW u \in Variants, Ready(s, v), s.deleter[u] # "dead",
         NEW throws \in BOOLEAN, throws => MoveMayThrow(s, u)
  PROVE  LET r == MoveFrom(s, v, u, throws)
         IN  /\ Good(r)
             /\ r.fault = "none" =>
                  /\ s.fault = "none" /\ \A w \in Variants \ {v, u} : Untouched(s, r, w)
                  /\ isEmbedded(s, u) /\ u # v => Untouched(s, r, u)
                  /\ ~isEmbedded(s, u) =>
                       u # v /\ r.impl[v] = s.impl[u] /\ r.impl[u] = NullPtr
                  /\ throws => LeftEmpty(r, v) /\ isEmbedded(s, u)
             /\ s.fault = "none" /\ r.fault # "none" =>
                  isValid(s, u) /\ s.member[u] # s.deleter[u]
<1> DEFINE tag == s.deleter[u]
           g   == s.impl[u]
           r   == MoveFrom(s, v, u, throws)
           e   == [s EXCEPT !.impl[u] = NullPtr, !.owners[g] = @ \ {u}]
<1> DEFINE Goal == /\ Good(r)
                   /\ r.fault = "none" =>
                        /\ s.fault = "none" /\ \A w \in Variants \ {v, u} : Untouched(s, r, w)
                        /\ isEmbedded(s, u) /\ u # v => Untouched(s, r, u)
                        /\ ~isEmbedded(s, u) =>
                             u # v /\ r.impl[v] = s.impl[u] /\ r.impl[u] = NullPtr
                        /\ throws => LeftEmpty(r, v) /\ isEmbedded(s, u)
                   /\ s.fault = "none" /\ r.fault # "none" =>
                        isValid(s, u) /\ s.member[u] # s.deleter[u]
<1> SUFFICES Goal
  OBVIOUS
<1>0. /\ s \in Paired /\ tag \in Embedded \union {"NULL", "DEFAULT"}
      /\ g \in Holders \union {NullPtr} /\ s.val[u] \in Values \union {Dangling}
  BY DEF Ready, Paired, Memory, Objects
<1>1. /\ tag = "NULL" => r = Tagged(s, v, "NULL")
      /\ tag # "NULL" /\ s.member[u] # tag => r = Undefined(s)
      /\ tag # "NULL" /\ s.member[u] = tag =>
           /\ tag \in Embedded =>
                r = IF throws THEN Tagged(s, v, tag) ELSE PlaceEmbedded(s, v, tag, s.val[u])
           /\ tag \notin Embedded => r = IF g = NullPtr THEN PlaceImpl(s, v, NullPtr)
                                         ELSE PlaceImpl(e, v, g)
  BY DEF MoveFrom
<1>2. throws => tag = "STRING"
  BY DEF MoveMayThrow
<1> HIDE DEF r, e, Goal
<1>3. CASE tag = "NULL"
  <2>1. /\ Good(r) /\ r.fault = s.fault
        /\ \A w \in Variants \ {v} : Untouched(s, r, w)
    BY <1>1, <1>3, TaggedGood
  <2> QED
    BY <1>2, <1>3, <2>1 DEF Goal, isEmbedded
<1>4. CASE tag # "NULL" /\ s.member[u] # tag
  <2>1. r \in Paired /\ r.fault = "undefined"
    BY <1>0, <1>1, <1>4, FaultStays
  <2> QED
    BY <1>4, <2>1 DEF Goal, Good, isValid
<1>5. CASE tag \in Embedded /\ s.member[u] = tag
  <2>0. isEmbedded(s, u)
    BY <1>5, EmbeddedNames DEF isEmbedded
  <2>1. CASE throws
    <3>1. /\ Good(r) /\ r.fault = s.fault /\ r.deleter[v] = "STRING" /\ r.member = s.member
          /\ \A w \in Variants \ {v} : Untouched(s, r, w)
      BY <1>1, <1>2, <1>5, <2>1, TaggedGood, EmbeddedNames
    <3>2. r.fault = "none" => LeftEmpty(r, v)
      BY <3>1 DEF Ready, LeftEmpty
    <3> QED
      BY <2>0, <3>1, <3>2 DEF Goal
  <2>2. CASE ~throws
    <3>1. /\ Good(r) /\ r.fault = s.fault
          /\ \A w \in Variants \ {v} : s.fault = "none" => Untouched(s, r, w)
      BY <1>0, <1>1, <1>5, <2>2, PlaceEmbeddedGood, EmbeddedNames
    <3> QED
      BY <2>0, <2>2, <3>1 DEF Goal
  <2> QED
    BY <2>1, <2>2
<1>6. CASE tag = "DEFAULT" /\ s.member[u] = "DEFAULT"
  <2>0. ~isEmbedded(s, u) /\ ~throws /\ (s.fault = "none" => u # v)
    BY <1>2, <1>6 DEF isEmbedded, Ready
  <2>1. CASE g = NullPtr
    <3>1. r = PlaceImpl(s, v, NullPtr)
      BY <1>1, <1>6, <2>1, EmbeddedNames
    <3>2. /\ Good(r) /\ r.fault = s.fault /\ r.impl[v] = NullPtr
          /\ \A w \in Variants \ {v} : Untouched(s, r, w)
      BY <3>1, PlaceImplGood
    <3>3. u # v => r.impl[u] = s.impl[u]
      BY <3>2 DEF Untouched
    <3> QED
      BY <2>0, <2>1, <3>2, <3>3 DEF Goal
  <2>2. CASE g # NullPtr
    <3>0. r = PlaceImpl(e, v, g) /\ g \in Holders
      BY <1>0, <1>1, <1>6, <2>2, EmbeddedNames
    <3>1. /\ e \in Paired /\ e.deleter = s.deleter /\ e.member = s.member
          /\ e.impl[u] = NullPtr /\ \A w \in Variants \ {u} : e.impl[w] = s.impl[w]
          /\ e.owners[g] = s.owners[g] \ {u}
          /\ \A h \in Holders \ {g} : e.owners[h] = s.owners[h]
          /\ e.type = s.type /\ e.object = s.object /\ e.val = s.val /\ e.fault = s.fault
      <4>1. [s.owners EXCEPT ![g] = s.owners[g] \ {u}] \in [Holders -> SUBSET Variants]
        BY <1>0, <3>0 DEF Paired, Memory
      <4>2. e = [[s EXCEPT !.impl[u] = NullPtr] EXCEPT !.owners = [s.owners EXCEPT ![g] = s.owners[g] \ {u}]]
        BY <1>0 DEF e, Paired, Memory
      <4> HIDE DEF e
      <4> QED
        BY <1>0, <3>0, <4>1, <4>2 DEF Paired, Memory
    <3>2. /\ r \in Paired /\ r.deleter[v] = "DEFAULT"
          /\ \A w \in Variants \ {v} : r.deleter[w] = s.deleter[w]
          /\ r.member[v] = "DEFAULT" /\ \A w \in Variants \ {v} : r.member[w] = s.member[w]
          /\ r.impl[v] = g /\ \A w \in Variants \ {v} : r.impl[w] = e.impl[w]
          /\ r.owners[g] = (s.owners[g] \ {u}) \union {v}
          /\ \A h \in Holders \ {g} : r.owners[h] = s.owners[h]
          /\ r.type = s.type /\ r.object = s.object /\ r.val = s.val /\ r.fault = s.fault
      BY <2>2, <3>0, <3>1, PlaceImplEffect
    <3>3. \A w \in Variants \ {v, u} : Untouched(s, r, w)
      BY <3>1, <3>2 DEF Untouched
    <3>4. CASE s.fault # "none"
      BY <3>2, <3>4 DEF Goal, Good
    <3>5. CASE s.fault = "none"
      <4>1. u # v /\ s.member[v] = "none"
        BY <2>0, <3>5 DEF Ready
      <4>2. Exact(r)
        <5> SUFFICES ASSUME NEW h \in Holders, NEW w \in Variants
                     PROVE  w \in r.owners[h] <=> r.member[w] = "DEFAULT" /\ r.impl[w] = h
          BY <3>2 DEF Exact, Paired, Memory
        <5>1. w \in s.owners[h] <=> s.member[w] = "DEFAULT" /\ s.impl[w] = h
          BY <3>5 DEF Ready, Exact
        <5>2. h # NullPtr
          BY MemoryAssumption
        <5>3. CASE w = v
          BY <3>2, <4>1, <5>1, <5>3
        <5>4. CASE w = u
          BY <1>6, <3>1, <3>2, <4>1, <5>1, <5>2, <5>4
        <5>5. CASE w # u /\ w # v
          BY <3>1, <3>2, <5>1, <5>5
        <5> QED
          BY <5>3, <5>4, <5>5
      <4>3. HoldersTrue(r)
        <5>1. u \in s.owners[g]
          BY <1>6, <3>0, <3>5 DEF Ready, Exact
        <5>2. \A h \in Holders : r.owners[h] # {} <=> s.owners[h] # {}
          BY <3>2, <5>1
        <5> QED
          BY <3>2, <3>5, <5>2 DEF Ready, HoldersTrue
      <4>4. ASSUME NEW w \in Variants PROVE TagTrue(r, w)
        <5>1. CASE w = v
          BY <3>2, <5>1 DEF TagTrue
        <5>2. CASE w # v
          <6>1. TagTrue(s, w) /\ r.deleter[w] = s.deleter[w] /\ r.member[w] = s.member[w]
            BY <3>2, <3>5, <5>2 DEF Ready
          <6> QED
            BY <6>1 DEF TagTrue, Mistagged
        <5> QED
          BY <5>1, <5>2
      <4>5. Good(r) /\ r.impl[u] = NullPtr
        BY <3>1, <3>2, <4>1, <4>2, <4>3, <4>4 DEF Good
      <4> QED
        BY <2>0, <3>2, <3>3, <3>5, <4>1, <4>5 DEF Goal
    <3> QED
      BY <3>4, <3>5
  <2> QED
    BY <2>1, <2>2
<1> QED
  BY <1>0, <1>3, <1>4, <1>5, <1>6

-----------------------------------------------------------------------------
(* What a call promises: the invariant again, and what the four action     *)
(* properties ask of it                                                    *)

\* The other variants are as they were, or lost what they referred to
Apart(r, call) ==
  \A w \in Variants \ {call.target} :
    \/ Untouched(m, r, w)
    \/ call.op = "move" /\ call.end = "returned" /\ w = call.source
    \/ call.op = "assign" /\ call.end \in {"true", "false"} /\ Held(m, w) = Held(m, call.target)

\* Nothing but the value of the object v shows is new
HalfAssigned(r, v) ==
  Held(m, v) \in Objects \ Variants /\ r = [m EXCEPT !.val[Held(m, v)] = r.val[Held(m, v)]]

Contained(r, call) ==
  /\ call.end = "threw" /\ call.op # "read" =>
       r.deleter[call.target] \in {"dead", "NULL"} \/ Mistagged(r, call.target)
  /\ call.end = "false" => r = m \/ HalfAssigned(r, call.target)

Copied(r, call) ==
  LET v == call.target  u == call.source
  IN  call.end = "returned" /\ call.op = "copy" /\ v # u /\ ObjectOk(m, u) /\ Survives(v, u) =>
        /\ Shown(r, v) = Shown(m, u) /\ Shown(r, u) = Shown(m, u)
        /\ Held(r, v) = Held(r, u) => m.object[m.impl[u]] # m.impl[u]

Handed(r, call) ==
  LET v == call.target  u == call.source
  IN  call.end = "returned" /\ call.op = "move" /\ v # u /\ ~isEmbedded(m, u) =>
        r.impl[v] = m.impl[u] /\ r.impl[u] = NullPtr

StepOk(r, call) ==
  /\ Good(r)
  /\ r.fault = "none" =>
       Apart(r, call) /\ Contained(r, call) /\ Copied(r, call) /\ Handed(r, call)
  /\ r.fault # "none" => Misuse(call.op, call.target, call.source) \/ StringThrew(call)

\* p is the memory after the old value of v, if there was one, has gone
Vacant(p, v) ==
  /\ Ready(p, v)
  /\ p.fault = "none" => Kept(m, p, v) /\ \A w \in Variants \ {v} : Untouched(m, p, w)
  /\ p.fault # "none" => Mistagged(m, v)

LEMMA UntouchedTwice ==
  ASSUME NEW s, NEW p, NEW r, NEW w, Untouched(s, p, w), Untouched(p, r, w)
  PROVE  Untouched(s, r, w)
<1>1. /\ p.deleter[w] = s.deleter[w] /\ p.member[w] = s.member[w]
      /\ p.impl[w] = s.impl[w] /\ p.val[w] = s.val[w]
      /\ r.deleter[w] = p.deleter[w] /\ r.member[w] = p.member[w]
      /\ r.impl[w] = p.impl[w] /\ r.val[w] = p.val[w]
  BY DEF Untouched
<1> DEFINE g == s.impl[w]
<1>2. ASSUME s.member[w] = "DEFAULT", g # NullPtr
      PROVE  /\ r.type[g] = s.type[g]
             /\ \/ /\ r.object[g] = s.object[g]
                   /\ s.object[g] # Dangling => r.val[s.object[g]] = s.val[s.object[g]]
                \/ r.object[g] = Dangling /\ s.object[g] # g
  <2>1. /\ p.type[g] = s.type[g]
        /\ \/ /\ p.object[g] = s.object[g]
              /\ s.object[g] # Dangling => p.val[s.object[g]] = s.val[s.object[g]]
           \/ p.object[g] = Dangling /\ s.object[g] # g
    BY <1>2 DEF Untouched
  <2>2. /\ r.type[g] = p.type[g]
        /\ \/ /\ r.object[g] = p.object[g]
              /\ p.object[g] # Dangling => r.val[p.object[g]] = p.val[p.object[g]]
           \/ r.object[g] = Dangling /\ p.object[g] # g
    BY <1>1, <1>2 DEF Untouched
  <2> HIDE DEF g
  <2>3. CASE p.object[g] = s.object[g]
    BY <2>1, <2>2, <2>3
  <2>4. CASE p.object[g] # s.object[g]
    BY <2>1, <2>2, <2>4
  <2> QED
    BY <2>3, <2>4
<1> QED
  BY <1>1, <1>2 DEF Untouched

LEMMA DeadVacant ==
  ASSUME Good(m), Running, NEW v \in Variants, ~Alive(v)
  PROVE  Vacant(m, v)
<1>1. m.member[v] = "none"
  BY DEF Good, Running, Alive, TagTrue, Mistagged
<1> QED
  BY <1>1 DEF Good, Running, Vacant, Ready, Kept, Untouched

LEMMA DestroyedVacant ==
  ASSUME Good(m), Running, NEW v \in Variants, Alive(v)
  PROVE  /\ Vacant(deleter(m, v), v) /\ deleter(m, v).deleter = m.deleter
         /\ Vacant(Tagged(deleter(m, v), v, "NULL"), v)
         /\ Tagged(deleter(m, v), v, "NULL").deleter[v] = "NULL"
<1> DEFINE p == deleter(m, v)
           r == Tagged(p, v, "NULL")
<1>1. Destroyed(m, p, v)
  BY DeleterReady DEF Alive
<1> HIDE DEF p
<1>2. Vacant(p, v)
  BY <1>1 DEF Destroyed, Vacant, Running
<1>3. /\ Good(r) /\ r.fault = p.fault /\ r.member = p.member /\ r.deleter[v] = "NULL"
      /\ \A w \in Variants \ {v} : Untouched(p, r, w)
  BY <1>2, TaggedGood DEF Vacant
<1>4. r.object = p.object
  BY <1>2 DEF Vacant, Ready, Tagged, Paired, Memory
<1> HIDE DEF r
<1>5. Ready(r, v)
  BY <1>2, <1>3 DEF Vacant, Ready, Good
<1>6. r.fault = "none" => \A w \in Variants \ {v} : Untouched(m, r, w)
  BY <1>2, <1>3, UntouchedTwice DEF Vacant
<1>7. Vacant(r, v)
  BY <1>2, <1>3, <1>4, <1>5, <1>6 DEF Vacant, Kept
<1> QED
  BY <1>1, <1>2, <1>3, <1>7 DEF Destroyed, p, r

\* A new value, or none, in a variant that has no value
LEMMA Refilled ==
  ASSUME Good(m), NEW p, NEW r, NEW call, Vacant(p, call.target),
         Good(r), r.fault = p.fault,
         \A w \in Variants \ {call.target} : p.fault = "none" => Untouched(p, r, w),
         call.op \notin {"copy", "move"}, call.end \in {"returned", "threw"},
         call.end = "threw" /\ r.fault = "none" =>
           r.deleter[call.target] \in {"dead", "NULL"} \/ Mistagged(r, call.target)
  PROVE  StepOk(r, call)
<1>1. r.fault = "none" => \A w \in Variants \ {call.target} : Untouched(m, r, w)
  BY UntouchedTwice DEF Vacant
<1> QED
  BY <1>1 DEF Vacant, StepOk, Apart, Contained, Copied, Handed, StringThrew

\* What another variant shows follows from what it is made of
LEMMA ShownUntouched ==
  ASSUME NEW s, NEW r, NEW w \in Variants, Good(s), s.fault = "none", Untouched(s, r, w),
         r \in Paired
  PROVE  \/ Shown(r, w) = Shown(s, w)
         \/ Shown(r, w) = <<>> /\ Held(s, w) # s.impl[w] /\ Held(r, w) = Dangling
<1> DEFINE g == s.impl[w]
<1>1. /\ r.deleter[w] = s.deleter[w] /\ r.member[w] = s.member[w]
      /\ r.impl[w] = s.impl[w] /\ r.val[w] = s.val[w]
  BY DEF Untouched
<1>0. (HolderOk(s, w) <=> MemberOk(s, w)) /\ (HolderOk(r, w) <=> MemberOk(r, w))
  BY GetterFinds DEF Good
<1>2. CASE isEmbedded(s, w)
  BY <1>0, <1>1, <1>2 DEF Shown, ObjectOk, MemberOk, Held, TypeOf, isEmbedded, isValid
<1>3. CASE ~isEmbedded(s, w) /\ ~HolderOk(s, w)
  BY <1>0, <1>1, <1>3 DEF Shown, ObjectOk, MemberOk, isEmbedded, isValid
<1>4. CASE ~isEmbedded(s, w) /\ HolderOk(s, w)
  <2>1. ~isEmbedded(r, w) /\ HolderOk(r, w) /\ s.member[w] = "DEFAULT" /\ g # NullPtr
    BY <1>0, <1>1, <1>4 DEF MemberOk, isEmbedded, isValid
  <2>2. /\ r.type[g] = s.type[g]
        /\ \/ /\ r.object[g] = s.object[g]
              /\ s.object[g] # Dangling => r.val[s.object[g]] = s.val[s.object[g]]
           \/ r.object[g] = Dangling /\ s.object[g] # g
    BY <2>1 DEF Untouched
  <2>3. /\ Held(s, w) = s.object[g] /\ Held(r, w) = r.object[g]
        /\ TypeOf(s, w) = s.type[g] /\ TypeOf(r, w) = r.type[g]
    BY <1>1, <1>4, <2>1 DEF Held, TypeOf
  <2> HIDE DEF g
  <2>4. CASE r.object[g] = Dangling /\ s.object[g] # g
    BY <2>3, <2>4 DEF Shown, ObjectOk, g
  <2>5. CASE /\ r.object[g] = s.object[g]
             /\ s.object[g] # Dangling => r.val[s.object[g]] = s.val[s.object[g]]
    BY <1>4, <2>1, <2>2, <2>3, <2>5 DEF Shown, ObjectOk
  <2> QED
    BY <2>2, <2>4, <2>5
<1> QED
  BY <1>2, <1>3, <1>4

\* A copy that was made shows what its source showed, and so does the source
LEMMA CopyShows ==
  ASSUME Good(m), Running, NEW v \in Variants, NEW u \in Variants, u # v,
         NEW p, Vacant(p, v), p.fault = "none", NEW h, NEW r \in Paired, Untouched(p, r, u),
         CopyMade(p, r, v, u, h), ObjectOk(m, u), Survives(v, u)
  PROVE  /\ Shown(r, v) = Shown(m, u) /\ Shown(r, u) = Shown(m, u)
         /\ Held(r, v) = Held(r, u) => m.object[m.impl[u]] # m.impl[u]
<1> DEFINE g == m.impl[u]
           o == m.object[g]
<1>0. Untouched(m, p, u) /\ Kept(m, p, v) /\ Ready(p, v)
  BY DEF Vacant
<1>1. /\ p.deleter[u] = m.deleter[u] /\ p.member[u] = m.member[u]
      /\ p.impl[u] = g /\ p.val[u] = m.val[u]
      /\ r.deleter[u] = p.deleter[u] /\ r.member[u] = p.member[u]
      /\ r.impl[u] = p.impl[u] /\ r.val[u] = p.val[u]
  BY <1>0 DEF Untouched
<1>U. /\ HolderOk(m, u) <=> MemberOk(m, u)
      /\ HolderOk(r, u) <=> MemberOk(r, u)
      /\ HolderOk(r, v) <=> MemberOk(r, v)
  BY GetterFinds DEF Good
<1>2. CASE isEmbedded(m, u)
  <2>1. isEmbedded(p, u) /\ isValid(m, u) /\ m.member[u] = m.deleter[u] /\ m.deleter[u] # "DEFAULT"
    BY <1>1, <1>2, <1>U DEF isEmbedded, ObjectOk, MemberOk
  <2>2. r.deleter[v] = m.deleter[u] /\ r.member[v] = m.deleter[u] /\ r.val[v] = m.val[u]
    BY <1>1, <2>1 DEF CopyMade
  <2>3. u # Dangling /\ v # Dangling
    BY MemoryAssumption DEF Objects
  <2>4. /\ Held(r, v) = v /\ Held(r, u) = u /\ Held(m, u) = u
        /\ TypeOf(r, v) = m.deleter[u] /\ TypeOf(r, u) = m.deleter[u] /\ TypeOf(m, u) = m.deleter[u]
        /\ HolderOk(r, v) /\ HolderOk(r, u) /\ HolderOk(m, u)
    BY <1>1, <1>U, <2>1, <2>2 DEF Held, TypeOf, MemberOk, isEmbedded, isValid
  <2> QED
    BY <1>1, <2>2, <2>3, <2>4 DEF Shown, ObjectOk
<1>3. CASE ~isEmbedded(m, u)
  <2>1. /\ m.deleter[u] = "DEFAULT" /\ m.member[u] = "DEFAULT" /\ g # NullPtr /\ o # Dangling
        /\ ~isEmbedded(p, u) /\ Held(m, u) = o
    BY <1>1, <1>3, <1>U DEF isEmbedded, ObjectOk, MemberOk, Held
  <2>2. g \in Holders /\ u \in m.owners[g] /\ u \in p.owners[g]
    BY <1>0, <1>1, <2>1 DEF Good, Paired, Memory, Running, Exact, Ready
  <2>3. p.object[g] = o
    BY <1>0, <2>1, <2>2 DEF Kept, Survives
  <2> DEFINE pg == p.object[g]
  <2>4. /\ p.type[g] = m.type[g]
        /\ \/ /\ p.object[g] = o
              /\ o # Dangling => p.val[o] = m.val[o]
           \/ p.object[g] = Dangling /\ o # g
    BY <1>0, <2>1 DEF Untouched
  <2>5. p.val[o] = m.val[o]
    BY <2>1, <2>3, <2>4
  <2>6. /\ r.deleter[v] = "DEFAULT" /\ r.member[v] = "DEFAULT" /\ r.impl[v] = h
        /\ h \in Holders /\ p.owners[h] = {} /\ r.type[h] = p.type[g]
        /\ \A f \in Holders \ {h} : r.object[f] = p.object[f]
        /\ p.object[g] = g => r.object[h] = h /\ r.val[h] = p.val[g]
        /\ p.object[g] # g => r.object[h] = p.object[g] /\ r.val = p.val
    BY <1>1, <2>1 DEF CopyMade
  <2>7. h # g /\ h # NullPtr /\ h # Dangling
    BY <2>2, <2>6, MemoryAssumption DEF Objects
  <2>8. r.object[g] = o
    BY <2>2, <2>3, <2>6, <2>7
  <2>9. /\ r.type[p.impl[u]] = p.type[p.impl[u]]
        /\ \/ /\ r.object[p.impl[u]] = p.object[p.impl[u]]
              /\ p.object[p.impl[u]] # Dangling => r.val[p.object[p.impl[u]]] = p.val[p.object[p.impl[u]]]
           \/ r.object[p.impl[u]] = Dangling /\ p.object[p.impl[u]] # p.impl[u]
    BY <1>1, <2>1 DEF Untouched
  <2>10. r.type[g] = p.type[g] /\ r.val[o] = p.val[o]
    BY <1>1, <2>1, <2>3, <2>8, <2>9
  <2>11. /\ Held(r, u) = o /\ Held(r, v) = r.object[h] /\ HolderOk(r, u) /\ HolderOk(r, v)
         /\ HolderOk(m, u) /\ TypeOf(r, u) = r.type[g] /\ TypeOf(r, v) = r.type[h]
         /\ TypeOf(m, u) = m.type[g]
    BY <1>1, <1>U, <2>1, <2>6, <2>7, <2>8 DEF Held, MemberOk, TypeOf, isEmbedded, isValid
  <2>12. r.object[h] # Dangling /\ r.val[r.object[h]] = m.val[o] /\ (r.object[h] = o => o # g)
    <3>1. CASE o = g
      BY <2>3, <2>5, <2>6, <2>7, <3>1
    <3>2. CASE o # g
      BY <2>1, <2>3, <2>5, <2>6, <3>2
    <3> QED
      BY <3>1, <3>2
  <2> HIDE DEF g, o
  <2>13. Shown(r, v) = Shown(m, u)
    BY <2>1, <2>4, <2>6, <2>11, <2>12 DEF Shown, ObjectOk
  <2>14. Shown(r, u) = Shown(m, u)
    BY <2>1, <2>4, <2>5, <2>10, <2>11 DEF Shown, ObjectOk
  <2> QED
    BY <2>11, <2>12, <2>13, <2>14 DEF g, o
<1> QED
  BY <1>2, <1>3

-----------------------------------------------------------------------------
(* The calls, one by one: those that make or replace a value                *)

\* A call that throws before there is a variant leaves the memory as it was
LEMMA NothingMade ==
  ASSUME Good(m), Running, NEW call, call.target \in Variants, ~Alive(call.target),
         call.op \notin {"copy", "move"}, call.end = "threw"
  PROVE  StepOk(m, call)
<1>1. \A w \in Variants : Untouched(m, m, w)
  BY DEF Untouched
<1> QED
  BY <1>1 DEF StepOk, Apart, Contained, Copied, Handed, Alive, Running

LEMMA CtorEmptyOk ==
  ASSUME Good(m), NEW v \in Variants, CtorEmpty(v)
  PROVE  StepOk(m', last')
<1>1. /\ Running /\ ~Alive(v) /\ m' = Tagged(m, v, "NULL")
      /\ last' = [op |-> "ctor", target |-> v, source |-> v, end |-> "returned"]
  BY DEF CtorEmpty, Call
<1>2. Vacant(m, v)
  BY <1>1, DeadVacant
<1>3. Good(m') /\ m'.fault = m.fault /\ \A w \in Variants \ {v} : Untouched(m, m', w)
  BY <1>1, <1>2, TaggedGood DEF Vacant
<1> QED
  BY <1>1, <1>2, <1>3, Refilled

\* An embedded value, or a string whose copy threw, put into the vacant v
LEMMA EmbeddedRefilled ==
  ASSUME Good(m), NEW v \in Variants, NEW p, Vacant(p, v), NEW tag \in Embedded,
         NEW x \in Values, NEW call, call.target = v, call.op \notin {"copy", "move"}
  PROVE  /\ call.end = "returned" => StepOk(PlaceEmbedded(p, v, tag, x), call)
         /\ call.end = "threw" => StepOk(Tagged(p, v, "STRING"), call)
<1>0. Ready(p, v)
  BY DEF Vacant
<1>1. ASSUME call.end = "returned" PROVE StepOk(PlaceEmbedded(p, v, tag, x), call)
  <2> DEFINE r == PlaceEmbedded(p, v, tag, x)
  <2>1. /\ Good(r) /\ r.fault = p.fault
        /\ \A w \in Variants \ {v} : p.fault = "none" => Untouched(p, r, w)
    BY <1>0, PlaceEmbeddedGood
  <2> HIDE DEF r
  <2>2. StepOk(r, call)
    BY <1>1, <2>1, Refilled
  <2> QED
    BY <2>2 DEF r
<1>2. ASSUME call.end = "threw" PROVE StepOk(Tagged(p, v, "STRING"), call)
  <2> DEFINE r == Tagged(p, v, "STRING")
  <2>1. /\ Good(r) /\ r.fault = p.fault /\ r.deleter[v] = "STRING" /\ r.member = p.member
        /\ \A w \in Variants \ {v} : Untouched(p, r, w)
    BY <1>0, TaggedGood
  <2> HIDE DEF r
  <2>2. r.fault = "none" => Mistagged(r, v)
    BY <1>0, <2>1 DEF Ready, Mistagged
  <2>3. StepOk(r, call)
    BY <1>2, <2>1, <2>2, Refilled
  <2> QED
    BY <2>3 DEF r
<1> QED
  BY <1>1, <1>2

LEMMA CtorEmbeddedOk ==
  ASSUME Good(m), NEW v \in Variants, CtorEmbedded(v)
  PROVE  StepOk(m', last')
<1>1. Running /\ ~Alive(v) /\ Vacant(m, v)
  BY DeadVacant DEF CtorEmbedded
<1>2. PICK tag \in Embedded, x \in Values :
        \/ Call("ctor", v, v, "returned", PlaceEmbedded(m, v, tag, x))
        \/ Call("ctor", v, v, "threw", m)
  BY DEF CtorEmbedded
<1>3. CASE Call("ctor", v, v, "returned", PlaceEmbedded(m, v, tag, x))
  BY <1>1, <1>3, EmbeddedRefilled DEF Call
<1>4. CASE Call("ctor", v, v, "threw", m)
  BY <1>1, <1>4, NothingMade DEF Call
<1> QED
  BY <1>2, <1>3, <1>4

LEMMA AssignEmbeddedOk ==
  ASSUME Good(m), NEW v \in Variants, AssignEmbedded(v)
  PROVE  StepOk(m', last')
<1> DEFINE p == deleter(m, v)
<1>1. Vacant(p, v)
  BY DestroyedVacant DEF AssignEmbedded
<1>2. PICK tag \in Embedded, x \in Values :
        \/ Call("set", v, v, "returned", PlaceEmbedded(p, v, tag, x))
        \/ tag = "STRING" /\ Call("set", v, v, "threw", Tagged(p, v, tag))
  BY DEF AssignEmbedded
<1> HIDE DEF p
<1>3. CASE Call("set", v, v, "returned", PlaceEmbedded(p, v, tag, x))
  BY <1>1, <1>3, EmbeddedRefilled DEF Call
<1>4. CASE tag = "STRING" /\ Call("set", v, v, "threw", Tagged(p, v, tag))
  BY <1>1, <1>4, EmbeddedRefilled DEF Call
<1> QED
  BY <1>2, <1>3, <1>4

LEMMA DtorOk ==
  ASSUME Good(m), NEW v \in Variants, Dtor(v)
  PROVE  StepOk(m', last')
<1> DEFINE p == deleter(m, v)
<1>1. Vacant(p, v)
  BY DestroyedVacant DEF Dtor
<1>2. /\ m' = Tagged(p, v, "dead")
      /\ last' = [op |-> "dtor", target |-> v, source |-> v, end |-> "returned"]
  BY DEF Dtor, Call
<1> HIDE DEF p
<1>3. Good(m') /\ m'.fault = p.fault /\ \A w \in Variants \ {v} : Untouched(p, m', w)
  BY <1>1, <1>2, TaggedGood DEF Vacant
<1> QED
  BY <1>1, <1>2, <1>3, Refilled

\* A new ValueHolder<T> or ValueHolder<T&> put into the vacant v
LEMMA HolderRefilled ==
  ASSUME Good(m), NEW v \in Variants, NEW p, Vacant(p, v), NEW h \in FreeHolders(p),
         NEW t, t \in Types \union {Dangling}, p.fault = "none" => t \in Types,
         NEW call, call.target = v, call.op \notin {"copy", "move"}, call.end = "returned"
  PROVE  /\ \A x \in Values \union {Dangling} :
              StepOk(PlaceImpl(NewHolder(p, h, t, x), v, h), call)
         /\ \A o \in Objects \union {Dangling} :
              (p.fault = "none" => o \notin Variants /\ (o \in Holders => p.object[o] = o)) =>
                StepOk(PlaceImpl(NewRefHolder(p, h, t, o), v, h), call)
<1>0. Ready(p, v)
  BY DEF Vacant
<1>1. ASSUME NEW x \in Values \union {Dangling}
      PROVE  StepOk(PlaceImpl(NewHolder(p, h, t, x), v, h), call)
  <2> DEFINE r == PlaceImpl(NewHolder(p, h, t, x), v, h)
  <2>1. /\ Good(r) /\ r.fault = p.fault
        /\ \A w \in Variants \ {v} : p.fault = "none" => Untouched(p, r, w)
    BY <1>0, PlaceNewGood
  <2> HIDE DEF r
  <2>2. StepOk(r, call)
    BY <2>1, Refilled
  <2> QED
    BY <2>2 DEF r
<1>2. ASSUME NEW o \in Objects \union {Dangling},
             p.fault = "none" => o \notin Variants /\ (o \in Holders => p.object[o] = o)
      PROVE  StepOk(PlaceImpl(NewRefHolder(p, h, t, o), v, h), call)
  <2> DEFINE r == PlaceImpl(NewRefHolder(p, h, t, o), v, h)
  <2>1. /\ Good(r) /\ r.fault = p.fault
        /\ \A w \in Variants \ {v} : p.fault = "none" => Untouched(p, r, w)
    BY <1>0, <1>2, PlaceNewRefGood
  <2> HIDE DEF r
  <2>2. StepOk(r, call)
    BY <2>1, Refilled
  <2> QED
    BY <2>2 DEF r
<1> QED
  BY <1>1, <1>2

LEMMA CtorValueOk ==
  ASSUME Good(m), NEW v \in Variants, CtorValue(v)
  PROVE  StepOk(m', last')
<1>1. Running /\ ~Alive(v) /\ Vacant(m, v)
  BY DeadVacant DEF CtorValue
<1>2. PICK h \in FreeHolders(m), t \in Copyable, x \in Values :
        \/ Call("ctor", v, v, "returned", PlaceImpl(NewHolder(m, h, t, x), v, h))
        \/ Call("ctor", v, v, "threw", m)
  BY DEF CtorValue
<1>3. CASE Call("ctor", v, v, "returned", PlaceImpl(NewHolder(m, h, t, x), v, h))
  <2>1. t \in Types
    BY MemoryAssumption
  <2> QED
    BY <1>1, <1>3, <2>1, HolderRefilled DEF Call
<1>4. CASE Call("ctor", v, v, "threw", m)
  BY <1>1, <1>4, NothingMade DEF Call
<1> QED
  BY <1>2, <1>3, <1>4

\* construct<T>, whose old value has gone before a constructor can throw
LEMMA ConstructThrew ==
  ASSUME Good(m), NEW v \in Variants, NEW p, Vacant(p, v), p.deleter[v] = "NULL",
         NEW call, call.target = v, call.op \notin {"copy", "move"}, call.end = "threw"
  PROVE  StepOk(p, call)
<1>1. p.fault = "none" => TagTrue(p, v)
  BY DEF Vacant, Ready, TagTrue
<1>2. Good(p) /\ \A w \in Variants \ {v} : Untouched(p, p, w)
  BY <1>1 DEF Vacant, Ready, Good, Untouched
<1> QED
  BY <1>2, Refilled

LEMMA ConstructOk ==
  ASSUME Good(m), NEW v \in Variants, Construct(v)
  PROVE  StepOk(m', last')
<1> DEFINE p == Tagged(deleter(m, v), v, "NULL")
<1>1. Vacant(p, v) /\ p.deleter[v] = "NULL"
  BY DestroyedVacant DEF Construct
<1>2. PICK h \in FreeHolders(p), t \in Types, x \in Values :
        \/ Call("construct", v, v, "returned", PlaceImpl(NewHolder(p, h, t, x), v, h))
        \/ Call("construct", v, v, "threw", p)
  BY DEF Construct
<1> HIDE DEF p
<1>3. CASE Call("construct", v, v, "returned", PlaceImpl(NewHolder(p, h, t, x), v, h))
  BY <1>1, <1>3, HolderRefilled DEF Call
<1>4. CASE Call("construct", v, v, "threw", p)
  BY <1>1, <1>4, ConstructThrew DEF Call
<1> QED
  BY <1>2, <1>3, <1>4

LEMMA ConstructExternalRefOk ==
  ASSUME Good(m), NEW v \in Variants, ConstructExternalRef(v)
  PROVE  StepOk(m', last')
<1> DEFINE p == Tagged(deleter(m, v), v, "NULL")
<1>1. Vacant(p, v)
  BY DestroyedVacant DEF ConstructExternalRef
<1>2. PICK h \in FreeHolders(p), t \in Types, o \in Externals :
        Call("constructRef", v, v, "returned", PlaceImpl(NewRefHolder(p, h, t, o), v, h))
  BY DEF ConstructExternalRef
<1> HIDE DEF p
<1>3. o \in Objects /\ o \notin Variants /\ o \notin Holders
  BY MemoryAssumption DEF Objects
<1> QED
  BY <1>1, <1>2, <1>3, HolderRefilled DEF Call

-----------------------------------------------------------------------------
(* Those that go through the object of another variant                      *)

\* The object a usable variant holds in a holder: it has a type, and is not
\* the embedded value of a variant
LEMMA HeldObject ==
  ASSUME Good(m), Running, NEW u \in Variants, ObjectOk(m, u), ~isEmbedded(m, u)
  PROVE  /\ m.impl[u] \in Holders /\ u \in m.owners[m.impl[u]]
         /\ Held(m, u) = m.object[m.impl[u]] /\ Held(m, u) \in Objects \ Variants
         /\ TypeOf(m, u) \in Types
         /\ Held(m, u) \in Holders => m.object[Held(m, u)] = Held(m, u)
<1> DEFINE g == m.impl[u]
<1>1. m.member[u] = "DEFAULT" /\ g \in Holders /\ Held(m, u) = m.object[g] /\ Held(m, u) # Dangling
  BY DEF ObjectOk, HolderOk, isEmbedded, Held, Good, Paired, Memory
<1>2. u \in m.owners[g]
  BY <1>1 DEF Good, Running, Exact
<1>3. m.object[g] \in Objects \union {Dangling} /\ TypeOf(m, u) = m.type[g]
  BY <1>1 DEF Good, Paired, Memory, TypeOf
<1>4. /\ m.type[g] \in Types /\ m.object[g] \notin Variants
      /\ m.object[g] \in Holders => m.object[m.object[g]] = m.object[g]
  BY <1>1, <1>2 DEF Good, Running, HoldersTrue
<1> QED
  BY <1>1, <1>2, <1>3, <1>4

LEMMA ConstructFromOk ==
  ASSUME Good(m), NEW v \in Variants, NEW u \in Variants, ConstructFrom(v, u)
  PROVE  StepOk(m', last')
<1> DEFINE p    == Tagged(deleter(m, v), v, "NULL")
           o    == Held(m, u)
           over == o \in Holders /\ p.object[o] # o
<1>1. Running /\ Vacant(p, v) /\ p.deleter[v] = "NULL"
  BY DestroyedVacant DEF ConstructFrom
<1>2. /\ o \in Objects /\ TypeOf(m, u) \in Types /\ o = m.object[m.impl[u]]
      /\ o \in Holders => m.object[o] = o
  BY <1>1, HeldObject DEF ConstructFrom
<1>3. PICK h \in FreeHolders(p) :
        \/ Call("constructFrom", v, u, "returned",
                IF over THEN Undefined(p)
                ELSE PlaceImpl(NewHolder(p, h, TypeOf(m, u), p.val[o]), v, h))
        \/ Call("constructFrom", v, u, "threw", p)
  BY DEF ConstructFrom
<1> HIDE DEF p, o
<1>4. CASE over /\ Call("constructFrom", v, u, "returned", Undefined(p))
  <2>1. m'.fault = "undefined" /\ Good(m')
    BY <1>1, <1>4, FaultStays DEF Call, Vacant, Ready, Good
  <2>2. p.fault = "none" => ~Survives(v, u)
    BY <1>1, <1>2, <1>4 DEF Vacant, Kept, Survives, o
  <2>3. p.fault # "none" => Mistagged(m, v)
    BY <1>1 DEF Vacant
  <2>4. last' = [op |-> "constructFrom", target |-> v, source |-> u, end |-> "returned"]
    BY <1>4 DEF Call
  <2> QED
    BY <2>1, <2>2, <2>3, <2>4 DEF StepOk, Misuse, StringThrew
<1>5. CASE Call("constructFrom", v, u, "returned",
                PlaceImpl(NewHolder(p, h, TypeOf(m, u), p.val[o]), v, h))
  <2>1. p.val[o] \in Values \union {Dangling}
    BY <1>1, <1>2 DEF Vacant, Ready, Paired, Memory
  <2> QED
    BY <1>1, <1>2, <1>5, <2>1, HolderRefilled DEF Call
<1>6. CASE Call("constructFrom", v, u, "threw", p)
  BY <1>1, <1>6, ConstructThrew DEF Call
<1> QED
  BY <1>3, <1>4, <1>5, <1>6

LEMMA ConstructRefOk ==
  ASSUME Good(m), NEW v \in Variants, NEW u \in Variants, ConstructRef(v, u)
  PROVE  StepOk(m', last')
<1> DEFINE p    == Tagged(deleter(m, v), v, "NULL")
           o    == Held(m, u)
           left == IF o \in Holders /\ p.object[o] # o THEN Dangling ELSE o
<1>1. Vacant(p, v)
  BY DestroyedVacant DEF ConstructRef
<1>2. o \in Objects \ Variants /\ TypeOf(m, u) \in Types
  BY HeldObject DEF ConstructRef
<1>3. PICK h \in FreeHolders(p) :
        Call("constructRef", v, u, "returned",
             PlaceImpl(NewRefHolder(p, h, TypeOf(m, u), left), v, h))
  BY DEF ConstructRef
<1> HIDE DEF p, o
<1>4. /\ left \in Objects \union {Dangling} /\ left \notin Variants
      /\ left \in Holders => p.object[left] = left
  BY <1>2, MemoryAssumption DEF Objects
<1> HIDE DEF left
<1> QED
  BY <1>1, <1>2, <1>3, <1>4, HolderRefilled DEF Call

\* In a memory where the tags are true, a member that is not the tag's is a
\* string's that was never made
LEMMA MemberMissing ==
  ASSUME Good(m), Running, NEW u \in Variants, Alive(u), isValid(m, u),
         m.member[u] # m.deleter[u]
  PROVE  Mistagged(m, u)
BY DEF Good, Running, Alive, isValid, TagTrue

LEMMA CreateReferenceOk ==
  ASSUME Good(m), NEW v \in Variants, NEW u \in Variants, createReference(v, u)
  PROVE  StepOk(m', last')
<1>1. Running /\ ~Alive(v) /\ Alive(u) /\ Vacant(m, v) /\ Ready(m, v) /\ u # v
  BY DeadVacant DEF createReference, Vacant
<1>2. CASE Call("reference", v, u, "threw", m)
  BY <1>1, <1>2, NothingMade DEF Call
<1>3. CASE isValid(m, u) /\ isEmbedded(m, u) /\ Call("reference", v, u, "returned", MoveFrom(m, v, u, FALSE))
  <2> DEFINE r == MoveFrom(m, v, u, FALSE)
  <2>1. /\ Good(r)
        /\ r.fault = "none" => /\ \A w \in Variants \ {v, u} : Untouched(m, r, w)
                               /\ Untouched(m, r, u)
        /\ r.fault # "none" => isValid(m, u) /\ m.member[u] # m.deleter[u]
    BY <1>1, <1>3, MoveFromOk DEF Alive, Running
  <2>2. m' = r /\ last' = [op |-> "reference", target |-> v, source |-> u, end |-> "returned"]
    BY <1>3 DEF Call
  <2> HIDE DEF r
  <2>3. r.fault # "none" => Mistagged(m, u)
    BY <1>1, <2>1, MemberMissing
  <2> QED
    BY <2>1, <2>2, <2>3 DEF StepOk, Apart, Contained, Copied, Handed, StringThrew
<1>4. CASE Call("reference", v, u, "threw", Undefined(m))
  <2>1. m'.fault = "undefined" /\ Good(m')
    BY <1>4, FaultStays DEF Call, Good
  <2> QED
    BY <1>4, <2>1 DEF StepOk, StringThrew, Call
<1>5. CASE ~isEmbedded(m, u) /\ Call("reference", v, u, "returned",
             IF m.member[u] # "DEFAULT" THEN Undefined(m) ELSE PlaceImpl(m, v, m.impl[u]))
  <2> DEFINE g == m.impl[u]
             r == PlaceImpl(m, v, g)
  <2>1. m.member[u] = "DEFAULT" /\ g \in Holders \union {NullPtr}
    BY <1>1, <1>5 DEF Good, Running, isEmbedded, TagTrue, Mistagged, Paired, Memory
  <2>2. g # NullPtr => m.owners[g] # {}
    BY <1>1, <2>1 DEF Good, Running, Exact
  <2>3. /\ Good(r) /\ r.fault = m.fault
        /\ \A w \in Variants \ {v} : Untouched(m, r, w)
    BY <1>1, <2>1, <2>2, PlaceImplGood
  <2>4. m' = r /\ last' = [op |-> "reference", target |-> v, source |-> u, end |-> "returned"]
    BY <1>5, <2>1 DEF Call
  <2> HIDE DEF r
  <2> QED
    BY <1>1, <2>3, <2>4, Refilled
<1> QED
  BY <1>2, <1>3, <1>4, <1>5 DEF createReference

-----------------------------------------------------------------------------
(* Copies and moves, into a new variant and into one that had a value       *)

\* A source the call cannot use, seen from before the old value of v has gone
LEMMA SourceMisused ==
  ASSUME Good(m), Running, NEW v \in Variants, NEW u \in Variants, Alive(u), NEW p,
         Vacant(p, v), p.fault = "none", p.deleter = m.deleter, isValid(p, u),
         NEW op \in {"copy", "move"}, NEW end
  PROVE  LET call == [op |-> op, target |-> v, source |-> u, end |-> end]
         IN  /\ p.member[u] # p.deleter[u] => Misuse(op, v, u) \/ StringThrew(call)
             /\ op = "copy" /\ ~MemberOk(p, u) => Misuse(op, v, u) \/ StringThrew(call)
<1> DEFINE call == [op |-> op, target |-> v, source |-> u, end |-> end]
<1>1. call.op = op /\ call.target = v /\ call.source = u
  OBVIOUS
<1> HIDE DEF call
<1>2. isValid(m, u)
  BY DEF isValid
<1>3. CASE u = v
  BY <1>2, <1>3 DEF Misuse
<1>4. CASE u # v
  <2>1. p.member[u] = m.member[u] /\ p.impl[u] = m.impl[u]
    BY <1>4 DEF Vacant, Untouched
  <2>2. ASSUME p.member[u] # p.deleter[u] PROVE StringThrew(call)
    BY <1>1, <1>2, <2>1, <2>2, MemberMissing DEF StringThrew
  <2>3. ASSUME op = "copy", ~MemberOk(p, u), p.member[u] = p.deleter[u] PROVE Misuse(op, v, u)
    BY <2>1, <2>3 DEF MemberOk, isEmbedded, Misuse, MovedFrom
  <2> QED
    BY <2>2, <2>3 DEF call
<1> QED
  BY <1>3, <1>4 DEF call

\* The variant that was not made
LEMMA DeadAfter ==
  ASSUME NEW r, Good(r), NEW v \in Variants, r.fault = "none" => LeftEmpty(r, v)
  PROVE  LET q == Tagged(r, v, "dead")
         IN  /\ Good(q) /\ q.fault = r.fault /\ q.deleter[v] = "dead"
             /\ \A w \in Variants \ {v} : Untouched(r, q, w)
<1>1. Ready(r, v)
  BY DEF Good, Ready, LeftEmpty
<1> QED
  BY <1>1, TaggedGood

LEMMA CopyStep ==
  ASSUME Good(m), Running, NEW v \in Variants, NEW u \in Variants, Alive(u), NEW p,
         Vacant(p, v), p.deleter = m.deleter, NEW h \in FreeHolders(p), NEW throws \in BOOLEAN,
         throws => CopyMayThrow(p, u)
  PROVE  LET r    == CopyFrom(p, v, u, h, throws)
             end  == Ends(throws \/ Uncloned(p, u, r, v))
             call == [op |-> "copy", target |-> v, source |-> u, end |-> end]
         IN  StepOk(r, call) /\ (v # u => StepOk(OrDead(r, v, end), call))
<1> DEFINE r    == CopyFrom(p, v, u, h, throws)
           bad  == throws \/ Uncloned(p, u, r, v)
           end  == Ends(bad)
           call == [op |-> "copy", target |-> v, source |-> u, end |-> end]
<1>1. /\ Good(r)
      /\ r.fault = "none" =>
           p.fault = "none" /\ \A w \in Variants \ {v} : Untouched(p, r, w)
      /\ p.fault = "none" /\ r.fault # "none" => isValid(p, u) /\ ~MemberOk(p, u)
      /\ r.fault = "none" =>
           IF bad THEN LeftEmpty(r, v) ELSE isValid(p, u) => CopyMade(p, r, v, u, h)
  BY CopyFromOk DEF Vacant, Alive
<1> HIDE DEF r, bad
<1>2. /\ call.op = "copy" /\ call.target = v /\ call.source = u
      /\ call.end = IF bad THEN "threw" ELSE "returned"
  BY DEF Ends
<1>3. r.fault = "none" => \A w \in Variants \ {v} : Untouched(m, r, w)
  BY <1>1, UntouchedTwice DEF Vacant
<1>4. r.fault # "none" => Misuse("copy", v, u) \/ StringThrew(call)
  <2>1. CASE p.fault = "none"
    BY <1>1, <2>1, SourceMisused
  <2>2. CASE p.fault # "none"
    BY <1>2, <2>2 DEF Vacant, StringThrew
  <2> QED
    BY <2>1, <2>2
<1> HIDE DEF call
<1>5. ASSUME r.fault = "none", ~bad, v # u, ObjectOk(m, u), Survives(v, u)
      PROVE  /\ Shown(r, v) = Shown(m, u) /\ Shown(r, u) = Shown(m, u)
             /\ Held(r, v) = Held(r, u) => m.object[m.impl[u]] # m.impl[u]
  <2>1. isValid(p, u)
    BY <1>5 DEF isValid, ObjectOk, HolderOk
  <2>2. r \in Paired
    BY <1>1 DEF Good
  <2> QED
    BY <1>1, <1>5, <2>1, <2>2, CopyShows
<1>6. StepOk(r, call)
  <2>1. r.fault = "none" => Apart(r, call)
    BY <1>2, <1>3 DEF Apart
  <2>2. r.fault = "none" => Contained(r, call)
    BY <1>1, <1>2 DEF Contained, LeftEmpty, Mistagged
  <2>3. r.fault = "none" => Copied(r, call)
    BY <1>2, <1>5 DEF Copied
  <2> QED
    BY <1>1, <1>2, <1>4, <2>1, <2>2, <2>3 DEF StepOk, Handed
<1>7. bad => StepOk(Tagged(r, v, "dead"), call)
  <2> DEFINE q == Tagged(r, v, "dead")
  <2> SUFFICES ASSUME bad PROVE StepOk(q, call)
    OBVIOUS
  <2>1. /\ Good(q) /\ q.fault = r.fault /\ q.deleter[v] = "dead"
        /\ \A w \in Variants \ {v} : Untouched(r, q, w)
    BY <1>1, DeadAfter
  <2> HIDE DEF q
  <2>2. q.fault = "none" => \A w \in Variants \ {v} : Untouched(m, q, w)
    BY <1>3, <2>1, UntouchedTwice
  <2> QED
    BY <1>2, <1>4, <2>1, <2>2 DEF StepOk, Apart, Contained, Copied, Handed
<1> QED
  BY <1>6, <1>7 DEF OrDead, Ends, r, call, bad

LEMMA CtorCopyOk ==
  ASSUME Good(m), NEW v \in Variants, NEW u \in Variants, CtorCopy(v, u)
  PROVE  StepOk(m', last')
<1>1. Running /\ ~Alive(v) /\ Alive(u) /\ u # v /\ Vacant(m, v)
  BY DeadVacant DEF CtorCopy
<1>2. PICK h \in FreeHolders(m), throws \in BOOLEAN :
        LET after == CopyFrom(m, v, u, h, throws)
            end   == Ends(throws \/ Uncloned(m, u, after, v))
        IN  /\ throws => CopyMayThrow(m, u)
            /\ Call("copy", v, u, end, OrDead(after, v, end))
  BY DEF CtorCopy
<1> QED
  BY <1>1, <1>2, CopyStep DEF Call

LEMMA AssignCopyOk ==
  ASSUME Good(m), NEW v \in Variants, NEW u \in Variants, AssignCopy(v, u)
  PROVE  StepOk(m', last')
<1> DEFINE p == deleter(m, v)
<1>1. Running /\ Alive(u) /\ Vacant(p, v) /\ p.deleter = m.deleter
  BY DestroyedVacant DEF AssignCopy
<1>2. PICK h \in FreeHolders(p), throws \in BOOLEAN :
        LET after == CopyFrom(p, v, u, h, throws)
        IN  /\ throws => CopyMayThrow(p, u)
            /\ Call("copy", v, u, Ends(throws \/ Uncloned(p, u, after, v)), after)
  BY DEF AssignCopy
<1> HIDE DEF p
<1> QED
  BY <1>1, <1>2, CopyStep DEF Call

LEMMA MoveStep ==
  ASSUME Good(m), Running, NEW v \in Variants, NEW u \in Variants, Alive(u), NEW p,
         Vacant(p, v), p.deleter = m.deleter, NEW throws \in BOOLEAN, throws => MoveMayThrow(p, u)
  PROVE  LET r    == MoveFrom(p, v, u, throws)
             call == [op |-> "move", target |-> v, source |-> u, end |-> Ends(throws)]
         IN  StepOk(r, call) /\ (v # u => StepOk(OrDead(r, v, Ends(throws)), call))
<1> DEFINE r    == MoveFrom(p, v, u, throws)
           call == [op |-> "move", target |-> v, source |-> u, end |-> Ends(throws)]
<1>1. /\ Good(r)
      /\ r.fault = "none" =>
           /\ p.fault = "none" /\ \A w \in Variants \ {v, u} : Untouched(p, r, w)
           /\ isEmbedded(p, u) /\ u # v => Untouched(p, r, u)
           /\ ~isEmbedded(p, u) =>
                u # v /\ r.impl[v] = p.impl[u] /\ r.impl[u] = NullPtr
           /\ throws => LeftEmpty(r, v) /\ isEmbedded(p, u)
      /\ p.fault = "none" /\ r.fault # "none" =>
           isValid(p, u) /\ p.member[u] # p.deleter[u]
  BY MoveFromOk DEF Vacant, Alive
<1> HIDE DEF r
<1>2. /\ call.op = "move" /\ call.target = v /\ call.source = u
      /\ call.end = IF throws THEN "threw" ELSE "returned"
  BY DEF Ends
<1>3. /\ r.fault = "none" => \A w \in Variants \ {v, u} : Untouched(m, r, w)
      /\ r.fault = "none" /\ throws /\ u # v => Untouched(m, r, u)
  BY <1>1, UntouchedTwice DEF Vacant
<1>4. r.fault # "none" => Misuse("move", v, u) \/ StringThrew(call)
  <2>1. CASE p.fault = "none"
    BY <1>1, <2>1, SourceMisused
  <2>2. CASE p.fault # "none"
    BY <1>2, <2>2 DEF Vacant, StringThrew
  <2> QED
    BY <2>1, <2>2
<1> HIDE DEF call
<1>5. ASSUME r.fault = "none", v # u, ~isEmbedded(m, u)
      PROVE  r.impl[v] = m.impl[u] /\ r.impl[u] = NullPtr
  <2>1. p.impl[u] = m.impl[u] /\ ~isEmbedded(p, u)
    BY <1>1, <1>5 DEF Vacant, Untouched, isEmbedded
  <2> QED
    BY <1>1, <1>5, <2>1
<1>6. StepOk(r, call)
  <2>1. r.fault = "none" => Apart(r, call)
    BY <1>2, <1>3 DEF Apart
  <2>2. r.fault = "none" => Contained(r, call)
    BY <1>1, <1>2 DEF Contained, LeftEmpty, Mistagged
  <2>3. r.fault = "none" => Handed(r, call)
    BY <1>2, <1>5 DEF Handed
  <2> QED
    BY <1>1, <1>2, <1>4, <2>1, <2>2, <2>3 DEF StepOk, Copied
<1>7. throws => StepOk(Tagged(r, v, "dead"), call)
  <2> DEFINE q == Tagged(r, v, "dead")
  <2> SUFFICES ASSUME throws PROVE StepOk(q, call)
    OBVIOUS
  <2>1. /\ Good(q) /\ q.fault = r.fault /\ q.deleter[v] = "dead"
        /\ \A w \in Variants \ {v} : Untouched(r, q, w)
    BY <1>1, DeadAfter
  <2> HIDE DEF q
  <2>2. q.fault = "none" => \A w \in Variants \ {v} : Untouched(m, q, w)
    BY <1>3, <2>1, UntouchedTwice
  <2> QED
    BY <1>2, <1>4, <2>1, <2>2 DEF StepOk, Apart, Contained, Copied, Handed
<1> QED
  BY <1>6, <1>7 DEF OrDead, Ends, r, call

LEMMA CtorMoveOk ==
  ASSUME Good(m), NEW v \in Variants, NEW u \in Variants, CtorMove(v, u)
  PROVE  StepOk(m', last')
<1>1. Running /\ ~Alive(v) /\ Alive(u) /\ u # v /\ Vacant(m, v)
  BY DeadVacant DEF CtorMove
<1>2. PICK throws \in BOOLEAN :
        /\ throws => MoveMayThrow(m, u)
        /\ Call("move", v, u, Ends(throws), OrDead(MoveFrom(m, v, u, throws), v, Ends(throws)))
  BY DEF CtorMove
<1> QED
  BY <1>1, <1>2, MoveStep DEF Call

LEMMA AssignMoveOk ==
  ASSUME Good(m), NEW v \in Variants, NEW u \in Variants, AssignMove(v, u)
  PROVE  StepOk(m', last')
<1> DEFINE p == deleter(m, v)
<1>1. Running /\ Alive(u) /\ Vacant(p, v) /\ p.deleter = m.deleter
  BY DestroyedVacant DEF AssignMove
<1>2. PICK throws \in BOOLEAN :
        /\ throws => MoveMayThrow(p, u)
        /\ Call("move", v, u, Ends(throws), MoveFrom(p, v, u, throws))
  BY DEF AssignMove
<1> HIDE DEF p
<1> QED
  BY <1>1, <1>2, MoveStep DEF Call

-----------------------------------------------------------------------------
(* assign and the accessors                                                 *)

LEMMA NotUsable ==
  ASSUME Good(m), Running, NEW u \in Variants, Alive(u), isValid(m, u), ~ObjectOk(m, u)
  PROVE  Mistagged(m, u) \/ MovedFrom(u) \/ RefersToEnded(u)
<1>1. CASE m.member[u] # m.deleter[u]
  BY <1>1, MemberMissing
<1>2. CASE m.member[u] = m.deleter[u] /\ ~isEmbedded(m, u) /\ m.impl[u] = NullPtr
  BY <1>2 DEF isEmbedded, MovedFrom
<1>3. CASE HolderOk(m, u)
  <2>1. Held(m, u) = Dangling
    BY <1>3 DEF ObjectOk
  <2>2. ~isEmbedded(m, u)
    BY <2>1, MemoryAssumption DEF Held, Objects
  <2>3. m.impl[u] # NullPtr /\ m.deleter[u] = "DEFAULT"
    BY <1>3, <2>2 DEF HolderOk, isEmbedded
  <2> QED
    BY <2>1, <2>3 DEF RefersToEnded, MovedFrom
<1> QED
  BY <1>1, <1>2, <1>3, GetterFinds DEF MemberOk, Good

\* A call that crashes for a reason
LEMMA CrashedStep ==
  ASSUME Good(m), NEW call, Misuse(call.op, call.target, call.source) \/ StringThrew(call)
  PROVE  StepOk(Undefined(m), call)
BY FaultStays DEF StepOk, Good

\* A call that changes nothing
LEMMA SameStep ==
  ASSUME Good(m), Running, NEW call, call.op \in {"assign", "read"},
         call.end = "threw" => call.op = "read"
  PROVE  StepOk(m, call)
BY DEF StepOk, Apart, Contained, Copied, Handed, Untouched, Running

\* The value both variants show changes, and no other
LEMMA AssignedStep ==
  ASSUME Good(m), Running, NEW v \in Variants, NEW u \in Variants, ObjectOk(m, v),
         NEW x \in Values, NEW end \in {"true", "false"},
         end = "false" => Held(m, v) \notin Variants
  PROVE  StepOk([m EXCEPT !.val[Held(m, v)] = x],
                [op |-> "assign", target |-> v, source |-> u, end |-> end])
<1> DEFINE o    == Held(m, v)
           r    == [m EXCEPT !.val[o] = x]
           call == [op |-> "assign", target |-> v, source |-> u, end |-> end]
<1>1. o \in Objects /\ (o \in Variants => o = v)
  <2>1. CASE isEmbedded(m, v)
    BY <2>1 DEF Held, Objects
  <2>2. CASE ~isEmbedded(m, v)
    BY <2>2, HeldObject
  <2> QED
    BY <2>1, <2>2
<1>2. call.op = "assign" /\ call.target = v /\ call.source = u /\ call.end = end
  OBVIOUS
<1> HIDE DEF call
<1>3. /\ r \in Paired /\ r.deleter = m.deleter /\ r.member = m.member /\ r.impl = m.impl
      /\ r.owners = m.owners /\ r.type = m.type /\ r.object = m.object /\ r.fault = m.fault
      /\ \A q \in Objects \ {o} : r.val[q] = m.val[q]
  <2> HIDE DEF o
  <2> QED
    BY <1>1 DEF Good, Paired, Memory
<1>3V. r.val[o] = x /\ r = [m EXCEPT !.val[o] = r.val[o]]
  <2> HIDE DEF o
  <2> QED
    BY <1>1 DEF Good, Paired, Memory
<1> HIDE DEF r
<1>4. Good(r)
  BY <1>3 DEF Good, Exact, HoldersTrue, TagTrue, Mistagged
<1>5. ASSUME NEW w \in Variants \ {v}, Held(m, w) # o PROVE Untouched(m, r, w)
  <2> DEFINE g == m.impl[w]
  <2>1. w # o /\ w \in Objects
    BY <1>1 DEF Objects
  <2>2. ASSUME m.member[w] = "DEFAULT", g # NullPtr, m.object[g] # Dangling
        PROVE  r.val[m.object[g]] = m.val[m.object[g]]
    <3>1. m.deleter[w] = "DEFAULT"
      BY <2>2 DEF Good, Running, TagTrue, Mistagged
    <3>2. m.object[g] \in Objects
      BY <2>2 DEF Good, Paired, Memory
    <3>3. m.object[g] # o
      BY <1>5, <3>1 DEF Held, isEmbedded
    <3> QED
      BY <1>3, <3>2, <3>3
  <2> QED
    BY <1>3, <2>1, <2>2 DEF Untouched
<1>7. call.end = "false" => HalfAssigned(r, v)
  BY <1>1, <1>2, <1>3V DEF HalfAssigned, o
<1>6. Apart(r, call)
  BY <1>2, <1>5 DEF Apart, o
<1>8. StepOk(r, call)
  BY <1>2, <1>3, <1>4, <1>6, <1>7 DEF StepOk, Contained, Copied, Handed, Running
<1> QED
  BY <1>8 DEF r, call

\* Of the embedded values, only a string's assignment may throw
LEMMA EmbeddedTypes ==
  ASSUME Good(m), Running, NEW v \in Variants, ObjectOk(m, v), isEmbedded(m, v), AssignMayThrow(v)
  PROVE  TypeOf(m, v) = "STRING"
<1>1. MemberOk(m, v) /\ TypeOf(m, v) = m.member[v]
  BY GetterFinds DEF Good, ObjectOk, TypeOf
<1>2. m.member[v] = m.deleter[v] /\ m.deleter[v] \notin {"NULL", "DEFAULT", "dead"}
  BY <1>1 DEF MemberOk, isValid, isEmbedded, Good, Running, TagTrue, Mistagged, Paired, Memory
<1>3. m.member[v] \in Embedded
  BY <1>2 DEF Good, Paired, Memory
<1> QED
  BY <1>1, <1>3 DEF AssignMayThrow

LEMMA AssignOk ==
  ASSUME Good(m), NEW v \in Variants, NEW u \in Variants, assign(v, u)
  PROVE  StepOk(m', last')
<1>1. Running /\ Alive(v) /\ Alive(u)
  BY DEF assign
<1>2. CASE ~HolderOk(m, v) /\ Call("assign", v, u, "crashed", Undefined(m))
  <2>1. ~isValid(m, v) \/ Mistagged(m, v) \/ MovedFrom(v)
    BY <1>1, <1>2, MemberMissing, GetterFinds DEF MemberOk, isEmbedded, MovedFrom, Good
  <2> QED
    BY <1>2, <2>1, CrashedStep DEF Call, Misuse, StringThrew
<1>3. CASE Call("assign", v, u, "false", m)
  BY <1>1, <1>3, SameStep DEF Call
<1>4. CASE /\ HolderOk(m, v) /\ isValid(m, u) /\ (~ObjectOk(m, u) \/ ~ObjectOk(m, v))
           /\ Call("assign", v, u, "crashed", Undefined(m))
  <2>1. isValid(m, v) /\ isValid(m, u)
    BY <1>4 DEF HolderOk
  <2>2. \E w \in {v, u} : Mistagged(m, w) \/ MovedFrom(w) \/ RefersToEnded(w)
    BY <1>1, <1>4, <2>1, NotUsable
  <2> QED
    BY <1>4, <2>2, CrashedStep DEF Call, Misuse, StringThrew
<1>5. CASE /\ ObjectOk(m, v)
           /\ \E x \in Values : Call("assign", v, u, "true", [m EXCEPT !.val[Held(m, v)] = x])
  BY <1>1, <1>5, AssignedStep DEF Call
<1>6. CASE /\ ObjectOk(m, v) /\ AssignMayThrow(v)
           /\ \E x \in Values : /\ TypeOf(m, v) = "STRING" => x = m.val[Held(m, v)]
                                /\ Call("assign", v, u, "false", [m EXCEPT !.val[Held(m, v)] = x])
  <2>1. PICK x \in Values : /\ TypeOf(m, v) = "STRING" => x = m.val[Held(m, v)]
                            /\ Call("assign", v, u, "false", [m EXCEPT !.val[Held(m, v)] = x])
    BY <1>6
  <2>2. CASE isEmbedded(m, v)
    <3>1. TypeOf(m, v) = "STRING"
      BY <1>1, <1>6, <2>2, EmbeddedTypes
    <3>2. [m EXCEPT !.val[Held(m, v)] = m.val[Held(m, v)]] = m
      BY DEF Good, Paired, Memory
    <3> QED
      BY <1>1, <2>1, <3>1, <3>2, SameStep DEF Call
  <2>3. CASE ~isEmbedded(m, v)
    <3>1. Held(m, v) \notin Variants
      BY <1>1, <1>6, <2>3, HeldObject
    <3> QED
      BY <1>1, <1>6, <2>1, <3>1, AssignedStep DEF Call
  <2> QED
    BY <2>2, <2>3
<1> QED
  BY <1>2, <1>3, <1>4, <1>5, <1>6 DEF assign

LEMMA ReadOk ==
  ASSUME Good(m), NEW u \in Variants, Read(u)
  PROVE  StepOk(m', last')
<1>1. Running /\ Alive(u)
  BY DEF Read
<1>2. CASE isValid(m, u) /\ ~ObjectOk(m, u) /\ Call("read", u, u, "crashed", Undefined(m))
  BY <1>1, <1>2, NotUsable, CrashedStep DEF Call, Misuse, StringThrew
<1>3. CASE Call("read", u, u, "threw", m) \/ Call("read", u, u, "returned", m)
  BY <1>1, <1>3, SameStep DEF Call
<1> QED
  BY <1>2, <1>3 DEF Read

-----------------------------------------------------------------------------
(* The theorems                                                             *)

\* Every call keeps its promises
LEMMA EveryCall ==
  ASSUME Good(m), Next, ~Crashed
  PROVE  StepOk(m', last') /\ Running
<1>1. ASSUME NEW v \in Variants,
             \/ CtorEmpty(v) \/ CtorEmbedded(v) \/ CtorValue(v) \/ Dtor(v)
             \/ AssignEmbedded(v) \/ Construct(v) \/ ConstructExternalRef(v) \/ Read(v)
      PROVE  StepOk(m', last') /\ Running
  BY <1>1, CtorEmptyOk, CtorEmbeddedOk, CtorValueOk, DtorOk, AssignEmbeddedOk, ConstructOk,
     ConstructExternalRefOk, ReadOk
  DEF CtorEmpty, CtorEmbedded, CtorValue, Dtor, AssignEmbedded, Construct,
      ConstructExternalRef, Read
<1>2. ASSUME NEW v \in Variants, NEW u \in Variants,
             \/ CtorCopy(v, u) \/ CtorMove(v, u) \/ AssignCopy(v, u) \/ AssignMove(v, u)
             \/ ConstructFrom(v, u) \/ ConstructRef(v, u)
             \/ createReference(v, u) \/ assign(v, u)
      PROVE  StepOk(m', last') /\ Running
  BY <1>2, CtorCopyOk, CtorMoveOk, AssignCopyOk, AssignMoveOk, ConstructFromOk, ConstructRefOk,
     CreateReferenceOk, AssignOk
  DEF CtorCopy, CtorMove, AssignCopy, AssignMove, ConstructFrom, ConstructRef,
      createReference, assign
<1> QED
  BY <1>1, <1>2 DEF Next

LEMMA InitGood == Init => Good(m)
<1> SUFFICES ASSUME Init PROVE Good(m)
  OBVIOUS
<1>1. m \in Paired
  BY MemoryAssumption, EmbeddedNames DEF Init, Paired, Memory, SomeValue, Objects
<1>2. Exact(m) /\ HoldersTrue(m) /\ \A v \in Variants : TagTrue(m, v)
  BY MemoryAssumption DEF Init, Exact, HoldersTrue, TagTrue, Objects
<1> QED
  BY <1>1, <1>2 DEF Good

\* The memory is good in every state of the program
LEMMA VariantInvariant == Spec => []Good(m)
<1>1. ASSUME Good(m), [Next]_vars PROVE Good(m)'
  <2>1. CASE Next /\ ~Crashed
    BY <1>1, <2>1, EveryCall DEF StepOk
  <2>2. CASE vars' = vars \/ Crashed
    BY <1>1, <2>2 DEF Crashed, vars
  <2> QED
    BY <1>1, <2>1, <2>2
<1> QED
  BY InitGood, <1>1, PTL DEF Spec

(***************************************************************************)
(* The memory is well formed and the tags tell the truth about it: what    *)
(* m_deleter destroys is the union member that is really there, after every *)
(* call and every throw of a held object, and m_getter returns its address, *)
(* for any set of the ten numeric members, under its own name or, for a    *)
(* float, under that of m_double.                                          *)
(***************************************************************************)
THEOREM TagsTellTheTruth == Spec => []MemoryOK
<1>1. Good(m) => MemoryOK
  <2> SUFFICES ASSUME Good(m) PROVE MemoryOK
    OBVIOUS
  <2>1. TypeOK
    BY DEF Good, Paired, HoldersTrue, TypeOK
  <2>2. ASSUME Running, NEW v \in Variants
        PROVE  \/ /\ m.deleter[v] \in {"dead", "NULL"} /\ m.getter[v] = m.deleter[v]
                  /\ m.member[v] = "none"
               \/ /\ m.member[v] = m.deleter[v]
                  /\ Named(m.getter[v]) = IF m.member[v] = "FLOAT" THEN "DOUBLE" ELSE m.member[v]
               \/ Mistagged(m, v)
    BY <2>2 DEF Good, Paired, TagTrue, Running, Named
  <2> QED
    BY <2>1, <2>2 DEF MemoryOK, MembersMatchTags
<1> QED
  BY <1>1, VariantInvariant, PTL

(***************************************************************************)
(* The shared_ptrs that count for a holder are those that live in a        *)
(* variant and point to it: none leaks, none is freed under a variant.     *)
(***************************************************************************)
THEOREM NoHolderLeaks == Spec => []OwnersExact
<1>1. Good(m) => OwnersExact
  BY DEF Good, Exact, OwnersExact, Running
<1> QED
  BY <1>1, VariantInvariant, PTL

(***************************************************************************)
(* A call changes what another variant shows only by assigning to the      *)
(* object both show, by ending the object the other one refers to, or by   *)
(* moving from it.                                                         *)
(***************************************************************************)
THEOREM OthersKeepTheirValues == Spec => NoActionAtADistance
<1> DEFINE Apart1 == Running' => \A w \in Variants \ {last'.target} :
       \/ Shown(m', w) = Shown(m, w)
       \/ last'.op = "move" /\ w = last'.source
       \/ last'.op = "assign" /\ Held(m, w) = Held(m, last'.target)
       \/ Held(m, w) # m.impl[w] /\ Held(m', w) = Dangling
<1>1. ASSUME Good(m), [Next]_vars PROVE [Apart1]_vars
  <2>1. CASE Next /\ ~Crashed
    <3>1. StepOk(m', last') /\ Running
      BY <1>1, <2>1, EveryCall
    <3> QED
      BY <1>1, <3>1, ShownUntouched DEF StepOk, Apart, Running, Good
  <2>2. CASE vars' = vars \/ Crashed
    BY <2>2 DEF Crashed
  <2> QED
    BY <1>1, <2>1, <2>2
<1> QED
  BY <1>1, VariantInvariant, PTL DEF Spec, NoActionAtADistance

(***************************************************************************)
(* A copy is equal to its source and independent of it, unless it is a     *)
(* copy of a reference (or the source refers to what the target held); a   *)
(* move hands over the very same object.                                   *)
(***************************************************************************)
THEOREM CopiesEqualTheirSource == Spec => CopiesAreIndependent
<1> DEFINE Equal == Running' /\ last'.end = "returned" =>
       LET v == last'.target  u == last'.source
       IN  /\ last'.op = "copy" /\ v # u /\ ObjectOk(m, u) /\ Survives(v, u) =>
                /\ Shown(m', v) = Shown(m, u) /\ Shown(m', u) = Shown(m, u)
                /\ Held(m', v) = Held(m', u) => m.object[m.impl[u]] # m.impl[u]
           /\ last'.op = "move" /\ v # u /\ ~isEmbedded(m, u) =>
                m'.impl[v] = m.impl[u] /\ m'.impl[u] = NullPtr
<1>1. ASSUME Good(m), [Next]_vars PROVE [Equal]_vars
  <2>1. CASE Next /\ ~Crashed
    BY <1>1, <2>1, EveryCall DEF StepOk, Copied, Handed, Running
  <2>2. CASE vars' = vars \/ Crashed
    BY <2>2 DEF Crashed
  <2> QED
    BY <1>1, <2>1, <2>2
<1> QED
  BY <1>1, VariantInvariant, PTL DEF Spec, CopiesAreIndependent

(***************************************************************************)
(* A call that throws leaves its target empty, or no variant at all, or a  *)
(* mistagged string, and what the others show as it was, except what       *)
(* referred to the target's old value; an assign that answers false        *)
(* changes nothing, or the value of the one object assigned to.            *)
(***************************************************************************)
THEOREM FailuresTouchNothingElse == Spec => FailureIsContained
<1> DEFINE Failed == Running' /\ last'.end \in {"threw", "false"} =>
       /\ last'.end = "threw" /\ last'.op # "read" =>
            m'.deleter[last'.target] \in {"dead", "NULL"} \/ Mistagged(m', last'.target)
       /\ last'.end = "false" =>
            LET o == Held(m, last'.target)
            IN  \/ m' = m
                \/ o \in Objects \ Variants /\ m' = [m EXCEPT !.val[o] = m'.val[o]]
       /\ last'.end = "threw" =>
            \A w \in Variants \ {last'.target} :
              Shown(m', w) \in {Shown(m, w), <<>>}
<1>1. ASSUME Good(m), [Next]_vars PROVE [Failed]_vars
  <2>1. CASE Next /\ ~Crashed
    <3>1. StepOk(m', last') /\ Running
      BY <1>1, <2>1, EveryCall
    <3>2. ASSUME Running', last'.end = "threw", NEW w \in Variants \ {last'.target}
          PROVE  Shown(m', w) \in {Shown(m, w), <<>>}
      <4>1. Untouched(m, m', w)
        BY <3>1, <3>2 DEF StepOk, Apart, Running
      <4> QED
        BY <1>1, <3>1, <4>1, ShownUntouched DEF Running, StepOk, Good
    <3> QED
      BY <3>1, <3>2 DEF StepOk, Contained, HalfAssigned, Running
  <2>2. CASE vars' = vars \/ Crashed
    BY <2>2 DEF Crashed
  <2> QED
    BY <1>1, <2>1, <2>2
<1> QED
  BY <1>1, VariantInvariant, PTL DEF Spec, FailureIsContained

(***************************************************************************)
(* Behaviour becomes undefined only by one of the misuses listed, or by a  *)
(* string whose copy threw.                                                *)
(***************************************************************************)
THEOREM MisusesAreTheseOnly == Spec => UndefinedOnlyByMisuse
<1> DEFINE Explained == \/ Running' \/ ~Running
                        \/ Misuse(last'.op, last'.target, last'.source)
                        \/ StringThrew(last')
<1>1. ASSUME Good(m), [Next]_vars PROVE [Explained]_vars
  <2>1. CASE Next /\ ~Crashed
    BY <1>1, <2>1, EveryCall DEF StepOk, Running
  <2>2. CASE vars' = vars \/ Crashed
    BY <2>2 DEF Crashed
  <2> QED
    BY <1>1, <2>1, <2>2
<1> QED
  BY <1>1, VariantInvariant, PTL DEF Spec, UndefinedOnlyByMisuse

=============================================================================
