------------------------- MODULE ClassRegistryProofs -------------------------
(***************************************************************************)
(* The registry of meta-classes for every hierarchy of classes, every      *)
(* order of their static initialisers and everything a program does with   *)
(* the handles in between.                                                 *)
(***************************************************************************)
EXTENDS ClassRegistry, FiniteSetTheorems, SequenceTheorems, WellFoundedInduction, TLAPS

-----------------------------------------------------------------------------
(* Induction over numbers, recursion that comes back to itself (a loop) and*)
(* recursion over the numbers up to N                                      *)

LEMMA LeastNumber ==
  ASSUME NEW T \in SUBSET Nat, T # {}
  PROVE  \E x \in T : \A y \in T : ~(y < x)
<1> DEFINE R == OpToRel(<, Nat)
<1>1. IsWellFoundedOn(R, Nat)
  BY NatLessThanWellFounded
<1>2. \A x, y \in Nat : y < x => <<y, x>> \in R
  BY DEF OpToRel
<1> HIDE DEF R
<1>3. PICK x \in T : \A y \in T : ~ (<<y, x>> \in R)
  BY <1>1, WFMin
<1> QED
  BY <1>2, <1>3

LEMMA SetInduction ==
  ASSUME NEW S, 0 \in S, \A n \in Nat : n \in S => n + 1 \in S
  PROVE  Nat \subseteq S
<1> SUFFICES ASSUME Nat \ S # {} PROVE FALSE
  OBVIOUS
<1>1. PICK x \in Nat \ S : \A y \in Nat \ S : ~(y < x)
  BY LeastNumber
<1>2. x # 0 /\ x - 1 \in Nat /\ x - 1 < x /\ (x - 1) + 1 = x
  BY <1>1
<1> QED
  BY <1>1, <1>2

\* Where a loop that starts at s ends: the elements of D its first n steps lead to
Ends(S, D, step, s) ==
  {d \in D : \E n \in Nat : \E q \in [0..n -> S] :
     /\ q[0] = s /\ q[n] = d
     /\ \A i \in 0..(n - 1) : q[i] \notin D /\ q[i + 1] = step[q[i]]}

LEMMA EndsAtOnce ==
  ASSUME NEW S, NEW D \in SUBSET S, NEW step, NEW s \in D
  PROVE  Ends(S, D, step, s) = {s}
<1>1. s \in Ends(S, D, step, s)
  <2> DEFINE q == [i \in 0..0 |-> s]
  <2>1. q \in [0..0 -> S] /\ q[0] = s /\ 0 \in Nat /\ \A i \in 0..(0 - 1) : FALSE
    OBVIOUS
  <2> HIDE DEF q
  <2> QED
    BY <2>1 DEF Ends
<1>2. ASSUME NEW d \in Ends(S, D, step, s) PROVE d = s
  <2>1. PICK n \in Nat : \E q \in [0..n -> S] :
          /\ q[0] = s /\ q[n] = d
          /\ \A i \in 0..(n - 1) : q[i] \notin D /\ q[i + 1] = step[q[i]]
    BY <1>2 DEF Ends
  <2>10. PICK q \in [0..n -> S] :
          /\ q[0] = s /\ q[n] = d
          /\ \A i \in 0..(n - 1) : q[i] \notin D /\ q[i + 1] = step[q[i]]
    BY <2>1
  <2>2. n = 0
    <3> SUFFICES ASSUME n # 0 PROVE FALSE
      OBVIOUS
    <3>1. 0 \in 0..(n - 1)
      OBVIOUS
    <3> QED
      BY <2>10, <3>1
  <2> QED
    BY <2>10, <2>2
<1> QED
  BY <1>1, <1>2

LEMMA EndsLater ==
  ASSUME NEW S, NEW D \in SUBSET S, NEW step \in [S -> S], NEW s \in S \ D
  PROVE  Ends(S, D, step, s) = Ends(S, D, step, step[s])
<1>1. ASSUME NEW d \in Ends(S, D, step, s) PROVE d \in Ends(S, D, step, step[s])
  <2>1. PICK n \in Nat : \E q \in [0..n -> S] :
          /\ q[0] = s /\ q[n] = d
          /\ \A i \in 0..(n - 1) : q[i] \notin D /\ q[i + 1] = step[q[i]]
    BY <1>1 DEF Ends
  <2>10. PICK q \in [0..n -> S] :
          /\ q[0] = s /\ q[n] = d
          /\ \A i \in 0..(n - 1) : q[i] \notin D /\ q[i + 1] = step[q[i]]
    BY <2>1
  <2>2. d \in D
    BY <1>1 DEF Ends
  <2>3. n # 0 /\ 0 \in 0..(n - 1)
    BY <2>10, <2>2
  <2> DEFINE p == [i \in 0..(n - 1) |-> q[i + 1]]
  <2>4. n - 1 \in Nat /\ p \in [0..(n - 1) -> S] /\ p[0] = step[s] /\ p[n - 1] = d
    BY <2>10, <2>3
  <2>5. \A i \in 0..((n - 1) - 1) : p[i] \notin D /\ p[i + 1] = step[p[i]]
    BY <2>10, <2>3
  <2> HIDE DEF p
  <2> QED
    BY <2>2, <2>4, <2>5 DEF Ends
<1>2. ASSUME NEW d \in Ends(S, D, step, step[s]) PROVE d \in Ends(S, D, step, s)
  <2>1. PICK n \in Nat : \E q \in [0..n -> S] :
          /\ q[0] = step[s] /\ q[n] = d
          /\ \A i \in 0..(n - 1) : q[i] \notin D /\ q[i + 1] = step[q[i]]
    BY <1>2 DEF Ends
  <2>10. PICK q \in [0..n -> S] :
          /\ q[0] = step[s] /\ q[n] = d
          /\ \A i \in 0..(n - 1) : q[i] \notin D /\ q[i + 1] = step[q[i]]
    BY <2>1
  <2>2. d \in D
    BY <1>2 DEF Ends
  <2> DEFINE p == [i \in 0..(n + 1) |-> IF i = 0 THEN s ELSE q[i - 1]]
  <2>4. n + 1 \in Nat /\ p \in [0..(n + 1) -> S] /\ p[0] = s /\ p[n + 1] = d
    BY <2>10
  <2>5. \A i \in 0..((n + 1) - 1) : p[i] \notin D /\ p[i + 1] = step[p[i]]
    <3> TAKE i \in 0..((n + 1) - 1)
    <3>1. CASE i = 0
      BY <2>10, <3>1
    <3>2. CASE i # 0
      <4>1. i - 1 \in 0..(n - 1) /\ p[i] = q[i - 1] /\ p[i + 1] = q[(i - 1) + 1]
        BY <3>2
      <4> QED
        BY <2>10, <4>1
    <3> QED
      BY <3>1, <3>2
  <2> HIDE DEF p
  <2> QED
    BY <2>2, <2>4, <2>5 DEF Ends
<1> QED
  BY <1>1, <1>2

\* f is a loop from every element of S: out at the elements of D, and on by step
IsLoop(f, S, D, step, out) == f = [s \in S |-> IF s \in D THEN out[s] ELSE f[step[s]]]

(***************************************************************************)
(* A loop has a function from where it starts to what it gives, whether it *)
(* ends or not.                                                            *)
(***************************************************************************)
LEMMA LoopExists ==
  ASSUME NEW S, NEW D \in SUBSET S, NEW step \in [S -> S], NEW out
  PROVE  \E f : IsLoop(f, S, D, step, out)
<1> DEFINE E(s) == Ends(S, D, step, s)
           f == [s \in S |-> out[CHOOSE d : d \in E(s)]]
<1>1. ASSUME NEW s \in S PROVE f[s] = IF s \in D THEN out[s] ELSE f[step[s]]
  <2>1. CASE s \in D
    <3>1. E(s) = {s}
      BY <2>1, EndsAtOnce
    <3>2. (CHOOSE d : d \in {s}) = s
      OBVIOUS
    <3> QED
      BY <2>1, <3>1, <3>2
  <2>2. CASE s \notin D
    <3>1. E(s) = E(step[s])
      BY <2>2, EndsLater
    <3>2. step[s] \in S
      OBVIOUS
    <3> HIDE DEF E
    <3> QED
      BY <2>2, <3>1, <3>2
  <2> QED
    BY <2>1, <2>2
<1>2. f = [s \in S |-> f[s]]
  OBVIOUS
<1> HIDE DEF f
<1> QED
  BY <1>1, <1>2 DEF IsLoop

IsChain(f, N, base, step) ==
  f = [n \in 0..N |-> IF n = 0 THEN base ELSE step[n][f[n - 1]]]

(***************************************************************************)
(* Steps taken one after the other from base.                              *)
(***************************************************************************)
LEMMA ChainExists ==
  ASSUME NEW S, NEW base \in S, NEW N \in Nat, NEW step \in [1..N -> [S -> S]]
  PROVE  \E f \in [0..N -> S] : IsChain(f, N, base, step)
<1> DEFINE P(k, f) == /\ f \in [0..k -> S]
                      /\ f[0] = base
                      /\ \A n \in 1..k : f[n] = step[n][f[n - 1]]
           T == {k \in Nat : k <= N => \E f : P(k, f)}
<1>1. 0 \in T
  <2> DEFINE f == [n \in 0..0 |-> base]
  <2>1. P(0, f)
    OBVIOUS
  <2> HIDE DEF f, P
  <2> QED
    BY <2>1
<1>2. ASSUME NEW k \in Nat, k \in T PROVE k + 1 \in T
  <2> SUFFICES ASSUME k + 1 <= N PROVE \E f : P(k + 1, f)
    OBVIOUS
  <2>1. PICK f : P(k, f)
    BY <1>2
  <2> DEFINE g == [n \in 0..(k + 1) |-> IF n <= k THEN f[n] ELSE step[n][f[k]]]
  <2>2. k + 1 \in 1..N /\ f[k] \in S /\ step[k + 1][f[k]] \in S
    BY <2>1
  <2>3. g \in [0..(k + 1) -> S] /\ g[0] = base
    BY <2>1, <2>2
  <2>4. ASSUME NEW n \in 1..(k + 1) PROVE g[n] = step[n][g[n - 1]]
    <3>1. CASE n <= k
      <4>1. g[n] = f[n] /\ g[n - 1] = f[n - 1] /\ n \in 1..k
        BY <3>1
      <4> QED
        BY <2>1, <4>1
    <3>2. CASE n = k + 1
      BY <3>2
    <3> QED
      BY <3>1, <3>2
  <2> HIDE DEF g
  <2> QED
    BY <2>3, <2>4
<1> HIDE DEF T
<1>3. Nat \subseteq T
  BY <1>1, <1>2, SetInduction
<1>4. PICK f : P(N, f)
  BY <1>3 DEF T
<1>5. f = [n \in 0..N |-> f[n]]
  BY <1>4
<1>6. \A n \in 0..N : f[n] = IF n = 0 THEN base ELSE step[n][f[n - 1]]
  BY <1>4
<1> QED
  BY <1>4, <1>5, <1>6 DEF IsChain

-----------------------------------------------------------------------------
(* What calls may do to the meta-classes: append, and erase waiting bases  *)

Prefix(s, t) == Len(s) <= Len(t) /\ \A i \in 1..Len(s) : t[i] = s[i]

Longer(m, n) ==
  /\ Prefix(m.superclasses, n.superclasses) /\ Prefix(m.methods, n.methods)
  /\ Len(n.unresolved) <= Len(m.unresolved)

\* A meta-class only changes when it resolves a base
Grown(m, n) ==
  /\ Longer(m, n)
  /\ Len(n.unresolved) = Len(m.unresolved) => n = m

Grew(x, y) == \A d \in Classes : Grown(x[d], y[d])

\* The first with the second registered
GrewBut(c, x, y) == Longer(x[c], y[c]) /\ \A d \in Classes \ {c} : Grown(x[d], y[d])

Growing ==
  {calls \in Nesting :
     /\ \A c \in Classes, x \in Metas : Grew(x, calls.copy[c][x])
     /\ \A c, b \in Classes, x \in Metas : GrewBut(c, x, calls.register[c][b][x])}

LEMMA ImplFields ==
  ASSUME NEW x \in Metas, NEW c \in Classes
  PROVE  /\ x[c] \in ClassImpl
         /\ x[c].unresolved \in Seq(Classes) /\ x[c].superclasses \in Seq(Classes)
         /\ x[c].methods \in Seq(Classes) /\ x[c].casts \in SUBSET Classes
         /\ Len(x[c].unresolved) \in Nat /\ Len(x[c].superclasses) \in Nat
         /\ Len(x[c].methods) \in Nat
BY DEF Metas, ClassImpl

LEMMA PrefixTrans ==
  ASSUME NEW s \in Seq(Classes), NEW t \in Seq(Classes), NEW u \in Seq(Classes),
         Prefix(s, t), Prefix(t, u)
  PROVE  Prefix(s, u)
<1>1. Len(s) \in Nat /\ Len(t) \in Nat /\ Len(u) \in Nat
  OBVIOUS
<1> QED
  BY <1>1 DEF Prefix

LEMMA LongerTrans ==
  ASSUME NEW l \in ClassImpl, NEW m \in ClassImpl, NEW n \in ClassImpl,
         Longer(l, m), Longer(m, n)
  PROVE  Longer(l, n)
<1>1. Prefix(l.superclasses, n.superclasses) /\ Prefix(l.methods, n.methods)
  BY PrefixTrans DEF Longer, ClassImpl
<1>2. Len(l.unresolved) \in Nat /\ Len(m.unresolved) \in Nat /\ Len(n.unresolved) \in Nat
  BY DEF ClassImpl
<1> QED
  BY <1>1, <1>2 DEF Longer

LEMMA GrownTrans ==
  ASSUME NEW l \in ClassImpl, NEW m \in ClassImpl, NEW n \in ClassImpl,
         Grown(l, m), Grown(m, n)
  PROVE  Grown(l, n)
<1>1. Longer(l, n)
  BY LongerTrans DEF Grown
<1>2. Len(l.unresolved) \in Nat /\ Len(m.unresolved) \in Nat /\ Len(n.unresolved) \in Nat
  BY DEF ClassImpl
<1>3. Len(m.unresolved) <= Len(l.unresolved) /\ Len(n.unresolved) <= Len(m.unresolved)
  BY DEF Grown, Longer
<1> QED
  BY <1>1, <1>2, <1>3 DEF Grown

LEMMA LongerSelf ==
  ASSUME NEW m \in ClassImpl PROVE Longer(m, m) /\ Grown(m, m)
<1>1. Len(m.superclasses) \in Nat /\ Len(m.methods) \in Nat /\ Len(m.unresolved) \in Nat
  BY DEF ClassImpl
<1> QED
  BY <1>1 DEF Longer, Grown, Prefix

LEMMA GrewTrans ==
  ASSUME NEW x \in Metas, NEW y \in Metas, NEW z \in Metas, Grew(x, y), Grew(y, z)
  PROVE  Grew(x, z)
<1> SUFFICES ASSUME NEW d \in Classes PROVE Grown(x[d], z[d])
  BY DEF Grew
<1>1. x[d] \in ClassImpl /\ y[d] \in ClassImpl /\ z[d] \in ClassImpl
  BY ImplFields
<1>2. Grown(x[d], y[d]) /\ Grown(y[d], z[d])
  BY DEF Grew
<1> QED
  BY <1>1, <1>2, GrownTrans

LEMMA GrewSelf ==
  ASSUME NEW x \in Metas PROVE Grew(x, x)
BY ImplFields, LongerSelf DEF Grew

LEMMA GrewIsGrewBut ==
  ASSUME NEW x \in Metas, NEW y \in Metas, NEW c \in Classes, Grew(x, y)
  PROVE  GrewBut(c, x, y)
BY DEF Grew, GrewBut, Grown

LEMMA GrewButTrans ==
  ASSUME NEW x \in Metas, NEW y \in Metas, NEW z \in Metas, NEW c \in Classes,
         GrewBut(c, x, y), GrewBut(c, y, z)
  PROVE  GrewBut(c, x, z)
<1>1. \A d \in Classes : x[d] \in ClassImpl /\ y[d] \in ClassImpl /\ z[d] \in ClassImpl
  BY ImplFields
<1>2. Longer(x[c], z[c])
  BY <1>1, LongerTrans DEF GrewBut
<1>3. ASSUME NEW d \in Classes \ {c} PROVE Grown(x[d], z[d])
  BY <1>1, GrownTrans DEF GrewBut
<1> QED
  BY <1>2, <1>3 DEF GrewBut

LEMMA CallsTyped ==
  ASSUME NEW calls \in Growing, NEW c \in Classes, NEW b \in Classes, NEW x \in Metas
  PROVE  /\ calls.copy[c][x] \in Metas /\ calls.register[c][b][x] \in Metas
         /\ Grew(x, calls.copy[c][x]) /\ GrewBut(c, x, calls.register[c][b][x])
<1>1. calls \in Nesting /\ calls.copy[c] \in Effect /\ calls.register[c][b] \in Effect
  BY DEF Growing, Nesting
<1> QED
  BY <1>1 DEF Growing, Effect

LEMMA RemovedAt ==
  ASSUME NEW s \in Seq(Classes), NEW i \in 1..Len(s)
  PROVE  /\ RemoveAt(s, i) \in Seq(Classes)
         /\ Len(RemoveAt(s, i)) = Len(s) - 1
         /\ \A k \in 1..(Len(s) - 1) : RemoveAt(s, i)[k] = IF k < i THEN s[k] ELSE s[k + 1]
<1>1. Len(s) \in Nat /\ i \in Nat
  OBVIOUS
<1> DEFINE u == SubSeq(s, 1, i - 1)
           v == SubSeq(s, i + 1, Len(s))
<1>2. u \in Seq(Classes) /\ Len(u) = i - 1 /\ \A k \in 1..(i - 1) : u[k] = s[k]
  BY <1>1
<1>3. v \in Seq(Classes) /\ Len(v) = Len(s) - i /\ \A k \in 1..(Len(s) - i) : v[k] = s[i + k]
  BY <1>1
<1>4. RemoveAt(s, i) = u \o v
  BY DEF RemoveAt
<1> HIDE DEF u, v
<1>5. u \o v \in Seq(Classes)
  BY <1>2, <1>3
<1>7. Len(u \o v) = Len(s) - 1
  <2>1. Len(u \o v) = Len(u) + Len(v)
    BY <1>2, <1>3, ConcatProperties
  <2> QED
    BY <1>1, <1>2, <1>3, <2>1
<1>8. \A k \in 1..(Len(s) - 1) : (u \o v)[k] = IF k <= i - 1 THEN u[k] ELSE v[k - (i - 1)]
  <2>1. \A k \in 1..(Len(u) + Len(v)) : (u \o v)[k] = IF k <= Len(u) THEN u[k] ELSE v[k - Len(u)]
    BY <1>2, <1>3, ConcatProperties
  <2> QED
    BY <1>1, <1>2, <1>3, <2>1
<1>6. ASSUME NEW k \in 1..(Len(s) - 1)
      PROVE  (u \o v)[k] = IF k < i THEN s[k] ELSE s[k + 1]
  <2>1. CASE k < i
    BY <1>1, <1>2, <1>8, <2>1
  <2>2. CASE ~(k < i)
    <3>1. k - (i - 1) \in 1..(Len(s) - i) /\ i + (k - (i - 1)) = k + 1
      BY <1>1, <2>2
    <3>2. ~(k <= i - 1)
      BY <1>1, <2>2
    <3>3. (u \o v)[k] = v[k - (i - 1)]
      BY <1>8, <3>2
    <3> QED
      BY <1>3, <2>2, <3>1, <3>3
  <2> QED
    BY <2>1, <2>2
<1> QED
  BY <1>4, <1>5, <1>6, <1>7

\* Changing one part of a meta-class
LEMMA WithUnresolved ==
  ASSUME NEW m \in ClassImpl, NEW s \in Seq(Classes)
  PROVE  LET n == [m EXCEPT !.unresolved = s]
         IN  /\ n \in ClassImpl /\ n.unresolved = s /\ n.superclasses = m.superclasses
             /\ n.methods = m.methods /\ n.casts = m.casts
BY DEF ClassImpl

LEMMA WithCasts ==
  ASSUME NEW m \in ClassImpl, NEW S \in SUBSET Classes
  PROVE  LET n == [m EXCEPT !.casts = S]
         IN  /\ n \in ClassImpl /\ n.unresolved = m.unresolved /\ n.superclasses = m.superclasses
             /\ n.methods = m.methods /\ n.casts = S
BY DEF ClassImpl

LEMMA WithLists ==
  ASSUME NEW m \in ClassImpl, NEW s \in Seq(Classes), NEW t \in Seq(Classes)
  PROVE  [m EXCEPT !.superclasses = s, !.methods = t] =
           [unresolved |-> m.unresolved, superclasses |-> s, methods |-> t, casts |-> m.casts]
<1> DEFINE n == [m EXCEPT !.superclasses = s, !.methods = t]
           r == [unresolved |-> m.unresolved, superclasses |-> s, methods |-> t, casts |-> m.casts]
<1>1. n \in ClassImpl /\ r \in ClassImpl
  BY DEF ClassImpl
<1>2. n.unresolved = r.unresolved /\ n.superclasses = r.superclasses
  BY DEF ClassImpl
<1>3. n.methods = r.methods /\ n.casts = r.casts
  BY DEF ClassImpl
<1> HIDE DEF n, r
<1>5. /\ n = [unresolved |-> n.unresolved, superclasses |-> n.superclasses,
               methods |-> n.methods, casts |-> n.casts]
      /\ r = [unresolved |-> r.unresolved, superclasses |-> r.superclasses,
               methods |-> r.methods, casts |-> r.casts]
  BY <1>1 DEF ClassImpl
<1>4. n = r
  BY <1>2, <1>3, <1>5
<1> QED
  BY <1>4 DEF n, r

\* What a found base leaves: c waits for one base less, the others have grown
LEMMA FoundGrows ==
  ASSUME NEW calls \in Growing, NEW x \in Metas, NEW c \in Classes,
         NEW i \in 1..Len(x[c].unresolved)
  PROVE  /\ Found(calls, x, c, i) \in Metas
         /\ Grew(x, Found(calls, x, c, i))
         /\ Len(Found(calls, x, c, i)[c].unresolved) < Len(x[c].unresolved)
<1> DEFINE b == x[c].unresolved[i]
           r == RemoveAt(x[c].unresolved, i)
           f == calls.copy[b][x]
           t == [f EXCEPT ![c].unresolved = r]
           g == calls.register[c][b][t]
           h == calls.copy[b][g]
           y == [h EXCEPT ![c].casts = @ \union {b}]
<1>1. b \in Classes /\ r \in Seq(Classes) /\ Len(r) = Len(x[c].unresolved) - 1
  BY ImplFields, RemovedAt
<1>2. Found(calls, x, c, i) = y
  BY DEF Found
<1> HIDE DEF b, r
<1>3. f \in Metas /\ Grew(x, f)
  BY <1>1, CallsTyped
<1> HIDE DEF f
<1>4. /\ t \in Metas /\ \A d \in Classes \ {c} : t[d] = f[d]
      /\ t[c] = [f[c] EXCEPT !.unresolved = r]
  <2> DEFINE n == [f[c] EXCEPT !.unresolved = r]
  <2>1. n \in ClassImpl
    BY <1>1, <1>3, ImplFields, WithUnresolved
  <2>2. t = [f EXCEPT ![c] = n]
    OBVIOUS
  <2>4. n = [f[c] EXCEPT !.unresolved = r]
    OBVIOUS
  <2> HIDE DEF t, n
  <2>3. t \in Metas /\ t[c] = n /\ \A d \in Classes \ {c} : t[d] = f[d]
    BY <1>3, <2>1, <2>2 DEF Metas
  <2> QED
    BY <2>3, <2>4, Zenon
<1> HIDE DEF t
<1>5. g \in Metas /\ GrewBut(c, t, g)
  BY <1>1, <1>4, CallsTyped
<1> HIDE DEF g
<1>6. h \in Metas /\ Grew(g, h)
  BY <1>1, <1>5, CallsTyped
<1> HIDE DEF h
<1>7. /\ y \in Metas /\ \A d \in Classes \ {c} : y[d] = h[d]
      /\ y[c] = [h[c] EXCEPT !.casts = @ \union {b}]
  <2> DEFINE n == [h[c] EXCEPT !.casts = @ \union {b}]
  <2>1. n \in ClassImpl
    <3>1. h[c] \in ClassImpl /\ h[c].casts \union {b} \in SUBSET Classes
      BY <1>1, <1>6, ImplFields
    <3> QED
      BY <3>1, WithCasts
  <2>2. y = [h EXCEPT ![c] = n]
    OBVIOUS
  <2>4. n = [h[c] EXCEPT !.casts = @ \union {b}]
    OBVIOUS
  <2> HIDE DEF y, n
  <2>3. y \in Metas /\ y[c] = n /\ \A d \in Classes \ {c} : y[d] = h[d]
    BY <1>6, <2>1, <2>2 DEF Metas
  <2> QED
    BY <2>3, <2>4, Zenon
<1> HIDE DEF y
<1>8. \A d \in Classes : /\ x[d] \in ClassImpl /\ f[d] \in ClassImpl /\ t[d] \in ClassImpl
                         /\ g[d] \in ClassImpl /\ h[d] \in ClassImpl /\ y[d] \in ClassImpl
  BY <1>3, <1>4, <1>5, <1>6, <1>7, ImplFields
<1>9. ASSUME NEW d \in Classes \ {c} PROVE Grown(x[d], y[d])
  <2>1. Grown(x[d], t[d])
    BY <1>3, <1>4 DEF Grew
  <2>2. Grown(x[d], g[d])
    BY <1>5, <1>8, <2>1, GrownTrans DEF GrewBut
  <2>3. Grown(x[d], h[d])
    BY <1>6, <1>8, <2>2, GrownTrans DEF Grew
  <2> QED
    BY <1>7, <2>3
<1>10. Longer(x[c], y[c]) /\ Len(y[c].unresolved) < Len(x[c].unresolved)
  <2>1. Longer(x[c], f[c])
    BY <1>3 DEF Grew, Grown
  <2>2. /\ t[c].superclasses = f[c].superclasses /\ t[c].methods = f[c].methods
        /\ t[c].unresolved = r
    BY <1>4, <1>8 DEF ClassImpl
  <2>3. /\ Prefix(x[c].superclasses, t[c].superclasses) /\ Prefix(x[c].methods, t[c].methods)
        /\ Len(t[c].unresolved) = Len(x[c].unresolved) - 1
    BY <1>1, <2>1, <2>2 DEF Longer
  <2>4. Longer(t[c], g[c]) /\ Longer(g[c], h[c])
    BY <1>5, <1>6 DEF GrewBut, Grew, Grown
  <2>5. Longer(t[c], h[c])
    BY <1>8, <2>4, LongerTrans
  <2>6. /\ y[c].superclasses = h[c].superclasses /\ y[c].methods = h[c].methods
        /\ y[c].unresolved = h[c].unresolved
    BY <1>7, <1>8 DEF ClassImpl
  <2>7. /\ Prefix(t[c].superclasses, y[c].superclasses) /\ Prefix(t[c].methods, y[c].methods)
        /\ Len(y[c].unresolved) <= Len(t[c].unresolved)
    BY <2>5, <2>6 DEF Longer
  <2>8. Prefix(x[c].superclasses, y[c].superclasses) /\ Prefix(x[c].methods, y[c].methods)
    BY <1>8, <2>3, <2>7, PrefixTrans DEF ClassImpl
  <2>9. Len(y[c].unresolved) \in Nat /\ Len(t[c].unresolved) \in Nat /\ Len(x[c].unresolved) \in Nat
    BY <1>8 DEF ClassImpl
  <2> QED
    BY <2>3, <2>7, <2>8, <2>9 DEF Longer
<1>11. Grown(x[c], y[c])
  <2>1. Len(y[c].unresolved) \in Nat /\ Len(x[c].unresolved) \in Nat
    BY <1>8 DEF ClassImpl
  <2> QED
    BY <1>10, <2>1 DEF Grown
<1> QED
  BY <1>2, <1>7, <1>9, <1>10, <1>11 DEF Grew

-----------------------------------------------------------------------------
(* Loops that end                                                          *)

\* Every step from Ok keeps Ok, and big falls, or small falls while big stays
Descends(Ok, D, step, big, small) ==
  \A s \in Ok \ D : /\ step[s] \in Ok
                    /\ \/ big[step[s]] < big[s]
                       \/ big[step[s]] = big[s] /\ small[step[s]] < small[s]

(***************************************************************************)
(* A loop every step of which keeps Ok and lets big fall, or small while   *)
(* big stays, gives what out makes of an element of Ok.                    *)
(***************************************************************************)
LEMMA LoopEnds ==
  ASSUME NEW S, NEW D \in SUBSET S, NEW step \in [S -> S], NEW out,
         NEW big \in [S -> Nat], NEW small \in [S -> Nat], NEW Ok \in SUBSET S,
         Descends(Ok, D, step, big, small),
         NEW f, IsLoop(f, S, D, step, out),
         NEW start \in Ok
  PROVE  \E d \in Ok \intersect D : f[start] = out[d]
<1> DEFINE Done(s) == \E d \in Ok \intersect D : f[s] = out[d]
           Below(n) == \A s \in Ok : big[s] < n => Done(s)
           T == {n \in Nat : Below(n)}
<1>0. \A s \in Ok : f[s] = IF s \in D THEN out[s] ELSE f[step[s]]
  BY DEF IsLoop
<1>1. 0 \in T
  OBVIOUS
<1>2. ASSUME NEW n \in Nat, n \in T PROVE n + 1 \in T
  <2> DEFINE Under(k) == \A s \in Ok : big[s] = n /\ small[s] < k => Done(s)
             U == {k \in Nat : Under(k)}
  <2>1. 0 \in U
    OBVIOUS
  <2>2. ASSUME NEW k \in Nat, k \in U PROVE k + 1 \in U
    <3> SUFFICES ASSUME NEW s \in Ok, big[s] = n, small[s] < k + 1 PROVE Done(s)
      OBVIOUS
    <3>1. CASE s \in D
      BY <1>0, <3>1
    <3>2. CASE s \notin D
      <4>1. /\ step[s] \in Ok
            /\ \/ big[step[s]] < big[s]
               \/ big[step[s]] = big[s] /\ small[step[s]] < small[s]
        BY <3>2 DEF Descends
      <4>2. f[s] = f[step[s]]
        BY <1>0, <3>2
      <4>3. Done(step[s])
        <5> HIDE DEF Done
        <5>1. CASE big[step[s]] < big[s]
          BY <1>2, <4>1, <5>1
        <5>2. CASE big[step[s]] = big[s] /\ small[step[s]] < small[s]
          <6>1. small[s] \in Nat /\ small[step[s]] \in Nat /\ small[step[s]] < k
            BY <5>2
          <6> QED
            BY <2>2, <4>1, <5>2, <6>1
        <5> QED
          BY <4>1, <5>1, <5>2
      <4> QED
        BY <4>2, <4>3
    <3> QED
      BY <3>1, <3>2
  <2> HIDE DEF U, Done
  <2>3. Nat \subseteq U
    BY <2>1, <2>2, SetInduction
  <2>4. ASSUME NEW s \in Ok, big[s] < n + 1 PROVE Done(s)
    <3>1. big[s] \in Nat /\ small[s] \in Nat /\ small[s] + 1 \in Nat /\ small[s] < small[s] + 1
      OBVIOUS
    <3>2. CASE big[s] < n
      BY <1>2, <3>2
    <3>3. CASE big[s] = n
      BY <2>3, <3>1, <3>3 DEF U
    <3> QED
      BY <2>4, <3>1, <3>2, <3>3
  <2> QED
    BY <2>4
<1> HIDE DEF T, Done
<1>3. Nat \subseteq T
  BY <1>1, <1>2, SetInduction
<1>4. big[start] + 1 \in Nat /\ big[start] < big[start] + 1
  OBVIOUS
<1> QED
  BY <1>3, <1>4 DEF T, Done

\* A step from a pair in R ends both loops or leads to a pair in R, and descends
Paired(R, D, step, big, small) ==
  \A p \in R :
    IF p[1] \in D THEN p[2] \in D
    ELSE /\ p[2] \notin D /\ <<step[p[1]], step[p[2]]>> \in R
         /\ \/ big[step[p[1]]] < big[p[1]]
            \/ big[step[p[1]]] = big[p[1]] /\ small[step[p[1]]] < small[p[1]]

PairsOf(R, S) == R \in SUBSET (S \X S)

\* Two loops come out at places that are related
OutTogether(R, D, f, out, u, v) ==
  \E d, e \in D : <<d, e>> \in R /\ f[u] = out[d] /\ f[v] = out[e]

(***************************************************************************)
(* A loop started at two places that stay related.                         *)
(***************************************************************************)
LEMMA LoopsAgree ==
  ASSUME NEW S, NEW D \in SUBSET S, NEW step \in [S -> S], NEW out,
         NEW big \in [S -> Nat], NEW small \in [S -> Nat],
         NEW R, PairsOf(R, S),
         Paired(R, D, step, big, small),
         NEW f, IsLoop(f, S, D, step, out),
         NEW u \in S, NEW v \in S, <<u, v>> \in R
  PROVE  OutTogether(R, D, f, out, u, v)
<1> DEFINE D2 == {p \in R : p[1] \in D}
           step2 == [p \in R |-> IF p[1] \in D THEN p ELSE <<step[p[1]], step[p[2]]>>]
           out2 == [p \in R |-> <<out[p[1]], out[p[2]]>>]
           f2 == [p \in R |-> <<f[p[1]], f[p[2]]>>]
           big2 == [p \in R |-> big[p[1]]]
           small2 == [p \in R |-> small[p[1]]]
<1>1. \A p \in R : p[1] \in S /\ p[2] \in S /\ p = <<p[1], p[2]>>
  BY DEF PairsOf
<1>2. step2 \in [R -> R]
  BY DEF Paired
<1>3. D2 \in SUBSET R /\ big2 \in [R -> Nat] /\ small2 \in [R -> Nat]
  BY <1>1
<1>4. \A s \in S : f[s] = IF s \in D THEN out[s] ELSE f[step[s]]
  BY DEF IsLoop
<1>5. IsLoop(f2, R, D2, step2, out2)
  <2> DEFINE Two(p) == IF p \in D2 THEN out2[p] ELSE f2[step2[p]]
  <2>1. ASSUME NEW p \in R PROVE f2[p] = Two(p)
    <3>1. CASE p[1] \in D
      <4>1. p[2] \in D /\ f[p[1]] = out[p[1]] /\ f[p[2]] = out[p[2]]
        BY <1>1, <1>4, <3>1 DEF Paired
      <4> QED
        BY <3>1, <4>1
    <3>2. CASE p[1] \notin D
      <4>1. p[2] \notin D /\ f[p[1]] = f[step[p[1]]] /\ f[p[2]] = f[step[p[2]]]
        BY <1>1, <1>4, <3>2 DEF Paired
      <4>2. step2[p] = <<step[p[1]], step[p[2]]>> /\ step2[p] \in R
        BY <1>2, <3>2
      <4>3. f2[step2[p]] = <<f[step[p[1]]], f[step[p[2]]]>>
        <5> HIDE DEF step2
        <5> QED
          BY <4>2
      <4> QED
        BY <3>2, <4>1, <4>3
    <3> QED
      BY <3>1, <3>2
  <2>2. f2 = [p \in R |-> f2[p]]
    OBVIOUS
  <2>3. [p \in R |-> f2[p]] = [p \in R |-> Two(p)]
    <3> HIDE DEF Two, f2
    <3> QED
      BY <2>1
  <2> QED
    BY <2>2, <2>3 DEF IsLoop
<1>6. Descends(R, D2, step2, big2, small2)
  <2> SUFFICES ASSUME NEW p \in R \ D2
               PROVE  /\ step2[p] \in R
                      /\ \/ big2[step2[p]] < big2[p]
                         \/ big2[step2[p]] = big2[p] /\ small2[step2[p]] < small2[p]
    BY DEF Descends
  <2>1. step2[p] = <<step[p[1]], step[p[2]]>> /\ step2[p] \in R
    BY <1>2
  <2>2. \/ big[step[p[1]]] < big[p[1]]
        \/ big[step[p[1]]] = big[p[1]] /\ small[step[p[1]]] < small[p[1]]
    BY DEF Paired
  <2>3. step2[p][1] = step[p[1]]
    BY <2>1
  <2> HIDE DEF step2
  <2> QED
    BY <2>1, <2>2, <2>3
<1> DEFINE start == <<u, v>>
<1>7. f2[start] = <<f[u], f[v]>>
  OBVIOUS
<1>14. start \in R
  OBVIOUS
<1> HIDE DEF D2, step2, out2, f2, big2, small2, start
<1>8. R \in SUBSET R
  OBVIOUS
<1>9. \E d \in R \intersect D2 : f2[start] = out2[d]
  BY <1>2, <1>3, <1>5, <1>6, <1>8, <1>14, LoopEnds
<1>10. PICK d \in R \intersect D2 : f2[start] = out2[d]
  BY <1>9
<1>11. d[1] \in D /\ d[2] \in D /\ <<d[1], d[2]>> \in R
  <2>1. d \in R /\ d[1] \in D
    BY <1>10 DEF D2
  <2>2. d = <<d[1], d[2]>>
    BY <1>1, <2>1
  <2>3. d[2] \in D
    BY <2>1 DEF Paired
  <2>4. <<d[1], d[2]>> \in R
    BY <2>1, <2>2, Zenon
  <2> QED
    BY <2>1, <2>3, <2>4
<1>12. <<f[u], f[v]>> = <<out[d[1]], out[d[2]]>>
  BY <1>7, <1>10 DEF out2
<1>13. f[u] = out[d[1]] /\ f[v] = out[d[2]]
  BY <1>12
<1> QED
  BY <1>11, <1>13 DEF OutTogether

(***************************************************************************)
(* resolveBases                                                            *)
(***************************************************************************)
Places == [meta : Metas, base : Positive]

Visited(c) == {at \in Places : at.base > Len(at.meta[c].unresolved)}

VisitStep(calls, c) ==
  [at \in Places |->
     LET bases == at.meta[c].unresolved
     IN  IF at.base > Len(bases) THEN at
         ELSE IF bases[at.base] \notin registered THEN [at EXCEPT !.base = @ + 1]
         ELSE [meta |-> Found(calls, at.meta, c, at.base),
               base |-> Advance(at.base, Len(bases) - 1)]]

Visit(calls, c) ==
  CHOOSE visit : visit =
    [at \in Places |->
       LET bases == at.meta[c].unresolved
       IN  IF at.base > Len(bases) THEN at.meta
           ELSE IF bases[at.base] \notin registered
             THEN visit[[at EXCEPT !.base = @ + 1]]
           ELSE visit[[meta |-> Found(calls, at.meta, c, at.base),
                       base |-> Advance(at.base, Len(bases) - 1)]]]

LEMMA ResolveBasesVisits ==
  ASSUME NEW calls, NEW x, NEW c
  PROVE  resolveBases(calls, x, c) = Visit(calls, c)[[meta |-> x, base |-> 1]]
BY DEF resolveBases, Visit, Places

LEMMA VisitSteps ==
  ASSUME NEW calls \in Growing, NEW c \in Classes, NEW at \in Places \ Visited(c)
  PROVE  LET i == at.base
             n == Len(at.meta[c].unresolved)
             b == at.meta[c].unresolved[i]
         IN  /\ i \in 1..n /\ b \in Classes
             /\ b \notin registered => VisitStep(calls, c)[at] = [meta |-> at.meta, base |-> i + 1]
             /\ b \in registered => VisitStep(calls, c)[at] =
                  [meta |-> Found(calls, at.meta, c, i), base |-> Advance(i, n - 1)]
<1>1. at.meta \in Metas /\ at.base \in Nat \ {0}
  BY DEF Places, Positive
<1>2. at.meta[c].unresolved \in Seq(Classes) /\ Len(at.meta[c].unresolved) \in Nat
  BY <1>1, ImplFields
<1>3. ~(at.base > Len(at.meta[c].unresolved))
  BY DEF Visited
<1>4. [at EXCEPT !.base = @ + 1] = [meta |-> at.meta, base |-> at.base + 1]
  BY DEF Places
<1> QED
  BY <1>1, <1>2, <1>3, <1>4 DEF VisitStep

LEMMA VisitStepTyped ==
  ASSUME NEW calls \in Growing, NEW c \in Classes
  PROVE  VisitStep(calls, c) \in [Places -> Places]
<1> SUFFICES ASSUME NEW at \in Places PROVE VisitStep(calls, c)[at] \in Places
  BY DEF VisitStep
<1>0. at.meta \in Metas /\ at.base \in Nat \ {0}
  BY DEF Places, Positive
<1>1. CASE at \in Visited(c)
  BY <1>1 DEF Visited, VisitStep
<1>2. CASE at \notin Visited(c)
  <2> DEFINE i == at.base
             n == Len(at.meta[c].unresolved)
             b == at.meta[c].unresolved[i]
  <2>1. /\ i \in 1..n /\ b \in Classes
        /\ b \notin registered => VisitStep(calls, c)[at] = [meta |-> at.meta, base |-> i + 1]
        /\ b \in registered => VisitStep(calls, c)[at] =
             [meta |-> Found(calls, at.meta, c, i), base |-> Advance(i, n - 1)]
    BY <1>2, VisitSteps
  <2>2. Found(calls, at.meta, c, i) \in Metas
    BY <1>0, <2>1, FoundGrows
  <2>3. n \in Nat /\ i \in Nat \ {0}
    BY <1>0, ImplFields
  <2>4. Advance(i, n - 1) \in Positive /\ i + 1 \in Positive
    BY <2>3 DEF Advance, Positive
  <2> HIDE DEF i, n, b
  <2>5. [meta |-> at.meta, base |-> i + 1] \in Places
    BY <1>0, <2>4 DEF Places
  <2>6. [meta |-> Found(calls, at.meta, c, i), base |-> Advance(i, n - 1)] \in Places
    BY <2>2, <2>4 DEF Places
  <2> QED
    BY <2>1, <2>5, <2>6
<1> QED
  BY <1>1, <1>2

MetaOf == [at \in Places |-> at.meta]

LEMMA VisitLoops ==
  ASSUME NEW calls \in Growing, NEW c \in Classes
  PROVE  IsLoop(Visit(calls, c), Places, Visited(c), VisitStep(calls, c), MetaOf)
<1> DEFINE Eq(f) == IsLoop(f, Places, Visited(c), VisitStep(calls, c), MetaOf)
           Code(visit) == visit =
             [at \in Places |->
                LET bases == at.meta[c].unresolved
                IN  IF at.base > Len(bases) THEN at.meta
                    ELSE IF bases[at.base] \notin registered
                      THEN visit[[at EXCEPT !.base = @ + 1]]
                    ELSE visit[[meta |-> Found(calls, at.meta, c, at.base),
                                base |-> Advance(at.base, Len(bases) - 1)]]]
<1>1. Visited(c) \in SUBSET Places
  BY DEF Visited
<1>2. \E f : Eq(f)
  BY <1>1, VisitStepTyped, LoopExists
<1>3. ASSUME NEW f PROVE Eq(f) = Code(f)
  <2> DEFINE One(at) == IF at \in Visited(c) THEN MetaOf[at] ELSE f[VisitStep(calls, c)[at]]
             Two(at) == LET bases == at.meta[c].unresolved
                IN  IF at.base > Len(bases) THEN at.meta
                    ELSE IF bases[at.base] \notin registered
                      THEN f[[at EXCEPT !.base = @ + 1]]
                    ELSE f[[meta |-> Found(calls, at.meta, c, at.base),
                                base |-> Advance(at.base, Len(bases) - 1)]]
  <2>1. ASSUME NEW at \in Places PROVE One(at) = Two(at)
    BY DEF Visited, VisitStep, MetaOf
  <2>2. [at \in Places |-> One(at)] = [at \in Places |-> Two(at)]
    <3> HIDE DEF One, Two
    <3> QED
      BY <2>1
  <2> QED
    BY <2>2 DEF IsLoop
<1>4. Visit(calls, c) = CHOOSE f : Code(f)
  BY DEF Visit
<1>5. \E f : Code(f)
  <2> HIDE DEF Code, Eq
  <2> QED
    BY <1>2, <1>3
<1>6. Code(Visit(calls, c))
  <2> HIDE DEF Code
  <2> QED
    BY <1>4, <1>5
<1> HIDE DEF Code
<1> QED
  BY <1>3, <1>6

\* What falls while resolveBases goes on: the bases that wait, and those still to look at
Waiting(c) == [at \in Places |-> Len(at.meta[c].unresolved)]

Ahead(c) ==
  [at \in Places |-> IF at \in Visited(c) THEN 0 ELSE Len(at.meta[c].unresolved) + 1 - at.base]

LEMMA VisitDescends ==
  ASSUME NEW calls \in Growing, NEW c \in Classes
  PROVE  /\ Waiting(c) \in [Places -> Nat] /\ Ahead(c) \in [Places -> Nat]
         /\ Descends(Places, Visited(c), VisitStep(calls, c), Waiting(c), Ahead(c))
<1> DEFINE big == Waiting(c)
           small == Ahead(c)
           step == VisitStep(calls, c)
<1>1. \A at \in Places : at.meta \in Metas /\ at.base \in Nat \ {0} /\ Len(at.meta[c].unresolved) \in Nat
  <2> TAKE at \in Places
  <2>1. at.meta \in Metas /\ at.base \in Nat \ {0}
    BY DEF Places, Positive
  <2> QED
    BY <2>1, ImplFields
<1>2. big \in [Places -> Nat] /\ small \in [Places -> Nat]
  BY <1>1 DEF Visited, Waiting, Ahead
<1>3. ASSUME NEW at \in Places \ Visited(c)
      PROVE  /\ step[at] \in Places
             /\ \/ big[step[at]] < big[at]
                \/ big[step[at]] = big[at] /\ small[step[at]] < small[at]
  <2> DEFINE i == at.base
             n == Len(at.meta[c].unresolved)
             b == at.meta[c].unresolved[i]
  <2>0. step[at] \in Places
    BY VisitStepTyped
  <2>1. i \in 1..n
    BY VisitSteps
  <2>2. n \in Nat /\ i \in Nat \ {0} /\ at.meta \in Metas
    BY <1>1
  <2>3. CASE b \notin registered
    <3>1. step[at] = [meta |-> at.meta, base |-> i + 1]
      BY <2>3, VisitSteps
    <3>2. step[at].meta = at.meta /\ step[at].base = i + 1
      BY <3>1
    <3>3. small[at] = n + 1 - i /\ big[at] = n /\ big[step[at]] = n
      BY <2>0, <3>2 DEF Waiting, Ahead
    <3>4. small[step[at]] < n + 1 - i
      <4>1. CASE step[at] \in Visited(c)
        <5>1. small[step[at]] = 0
          BY <2>0, <4>1 DEF Ahead
        <5> HIDE DEF small
        <5> QED
          BY <2>1, <2>2, <5>1
      <4>2. CASE step[at] \notin Visited(c)
        <5>1. small[step[at]] = n + 1 - (i + 1)
          BY <2>0, <3>2, <4>2 DEF Ahead
        <5> HIDE DEF small
        <5> QED
          BY <2>1, <2>2, <5>1
      <4> QED
        BY <4>1, <4>2
    <3> QED
      BY <2>0, <2>2, <3>2, <3>3, <3>4
  <2>4. CASE b \in registered
    <3>1. step[at] = [meta |-> Found(calls, at.meta, c, i), base |-> Advance(i, n - 1)]
      BY <2>4, VisitSteps
    <3>2. step[at].meta = Found(calls, at.meta, c, i)
      BY <3>1
    <3>3. Len(Found(calls, at.meta, c, i)[c].unresolved) < n
      BY <2>1, <2>2, FoundGrows
    <3>4. big[at] = n /\ big[step[at]] = Len(Found(calls, at.meta, c, i)[c].unresolved)
      BY <2>0, <3>2 DEF Waiting
    <3> QED
      BY <2>0, <3>3, <3>4
  <2> QED
    BY <2>3, <2>4
<1> QED
  BY <1>2, <1>3 DEF Descends

(***************************************************************************)
(* What holds of the meta-classes and is kept by each base that is found   *)
(* holds when resolveBases is done.                                        *)
(***************************************************************************)
LEMMA VisitKeeps ==
  ASSUME NEW calls \in Growing, NEW c \in Classes, NEW Good \in SUBSET Metas,
         \A y \in Good : \A i \in 1..Len(y[c].unresolved) :
           y[c].unresolved[i] \in registered => Found(calls, y, c, i) \in Good,
         NEW start \in Places, start.meta \in Good
  PROVE  Visit(calls, c)[start] \in Good
<1> DEFINE big == Waiting(c)
           small == Ahead(c)
           Ok == {at \in Places : at.meta \in Good}
           step == VisitStep(calls, c)
           f == Visit(calls, c)
<1>1. Visited(c) \in SUBSET Places /\ Ok \in SUBSET Places /\ start \in Ok
  BY DEF Visited
<1>2. ASSUME NEW at \in Ok \ Visited(c) PROVE step[at] \in Ok
  <2> DEFINE i == at.base
             b == at.meta[c].unresolved[i]
  <2>1. step[at] \in Places /\ i \in 1..Len(at.meta[c].unresolved)
    BY VisitStepTyped, VisitSteps
  <2>2. CASE b \notin registered
    <3>1. step[at] = [meta |-> at.meta, base |-> i + 1]
      BY <2>2, VisitSteps
    <3> QED
      BY <2>1, <3>1
  <2>3. CASE b \in registered
    <3>1. step[at] = [meta |-> Found(calls, at.meta, c, i),
                      base |-> Advance(i, Len(at.meta[c].unresolved) - 1)]
      BY <2>3, VisitSteps
    <3>2. step[at].meta = Found(calls, at.meta, c, i)
      BY <3>1
    <3>3. Found(calls, at.meta, c, i) \in Good
      BY <2>1, <2>3
    <3> QED
      BY <2>1, <3>2, <3>3
  <2> QED
    BY <2>2, <2>3
<1>3. big \in [Places -> Nat] /\ small \in [Places -> Nat]
  BY VisitDescends
<1>4. Descends(Places, Visited(c), step, big, small)
  BY VisitDescends
<1>5. IsLoop(f, Places, Visited(c), step, MetaOf)
  BY VisitLoops
<1>6. step \in [Places -> Places]
  BY VisitStepTyped
<1> HIDE DEF big, small, step, f
<1>7. Descends(Ok, Visited(c), step, big, small)
  BY <1>2, <1>4 DEF Descends
<1> HIDE DEF Ok
<1>8. \E at \in Ok \intersect Visited(c) : f[start] = MetaOf[at]
  BY <1>1, <1>3, <1>5, <1>6, <1>7, LoopEnds
<1> QED
  BY <1>1, <1>8 DEF MetaOf, Ok, f

LEMMA VisitFinds ==
  ASSUME NEW calls \in Growing, NEW c \in Classes, NEW at \in Places,
         at.base <= Len(at.meta[c].unresolved), at.meta[c].unresolved[at.base] \in registered
  PROVE  /\ at.base \in 1..Len(at.meta[c].unresolved)
         /\ \E next \in Places : /\ next.meta = Found(calls, at.meta, c, at.base)
                                 /\ Visit(calls, c)[at] = Visit(calls, c)[next]
<1>1. at.meta \in Metas /\ at.base \in Nat \ {0}
  BY DEF Places, Positive
<1>2. Len(at.meta[c].unresolved) \in Nat
  BY <1>1, ImplFields
<1>3. at \in Places \ Visited(c)
  BY <1>1, <1>2 DEF Visited
<1>4. Visit(calls, c)[at] = Visit(calls, c)[VisitStep(calls, c)[at]]
  BY <1>3, VisitLoops DEF IsLoop
<1>5. VisitStep(calls, c)[at] =
        [meta |-> Found(calls, at.meta, c, at.base),
         base |-> Advance(at.base, Len(at.meta[c].unresolved) - 1)]
  BY <1>3, VisitSteps
<1>6. VisitStep(calls, c)[at] \in Places
  BY VisitStepTyped
<1>7. VisitStep(calls, c)[at].meta = Found(calls, at.meta, c, at.base)
  BY <1>5
<1> QED
  BY <1>1, <1>2, <1>4, <1>6, <1>7

LEMMA ResolveBasesGrows ==
  ASSUME NEW calls \in Growing, NEW x \in Metas, NEW c \in Classes
  PROVE  resolveBases(calls, x, c) \in Metas /\ Grew(x, resolveBases(calls, x, c))
<1> DEFINE Good == {y \in Metas : Grew(x, y)}
           at == [meta |-> x, base |-> 1]
<1>1. ASSUME NEW y \in Good, NEW i \in 1..Len(y[c].unresolved)
      PROVE  Found(calls, y, c, i) \in Good
  <2>1. Found(calls, y, c, i) \in Metas /\ Grew(y, Found(calls, y, c, i))
    BY FoundGrows
  <2> QED
    BY <2>1, GrewTrans
<1>2. at \in Places /\ at.meta = x /\ x \in Good
  BY GrewSelf DEF Places, Positive
<1> HIDE DEF at, Good
<1>3. Good \in SUBSET Metas
  BY DEF Good
<1>4. Visit(calls, c)[at] \in Good
  BY <1>1, <1>2, <1>3, VisitKeeps
<1> QED
  BY <1>4, ResolveBasesVisits DEF Good, at

(***************************************************************************)
(* registerSuperClassInternal                                              *)
(***************************************************************************)
LEMMA ListedFields ==
  ASSUME NEW x \in Metas, NEW c \in Classes, NEW b \in Classes
  PROVE  /\ Listed(x, c, b) \in Metas
         /\ \A d \in Classes \ {c} : Listed(x, c, b)[d] = x[d]
         /\ Listed(x, c, b)[c].unresolved = x[c].unresolved
         /\ Listed(x, c, b)[c].casts = x[c].casts
         /\ Listed(x, c, b)[c].superclasses = Append(x[c].superclasses, b)
         /\ Listed(x, c, b)[c].methods = x[c].methods \o x[b].methods
<1> DEFINE s == Append(x[c].superclasses, b)
           ms == x[c].methods \o x[b].methods
           n == [unresolved |-> x[c].unresolved, superclasses |-> s, methods |-> ms,
                 casts |-> x[c].casts]
           k == [x[c] EXCEPT !.superclasses = s, !.methods = ms]
<1>1. s \in Seq(Classes) /\ ms \in Seq(Classes)
  BY ImplFields, ConcatProperties
<1>2. n \in ClassImpl
  BY <1>1, ImplFields DEF ClassImpl
<1>6. k = n
  <2> HIDE DEF s, ms
  <2>1. x[c] \in ClassImpl
    BY ImplFields
  <2> QED
    BY <1>1, <2>1, WithLists
<1>7. Listed(x, c, b) = [x EXCEPT ![c] = k]
  BY DEF Listed, Metas
<1> HIDE DEF n, k
<1>3. Listed(x, c, b) = [x EXCEPT ![c] = n]
  BY <1>6, <1>7
<1>4. Listed(x, c, b) \in Metas /\ Listed(x, c, b)[c] = n
  BY <1>2, <1>3 DEF Metas
<1>5. ASSUME NEW d \in Classes \ {c} PROVE Listed(x, c, b)[d] = x[d]
  BY <1>3 DEF Metas
<1>8. /\ n.unresolved = x[c].unresolved /\ n.casts = x[c].casts
      /\ n.superclasses = s /\ n.methods = ms
  BY DEF n
<1> QED
  BY <1>4, <1>5, <1>8

LEMMA Appended ==
  ASSUME NEW s \in Seq(Classes), NEW b \in Classes, NEW t \in Seq(Classes)
  PROVE  Prefix(s, Append(s, b)) /\ Prefix(s, s \o t)
<1>1. Prefix(s, s \o t)
  BY ConcatProperties DEF Prefix
<1>2. Prefix(s, Append(s, b))
  BY DEF Prefix
<1> QED
  BY <1>1, <1>2

LEMMA ListedGrows ==
  ASSUME NEW x \in Metas, NEW c \in Classes, NEW b \in Classes
  PROVE  GrewBut(c, x, Listed(x, c, b))
<1>1. \A d \in Classes \ {c} : Grown(x[d], Listed(x, c, b)[d])
  <2> TAKE d \in Classes \ {c}
  <2>1. Listed(x, c, b)[d] = x[d]
    BY ListedFields
  <2>2. Grown(x[d], x[d])
    BY LongerSelf, ImplFields
  <2> QED
    BY <2>1, <2>2
<1>2. Longer(x[c], Listed(x, c, b)[c])
  <2>1. Prefix(x[c].superclasses, Append(x[c].superclasses, b))
    BY ImplFields, Appended
  <2>2. Prefix(x[c].methods, x[c].methods \o x[b].methods)
    BY ImplFields, Appended
  <2>3. Len(x[c].unresolved) <= Len(x[c].unresolved)
    BY ImplFields
  <2> QED
    BY <2>1, <2>2, <2>3, ListedFields DEF Longer
<1> QED
  BY <1>1, <1>2 DEF GrewBut

Flatten(calls, y, c, supers) ==
  CHOOSE flattened : flattened =
    [n \in 0..Len(supers) |->
       IF n = 0 THEN y
       ELSE calls.register[c][supers[n]][calls.copy[supers[n]][flattened[n - 1]]]]

LEMMA RegisterFlattens ==
  ASSUME NEW calls, NEW x, NEW c, NEW b
  PROVE  LET y == calls.copy[b][calls.copy[b][x]]
         IN  registerSuperClassInternal(calls, x, c, b) =
               Flatten(calls, Listed(y, c, b), c, y[b].superclasses)[Len(y[b].superclasses)]
BY DEF registerSuperClassInternal, Flatten

LEMMA FlattenSteps ==
  ASSUME NEW calls \in Growing, NEW y \in Metas, NEW c \in Classes, NEW supers \in Seq(Classes)
  PROVE  LET f == Flatten(calls, y, c, supers)
         IN  /\ f \in [0..Len(supers) -> Metas]
             /\ f[0] = y
             /\ \A n \in 1..Len(supers) :
                  f[n] = calls.register[c][supers[n]][calls.copy[supers[n]][f[n - 1]]]
<1> DEFINE N == Len(supers)
           step == [n \in 1..N |-> [m \in Metas |->
                      calls.register[c][supers[n]][calls.copy[supers[n]][m]]]]
           Code(f) == f = [n \in 0..N |->
                        IF n = 0 THEN y
                        ELSE calls.register[c][supers[n]][calls.copy[supers[n]][f[n - 1]]]]
<1>1. N \in Nat
  OBVIOUS
<1>2. ASSUME NEW n \in 1..N, NEW m \in Metas
      PROVE  calls.register[c][supers[n]][calls.copy[supers[n]][m]] \in Metas
  <2>1. supers[n] \in Classes
    OBVIOUS
  <2> QED
    BY <2>1, CallsTyped
<1>3. step \in [1..N -> [Metas -> Metas]]
  BY <1>2
<1>4. \E f \in [0..N -> Metas] : IsChain(f, N, y, step)
  <2> HIDE DEF step, N
  <2> QED
    BY <1>1, <1>3, ChainExists
<1>5. PICK f \in [0..N -> Metas] : IsChain(f, N, y, step)
  BY <1>4
<1>6. Code(f)
  <2> DEFINE One(n) == IF n = 0 THEN y ELSE step[n][f[n - 1]]
             Two(n) == IF n = 0 THEN y
                       ELSE calls.register[c][supers[n]][calls.copy[supers[n]][f[n - 1]]]
  <2>1. ASSUME NEW n \in 0..N PROVE One(n) = Two(n)
    <3>1. CASE n = 0
      BY <3>1
    <3>2. CASE n # 0
      <4>1. n \in 1..N /\ n - 1 \in 0..N
        BY <1>1, <3>2
      <4>2. f[n - 1] \in Metas
        BY <4>1
      <4> QED
        BY <3>2, <4>1, <4>2
    <3> QED
      BY <3>1, <3>2
  <2>2. [n \in 0..N |-> One(n)] = [n \in 0..N |-> Two(n)]
    <3> HIDE DEF One, Two
    <3> QED
      BY <2>1
  <2>3. f = [n \in 0..N |-> One(n)]
    BY <1>5 DEF IsChain
  <2> QED
    BY <2>2, <2>3
<1> DEFINE g == Flatten(calls, y, c, supers)
<1>7. Code(g)
  <2>1. g = CHOOSE h : Code(h)
    BY DEF Flatten
  <2> HIDE DEF g, Code
  <2> QED
    BY <1>6, <2>1
<1> HIDE DEF g
<1>8. /\ g[0] = y
      /\ \A n \in 1..N : g[n] = calls.register[c][supers[n]][calls.copy[supers[n]][g[n - 1]]]
  <2> DEFINE Two(n) == IF n = 0 THEN y
                       ELSE calls.register[c][supers[n]][calls.copy[supers[n]][g[n - 1]]]
  <2>1. g = [n \in 0..N |-> Two(n)]
    BY <1>7
  <2>2. \A n \in 0..N : g[n] = Two(n)
    <3> HIDE DEF Two
    <3> QED
      BY <2>1
  <2>3. 0 \in 0..N /\ \A n \in 1..N : n \in 0..N /\ n # 0
    BY <1>1
  <2> QED
    BY <2>2, <2>3
<1>9. g \in [0..N -> Metas]
  <2> DEFINE T == {k \in Nat : k <= N => g[k] \in Metas}
  <2>1. 0 \in T
    BY <1>8
  <2>2. ASSUME NEW k \in Nat, k \in T PROVE k + 1 \in T
    <3> SUFFICES ASSUME k + 1 <= N PROVE g[k + 1] \in Metas
      OBVIOUS
    <3>1. k + 1 \in 1..N /\ (k + 1) - 1 = k /\ g[k] \in Metas
      BY <1>1, <2>2
    <3> QED
      BY <1>2, <1>8, <3>1
  <2> HIDE DEF T
  <2>3. Nat \subseteq T
    BY <2>1, <2>2, SetInduction
  <2>4. \A k \in 0..N : g[k] \in Metas
    BY <1>1, <2>3 DEF T
  <2>5. g = [n \in 0..N |-> g[n]]
    BY <1>7
  <2> QED
    BY <2>4, <2>5
<1> QED
  BY <1>8, <1>9 DEF g

LEMMA RegisterGrows ==
  ASSUME NEW calls \in Growing, NEW x \in Metas, NEW c \in Classes, NEW b \in Classes
  PROVE  /\ registerSuperClassInternal(calls, x, c, b) \in Metas
         /\ GrewBut(c, x, registerSuperClassInternal(calls, x, c, b))
<1> DEFINE w == calls.copy[b][x]
           y == calls.copy[b][w]
           z == Listed(y, c, b)
           supers == y[b].superclasses
           f == Flatten(calls, z, c, supers)
<1>1. w \in Metas /\ Grew(x, w)
  BY CallsTyped
<1>2. y \in Metas /\ Grew(w, y)
  <2> HIDE DEF w
  <2> QED
    BY <1>1, CallsTyped
<1>3. registerSuperClassInternal(calls, x, c, b) = f[Len(supers)]
  BY RegisterFlattens
<1> HIDE DEF w, y
<1>4. Grew(x, y)
  BY <1>1, <1>2, GrewTrans
<1>5. z \in Metas /\ GrewBut(c, y, z)
  BY <1>2, ListedFields, ListedGrows
<1>6. GrewBut(c, x, z)
  BY <1>2, <1>4, <1>5, GrewIsGrewBut, GrewButTrans
<1>7. supers \in Seq(Classes) /\ Len(supers) \in Nat
  BY <1>2, ImplFields
<1> HIDE DEF z, supers
<1>8. /\ f \in [0..Len(supers) -> Metas] /\ f[0] = z
      /\ \A n \in 1..Len(supers) :
           f[n] = calls.register[c][supers[n]][calls.copy[supers[n]][f[n - 1]]]
  BY <1>5, <1>7, FlattenSteps
<1> HIDE DEF f
<1> DEFINE T == {n \in Nat : n <= Len(supers) => GrewBut(c, x, f[n])}
<1>9. 0 \in T
  BY <1>6, <1>8
<1>10. ASSUME NEW n \in Nat, n \in T PROVE n + 1 \in T
  <2> SUFFICES ASSUME n + 1 <= Len(supers) PROVE GrewBut(c, x, f[n + 1])
    OBVIOUS
  <2>1. n + 1 \in 1..Len(supers) /\ n \in 0..Len(supers) /\ (n + 1) - 1 = n
    BY <1>7
  <2>2. GrewBut(c, x, f[n])
    BY <1>7, <1>10
  <2>3. f[n] \in Metas /\ supers[n + 1] \in Classes
    BY <1>7, <1>8, <2>1
  <2> DEFINE u == calls.copy[supers[n + 1]][f[n]]
             v == calls.register[c][supers[n + 1]][u]
  <2>4. u \in Metas /\ Grew(f[n], u)
    BY <2>3, CallsTyped
  <2>5. v \in Metas /\ GrewBut(c, u, v)
    <3> HIDE DEF u
    <3> QED
      BY <2>3, <2>4, CallsTyped
  <2>6. f[n + 1] = v
    BY <1>8, <2>1
  <2> HIDE DEF u, v
  <2>7. GrewBut(c, f[n], u)
    BY <2>3, <2>4, GrewIsGrewBut
  <2>8. GrewBut(c, x, u)
    BY <2>2, <2>3, <2>4, <2>7, GrewButTrans
  <2>9. GrewBut(c, x, v)
    BY <2>4, <2>5, <2>8, GrewButTrans
  <2> QED
    BY <2>6, <2>9
<1> HIDE DEF T
<1>11. Nat \subseteq T
  BY <1>9, <1>10, SetInduction
<1>12. Len(supers) \in 0..Len(supers) /\ Len(supers) <= Len(supers)
  BY <1>7
<1>13. f[Len(supers)] \in Metas
  BY <1>8, <1>12
<1>14. GrewBut(c, x, f[Len(supers)])
  BY <1>7, <1>11, <1>12 DEF T
<1> QED
  BY <1>3, <1>13, <1>14

(***************************************************************************)
(* Calls around calls                                                      *)
(***************************************************************************)
CopyAround(calls) == [c \in Classes |-> [x \in Metas |-> resolveBases(calls, x, c)]]

WithCopies(calls) == [copy |-> CopyAround(calls), register |-> calls.register]

LEMMA AroundCalls ==
  ASSUME NEW calls \in Growing, NEW c \in Classes, NEW b \in Classes, NEW x \in Metas
  PROVE  /\ Around(calls).copy[c][x] = resolveBases(calls, x, c)
         /\ Around(calls).register[c][b][x] =
              registerSuperClassInternal(WithCopies(calls), x, c, b)
         /\ WithCopies(calls).copy[c][x] = resolveBases(calls, x, c)
         /\ WithCopies(calls).register = calls.register
<1>1. [calls EXCEPT !.copy = CopyAround(calls)] = WithCopies(calls)
  BY DEF Growing, Nesting, WithCopies
<1> QED
  BY <1>1 DEF Around, WithCopies, CopyAround

LEMMA WithCopiesGrowing ==
  ASSUME NEW calls \in Growing PROVE WithCopies(calls) \in Growing
<1> DEFINE w == WithCopies(calls)
<1>1. \A c \in Classes, x \in Metas :
        w.copy[c][x] = resolveBases(calls, x, c) /\ w.copy[c][x] \in Metas /\ Grew(x, w.copy[c][x])
  BY ResolveBasesGrows DEF WithCopies, CopyAround
<1>2. CopyAround(calls) \in [Classes -> Effect]
  BY ResolveBasesGrows DEF CopyAround, Effect
<1>3. w \in Nesting
  BY <1>2 DEF Growing, Nesting, WithCopies
<1>4. w.register = calls.register
  BY DEF WithCopies
<1> HIDE DEF w
<1> QED
  BY <1>1, <1>3, <1>4 DEF Growing, w

LEMMA AroundGrowing ==
  ASSUME NEW calls \in Growing PROVE Around(calls) \in Growing
<1> DEFINE w == WithCopies(calls)
           a == Around(calls)
           reg == [c \in Classes |-> [b \in Classes |-> [x \in Metas |->
                     registerSuperClassInternal(w, x, c, b)]]]
<1>1. w \in Growing
  BY WithCopiesGrowing
<1>2. [calls EXCEPT !.copy = CopyAround(calls)] = w
  BY DEF Growing, Nesting, WithCopies
<1>3. a = [copy |-> CopyAround(calls), register |-> reg]
  BY <1>2 DEF Around, CopyAround
<1>4. CopyAround(calls) \in [Classes -> Effect]
  BY ResolveBasesGrows DEF CopyAround, Effect
<1>5. reg \in [Classes -> [Classes -> Effect]]
  <2> HIDE DEF w
  <2> QED
    BY <1>1, RegisterGrows DEF Effect
<1>6. a \in Nesting
  <2> HIDE DEF a, reg
  <2> QED
    BY <1>3, <1>4, <1>5 DEF Nesting
<1>7. ASSUME NEW c \in Classes, NEW x \in Metas PROVE Grew(x, a.copy[c][x])
  <2>1. a.copy[c][x] = resolveBases(calls, x, c)
    BY AroundCalls
  <2> QED
    BY <2>1, ResolveBasesGrows
<1>8. ASSUME NEW c \in Classes, NEW b \in Classes, NEW x \in Metas
      PROVE  GrewBut(c, x, a.register[c][b][x])
  <2>1. a.register[c][b][x] = registerSuperClassInternal(w, x, c, b)
    BY AroundCalls
  <2> QED
    BY <1>1, <2>1, RegisterGrows
<1> HIDE DEF a
<1> QED
  BY <1>6, <1>7, <1>8 DEF Growing, a

LEMMA NoCallsGrowing ==
  NoCalls \in Growing
<1>1. NoCalls \in Nesting
  BY DEF NoCalls, Nesting, Effect
<1>2. \A c \in Classes, x \in Metas : NoCalls.copy[c][x] = x
  BY DEF NoCalls
<1>3. \A c, b \in Classes, x \in Metas : NoCalls.register[c][b][x] = x
  BY DEF NoCalls
<1> QED
  BY <1>1, <1>2, <1>3, GrewSelf, GrewIsGrewBut DEF Growing

LEMMA NestedGrowing ==
  /\ Cardinality(Classes) \in Nat
  /\ \A n \in 0..Cardinality(Classes) : Nested[n] \in Growing
  /\ \A n \in 1..Cardinality(Classes) : Nested[n] = Around(Nested[n - 1])
<1> DEFINE N == Cardinality(Classes)
           step == [n \in 1..N |-> [calls \in Growing |-> Around(calls)]]
           Code(f) == f = [n \in 0..N |-> IF n = 0 THEN NoCalls ELSE Around(f[n - 1])]
<1>1. N \in Nat
  BY BasesAssumption, FS_CardinalityType
<1>2. step \in [1..N -> [Growing -> Growing]]
  BY AroundGrowing
<1>3. \E f \in [0..N -> Growing] : IsChain(f, N, NoCalls, step)
  <2> HIDE DEF step, N
  <2> QED
    BY <1>1, <1>2, NoCallsGrowing, ChainExists
<1>4. PICK f \in [0..N -> Growing] : IsChain(f, N, NoCalls, step)
  BY <1>3
<1>5. Code(f)
  <2> DEFINE One(n) == IF n = 0 THEN NoCalls ELSE step[n][f[n - 1]]
             Two(n) == IF n = 0 THEN NoCalls ELSE Around(f[n - 1])
  <2>1. ASSUME NEW n \in 0..N PROVE One(n) = Two(n)
    <3>1. CASE n = 0
      BY <3>1
    <3>2. CASE n # 0
      <4>1. n \in 1..N /\ n - 1 \in 0..N
        BY <1>1, <3>2
      <4>2. f[n - 1] \in Growing
        BY <4>1
      <4> QED
        BY <3>2, <4>1, <4>2
    <3> QED
      BY <3>1, <3>2
  <2>2. [n \in 0..N |-> One(n)] = [n \in 0..N |-> Two(n)]
    <3> HIDE DEF One, Two
    <3> QED
      BY <2>1
  <2>3. f = [n \in 0..N |-> One(n)]
    BY <1>4 DEF IsChain
  <2> QED
    BY <2>2, <2>3
<1>6. Code(Nested)
  <2>1. Nested = CHOOSE h : Code(h)
    BY DEF Nested
  <2> HIDE DEF Code
  <2> QED
    BY <1>5, <2>1
<1>7. Nested[0] = NoCalls /\ \A n \in 1..N : Nested[n] = Around(Nested[n - 1])
  <2> DEFINE Two(n) == IF n = 0 THEN NoCalls ELSE Around(Nested[n - 1])
  <2>1. Nested = [n \in 0..N |-> Two(n)]
    BY <1>6
  <2>2. \A n \in 0..N : Nested[n] = Two(n)
    <3> HIDE DEF Two
    <3> QED
      BY <2>1
  <2>3. 0 \in 0..N /\ \A n \in 1..N : n \in 0..N /\ n # 0
    BY <1>1
  <2> QED
    BY <2>2, <2>3
<1> DEFINE T == {k \in Nat : k <= N => Nested[k] \in Growing}
<1>8. 0 \in T
  BY <1>7, NoCallsGrowing
<1>9. ASSUME NEW k \in Nat, k \in T PROVE k + 1 \in T
  <2> SUFFICES ASSUME k + 1 <= N PROVE Nested[k + 1] \in Growing
    OBVIOUS
  <2>1. k + 1 \in 1..N /\ (k + 1) - 1 = k /\ Nested[k] \in Growing
    BY <1>1, <1>9
  <2> QED
    BY <1>7, <2>1, AroundGrowing
<1> HIDE DEF T
<1>10. Nat \subseteq T
  BY <1>8, <1>9, SetInduction
<1>11. \A k \in 0..N : Nested[k] \in Growing
  BY <1>1, <1>10 DEF T
<1> QED
  BY <1>1, <1>7, <1>11

-----------------------------------------------------------------------------
(* The hierarchy                                                           *)

\* Each class is defined after its bases
Order(line) ==
  /\ line \in [Classes -> 1..Cardinality(Classes)]
  /\ \A c \in Classes : \A b \in ToSet(Bases[c]) : line[b] < line[c]

Above(S) == \A s \in S : ToSet(Bases[s]) \subseteq S

Down(c) == {c} \union Ancestors[c]

LEMMA BasesTyped ==
  ASSUME NEW c \in Classes
  PROVE  Bases[c] \in Seq(Classes) /\ ToSet(Bases[c]) \subseteq Classes /\ Ancestors[c] \subseteq Classes
BY BasesAssumption DEF ToSet, Ancestors

LEMMA AncestorsLeast ==
  ASSUME NEW c \in Classes, NEW S \in SUBSET Classes, ToSet(Bases[c]) \subseteq S, Above(S)
  PROVE  Ancestors[c] \subseteq S
BY DEF Ancestors, Above

LEMMA AncestorsAbove ==
  ASSUME NEW c \in Classes
  PROVE  ToSet(Bases[c]) \subseteq Ancestors[c] /\ Above(Ancestors[c])
<1>1. ToSet(Bases[c]) \subseteq Ancestors[c]
  BY BasesTyped DEF Ancestors
<1>2. ASSUME NEW a \in Ancestors[c], NEW b \in ToSet(Bases[a]) PROVE b \in Ancestors[c]
  <2>1. a \in Classes
    BY BasesTyped
  <2>2. b \in Classes
    BY <2>1, BasesTyped
  <2>3. ASSUME NEW S \in SUBSET Classes, ToSet(Bases[c]) \subseteq S,
               \A s \in S : ToSet(Bases[s]) \subseteq S
        PROVE  b \in S
    <3>1. a \in S
      BY <2>3 DEF Ancestors
    <3> QED
      BY <2>3, <3>1
  <2> QED
    BY <2>2, <2>3 DEF Ancestors
<1> QED
  BY <1>1, <1>2 DEF Above

LEMMA AncestorsTrans ==
  ASSUME NEW c \in Classes, NEW a \in Ancestors[c]
  PROVE  a \in Classes /\ Down(a) \subseteq Ancestors[c]
<1>1. a \in Classes
  BY BasesTyped
<1>2. ToSet(Bases[a]) \subseteq Ancestors[c]
  BY AncestorsAbove DEF Above
<1>3. Ancestors[a] \subseteq Ancestors[c]
  BY <1>1, <1>2, AncestorsAbove, BasesTyped, AncestorsLeast
<1> QED
  BY <1>1, <1>3 DEF Down

LEMMA AncestorsEarlier ==
  ASSUME NEW line, Order(line), NEW c \in Classes, NEW a \in Ancestors[c]
  PROVE  line[a] < line[c]
<1> DEFINE S == {s \in Classes : line[s] < line[c]}
<1>1. \A s \in Classes : line[s] \in Int
  <2>1. Cardinality(Classes) \in Nat
    BY NestedGrowing
  <2> QED
    BY <2>1 DEF Order
<1>2. ToSet(Bases[c]) \subseteq S
  BY BasesTyped DEF Order
<1>3. ASSUME NEW s \in S, NEW b \in ToSet(Bases[s]) PROVE b \in S
  <2>1. b \in Classes /\ line[b] < line[s] /\ line[s] < line[c]
    BY BasesTyped DEF Order
  <2> QED
    BY <1>1, <2>1
<1>4. Above(S) /\ S \in SUBSET Classes
  BY <1>3 DEF Above
<1> HIDE DEF S
<1>5. Ancestors[c] \subseteq S
  BY <1>2, <1>4, AncestorsLeast
<1> QED
  BY <1>5 DEF S

LEMMA LineExists ==
  \E line : Order(line)
BY BasesAssumption DEF Order

\* No class is above itself
LEMMA Acyclic ==
  ASSUME NEW c \in Classes, NEW b \in Ancestors[c]
  PROVE  c \notin Down(b) /\ c \notin Ancestors[c]
<1>1. PICK line : Order(line)
  BY LineExists
<1>2. \A s \in Classes : line[s] \in Int
  <2>1. Cardinality(Classes) \in Nat
    BY NestedGrowing
  <2> QED
    BY <1>1, <2>1 DEF Order
<1>3. c \notin Ancestors[c]
  BY <1>1, <1>2, AncestorsEarlier
<1>4. Down(b) \subseteq Ancestors[c]
  BY AncestorsTrans
<1> QED
  BY <1>3, <1>4

-----------------------------------------------------------------------------
(* What each call leaves                                                   *)

(***************************************************************************)
(* The meta-class of d: each base waits or has been found, none twice; it  *)
(* lists registered classes above d, those found among them; its members   *)
(* come from d and from what it lists.                                     *)
(***************************************************************************)
Sound(m, d) ==
  /\ ToSet(m.unresolved) \union m.casts = ToSet(Bases[d])
  /\ ToSet(m.unresolved) \intersect m.casts = {}
  /\ IsInjective(m.unresolved)
  /\ m.casts \subseteq ToSet(m.superclasses)
  /\ ToSet(m.superclasses) \subseteq Ancestors[d] \intersect registered
  /\ ToSet(m.methods) = {d} \union ToSet(m.superclasses)

SoundOn(x, S) == \A d \in S : Sound(x[d], d)

SameOff(x, y, S) == \A d \in Classes \ S : y[d] = x[d]

\* n lists the classes in B besides what m lists, and has their members
Extended(m, n, B) ==
  /\ n.unresolved = m.unresolved /\ n.casts = m.casts
  /\ ToSet(n.superclasses) = ToSet(m.superclasses) \union B
  /\ ToSet(n.methods) = ToSet(m.methods) \union B

\* A copy of a handle of c concerns c and the classes above it
CopyLeaves(x, y, c) == SoundOn(y, Down(c)) /\ SameOff(x, y, Down(c))

CopySound(calls, c) ==
  \A x \in Metas : SoundOn(x, Down(c)) => CopyLeaves(x, calls.copy[c][x], c)

\* Registering b with c concerns b and the classes above it, and the lists of c
RegisterLeaves(x, y, c, b) ==
  /\ SoundOn(y, Down(b)) /\ SameOff(x, y, Down(b) \union {c})
  /\ \E B \in SUBSET (Down(b) \intersect registered) : b \in B /\ Extended(x[c], y[c], B)

RegisterSound(calls, c, b) ==
  \A x \in Metas : SoundOn(x, Down(b)) => RegisterLeaves(x, calls.register[c][b][x], c, b)

CopiesSound(calls, S) == \A c \in S : CopySound(calls, c)

RegistersSound(calls, S) ==
  \A c \in Classes : \A b \in S \intersect registered : c \notin Down(b) => RegisterSound(calls, c, b)

LEMMA RemovedSet ==
  ASSUME NEW s \in Seq(Classes), NEW i \in 1..Len(s), IsInjective(s)
  PROVE  /\ ToSet(RemoveAt(s, i)) = ToSet(s) \ {s[i]}
         /\ IsInjective(RemoveAt(s, i))
<1> DEFINE r == RemoveAt(s, i)
<1>1. /\ r \in Seq(Classes) /\ Len(r) = Len(s) - 1
      /\ \A k \in 1..(Len(s) - 1) : r[k] = IF k < i THEN s[k] ELSE s[k + 1]
  BY RemovedAt
<1>2. Len(s) \in Nat /\ DOMAIN s = 1..Len(s) /\ DOMAIN r = 1..(Len(s) - 1)
  <2>1. Len(s) \in Nat /\ DOMAIN s = 1..Len(s)
    OBVIOUS
  <2>2. DOMAIN r = 1..Len(r)
    <3> HIDE DEF r
    <3> QED
      BY <1>1
  <2> QED
    BY <1>1, <2>1, <2>2
<1> HIDE DEF r
<1>3. \A j, k \in 1..Len(s) : s[j] = s[k] => j = k
  BY <1>2 DEF IsInjective
<1>4. ASSUME NEW k \in 1..(Len(s) - 1) PROVE r[k] \in ToSet(s) \ {s[i]}
  <2>1. CASE k < i
    <3>1. r[k] = s[k] /\ k \in 1..Len(s) /\ k # i
      BY <1>1, <1>2, <2>1
    <3> QED
      BY <1>2, <1>3, <3>1 DEF ToSet
  <2>2. CASE ~(k < i)
    <3>1. r[k] = s[k + 1] /\ k + 1 \in 1..Len(s) /\ k + 1 # i
      BY <1>1, <1>2, <2>2
    <3> QED
      BY <1>2, <1>3, <3>1 DEF ToSet
  <2> QED
    BY <2>1, <2>2
<1>5. ASSUME NEW j \in 1..Len(s), s[j] # s[i] PROVE s[j] \in ToSet(r)
  <2>1. CASE j < i
    <3>1. j \in 1..(Len(s) - 1) /\ r[j] = s[j]
      BY <1>1, <1>2, <2>1
    <3> QED
      BY <1>2, <3>1 DEF ToSet
  <2>2. CASE j > i
    <3>1. j - 1 \in 1..(Len(s) - 1) /\ ~(j - 1 < i) /\ (j - 1) + 1 = j
      BY <1>2, <2>2
    <3>2. r[j - 1] = s[j]
      BY <1>1, <3>1
    <3> QED
      BY <1>2, <3>1, <3>2 DEF ToSet
  <2>3. j < i \/ j > i
    BY <1>2, <1>5
  <2> QED
    BY <2>1, <2>2, <2>3
<1>6. ToSet(r) = ToSet(s) \ {s[i]}
  <2>1. ToSet(r) \subseteq ToSet(s) \ {s[i]}
    BY <1>2, <1>4 DEF ToSet
  <2>2. ToSet(s) \ {s[i]} \subseteq ToSet(r)
    <3> SUFFICES ASSUME NEW a \in ToSet(s), a # s[i] PROVE a \in ToSet(r)
      OBVIOUS
    <3>1. PICK j \in 1..Len(s) : a = s[j]
      BY <1>2 DEF ToSet
    <3> QED
      BY <1>5, <3>1
  <2> QED
    BY <2>1, <2>2
<1>7. ASSUME NEW j \in 1..(Len(s) - 1), NEW k \in 1..(Len(s) - 1), r[j] = r[k] PROVE j = k
  <2> DEFINE at(n) == IF n < i THEN n ELSE n + 1
  <2>1. r[j] = s[at(j)] /\ r[k] = s[at(k)]
    BY <1>1
  <2>2. at(j) \in 1..Len(s) /\ at(k) \in 1..Len(s)
    BY <1>2
  <2>3. at(j) = at(k)
    <3> HIDE DEF at
    <3> QED
      BY <1>3, <1>7, <2>1, <2>2
  <2> QED
    BY <1>2, <2>3
<1>8. IsInjective(r)
  BY <1>2, <1>7 DEF IsInjective
<1> QED
  BY <1>6, <1>8 DEF r

\* A base that waited has been found
LEMMA FoundSound ==
  ASSUME NEW c \in Classes, NEW m \in ClassImpl, NEW n \in ClassImpl, Sound(m, c),
         NEW i \in 1..Len(m.unresolved),
         NEW B \in SUBSET (Ancestors[c] \intersect registered), m.unresolved[i] \in B,
         n.unresolved = RemoveAt(m.unresolved, i),
         n.casts = m.casts \union {m.unresolved[i]},
         ToSet(n.superclasses) = ToSet(m.superclasses) \union B,
         ToSet(n.methods) = ToSet(m.methods) \union B
  PROVE  Sound(n, c)
<1>1. m.unresolved \in Seq(Classes)
  BY DEF ClassImpl
<1>2. ToSet(n.unresolved) = ToSet(m.unresolved) \ {m.unresolved[i]} /\ IsInjective(n.unresolved)
  BY <1>1, RemovedSet DEF Sound
<1>3. m.unresolved[i] \in ToSet(m.unresolved)
  BY <1>1 DEF ToSet
<1> QED
  BY <1>2, <1>3 DEF Sound

LEMMA SoundAfter ==
  ASSUME NEW x \in Metas, NEW y \in Metas, NEW c \in Classes, NEW S, NEW T,
         S \subseteq T, T \subseteq Classes, SoundOn(x, T), SoundOn(y, S), SameOff(x, y, S)
  PROVE  SoundOn(y, T)
BY DEF SoundOn, SameOff

LEMMA DownTyped ==
  ASSUME NEW c \in Classes PROVE Down(c) \subseteq Classes /\ c \in Down(c)
BY BasesTyped DEF Down

(***************************************************************************)
(* A base that resolveBases finds: its handle is copied and it is erased   *)
(* from the waiting ones, registered and its handle copied again, and its  *)
(* cast function kept.                                                     *)
(***************************************************************************)
Erased(calls, x, c, i) ==
  [calls.copy[x[c].unresolved[i]][x] EXCEPT ![c].unresolved = RemoveAt(x[c].unresolved, i)]

Added(calls, x, c, i) ==
  calls.copy[x[c].unresolved[i]][calls.register[c][x[c].unresolved[i]][Erased(calls, x, c, i)]]

\* Handles of c and the classes above it may be copied
SoundBelow(calls, c) == CopiesSound(calls, Ancestors[c]) /\ RegistersSound(calls, Ancestors[c])

LEMMA WaitingBase ==
  ASSUME NEW c \in Classes, NEW x \in Metas, SoundOn(x, Down(c)), NEW i \in 1..Len(x[c].unresolved)
  PROVE  LET b == x[c].unresolved[i]
         IN  /\ b \in Classes /\ b \in Ancestors[c] /\ c \notin Down(b)
             /\ Down(b) \subseteq Ancestors[c] /\ SoundOn(x, Down(b))
             /\ RemoveAt(x[c].unresolved, i) \in Seq(Classes)
<1> DEFINE b == x[c].unresolved[i]
<1>0. x[c].unresolved \in Seq(Classes)
  BY ImplFields
<1>1. b \in Classes /\ RemoveAt(x[c].unresolved, i) \in Seq(Classes)
  BY <1>0, RemovedAt
<1>2. Sound(x[c], c)
  BY DownTyped DEF SoundOn
<1>3. b \in Ancestors[c]
  <2>1. b \in ToSet(x[c].unresolved)
    BY <1>0 DEF ToSet
  <2>2. b \in ToSet(Bases[c])
    BY <1>2, <2>1 DEF Sound
  <2> QED
    BY <2>2, AncestorsAbove
<1> HIDE DEF b
<1>4. Down(b) \subseteq Ancestors[c] /\ Ancestors[c] \subseteq Down(c) /\ c \notin Down(b)
  BY <1>3, AncestorsTrans, Acyclic DEF Down
<1>5. SoundOn(x, Down(b))
  BY <1>4 DEF SoundOn
<1> QED
  BY <1>1, <1>3, <1>4, <1>5 DEF b

LEMMA ErasedLeaves ==
  ASSUME NEW calls \in Growing, NEW c \in Classes, SoundBelow(calls, c),
         NEW x \in Metas, SoundOn(x, Down(c)), NEW i \in 1..Len(x[c].unresolved)
  PROVE  LET t == Erased(calls, x, c, i)
             b == x[c].unresolved[i]
         IN  /\ t \in Metas /\ SoundOn(t, Down(b))
             /\ SameOff(calls.copy[b][x], t, {c}) /\ SameOff(x, t, Down(b) \union {c})
             /\ t[c].unresolved = RemoveAt(x[c].unresolved, i)
             /\ t[c].superclasses = x[c].superclasses
             /\ t[c].methods = x[c].methods /\ t[c].casts = x[c].casts
<1> DEFINE b == x[c].unresolved[i]
           r == RemoveAt(x[c].unresolved, i)
           f == calls.copy[b][x]
           n == [f[c] EXCEPT !.unresolved = r]
           t == Erased(calls, x, c, i)
<1>1. /\ b \in Classes /\ b \in Ancestors[c] /\ c \notin Down(b) /\ SoundOn(x, Down(b))
      /\ r \in Seq(Classes)
  BY WaitingBase
<1>2. t = [f EXCEPT ![c] = n]
  BY DEF Erased
<1> HIDE DEF b, r, t
<1>3. f \in Metas /\ SoundOn(f, Down(b)) /\ SameOff(x, f, Down(b))
  <2>1. CopySound(calls, b)
    BY <1>1 DEF SoundBelow, CopiesSound
  <2> QED
    BY <1>1, <2>1, CallsTyped DEF CopySound, CopyLeaves
<1> HIDE DEF f
<1>4. f[c] = x[c]
  BY <1>1, <1>3 DEF SameOff
<1>5. n \in ClassImpl
  <2>1. f[c] \in ClassImpl
    BY <1>3, ImplFields
  <2> QED
    BY <1>1, <2>1, WithUnresolved
<1>6. /\ n.unresolved = r /\ n.casts = x[c].casts
      /\ n.superclasses = x[c].superclasses /\ n.methods = x[c].methods
  <2>1. x[c] \in ClassImpl
    BY ImplFields
  <2>2. LET q == [x[c] EXCEPT !.unresolved = r]
        IN  /\ q.unresolved = r /\ q.superclasses = x[c].superclasses
            /\ q.methods = x[c].methods /\ q.casts = x[c].casts
    BY <1>1, <2>1 DEF ClassImpl
  <2> QED
    BY <1>4, <2>2
<1> HIDE DEF n
<1>7. t \in Metas /\ t[c] = n /\ SameOff(f, t, {c})
  BY <1>2, <1>3, <1>5 DEF Metas, SameOff
<1>8. SoundOn(t, Down(b))
  BY <1>1, <1>3, <1>7, DownTyped DEF SoundOn, SameOff
<1>9. SameOff(x, t, Down(b) \union {c})
  BY <1>3, <1>7 DEF SameOff
<1> QED
  BY <1>6, <1>7, <1>8, <1>9 DEF t, b, r, f

LEMMA AddedLeaves ==
  ASSUME NEW calls \in Growing, NEW c \in Classes, SoundBelow(calls, c),
         NEW x \in Metas, SoundOn(x, Down(c)),
         NEW i \in 1..Len(x[c].unresolved), x[c].unresolved[i] \in registered
  PROVE  LET t == Erased(calls, x, c, i)
             b == x[c].unresolved[i]
             g == calls.register[c][b][t]
             h == Added(calls, x, c, i)
         IN  /\ g \in Metas /\ RegisterLeaves(t, g, c, b)
             /\ h \in Metas /\ CopyLeaves(g, h, b) /\ h[c] = g[c]
<1> DEFINE t == Erased(calls, x, c, i)
           b == x[c].unresolved[i]
           g == calls.register[c][b][t]
           h == Added(calls, x, c, i)
<1>1. b \in Classes /\ b \in Ancestors[c] /\ c \notin Down(b) /\ b \in registered
  BY WaitingBase
<1>2. t \in Metas /\ SoundOn(t, Down(b))
  BY ErasedLeaves
<1>3. h = calls.copy[b][g]
  BY DEF Added
<1> HIDE DEF b, t, h
<1>4. g \in Metas /\ RegisterLeaves(t, g, c, b)
  <2>1. RegisterSound(calls, c, b)
    BY <1>1 DEF SoundBelow, RegistersSound
  <2> QED
    BY <1>1, <1>2, <2>1, CallsTyped DEF RegisterSound
<1> HIDE DEF g
<1>5. h \in Metas /\ CopyLeaves(g, h, b)
  <2>1. SoundOn(g, Down(b))
    BY <1>4 DEF RegisterLeaves
  <2>2. CopySound(calls, b)
    BY <1>1 DEF SoundBelow, CopiesSound
  <2> QED
    BY <1>1, <1>3, <1>4, <2>1, <2>2, CallsTyped DEF CopySound
<1>6. h[c] = g[c]
  BY <1>1, <1>5 DEF CopyLeaves, SameOff
<1> QED
  BY <1>4, <1>5, <1>6 DEF t, b, g, h

CastKept(m, n, b) == n.casts = m.casts \union {b}

LEMMA FoundFields ==
  ASSUME NEW calls \in Growing, NEW x \in Metas, NEW c \in Classes,
         NEW i \in 1..Len(x[c].unresolved), Added(calls, x, c, i) \in Metas
  PROVE  LET y == Found(calls, x, c, i)
             h == Added(calls, x, c, i)
         IN  /\ y \in Metas /\ SameOff(h, y, {c})
             /\ y[c].unresolved = h[c].unresolved
             /\ CastKept(h[c], y[c], x[c].unresolved[i])
             /\ y[c].superclasses = h[c].superclasses
             /\ y[c].methods = h[c].methods
<1> DEFINE b == x[c].unresolved[i]
           h == Added(calls, x, c, i)
           k == [h[c] EXCEPT !.casts = @ \union {b}]
           y == Found(calls, x, c, i)
<1>1. y = [h EXCEPT ![c] = k]
  BY DEF Found, Added, Erased
<1>2. b \in Classes
  BY ImplFields
<1> HIDE DEF b, h, y
<1>3. h \in Metas /\ h[c] \in ClassImpl /\ h[c].casts \union {b} \in SUBSET Classes
  BY <1>2, ImplFields DEF h
<1>4. k \in ClassImpl
  BY <1>3, WithCasts
<1>5. /\ k.unresolved = h[c].unresolved /\ k.casts = h[c].casts \union {b}
      /\ k.superclasses = h[c].superclasses /\ k.methods = h[c].methods
  BY <1>3 DEF ClassImpl
<1> HIDE DEF k
<1>6. y \in Metas /\ y[c] = k /\ SameOff(h, y, {c})
  BY <1>1, <1>3, <1>4 DEF Metas, SameOff
<1>7. CastKept(h[c], y[c], b)
  BY <1>5, <1>6 DEF CastKept
<1> QED
  BY <1>5, <1>6, <1>7 DEF b, h, y

LEMMA FoundLeaves ==
  ASSUME NEW calls \in Growing, NEW c \in Classes, SoundBelow(calls, c),
         NEW x \in Metas, SoundOn(x, Down(c)),
         NEW i \in 1..Len(x[c].unresolved), x[c].unresolved[i] \in registered
  PROVE  CopyLeaves(x, Found(calls, x, c, i), c)
<1> DEFINE b == x[c].unresolved[i]
           r == RemoveAt(x[c].unresolved, i)
           t == Erased(calls, x, c, i)
           g == calls.register[c][b][t]
           h == Added(calls, x, c, i)
           y == Found(calls, x, c, i)
<1>1. /\ b \in Classes /\ b \in Ancestors[c] /\ c \notin Down(b)
      /\ Down(b) \subseteq Ancestors[c] /\ SoundOn(x, Down(b))
  BY WaitingBase
<1>2. /\ t \in Metas /\ SoundOn(t, Down(b)) /\ SameOff(x, t, Down(b) \union {c})
      /\ t[c].unresolved = r /\ t[c].superclasses = x[c].superclasses
      /\ t[c].methods = x[c].methods /\ t[c].casts = x[c].casts
  BY ErasedLeaves
<1>3. g \in Metas /\ RegisterLeaves(t, g, c, b) /\ h \in Metas /\ CopyLeaves(g, h, b) /\ h[c] = g[c]
  BY AddedLeaves
<1>8. h \in Metas
  BY <1>3
<1>4. /\ y \in Metas /\ SameOff(h, y, {c})
      /\ y[c].unresolved = h[c].unresolved /\ y[c].casts = h[c].casts \union {b}
      /\ y[c].superclasses = h[c].superclasses /\ y[c].methods = h[c].methods
  <2>1. y \in Metas /\ SameOff(h, y, {c})
    BY <1>8, FoundFields
  <2>2. y[c].unresolved = h[c].unresolved
    BY <1>8, FoundFields
  <2>3. CastKept(h[c], y[c], b)
    BY <1>8, FoundFields
  <2>4. y[c].superclasses = h[c].superclasses /\ y[c].methods = h[c].methods
    BY <1>8, FoundFields
  <2> QED
    BY <2>1, <2>2, <2>3, <2>4 DEF CastKept
<1> HIDE DEF r, t, g, h, y
<1>5. Sound(y[c], c)
  <2>1. PICK B \in SUBSET (Down(b) \intersect registered) : b \in B /\ Extended(t[c], g[c], B)
    BY <1>3 DEF RegisterLeaves
  <2>2. B \in SUBSET (Ancestors[c] \intersect registered)
    BY <1>1
  <2>3. x[c] \in ClassImpl /\ y[c] \in ClassImpl
    BY <1>4, ImplFields
  <2>4. y[c].unresolved = RemoveAt(x[c].unresolved, i)
    BY <1>2, <1>3, <1>4, <2>1 DEF Extended, r
  <2>5. y[c].casts = x[c].casts \union {b}
    BY <1>2, <1>3, <1>4, <2>1 DEF Extended
  <2>6. ToSet(y[c].superclasses) = ToSet(x[c].superclasses) \union B
    BY <1>2, <1>3, <1>4, <2>1 DEF Extended
  <2>7. ToSet(y[c].methods) = ToSet(x[c].methods) \union B
    BY <1>2, <1>3, <1>4, <2>1 DEF Extended
  <2>8. Sound(x[c], c)
    BY DownTyped DEF SoundOn
  <2> QED
    BY <2>1, <2>2, <2>3, <2>4, <2>5, <2>6, <2>7, <2>8, FoundSound
<1> HIDE DEF b
<1>6. SameOff(x, y, Down(c))
  <2> SUFFICES ASSUME NEW d \in Classes \ Down(c) PROVE y[d] = x[d]
    BY DEF SameOff
  <2>1. d # c /\ d \notin Down(b)
    BY <1>1 DEF Down
  <2>2. t[d] = x[d] /\ g[d] = t[d]
    BY <1>2, <1>3, <2>1 DEF RegisterLeaves, SameOff
  <2>3. h[d] = g[d] /\ y[d] = h[d]
    BY <1>3, <1>4, <2>1 DEF CopyLeaves, SameOff
  <2> QED
    BY <2>2, <2>3
<1>7. SoundOn(y, Down(c))
  <2> SUFFICES ASSUME NEW d \in Down(c), d # c PROVE Sound(y[d], d)
    BY <1>5 DEF SoundOn
  <2>1. d \in Classes
    BY DownTyped
  <2>2. y[d] = h[d]
    BY <1>4, <2>1 DEF SameOff
  <2>3. CASE d \in Down(b)
    BY <1>3, <2>2, <2>3 DEF CopyLeaves, SoundOn
  <2>4. CASE d \notin Down(b)
    <3>1. t[d] = x[d] /\ g[d] = t[d]
      BY <1>2, <1>3, <2>1, <2>4 DEF RegisterLeaves, SameOff
    <3>2. h[d] = g[d]
      BY <1>3, <2>1, <2>4 DEF CopyLeaves, SameOff
    <3> QED
      BY <2>2, <3>1, <3>2 DEF SoundOn
  <2> QED
    BY <2>3, <2>4
<1> QED
  BY <1>6, <1>7 DEF CopyLeaves, y

LEMMA ResolveLeaves ==
  ASSUME NEW calls \in Growing, NEW c \in Classes,
         SoundBelow(calls, c), NEW x \in Metas, SoundOn(x, Down(c))
  PROVE  CopyLeaves(x, resolveBases(calls, x, c), c)
<1> DEFINE Good == {y \in Metas : CopyLeaves(x, y, c)}
           at == [meta |-> x, base |-> 1]
<1>1. ASSUME NEW y \in Good, NEW i \in 1..Len(y[c].unresolved), y[c].unresolved[i] \in registered
      PROVE  Found(calls, y, c, i) \in Good
  <2> DEFINE z == Found(calls, y, c, i)
  <2>1. z \in Metas
    BY FoundGrows
  <2>2. CopyLeaves(y, z, c)
    BY <1>1, FoundLeaves DEF CopyLeaves
  <2> HIDE DEF z
  <2>3. CopyLeaves(x, z, c)
    BY <2>2 DEF CopyLeaves, SameOff
  <2> QED
    BY <2>1, <2>3 DEF z
<1>2. at \in Places /\ at.meta = x /\ x \in Good
  BY DEF Places, Positive, CopyLeaves, SameOff
<1> HIDE DEF at, Good
<1>3. Good \in SUBSET Metas
  BY DEF Good
<1>4. Visit(calls, c)[at] \in Good
  BY <1>1, <1>2, <1>3, VisitKeeps
<1> QED
  BY <1>4, ResolveBasesVisits DEF Good, at

LEMMA SetOfAppended ==
  ASSUME NEW s \in Seq(Classes), NEW b \in Classes, NEW t \in Seq(Classes)
  PROVE  /\ ToSet(Append(s, b)) = ToSet(s) \union {b}
         /\ ToSet(s \o t) = ToSet(s) \union ToSet(t)
<1>1. DOMAIN s = 1..Len(s) /\ DOMAIN t = 1..Len(t) /\ Len(s) \in Nat /\ Len(t) \in Nat
  OBVIOUS
<1>2. ToSet(Append(s, b)) = ToSet(s) \union {b}
  <2> DEFINE a == Append(s, b)
  <2>1. a \in Seq(Classes) /\ Len(a) = Len(s) + 1 /\ a[Len(s) + 1] = b
    OBVIOUS
  <2>2. \A i \in 1..Len(s) : a[i] = s[i]
    OBVIOUS
  <2> HIDE DEF a
  <2>3. DOMAIN a = 1..(Len(s) + 1)
    BY <2>1
  <2>4. \A i \in 1..(Len(s) + 1) : i \in 1..Len(s) \/ i = Len(s) + 1
    BY <1>1
  <2>5. Len(s) + 1 \in 1..(Len(s) + 1) /\ \A i \in 1..Len(s) : i \in 1..(Len(s) + 1)
    BY <1>1
  <2>6. ToSet(a) \subseteq ToSet(s) \union {b}
    BY <1>1, <2>1, <2>2, <2>3, <2>4 DEF ToSet
  <2>7. ToSet(s) \union {b} \subseteq ToSet(a)
    BY <1>1, <2>1, <2>2, <2>3, <2>5 DEF ToSet
  <2> QED
    BY <2>6, <2>7 DEF a
<1>3. ToSet(s \o t) = ToSet(s) \union ToSet(t)
  <2> DEFINE a == s \o t
  <2>1. a \in Seq(Classes) /\ Len(a) = Len(s) + Len(t)
    BY ConcatProperties
  <2>2. \A i \in 1..(Len(s) + Len(t)) : a[i] = IF i <= Len(s) THEN s[i] ELSE t[i - Len(s)]
    BY ConcatProperties
  <2> HIDE DEF a
  <2>3. DOMAIN a = 1..(Len(s) + Len(t))
    BY <2>1
  <2>4. ASSUME NEW i \in 1..(Len(s) + Len(t)) PROVE a[i] \in ToSet(s) \union ToSet(t)
    <3>1. CASE i <= Len(s)
      <4>1. i \in 1..Len(s) /\ a[i] = s[i]
        BY <1>1, <2>2, <3>1
      <4> QED
        BY <1>1, <4>1 DEF ToSet
    <3>2. CASE ~(i <= Len(s))
      <4>1. i - Len(s) \in 1..Len(t) /\ a[i] = t[i - Len(s)]
        BY <1>1, <2>2, <3>2
      <4> QED
        BY <1>1, <4>1 DEF ToSet
    <3> QED
      BY <3>1, <3>2
  <2>5. ASSUME NEW i \in 1..Len(s) PROVE s[i] \in ToSet(a)
    <3>1. i \in 1..(Len(s) + Len(t)) /\ a[i] = s[i]
      BY <1>1, <2>2
    <3> QED
      BY <2>3, <3>1 DEF ToSet
  <2>6. ASSUME NEW i \in 1..Len(t) PROVE t[i] \in ToSet(a)
    <3>1. i + Len(s) \in 1..(Len(s) + Len(t)) /\ ~(i + Len(s) <= Len(s)) /\ (i + Len(s)) - Len(s) = i
      BY <1>1
    <3>2. a[i + Len(s)] = t[i]
      BY <2>2, <3>1
    <3> QED
      BY <2>3, <3>1, <3>2 DEF ToSet
  <2>7. ToSet(a) \subseteq ToSet(s) \union ToSet(t)
    BY <2>3, <2>4 DEF ToSet
  <2>8. ToSet(s) \union ToSet(t) \subseteq ToSet(a)
    BY <1>1, <2>5, <2>6 DEF ToSet
  <2> QED
    BY <2>7, <2>8 DEF a
<1> QED
  BY <1>2, <1>3

(***************************************************************************)
(* Flattening the superclasses s of a class into c, one after the other.   *)
(***************************************************************************)
Flattening(calls, c, s, f) ==
  /\ f \in [0..Len(s) -> Metas]
  /\ \A n \in 1..Len(s) : f[n] = calls.register[c][s[n]][calls.copy[s[n]][f[n - 1]]]

\* Each of them is registered from sound meta-classes
Flattened(calls, c, b, s, f) ==
  /\ Flattening(calls, c, s, f)
  /\ \A n \in 0..Len(s) : SoundOn(f[n], Down(b))

LEMMA FlattenLeaves ==
  ASSUME NEW calls \in Growing, NEW c \in Classes, NEW b \in Classes,
         c \notin Down(b), CopiesSound(calls, Down(b)), RegistersSound(calls, Ancestors[b]),
         NEW s \in Seq(Classes), ToSet(s) \subseteq Ancestors[b] \intersect registered,
         NEW f, Flattening(calls, c, s, f), NEW n \in 1..Len(s), SoundOn(f[n - 1], Down(b))
  PROVE  LET u == calls.copy[s[n]][f[n - 1]]
         IN  /\ s[n] \in Classes /\ s[n] \in Ancestors[b] /\ s[n] \in registered
             /\ c \notin Down(s[n]) /\ Down(s[n]) \subseteq Down(b)
             /\ f[n - 1] \in Metas /\ SoundOn(f[n - 1], Down(s[n]))
             /\ u \in Metas /\ CopyLeaves(f[n - 1], u, s[n])
             /\ SoundOn(u, Down(s[n])) /\ u[c] = f[n - 1][c]
             /\ f[n] = calls.register[c][s[n]][u]
             /\ f[n] \in Metas /\ RegisterLeaves(u, f[n], c, s[n])
             /\ SoundOn(f[n], Down(b)) /\ SameOff(f[n - 1], f[n], Down(b) \union {c})
<1> DEFINE r == s[n]
           x == f[n - 1]
           u == calls.copy[r][x]
           v == calls.register[c][r][u]
<1>1. /\ n - 1 \in 0..Len(s) /\ n \in 0..Len(s) /\ r \in Classes /\ r \in ToSet(s)
      /\ Down(b) \subseteq Classes
  <2>1. Len(s) \in Nat
    OBVIOUS
  <2> QED
    BY <2>1, DownTyped DEF ToSet
<1>2. x \in Metas /\ f[n] = v
  BY <1>1 DEF Flattening
<1>3. r \in Ancestors[b] /\ r \in registered
  BY <1>1
<1> HIDE DEF r, x
<1>4. Down(r) \subseteq Down(b) /\ c \notin Down(r) /\ r \in Down(b)
  BY <1>3, AncestorsTrans DEF Down
<1>5. SoundOn(x, Down(b))
  BY DEF x
<1>6. SoundOn(x, Down(r))
  BY <1>4, <1>5 DEF SoundOn
<1>7. u \in Metas /\ CopyLeaves(x, u, r)
  BY <1>1, <1>2, <1>4, <1>6, CallsTyped DEF CopiesSound, CopySound
<1> HIDE DEF u
<1>8. SoundOn(u, Down(r)) /\ u[c] = x[c]
  BY <1>4, <1>7 DEF CopyLeaves, SameOff
<1>9. v \in Metas /\ RegisterLeaves(u, v, c, r)
  <2>1. RegisterSound(calls, c, r)
    BY <1>3, <1>4 DEF RegistersSound
  <2> QED
    BY <1>1, <1>7, <1>8, <2>1, CallsTyped DEF RegisterSound
<1> HIDE DEF v
<1>10. SoundOn(v, Down(b))
  <2> SUFFICES ASSUME NEW d \in Down(b) PROVE Sound(v[d], d)
    BY DEF SoundOn
  <2>1. d \in Classes /\ d # c
    BY <1>1
  <2>2. CASE d \in Down(r)
    BY <1>9, <2>2 DEF RegisterLeaves, SoundOn
  <2>3. CASE d \notin Down(r)
    <3>1. v[d] = u[d] /\ u[d] = x[d]
      BY <1>7, <1>9, <2>1, <2>3 DEF RegisterLeaves, CopyLeaves, SameOff
    <3> QED
      BY <1>5, <3>1 DEF SoundOn
  <2> QED
    BY <2>2, <2>3
<1>11. SameOff(x, v, Down(b) \union {c})
  <2> SUFFICES ASSUME NEW d \in Classes \ (Down(b) \union {c}) PROVE v[d] = x[d]
    BY DEF SameOff
  <2>1. d \notin Down(r) /\ d # c
    BY <1>4
  <2> QED
    BY <1>7, <1>9, <2>1 DEF RegisterLeaves, CopyLeaves, SameOff
<1>12. u = calls.copy[r][x] /\ v = calls.register[c][r][u]
  BY DEF u, v
<1> QED
  BY <1>1, <1>2, <1>3, <1>4, <1>6, <1>7, <1>8, <1>9, <1>10, <1>11, <1>12 DEF r, x

LEMMA FlattenSound ==
  ASSUME NEW calls \in Growing, NEW c \in Classes, NEW b \in Classes,
         c \notin Down(b), CopiesSound(calls, Down(b)), RegistersSound(calls, Ancestors[b]),
         NEW s \in Seq(Classes), ToSet(s) \subseteq Ancestors[b] \intersect registered,
         NEW f, Flattening(calls, c, s, f), SoundOn(f[0], Down(b))
  PROVE  Flattened(calls, c, b, s, f)
<1> DEFINE T == {n \in Nat : n <= Len(s) => SoundOn(f[n], Down(b))}
<1>1. 0 \in T
  OBVIOUS
<1>2. ASSUME NEW n \in Nat, n \in T PROVE n + 1 \in T
  <2> SUFFICES ASSUME n + 1 <= Len(s) PROVE SoundOn(f[n + 1], Down(b))
    OBVIOUS
  <2>1. n + 1 \in 1..Len(s) /\ (n + 1) - 1 = n /\ Len(s) \in Nat
    OBVIOUS
  <2>2. SoundOn(f[n], Down(b))
    BY <1>2, <2>1
  <2>3. SoundOn(f[(n + 1) - 1], Down(b))
    BY <2>1, <2>2
  <2> QED
    BY <2>1, <2>3, FlattenLeaves
<1> HIDE DEF T
<1>3. Nat \subseteq T
  BY <1>1, <1>2, SetInduction
<1>4. \A n \in 0..Len(s) : SoundOn(f[n], Down(b))
  BY <1>3 DEF T
<1> QED
  BY <1>4 DEF Flattened

(***************************************************************************)
(* registerSuperClassInternal copies the handle of b twice, lists b, and   *)
(* flattens what b lists then.                                             *)
(***************************************************************************)
TwiceBy(calls, x, b) == calls.copy[b][calls.copy[b][x]]

FlattenOf(calls, x, c, b) ==
  Flatten(calls, Listed(TwiceBy(calls, x, b), c, b), c, TwiceBy(calls, x, b)[b].superclasses)

\* y lists b with c besides what x lists
Begins(x, y, c, b) ==
  /\ y[c].unresolved = x[c].unresolved
  /\ y[c].superclasses = Append(x[c].superclasses, b)

\* and has the members that b has in y
BeginsMembers(x, y, z, c, b) ==
  z[c].casts = x[c].casts /\ z[c].methods = x[c].methods \o y[b].methods

LEMMA RegisterChain ==
  ASSUME NEW calls \in Growing, NEW c \in Classes, NEW b \in Classes,
         c \notin Down(b), CopiesSound(calls, Down(b)), RegistersSound(calls, Ancestors[b]),
         NEW x \in Metas, SoundOn(x, Down(b))
  PROVE  LET y == TwiceBy(calls, x, b)
             s == y[b].superclasses
             f == FlattenOf(calls, x, c, b)
         IN  /\ y \in Metas /\ SoundOn(y, Down(b)) /\ SameOff(x, y, Down(b))
             /\ s \in Seq(Classes) /\ ToSet(s) \subseteq Ancestors[b] \intersect registered
             /\ Flattened(calls, c, b, s, f)
             /\ Begins(x, f[0], c, b) /\ Begins(y, f[0], c, b) /\ SameOff(y, f[0], {c})
             /\ BeginsMembers(x, y, f[0], c, b)
<1> DEFINE w == calls.copy[b][x]
           y == TwiceBy(calls, x, b)
           z == Listed(y, c, b)
           s == y[b].superclasses
           f == FlattenOf(calls, x, c, b)
<1>1. b \in Down(b) /\ Down(b) \subseteq Classes /\ CopySound(calls, b)
  BY DownTyped DEF CopiesSound
<1>2. w \in Metas /\ CopyLeaves(x, w, b)
  BY <1>1, CallsTyped DEF CopySound
<1>3. y \in Metas /\ CopyLeaves(w, y, b)
  <2>1. y = calls.copy[b][w]
    BY DEF TwiceBy
  <2> HIDE DEF w, y
  <2> QED
    BY <1>1, <1>2, <2>1, CallsTyped DEF CopySound, CopyLeaves
<1>4. f = Flatten(calls, z, c, s)
  BY DEF FlattenOf
<1> HIDE DEF w, y, f
<1>5. SoundOn(y, Down(b)) /\ SameOff(x, y, Down(b)) /\ y[c] = x[c]
  BY <1>2, <1>3 DEF CopyLeaves, SameOff
<1>6. s \in Seq(Classes)
  BY <1>1, <1>3, ImplFields
<1>7. ToSet(s) \subseteq Ancestors[b] \intersect registered
  BY <1>1, <1>5 DEF SoundOn, Sound
<1>8. z \in Metas /\ SameOff(y, z, {c})
  BY <1>3, ListedFields DEF SameOff
<1>9. z[c].unresolved = y[c].unresolved /\ z[c].casts = y[c].casts
  BY <1>3, ListedFields
<1>10. z[c].superclasses = Append(y[c].superclasses, b)
  BY <1>3, ListedFields
<1>11. z[c].methods = y[c].methods \o y[b].methods
  BY <1>3, ListedFields
<1> HIDE DEF z, s
<1>12. SoundOn(z, Down(b)) /\ SameOff(x, z, Down(b) \union {c})
  BY <1>1, <1>5, <1>8 DEF SoundOn, SameOff
<1>13. Flattening(calls, c, s, f) /\ f[0] = z
  BY <1>4, <1>6, <1>8, FlattenSteps DEF Flattening
<1>14. Flattened(calls, c, b, s, f)
  BY <1>6, <1>7, <1>12, <1>13, FlattenSound
<1>15. z[c].unresolved = x[c].unresolved /\ z[c].superclasses = Append(x[c].superclasses, b)
  BY <1>5, <1>9, <1>10
<1>16. Begins(x, f[0], c, b)
  BY <1>13, <1>15 DEF Begins
<1>17. Begins(y, f[0], c, b) /\ SameOff(y, f[0], {c})
  BY <1>8, <1>9, <1>10, <1>13 DEF Begins
<1>18. BeginsMembers(x, y, f[0], c, b)
  BY <1>5, <1>9, <1>13, <1>11 DEF BeginsMembers
<1> QED
  BY <1>3, <1>5, <1>6, <1>7, <1>14, <1>16, <1>17, <1>18 DEF y, s, f

LEMMA RegisterInternalLeaves ==
  ASSUME NEW calls \in Growing, NEW c \in Classes, NEW b \in Classes, b \in registered,
         c \notin Down(b), CopiesSound(calls, Down(b)), RegistersSound(calls, Ancestors[b]),
         NEW x \in Metas, SoundOn(x, Down(b))
  PROVE  RegisterLeaves(x, registerSuperClassInternal(calls, x, c, b), c, b)
<1> DEFINE y == TwiceBy(calls, x, b)
           supers == y[b].superclasses
           f == FlattenOf(calls, x, c, b)
<1>1. b \in Down(b) /\ Down(b) \subseteq Classes
  BY DownTyped
<1>2. y \in Metas /\ SoundOn(y, Down(b)) /\ SameOff(x, y, Down(b))
  BY RegisterChain
<1>3. supers \in Seq(Classes) /\ ToSet(supers) \subseteq Ancestors[b] \intersect registered
  BY RegisterChain
<1>4. Flattened(calls, c, b, supers, f)
  BY RegisterChain
<1>5. Begins(x, f[0], c, b) /\ BeginsMembers(x, y, f[0], c, b) /\ SameOff(y, f[0], {c})
  BY RegisterChain
<1>6. registerSuperClassInternal(calls, x, c, b) = f[Len(supers)]
  BY RegisterFlattens DEF FlattenOf, TwiceBy
<1>7. ToSet(y[b].methods) = {b} \union ToSet(supers)
  BY <1>1, <1>2 DEF SoundOn, Sound
<1>8. y[b].methods \in Seq(Classes)
  BY <1>1, <1>2, ImplFields
<1> HIDE DEF y, supers, f
<1> DEFINE Has(v, n, B) ==
             /\ b \in B /\ \A i \in 1..n : supers[i] \in B
             /\ v[c].unresolved = x[c].unresolved /\ v[c].casts = x[c].casts
             /\ ToSet(v[c].superclasses) = ToSet(x[c].superclasses) \union B
             /\ ToSet(v[c].methods) = ToSet(x[c].methods) \union ({b} \union ToSet(supers)) \union B
           Leaves(n) ==
             /\ SameOff(x, f[n], Down(b) \union {c})
             /\ \E B \in SUBSET (Down(b) \intersect registered) : Has(f[n], n, B)
           T == {n \in Nat : n <= Len(supers) => Leaves(n)}
<1>9. 0 \in T
  <2>1. x[c].superclasses \in Seq(Classes) /\ x[c].methods \in Seq(Classes)
    BY ImplFields
  <2>2. ToSet(f[0][c].superclasses) = ToSet(x[c].superclasses) \union {b}
    <3>1. f[0][c].superclasses = Append(x[c].superclasses, b)
      BY <1>5 DEF Begins
    <3> QED
      BY <2>1, <3>1, SetOfAppended
  <2>3. ToSet(f[0][c].methods) = ToSet(x[c].methods) \union ({b} \union ToSet(supers))
    <3>1. f[0][c].methods = x[c].methods \o y[b].methods
      BY <1>5 DEF BeginsMembers
    <3>2. ToSet(x[c].methods \o y[b].methods) = ToSet(x[c].methods) \union ToSet(y[b].methods)
      BY <1>8, <2>1, SetOfAppended
    <3> QED
      BY <1>7, <3>1, <3>2
  <2>4. Has(f[0], 0, {b})
    BY <1>5, <2>2, <2>3 DEF Begins, BeginsMembers
  <2>5. {b} \in SUBSET (Down(b) \intersect registered)
    BY <1>1
  <2>6. SameOff(x, f[0], Down(b) \union {c})
    BY <1>2, <1>5 DEF SameOff
  <2> HIDE DEF Has
  <2> QED
    BY <2>4, <2>5, <2>6
<1>10. ASSUME NEW n \in Nat, n \in T PROVE n + 1 \in T
  <2> SUFFICES ASSUME n + 1 <= Len(supers) PROVE Leaves(n + 1)
    OBVIOUS
  <2> HIDE DEF Has
  <2>1. n + 1 \in 1..Len(supers) /\ n \in 0..Len(supers) /\ (n + 1) - 1 = n
    BY <1>3
  <2>2. Leaves(n)
    BY <1>10, <2>1
  <2> DEFINE k == n + 1
             s == supers[k]
             u == calls.copy[s][f[n]]
             v == f[k]
  <2>3. k \in 1..Len(supers) /\ k - 1 = n /\ k = n + 1
    BY <2>1
  <2> HIDE DEF k
  <2>4. SoundOn(f[k - 1], Down(b)) /\ Flattening(calls, c, supers, f)
    BY <1>4, <2>1, <2>3 DEF Flattened
  <2>5. s \in Ancestors[b] /\ s \in registered
    BY <1>3, <2>3, <2>4, FlattenLeaves
  <2>6. Down(s) \subseteq Down(b) /\ c \notin Down(s)
    BY <2>5, AncestorsTrans DEF Down
  <2>7. RegisterLeaves(calls.copy[s][f[k - 1]], v, c, s)
    BY <1>3, <2>3, <2>4, FlattenLeaves
  <2>8. CopyLeaves(f[k - 1], calls.copy[s][f[k - 1]], s)
    BY <1>3, <2>3, <2>4, FlattenLeaves
  <2>9. SameOff(f[k - 1], v, Down(b) \union {c})
    BY <1>3, <2>3, <2>4, FlattenLeaves
  <2> HIDE DEF s, v
  <2>10. RegisterLeaves(u, v, c, s) /\ CopyLeaves(f[n], u, s) /\ SameOff(f[n], v, Down(b) \union {c})
    BY <2>7, <2>8, <2>9, <2>3
  <2> HIDE DEF u
  <2>11. SameOff(x, v, Down(b) \union {c})
    BY <2>2, <2>10 DEF SameOff
  <2>12. \E B \in SUBSET (Down(b) \intersect registered) : Has(v, n + 1, B)
    <3>1. PICK B \in SUBSET (Down(b) \intersect registered) : Has(f[n], n, B)
      BY <2>2
    <3>2. PICK C \in SUBSET (Down(s) \intersect registered) : s \in C /\ Extended(u[c], v[c], C)
      BY <2>10 DEF RegisterLeaves
    <3>3. u[c] = f[n][c]
      BY <2>10, <2>6 DEF CopyLeaves, SameOff
    <3>4. B \union C \in SUBSET (Down(b) \intersect registered)
      BY <2>6
    <3>5. b \in B \union C /\ \A i \in 1..(n + 1) : supers[i] \in B \union C
      <4>1. \A i \in 1..(n + 1) : i \in 1..n \/ i = n + 1
        OBVIOUS
      <4> QED
        BY <2>3, <3>1, <3>2, <4>1 DEF Has, s
    <3>6. v[c].unresolved = x[c].unresolved /\ v[c].casts = x[c].casts
      BY <3>1, <3>2, <3>3 DEF Has, Extended
    <3>7. ToSet(v[c].superclasses) = ToSet(x[c].superclasses) \union (B \union C)
      BY <3>1, <3>2, <3>3 DEF Has, Extended
    <3>8. ToSet(v[c].methods) =
            ToSet(x[c].methods) \union ({b} \union ToSet(supers)) \union (B \union C)
      BY <3>1, <3>2, <3>3 DEF Has, Extended
    <3>9. Has(v, n + 1, B \union C)
      BY <3>5, <3>6, <3>7, <3>8 DEF Has
    <3> QED
      BY <3>4, <3>9
  <2> QED
    BY <2>11, <2>12, <2>3 DEF v
<1> HIDE DEF T
<1>11. Nat \subseteq T
  BY <1>9, <1>10, SetInduction
<1>12. Leaves(Len(supers))
  <2> HIDE DEF Leaves
  <2> QED
    BY <1>3, <1>11 DEF T
<1>13. PICK B \in SUBSET (Down(b) \intersect registered) : Has(f[Len(supers)], Len(supers), B)
  BY <1>12
<1>14. ToSet(supers) \subseteq B /\ b \in B
  BY <1>3, <1>13 DEF ToSet
<1>15. Extended(x[c], f[Len(supers)][c], B)
  BY <1>13, <1>14 DEF Extended
<1>16. SoundOn(f[Len(supers)], Down(b))
  BY <1>3, <1>4 DEF Flattened
<1> QED
  BY <1>6, <1>12, <1>14, <1>15, <1>16 DEF RegisterLeaves

(***************************************************************************)
(* Calls nested deep enough for the classes defined up to line n.          *)
(***************************************************************************)
UpTo(line, n) == {c \in Classes : line[c] <= n}

LEMMA UpToBelow ==
  ASSUME NEW line, Order(line), NEW k \in Nat, k + 1 <= Cardinality(Classes),
         NEW c \in UpTo(line, k + 1)
  PROVE  c \in Classes /\ Ancestors[c] \subseteq UpTo(line, k)
<1>1. \A d \in Classes : line[d] \in Nat
  BY NestedGrowing DEF Order
<1>2. c \in Classes /\ line[c] <= k + 1
  BY DEF UpTo
<1>3. ASSUME NEW d \in Ancestors[c] PROVE d \in UpTo(line, k)
  <2>1. d \in Classes
    BY <1>2, BasesTyped
  <2>2. line[d] < line[c]
    BY <1>2, AncestorsEarlier
  <2> QED
    BY <1>1, <1>2, <2>1, <2>2 DEF UpTo
<1> QED
  BY <1>2, <1>3

LEMMA NestedSound ==
  ASSUME NEW line, Order(line), NEW n \in 0..Cardinality(Classes)
  PROVE  CopiesSound(Nested[n], UpTo(line, n)) /\ RegistersSound(Nested[n], UpTo(line, n))
<1> DEFINE N == Cardinality(Classes)
           Level(k) == /\ CopiesSound(Nested[k], UpTo(line, k))
                       /\ RegistersSound(Nested[k], UpTo(line, k))
           T == {k \in Nat : k <= N => Level(k)}
<1>1. N \in Nat
  BY NestedGrowing
<1>2. \A c \in Classes : line[c] \in Nat \ {0}
  BY <1>1 DEF Order
<1>3. 0 \in T
  <2>1. UpTo(line, 0) = {}
    BY <1>2 DEF UpTo
  <2> QED
    BY <2>1 DEF CopiesSound, RegistersSound
<1>4. ASSUME NEW k \in Nat, k \in T PROVE k + 1 \in T
  <2> SUFFICES ASSUME k + 1 <= N PROVE Level(k + 1)
    OBVIOUS
  <2>1. k + 1 \in 1..N /\ k \in 0..N /\ (k + 1) - 1 = k
    BY <1>1
  <2>2. Level(k)
    <3> HIDE DEF Level
    <3> QED
      BY <1>1, <1>4, <2>1
  <2> DEFINE calls == Nested[k]
             next == Nested[k + 1]
             copies == WithCopies(calls)
  <2>3. calls \in Growing /\ next = Around(calls)
    BY <2>1, NestedGrowing
  <2> HIDE DEF calls, next
  <2>4. copies \in Growing
    BY <2>3, WithCopiesGrowing
  <2>5. ASSUME NEW c \in UpTo(line, k + 1) PROVE c \in Classes /\ Ancestors[c] \subseteq UpTo(line, k)
    BY UpToBelow
  <2>6. ASSUME NEW c \in UpTo(line, k + 1), NEW x \in Metas, SoundOn(x, Down(c))
        PROVE  CopyLeaves(x, resolveBases(calls, x, c), c)
    <3>1. SoundBelow(calls, c)
      BY <2>2, <2>5 DEF SoundBelow, CopiesSound, RegistersSound, calls
    <3> QED
      BY <2>3, <2>5, <2>6, <3>1, ResolveLeaves
  <2>7. CopiesSound(next, UpTo(line, k + 1))
    <3> SUFFICES ASSUME NEW c \in UpTo(line, k + 1), NEW x \in Metas, SoundOn(x, Down(c))
                 PROVE  CopyLeaves(x, next.copy[c][x], c)
      BY DEF CopiesSound, CopySound
    <3>1. next.copy[c][x] = resolveBases(calls, x, c)
      BY <2>3, <2>5, AroundCalls
    <3> QED
      BY <2>6, <3>1
  <2>8. CopiesSound(copies, UpTo(line, k + 1))
    <3> SUFFICES ASSUME NEW c \in UpTo(line, k + 1), NEW x \in Metas, SoundOn(x, Down(c))
                 PROVE  CopyLeaves(x, copies.copy[c][x], c)
      BY DEF CopiesSound, CopySound
    <3>1. copies.copy[c][x] = resolveBases(calls, x, c)
      BY <2>3, <2>5, AroundCalls
    <3> QED
      BY <2>6, <3>1
  <2>9. RegistersSound(copies, UpTo(line, k))
    <3>1. copies.register = calls.register
      BY DEF WithCopies
    <3> QED
      BY <2>2, <3>1 DEF RegistersSound, RegisterSound, calls
  <2>10. RegistersSound(next, UpTo(line, k + 1))
    <3> SUFFICES ASSUME NEW c \in Classes, NEW b \in UpTo(line, k + 1) \intersect registered,
                        c \notin Down(b), NEW x \in Metas, SoundOn(x, Down(b))
                 PROVE  RegisterLeaves(x, next.register[c][b][x], c, b)
      BY DEF RegistersSound, RegisterSound
    <3>1. b \in Classes /\ Ancestors[b] \subseteq UpTo(line, k)
      BY <2>5
    <3>2. next.register[c][b][x] = registerSuperClassInternal(copies, x, c, b)
      BY <2>3, <3>1, AroundCalls
    <3>3. Ancestors[b] \subseteq UpTo(line, k + 1)
      BY <1>2, <3>1 DEF UpTo
    <3>4. CopiesSound(copies, Down(b))
      BY <2>8, <3>3 DEF CopiesSound, Down
    <3>5. RegistersSound(copies, Ancestors[b])
      BY <2>9, <3>1 DEF RegistersSound
    <3> QED
      BY <2>4, <3>1, <3>2, <3>4, <3>5, RegisterInternalLeaves
  <2> QED
    BY <2>7, <2>10 DEF next
<1> HIDE DEF T, Level
<1>5. Nat \subseteq T
  BY <1>3, <1>4, SetInduction
<1>6. Level(n)
  BY <1>1, <1>5 DEF T
<1> QED
  BY <1>6 DEF Level

LEMMA CopyTyped ==
  ASSUME NEW x \in Metas, NEW c \in Classes
  PROVE  Copy(x, c) \in Metas /\ Grew(x, Copy(x, c))
<1>1. Cardinality(Classes) \in 0..Cardinality(Classes)
  BY NestedGrowing
<1>2. Nested[Cardinality(Classes)] \in Growing
  BY <1>1, NestedGrowing
<1> QED
  BY <1>2, CallsTyped DEF Copy, Handles

(***************************************************************************)
(* What making or copying a handle leaves.                                 *)
(***************************************************************************)
LEMMA CopySounds ==
  ASSUME NEW x \in Metas, NEW c \in Classes, SoundOn(x, Down(c))
  PROVE  CopyLeaves(x, Copy(x, c), c)
<1>1. PICK line : Order(line)
  BY LineExists
<1>2. Cardinality(Classes) \in Nat /\ Cardinality(Classes) \in 0..Cardinality(Classes)
  BY NestedGrowing
<1>3. CopiesSound(Nested[Cardinality(Classes)], UpTo(line, Cardinality(Classes)))
  BY <1>1, <1>2, NestedSound
<1>4. c \in UpTo(line, Cardinality(Classes))
  BY <1>1, <1>2 DEF Order, UpTo
<1> QED
  BY <1>3, <1>4 DEF CopiesSound, CopySound, Copy, Handles

AllSound(x) == x \in Metas /\ SoundOn(x, Classes)

LEMMA CopyAllSound ==
  ASSUME NEW x, AllSound(x), NEW c \in Classes
  PROVE  AllSound(Copy(x, c)) /\ Grew(x, Copy(x, c))
<1>1. Copy(x, c) \in Metas /\ Grew(x, Copy(x, c))
  BY CopyTyped DEF AllSound
<1>2. CopyLeaves(x, Copy(x, c), c)
  BY CopySounds, DownTyped DEF AllSound, SoundOn
<1>3. SoundOn(Copy(x, c), Classes)
  BY <1>1, <1>2, DownTyped, SoundAfter DEF AllSound, CopyLeaves
<1> QED
  BY <1>1, <1>3 DEF AllSound

-----------------------------------------------------------------------------
(* Searching a class for methods                                           *)

Hunts == [meta : Metas, method : Positive, found : Seq(Classes)]

Hunted(c) == {at \in Hunts : at.method > Len(at.meta[c].methods)}

HuntStep(c) ==
  [at \in Hunts |->
     IF at.method > Len(at.meta[c].methods) THEN at
     ELSE [meta |-> Copy(at.meta, at.meta[c].methods[at.method]), method |-> at.method + 1,
           found |-> Append(at.found, at.meta[c].methods[at.method])]]

HuntOut == [at \in Hunts |-> [meta |-> at.meta, found |-> at.found]]

Hunt(c) ==
  CHOOSE search : search =
    [at \in Hunts |->
       LET methods == at.meta[c].methods
           m       == methods[at.method]
       IN  IF at.method > Len(methods) THEN [meta |-> at.meta, found |-> at.found]
           ELSE search[[meta |-> Copy(at.meta, m), method |-> at.method + 1,
                        found |-> Append(at.found, m)]]]

LEMMA FindAllHunts ==
  ASSUME NEW x, NEW c
  PROVE  findAll(x, c) = Hunt(c)[[meta |-> x, method |-> 1, found |-> <<>>]]
BY DEF findAll, Hunt, Hunts

LEMMA HuntSteps ==
  ASSUME NEW c \in Classes, NEW at \in Hunts \ Hunted(c)
  PROVE  LET m == at.meta[c].methods[at.method]
         IN  /\ at.method \in 1..Len(at.meta[c].methods) /\ m \in Classes
             /\ HuntStep(c)[at] = [meta |-> Copy(at.meta, m), method |-> at.method + 1,
                                   found |-> Append(at.found, m)]
             /\ HuntStep(c)[at] \in Hunts
<1>1. at.meta \in Metas /\ at.method \in Nat \ {0} /\ at.found \in Seq(Classes)
  BY DEF Hunts, Positive
<1>2. at.meta[c].methods \in Seq(Classes) /\ Len(at.meta[c].methods) \in Nat
  BY <1>1, ImplFields
<1>3. ~(at.method > Len(at.meta[c].methods))
  BY DEF Hunted
<1> DEFINE m == at.meta[c].methods[at.method]
           next == [meta |-> Copy(at.meta, m), method |-> at.method + 1,
                    found |-> Append(at.found, m)]
<1>4. at.method \in 1..Len(at.meta[c].methods) /\ m \in Classes
  BY <1>1, <1>2, <1>3
<1>5. HuntStep(c)[at] = next
  BY <1>3 DEF HuntStep
<1> HIDE DEF m
<1>6. Copy(at.meta, m) \in Metas
  BY <1>1, <1>4, CopyTyped
<1>7. at.method + 1 \in Positive /\ Append(at.found, m) \in Seq(Classes)
  BY <1>1, <1>4 DEF Positive
<1>8. next \in Hunts
  BY <1>6, <1>7 DEF Hunts
<1> QED
  BY <1>4, <1>5, <1>8 DEF m

LEMMA HuntLoops ==
  ASSUME NEW c \in Classes
  PROVE  /\ Hunted(c) \in SUBSET Hunts /\ HuntStep(c) \in [Hunts -> Hunts]
         /\ IsLoop(Hunt(c), Hunts, Hunted(c), HuntStep(c), HuntOut)
<1>1. Hunted(c) \in SUBSET Hunts
  BY DEF Hunted
<1>2. HuntStep(c) \in [Hunts -> Hunts]
  <2> SUFFICES ASSUME NEW at \in Hunts PROVE HuntStep(c)[at] \in Hunts
    BY DEF HuntStep
  <2>1. CASE at \in Hunted(c)
    BY <2>1 DEF Hunted, HuntStep
  <2>2. CASE at \notin Hunted(c)
    BY <2>2, HuntSteps
  <2> QED
    BY <2>1, <2>2
<1> DEFINE Eq(f) == IsLoop(f, Hunts, Hunted(c), HuntStep(c), HuntOut)
           Code(search) == search =
             [at \in Hunts |->
                LET methods == at.meta[c].methods
                    m       == methods[at.method]
                IN  IF at.method > Len(methods) THEN [meta |-> at.meta, found |-> at.found]
                    ELSE search[[meta |-> Copy(at.meta, m), method |-> at.method + 1,
                                 found |-> Append(at.found, m)]]]
<1>3. \E f : Eq(f)
  BY <1>1, <1>2, LoopExists
<1>4. ASSUME NEW f PROVE Eq(f) = Code(f)
  <2> DEFINE One(at) == IF at \in Hunted(c) THEN HuntOut[at] ELSE f[HuntStep(c)[at]]
             Two(at) == LET methods == at.meta[c].methods
                            m       == methods[at.method]
                IN  IF at.method > Len(methods) THEN [meta |-> at.meta, found |-> at.found]
                    ELSE f[[meta |-> Copy(at.meta, m), method |-> at.method + 1,
                            found |-> Append(at.found, m)]]
  <2>1. ASSUME NEW at \in Hunts PROVE One(at) = Two(at)
    BY DEF Hunted, HuntStep, HuntOut
  <2>2. [at \in Hunts |-> One(at)] = [at \in Hunts |-> Two(at)]
    <3> HIDE DEF One, Two
    <3> QED
      BY <2>1
  <2> QED
    BY <2>2 DEF IsLoop
<1>5. Hunt(c) = CHOOSE f : Code(f)
  BY DEF Hunt
<1>6. \E f : Code(f)
  <2> HIDE DEF Code, Eq
  <2> QED
    BY <1>3, <1>4
<1>7. Code(Hunt(c))
  <2> HIDE DEF Code
  <2> QED
    BY <1>5, <1>6
<1>8. Eq(Hunt(c))
  <2> HIDE DEF Code, Eq
  <2> QED
    BY <1>4, <1>7
<1> QED
  BY <1>1, <1>2, <1>8

\* A longer list has what the shorter one had
LEMMA PrefixSet ==
  ASSUME NEW s \in Seq(Classes), NEW t \in Seq(Classes), Prefix(s, t)
  PROVE  ToSet(s) \subseteq ToSet(t)
<1>1. DOMAIN s = 1..Len(s) /\ DOMAIN t = 1..Len(t) /\ Len(s) \in Nat /\ Len(t) \in Nat
  OBVIOUS
<1>2. \A i \in 1..Len(s) : i \in 1..Len(t) /\ t[i] = s[i]
  BY <1>1 DEF Prefix
<1> QED
  BY <1>1, <1>2 DEF ToSet

(***************************************************************************)
(* A search ends, whatever it appends to the list it goes through, and has *)
(* seen the list to its end.                                               *)
(***************************************************************************)
LEMMA HuntEnds ==
  ASSUME NEW c \in Classes, NEW x, AllSound(x)
  PROVE  /\ AllSound(findAll(x, c).meta)
         /\ findAll(x, c).found = findAll(x, c).meta[c].methods
<1> DEFINE big == [at \in Hunts |-> Len(at.meta[c].unresolved)]
           small == [at \in Hunts |-> IF at \in Hunted(c) THEN 0
                                      ELSE Len(at.meta[c].methods) + 1 - at.method]
           Ok == {at \in Hunts : /\ AllSound(at.meta)
                                 /\ Len(at.found) = at.method - 1
                                 /\ Prefix(at.found, at.meta[c].methods)}
           step == HuntStep(c)
           f == Hunt(c)
           start == [meta |-> x, method |-> 1, found |-> <<>>]
<1>0. x \in Metas
  BY DEF AllSound
<1>1. Ok \in SUBSET Hunts
  OBVIOUS
<1>2. \A at \in Hunts :
        /\ at.meta \in Metas /\ at.method \in Nat \ {0} /\ at.found \in Seq(Classes)
        /\ Len(at.meta[c].unresolved) \in Nat /\ Len(at.meta[c].methods) \in Nat
        /\ at.meta[c].methods \in Seq(Classes)
  <2> TAKE at \in Hunts
  <2>1. at.meta \in Metas /\ at.method \in Nat \ {0} /\ at.found \in Seq(Classes)
    BY DEF Hunts, Positive
  <2> QED
    BY <2>1, ImplFields
<1>3. big \in [Hunts -> Nat]
  BY <1>2
<1>4. small \in [Hunts -> Nat]
  BY <1>2 DEF Hunted
<1>5. start \in Ok
  <2>1. start \in Hunts /\ start.meta = x /\ start.method = 1 /\ start.found = <<>>
    BY <1>0 DEF Hunts, Positive
  <2>2. Prefix(<<>>, x[c].methods)
    BY <1>0, ImplFields DEF Prefix
  <2> QED
    BY <2>1, <2>2
<1>6. ASSUME NEW at \in Ok \ Hunted(c)
      PROVE  /\ step[at] \in Ok
             /\ \/ big[step[at]] < big[at]
                \/ big[step[at]] = big[at] /\ small[step[at]] < small[at]
  <2> DEFINE m == at.meta[c].methods[at.method]
             y == Copy(at.meta, m)
  <2>0. at \in Hunts \ Hunted(c)
    OBVIOUS
  <2>1. /\ at.method \in 1..Len(at.meta[c].methods) /\ m \in Classes
        /\ step[at] = [meta |-> y, method |-> at.method + 1, found |-> Append(at.found, m)]
        /\ step[at] \in Hunts
    BY <2>0, HuntSteps
  <2>2. step[at].meta = y /\ step[at].method = at.method + 1 /\ step[at].found = Append(at.found, m)
    BY <2>1
  <2>3. AllSound(y) /\ Grew(at.meta, y)
    <3> HIDE DEF m
    <3> QED
      BY <2>1, CopyAllSound
  <2>4. Grown(at.meta[c], y[c])
    BY <2>3 DEF Grew
  <2>5. /\ at.meta[c].methods \in Seq(Classes) /\ y[c].methods \in Seq(Classes)
        /\ Len(at.meta[c].methods) \in Nat /\ Len(y[c].methods) \in Nat
        /\ Len(at.meta[c].unresolved) \in Nat /\ Len(y[c].unresolved) \in Nat
        /\ at.found \in Seq(Classes) /\ at.method \in Nat \ {0}
    BY <1>2, <2>3, ImplFields DEF AllSound
  <2>6. Len(Append(at.found, m)) = (at.method + 1) - 1
    BY <2>5
  <2>7. Prefix(Append(at.found, m), at.meta[c].methods)
    <3> SUFFICES ASSUME NEW i \in 1..at.method
                 PROVE  at.meta[c].methods[i] = Append(at.found, m)[i]
      BY <2>1, <2>5, <2>6 DEF Prefix
    <3>1. CASE i = at.method
      BY <2>5, <3>1
    <3>2. CASE i < at.method
      <4>1. i \in 1..Len(at.found)
        BY <2>5, <3>2
      <4> QED
        BY <2>5, <4>1 DEF Prefix
    <3> QED
      BY <2>5, <3>1, <3>2
  <2>8. Prefix(Append(at.found, m), y[c].methods)
    <3>1. Append(at.found, m) \in Seq(Classes)
      BY <2>1, <2>5
    <3>2. Prefix(at.meta[c].methods, y[c].methods)
      BY <2>4 DEF Grown, Longer
    <3> QED
      BY <2>5, <2>7, <3>1, <3>2, PrefixTrans
  <2> HIDE DEF m, y
  <2>9. step[at] \in Ok
    BY <2>1, <2>2, <2>3, <2>6, <2>8
  <2>10. CASE Len(y[c].unresolved) < Len(at.meta[c].unresolved)
    BY <2>1, <2>2, <2>9, <2>10
  <2>11. CASE Len(y[c].unresolved) = Len(at.meta[c].unresolved)
    <3>1. y[c] = at.meta[c]
      BY <2>4, <2>11 DEF Grown
    <3>2. big[step[at]] = big[at]
      BY <2>1, <2>2, <3>1
    <3>3. small[at] = Len(at.meta[c].methods) + 1 - at.method
      OBVIOUS
    <3>4. small[step[at]] < small[at]
      <4>1. CASE step[at] \in Hunted(c)
        <5>1. small[step[at]] = 0
          BY <2>1, <4>1
        <5> HIDE DEF small
        <5> QED
          BY <2>1, <2>5, <3>3, <5>1
      <4>2. CASE step[at] \notin Hunted(c)
        <5>1. small[step[at]] = Len(at.meta[c].methods) + 1 - (at.method + 1)
          BY <2>1, <2>2, <3>1, <4>2
        <5> HIDE DEF small
        <5> QED
          BY <2>1, <2>5, <3>3, <5>1
      <4> QED
        BY <4>1, <4>2
    <3> QED
      BY <2>9, <3>2, <3>4
  <2>12. Len(y[c].unresolved) <= Len(at.meta[c].unresolved)
    BY <2>4 DEF Grown, Longer
  <2> HIDE DEF step, big, small, Ok
  <2> QED
    BY <2>5, <2>10, <2>11, <2>12
<1> HIDE DEF big, small, Ok, step, f, start
<1>7. Descends(Ok, Hunted(c), step, big, small)
  BY <1>6 DEF Descends
<1>8. \E at \in Ok \intersect Hunted(c) : f[start] = HuntOut[at]
  BY <1>1, <1>3, <1>4, <1>5, <1>7, HuntLoops, LoopEnds DEF step, f
<1>9. PICK at \in Ok \intersect Hunted(c) : f[start] = HuntOut[at]
  BY <1>8
<1>10. at \in Hunts /\ findAll(x, c) = [meta |-> at.meta, found |-> at.found]
  BY <1>1, <1>9, FindAllHunts DEF f, start, HuntOut
<1>11. findAll(x, c).meta = at.meta /\ findAll(x, c).found = at.found
  BY <1>10
<1>12. /\ AllSound(at.meta) /\ Len(at.found) = at.method - 1
       /\ Prefix(at.found, at.meta[c].methods)
  BY <1>9 DEF Ok
<1>13. at.method > Len(at.meta[c].methods)
  BY <1>9 DEF Hunted
<1>14. Len(at.found) = Len(at.meta[c].methods)
  BY <1>2, <1>10, <1>12, <1>13 DEF Prefix
<1>15. at.found = at.meta[c].methods
  <2>1. \A i \in 1..Len(at.found) : at.found[i] = at.meta[c].methods[i]
    BY <1>12 DEF Prefix
  <2> QED
    BY <1>2, <1>10, <1>14, <2>1, SeqEqual
<1> QED
  BY <1>11, <1>12, <1>15

-----------------------------------------------------------------------------
(* The path from a base up to a derived class                              *)

Climbs == [meta : Metas, class : Classes, path : Seq(Classes)]

Climbed(base) == {at \in Climbs : at.class = base \/ ~inherits(at.meta, at.class, base)}

Twice(x, c) == Copy(Copy(x, c), c)

ClimbStep(base) ==
  [at \in Climbs |->
     IF at.class = base \/ ~inherits(at.meta, at.class, base) THEN at
     ELSE [meta |-> Twice(at.meta, at.class),
           class |-> Through(Twice(at.meta, at.class), at.class, base),
           path |-> <<at.class>> \o at.path]]

ClimbOut(base) ==
  [at \in Climbs |->
     IF at.class = base THEN [meta |-> Twice(at.meta, at.class), path |-> <<base>> \o at.path]
     ELSE [meta |-> at.meta, path |-> at.path]]

Climb(base) ==
  CHOOSE up : up =
    [at \in Climbs |->
       LET y == Copy(Copy(at.meta, at.class), at.class)
       IN  IF at.class = base THEN [meta |-> y, path |-> <<base>> \o at.path]
           ELSE IF ~inherits(at.meta, at.class, base)
             THEN [meta |-> at.meta, path |-> at.path]
           ELSE up[[meta |-> y, class |-> Through(y, at.class, base),
                    path |-> <<at.class>> \o at.path]]]

LEMMA InheritancePathClimbs ==
  ASSUME NEW x, NEW derived, NEW base
  PROVE  inheritancePath(x, derived, base) =
           Climb(base)[[meta |-> x, class |-> derived, path |-> <<>>]]
BY DEF inheritancePath, Climb, Climbs

LEMMA TwiceTyped ==
  ASSUME NEW x \in Metas, NEW c \in Classes
  PROVE  Twice(x, c) \in Metas /\ Grew(x, Twice(x, c))
<1> DEFINE y == Copy(x, c)
<1>1. y \in Metas /\ Grew(x, y)
  BY CopyTyped
<1>2. Twice(x, c) = Copy(y, c)
  BY DEF Twice
<1> HIDE DEF y
<1>3. Copy(y, c) \in Metas /\ Grew(y, Copy(y, c))
  BY <1>1, CopyTyped
<1> QED
  BY <1>1, <1>2, <1>3, GrewTrans

LEMMA TwiceAllSound ==
  ASSUME NEW x, AllSound(x), NEW c \in Classes PROVE AllSound(Twice(x, c))
<1>1. AllSound(Copy(x, c))
  BY CopyAllSound
<1> QED
  BY <1>1, CopyAllSound DEF Twice

\* What has grown lists what it listed
LEMMA StillListed ==
  ASSUME NEW x \in Metas, NEW y \in Metas, Grew(x, y), NEW c \in Classes
  PROVE  superclasses(x, c) \subseteq superclasses(y, c)
<1>1. Prefix(x[c].superclasses, y[c].superclasses)
  BY DEF Grew, Grown, Longer
<1> QED
  BY <1>1, ImplFields, PrefixSet DEF superclasses

LEMMA ThroughLeads ==
  ASSUME NEW x \in Metas, NEW d \in Classes, NEW base \in superclasses(x, d)
  PROVE  /\ Through(x, d, base) \in superclasses(x, d)
         /\ Through(x, d, base) = base \/ inherits(x, Through(x, d, base), base)
<1> DEFINE supers == x[d].superclasses
           on == {n \in 1..Len(supers) : supers[n] = base \/ inherits(x, supers[n], base)}
           first == CHOOSE n \in on : \A k \in on : n <= k
<1>1. supers \in Seq(Classes) /\ Len(supers) \in Nat /\ DOMAIN supers = 1..Len(supers)
  BY ImplFields
<1>2. on # {} /\ on \in SUBSET Nat
  BY <1>1 DEF superclasses, ToSet
<1>3. \E n \in on : \A k \in on : n <= k
  <2> HIDE DEF on
  <2>1. PICK n \in on : \A k \in on : ~(k < n)
    BY <1>2, LeastNumber
  <2>2. \A k \in on : n <= k
    BY <1>2, <2>1
  <2> QED
    BY <2>2
<1>4. first \in on
  <2> HIDE DEF on
  <2> QED
    BY <1>3
<1>5. Through(x, d, base) = supers[first]
  BY DEF Through
<1> HIDE DEF first
<1>6. supers[first] \in superclasses(x, d)
  BY <1>1, <1>4 DEF superclasses, ToSet
<1> QED
  BY <1>4, <1>5, <1>6

LEMMA ClimbSteps ==
  ASSUME NEW base \in Classes, NEW at \in Climbs \ Climbed(base)
  PROVE  LET y == Twice(at.meta, at.class)
             t == Through(y, at.class, base)
         IN  /\ t \in superclasses(y, at.class) /\ t \in Classes
             /\ t = base \/ inherits(y, t, base)
             /\ ClimbStep(base)[at] = [meta |-> y, class |-> t, path |-> <<at.class>> \o at.path]
             /\ ClimbStep(base)[at] \in Climbs
<1> DEFINE y == Twice(at.meta, at.class)
           t == Through(y, at.class, base)
           next == [meta |-> y, class |-> t, path |-> <<at.class>> \o at.path]
<1>1. at.meta \in Metas /\ at.class \in Classes /\ at.path \in Seq(Classes)
  BY DEF Climbs
<1>2. ~(at.class = base \/ ~inherits(at.meta, at.class, base))
  BY DEF Climbed
<1>3. y \in Metas /\ Grew(at.meta, y)
  BY <1>1, TwiceTyped
<1>4. ClimbStep(base)[at] = next
  BY <1>2 DEF ClimbStep
<1> HIDE DEF y
<1>5. base \in superclasses(y, at.class)
  BY <1>1, <1>2, <1>3, StillListed DEF inherits
<1>6. t \in superclasses(y, at.class) /\ (t = base \/ inherits(y, t, base))
  BY <1>1, <1>3, <1>5, ThroughLeads
<1> HIDE DEF t
<1>7. t \in Classes
  BY <1>1, <1>3, <1>6, ImplFields DEF superclasses, ToSet
<1>8. <<at.class>> \o at.path \in Seq(Classes)
  BY <1>1, ConcatProperties
<1>9. next \in Climbs
  BY <1>3, <1>7, <1>8 DEF Climbs
<1> QED
  BY <1>4, <1>6, <1>7, <1>9 DEF y, t

LEMMA ClimbLoops ==
  ASSUME NEW base \in Classes
  PROVE  /\ Climbed(base) \in SUBSET Climbs /\ ClimbStep(base) \in [Climbs -> Climbs]
         /\ IsLoop(Climb(base), Climbs, Climbed(base), ClimbStep(base), ClimbOut(base))
<1>1. Climbed(base) \in SUBSET Climbs
  BY DEF Climbed
<1>2. ClimbStep(base) \in [Climbs -> Climbs]
  <2> SUFFICES ASSUME NEW at \in Climbs PROVE ClimbStep(base)[at] \in Climbs
    BY DEF ClimbStep
  <2>1. CASE at \in Climbed(base)
    BY <2>1 DEF Climbed, ClimbStep
  <2>2. CASE at \notin Climbed(base)
    BY <2>2, ClimbSteps
  <2> QED
    BY <2>1, <2>2
<1> DEFINE Eq(f) == IsLoop(f, Climbs, Climbed(base), ClimbStep(base), ClimbOut(base))
           Code(up) == up =
             [at \in Climbs |->
                LET y == Copy(Copy(at.meta, at.class), at.class)
                IN  IF at.class = base THEN [meta |-> y, path |-> <<base>> \o at.path]
                    ELSE IF ~inherits(at.meta, at.class, base)
                      THEN [meta |-> at.meta, path |-> at.path]
                    ELSE up[[meta |-> y, class |-> Through(y, at.class, base),
                             path |-> <<at.class>> \o at.path]]]
<1>3. \E f : Eq(f)
  BY <1>1, <1>2, LoopExists
<1>4. ASSUME NEW f PROVE Eq(f) = Code(f)
  <2> DEFINE One(at) == IF at \in Climbed(base) THEN ClimbOut(base)[at] ELSE f[ClimbStep(base)[at]]
             Two(at) == LET y == Copy(Copy(at.meta, at.class), at.class)
                IN  IF at.class = base THEN [meta |-> y, path |-> <<base>> \o at.path]
                    ELSE IF ~inherits(at.meta, at.class, base)
                      THEN [meta |-> at.meta, path |-> at.path]
                    ELSE f[[meta |-> y, class |-> Through(y, at.class, base),
                            path |-> <<at.class>> \o at.path]]
  <2>1. ASSUME NEW at \in Climbs PROVE One(at) = Two(at)
    <3>1. CASE at.class = base
      BY <3>1 DEF Climbed, ClimbOut, Twice
    <3>2. CASE at.class # base /\ ~inherits(at.meta, at.class, base)
      BY <3>2 DEF Climbed, ClimbOut
    <3>3. CASE at.class # base /\ inherits(at.meta, at.class, base)
      BY <3>3 DEF Climbed, ClimbStep, Twice
    <3> QED
      BY <3>1, <3>2, <3>3
  <2>2. [at \in Climbs |-> One(at)] = [at \in Climbs |-> Two(at)]
    <3> HIDE DEF One, Two
    <3> QED
      BY <2>1
  <2> QED
    BY <2>2 DEF IsLoop
<1>5. Climb(base) = CHOOSE f : Code(f)
  BY DEF Climb
<1>6. \E f : Code(f)
  <2> HIDE DEF Code, Eq
  <2> QED
    BY <1>3, <1>4
<1>7. Code(Climb(base))
  <2> HIDE DEF Code
  <2> QED
    BY <1>5, <1>6
<1>8. Eq(Climb(base))
  <2> HIDE DEF Code, Eq
  <2> QED
    BY <1>4, <1>7
<1> QED
  BY <1>1, <1>2, <1>8

(***************************************************************************)
(* The search for a path ends, and its path is empty or leads from the     *)
(* base to the derived class.                                              *)
(***************************************************************************)
Leads(path, derived, base) ==
  \/ path = <<>>
  \/ path # <<>> /\ Last(path) = derived /\ Head(path) = base

LEMMA Spliced ==
  ASSUME NEW a \in Classes, NEW path \in Seq(Classes)
  PROVE  /\ <<a>> \o path \in Seq(Classes) /\ <<a>> \o path # <<>>
         /\ Head(<<a>> \o path) = a
         /\ path = <<>> => Last(<<a>> \o path) = a
         /\ path # <<>> => Last(<<a>> \o path) = Last(path)
<1> DEFINE p == <<a>> \o path
<1>1. <<a>> \in Seq(Classes) /\ Len(<<a>>) = 1 /\ <<a>>[1] = a
  OBVIOUS
<1>2. Len(path) \in Nat /\ (path # <<>> => Len(path) # 0) /\ (path = <<>> => Len(path) = 0)
  BY EmptySeq
<1>3. p \in Seq(Classes) /\ Len(p) = 1 + Len(path)
  BY <1>1, ConcatProperties
<1>4. \A i \in 1..(1 + Len(path)) : p[i] = IF i <= 1 THEN <<a>>[i] ELSE path[i - 1]
  BY <1>1, ConcatProperties
<1> HIDE DEF p
<1>5. p # <<>> /\ p[1] = a
  BY <1>1, <1>2, <1>3, <1>4
<1>6. Head(p) = a
  BY <1>3, <1>5
<1>7. path = <<>> => p[Len(p)] = a
  BY <1>2, <1>3, <1>5
<1>8. path # <<>> => p[Len(p)] = path[Len(path)]
  <2> SUFFICES ASSUME path # <<>> PROVE p[Len(p)] = path[Len(path)]
    OBVIOUS
  <2>1. 1 + Len(path) \in 1..(1 + Len(path)) /\ ~(1 + Len(path) <= 1) /\ (1 + Len(path)) - 1 = Len(path)
    BY <1>2
  <2> QED
    BY <1>3, <1>4, <2>1
<1> QED
  BY <1>3, <1>5, <1>6, <1>7, <1>8 DEF Last, p

LEMMA ClimbEnds ==
  ASSUME NEW x, AllSound(x), NEW derived \in Classes, NEW base \in Classes
  PROVE  /\ AllSound(inheritancePath(x, derived, base).meta)
         /\ Leads(inheritancePath(x, derived, base).path, derived, base)
<1> DEFINE p == inheritancePath(x, derived, base)
           Ok == {at \in Climbs :
                    /\ AllSound(at.meta)
                    /\ \/ at.path = <<>> /\ at.class = derived
                       \/ /\ at.path # <<>> /\ Last(at.path) = derived
                          /\ at.class = base \/ inherits(at.meta, at.class, base)}
           step == ClimbStep(base)
           f == Climb(base)
           start == [meta |-> x, class |-> derived, path |-> <<>>]
<1>1. PICK line : Order(line)
  BY LineExists
<1> DEFINE big == [at \in Climbs |-> line[at.class]]
           small == [at \in Climbs |-> 0]
<1>2. \A c \in Classes : line[c] \in Nat
  <2>1. Cardinality(Classes) \in Nat
    BY NestedGrowing
  <2> QED
    BY <1>1, <2>1 DEF Order
<1>3. big \in [Climbs -> Nat] /\ small \in [Climbs -> Nat] /\ Ok \in SUBSET Climbs
  BY <1>2 DEF Climbs
<1>4. start \in Ok
  BY DEF Climbs, AllSound
<1>5. ASSUME NEW at \in Ok \ Climbed(base)
      PROVE  /\ step[at] \in Ok
             /\ \/ big[step[at]] < big[at]
                \/ big[step[at]] = big[at] /\ small[step[at]] < small[at]
  <2> DEFINE y == Twice(at.meta, at.class)
             t == Through(y, at.class, base)
  <2>0. at \in Climbs \ Climbed(base) /\ at.class \in Classes /\ at.path \in Seq(Classes)
    BY DEF Climbs
  <2>1. /\ t \in superclasses(y, at.class) /\ t \in Classes
        /\ t = base \/ inherits(y, t, base)
        /\ step[at] = [meta |-> y, class |-> t, path |-> <<at.class>> \o at.path]
        /\ step[at] \in Climbs
    BY <2>0, ClimbSteps
  <2>2. step[at].meta = y /\ step[at].class = t /\ step[at].path = <<at.class>> \o at.path
    BY <2>1
  <2>3. AllSound(y)
    BY <2>0, TwiceAllSound
  <2> HIDE DEF y, t, step
  <2>4. line[t] < line[at.class]
    <3>1. t \in Ancestors[at.class]
      BY <2>0, <2>1, <2>3 DEF AllSound, SoundOn, Sound, superclasses
    <3> QED
      BY <1>1, <2>0, <3>1, AncestorsEarlier
  <2>5. <<at.class>> \o at.path # <<>> /\ Last(<<at.class>> \o at.path) = derived
    BY <2>0, Spliced
  <2>6. step[at] \in Ok
    BY <2>1, <2>2, <2>3, <2>5
  <2>7. big[step[at]] < big[at]
    BY <2>1, <2>2, <2>4
  <2> QED
    BY <2>6, <2>7
<1> HIDE DEF big, small, Ok, step, f, start
<1>6. Descends(Ok, Climbed(base), step, big, small)
  BY <1>5 DEF Descends
<1>7. \E at \in Ok \intersect Climbed(base) : f[start] = ClimbOut(base)[at]
  BY <1>3, <1>4, <1>6, ClimbLoops, LoopEnds DEF step, f
<1>8. PICK at \in Ok \intersect Climbed(base) : f[start] = ClimbOut(base)[at]
  BY <1>7
<1>9. p = ClimbOut(base)[at]
  BY <1>8, InheritancePathClimbs DEF f, start
<1>10. /\ at \in Climbs /\ at.class \in Classes /\ at.path \in Seq(Classes) /\ AllSound(at.meta)
       /\ \/ at.path = <<>> /\ at.class = derived
          \/ /\ at.path # <<>> /\ Last(at.path) = derived
             /\ at.class = base \/ inherits(at.meta, at.class, base)
  BY <1>8 DEF Ok, Climbs
<1> HIDE DEF p
<1>11. CASE at.class = base
  <2>1. p = [meta |-> Twice(at.meta, at.class), path |-> <<base>> \o at.path]
    BY <1>9, <1>10, <1>11 DEF ClimbOut
  <2>2. p.meta = Twice(at.meta, at.class) /\ p.path = <<base>> \o at.path
    BY <2>1
  <2>3. AllSound(p.meta)
    BY <1>10, <2>2, TwiceAllSound
  <2>4. Leads(<<base>> \o at.path, derived, base)
    BY <1>10, <1>11, Spliced DEF Leads
  <2> QED
    BY <2>2, <2>3, <2>4 DEF p
<1>12. CASE at.class # base
  <2>1. p = [meta |-> at.meta, path |-> at.path]
    BY <1>9, <1>10, <1>12 DEF ClimbOut
  <2>2. p.meta = at.meta /\ p.path = at.path
    BY <2>1
  <2>3. ~inherits(at.meta, at.class, base)
    BY <1>8, <1>12 DEF Climbed
  <2>4. at.path = <<>>
    BY <1>10, <1>12, <2>3, Zenon
  <2>5. Leads(at.path, derived, base)
    BY <2>4, Zenon DEF Leads
  <2> QED
    BY <1>10, <2>2, <2>5 DEF p
<1> QED
  BY <1>11, <1>12

-----------------------------------------------------------------------------
(* Comparing two methods                                                   *)

LEMMA OrdersTyped ==
  ASSUME NEW m1 \in Methods, NEW m2 \in Methods, NEW order \in CallOrders(m1, m2)
  PROVE  order[1] \in Classes /\ order[2] \in Classes
BY MethodsAssumption DEF CallOrders

LEMMA GetClassesAllSound ==
  ASSUME NEW x, AllSound(x), NEW m1 \in Methods, NEW m2 \in Methods,
         NEW order \in CallOrders(m1, m2)
  PROVE  AllSound(GetClasses(x, order)) /\ Grew(x, GetClasses(x, order))
<1> DEFINE y == Copy(x, order[1])
<1>1. AllSound(y) /\ Grew(x, y)
  BY OrdersTyped, CopyAllSound
<1>2. GetClasses(x, order) = Copy(y, order[2])
  BY DEF GetClasses
<1> HIDE DEF y
<1>3. AllSound(Copy(y, order[2])) /\ Grew(y, Copy(y, order[2]))
  BY <1>1, OrdersTyped, CopyAllSound
<1> QED
  BY <1>1, <1>2, <1>3, GrewTrans DEF AllSound

LEMMA ComparisonAllSound ==
  ASSUME NEW x, AllSound(x), NEW m1 \in Methods, NEW m2 \in Methods,
         NEW order \in CallOrders(m1, m2)
  PROVE  AllSound(overrides(x, m1, m2, order).meta) /\ AllSound(overloads(x, m1, m2, order).meta)
<1> DEFINE compared == GetClasses(x, order)
           related == GetClasses(compared, order)
           final == GetClasses(related, order)
           over == overrides(x, m1, m2, order)
           load == overloads(x, m1, m2, order)
<1>1. AllSound(compared)
  BY GetClassesAllSound
<1>2. AllSound(related)
  <2> HIDE DEF compared
  <2> QED
    BY <1>1, GetClassesAllSound
<1>3. AllSound(final)
  <2> HIDE DEF compared, related
  <2> QED
    BY <1>2, GetClassesAllSound
<1>4. over.meta \in {compared, related, final}
  BY DEF overrides
<1>5. load.meta \in {x, compared}
  BY DEF overloads
<1> HIDE DEF compared, related, final, over, load
<1>6. AllSound(over.meta) /\ AllSound(load.meta)
  BY <1>1, <1>2, <1>3, <1>4, <1>5
<1> QED
  BY <1>6 DEF over, load

-----------------------------------------------------------------------------
(* What holds of the registry at any moment                                *)

(***************************************************************************)
(* The inductive invariant: every meta-class is sound, and neither check   *)
(* castUp makes of a path has failed.                                      *)
(***************************************************************************)
RegistryInv == TypeOK /\ SoundOn(meta, Classes) /\ PathSound

LEMMA InvAllSound ==
  ASSUME RegistryInv PROVE AllSound(meta)
BY DEF RegistryInv, TypeOK, AllSound

LEMMA InitRegistryInv ==
  ASSUME Init PROVE RegistryInv
<1>1. TypeOK
  <2>1. meta \in Metas
    <3>1. \A c \in Classes : [unresolved |-> Bases[c], superclasses |-> <<>>,
                              methods |-> <<c>>, casts |-> {}] \in ClassImpl
      BY BasesTyped DEF ClassImpl
    <3> QED
      BY <3>1 DEF Init, Metas
  <2> QED
    BY <2>1 DEF Init, TypeOK, Results
<1>2. ASSUME NEW d \in Classes PROVE Sound(meta[d], d)
  <2>1. /\ meta[d].unresolved = Bases[d] /\ meta[d].superclasses = <<>>
        /\ meta[d].methods = <<d>> /\ meta[d].casts = {}
    BY DEF Init
  <2>2. ToSet(<<>>) = {} /\ ToSet(<<d>>) = {d}
    BY DEF ToSet
  <2>3. IsInjective(Bases[d])
    BY BasesAssumption
  <2> QED
    BY <2>1, <2>2, <2>3 DEF Sound
<1>3. PathSound
  BY DEF Init, PathSound
<1> QED
  BY <1>1, <1>2, <1>3 DEF RegistryInv, SoundOn

\* The meta-classes a step leaves are sound for what was registered before it
LEMMA StepAllSound ==
  ASSUME RegistryInv, Next PROVE AllSound(meta')
<1>1. AllSound(meta)
  BY InvAllSound
<1>2. CASE \E c \in Classes : Register(c) \/ Handle(c)
  <2>1. PICK c \in Classes : meta' = Copy(meta, c)
    BY <1>2 DEF Register, Handle
  <2>2. AllSound(Copy(meta, c))
    BY <1>1, CopyAllSound
  <2> QED
    BY <2>1, <2>2
<1>3. CASE \E c \in Classes : FindAllMethods(c)
  <2>1. PICK c \in Classes : meta' = findAll(meta, c).meta
    BY <1>3 DEF FindAllMethods
  <2>2. AllSound(findAll(meta, c).meta)
    BY <1>1, HuntEnds
  <2> QED
    BY <2>1, <2>2
<1>4. CASE \E m1, m2 \in Methods : Compare(m1, m2)
  <2>1. PICK m1 \in Methods : \E m2 \in Methods : Compare(m1, m2)
    BY <1>4
  <2>2. PICK m2 \in Methods : Compare(m1, m2)
    BY <2>1
  <2>3. PICK order \in CallOrders(m1, m2) :
          meta' \in {overrides(meta, m1, m2, order).meta, overloads(meta, m1, m2, order).meta}
    BY <2>2 DEF Compare
  <2>4. AllSound(overrides(meta, m1, m2, order).meta) /\ AllSound(overloads(meta, m1, m2, order).meta)
    BY <1>1, ComparisonAllSound
  <2> QED
    BY <2>3, <2>4
<1>5. CASE \E c, b \in Classes : CastUp(c, b)
  <2>1. PICK c \in Classes : \E b \in Classes : CastUp(c, b)
    BY <1>5
  <2>2. PICK b \in Classes : CastUp(c, b)
    BY <2>1
  <2>3. meta' = inheritancePath(meta, c, b).meta
    BY <2>2 DEF CastUp
  <2>4. AllSound(inheritancePath(meta, c, b).meta)
    BY <1>1, ClimbEnds
  <2> QED
    BY <2>3, <2>4
<1> QED
  BY <1>2, <1>3, <1>4, <1>5 DEF Next

LEMMA StepLast ==
  ASSUME RegistryInv, Next
  PROVE  /\ last' \in [class : Classes \union {"none"}, base : Classes \union {"none"},
                       result : Results]
         /\ last'.result # "inheritance path is wrong"
<1>1. CASE \E c \in Classes : Register(c) \/ Handle(c) \/ FindAllMethods(c)
  <2>1. \E c \in Classes : last' = [class |-> c, base |-> "none", result |-> "ok"]
    BY <1>1 DEF Register, Handle, FindAllMethods
  <2> QED
    BY <2>1 DEF Results
<1>2. CASE \E m1, m2 \in Methods : Compare(m1, m2)
  <2>1. \E c, b \in Classes : last' = [class |-> c, base |-> b, result |-> "ok"]
    BY <1>2, MethodsAssumption DEF Compare
  <2> QED
    BY <2>1 DEF Results
<1>3. CASE \E c, b \in Classes : CastUp(c, b)
  <2>1. PICK c \in Classes : \E b \in Classes : CastUp(c, b)
    BY <1>3
  <2>2. PICK b \in Classes : CastUp(c, b)
    BY <2>1
  <2> DEFINE found == inheritancePath(meta, c, b)
             said == castUp(found.meta, c, b, found.path)
  <2>3. last' = [class |-> c, base |-> b, result |-> said]
    BY <2>2 DEF CastUp
  <2>4. Leads(found.path, c, b)
    BY InvAllSound, ClimbEnds
  <2>5. said \in {"empty", "cast", "No cast function registered"}
    <3> HIDE DEF found
    <3>1. said = "empty" \/ said = castAlong(found.meta, found.path)
      BY <2>4 DEF Leads, castUp
    <3> QED
      BY <3>1 DEF castAlong
  <2> HIDE DEF said
  <2> QED
    BY <2>3, <2>5 DEF Results
<1> QED
  BY <1>1, <1>2, <1>3 DEF Next

LEMMA StepRegistered ==
  ASSUME RegistryInv, Next PROVE registered \subseteq registered' /\ registered' \subseteq Classes
<1>1. registered \subseteq Classes
  BY DEF RegistryInv, TypeOK
<1>2. CASE \E c \in Classes : Register(c) \/ Handle(c) \/ FindAllMethods(c)
  BY <1>1, <1>2 DEF Register, Handle, FindAllMethods
<1>3. CASE \E m1, m2 \in Methods : Compare(m1, m2)
  BY <1>1, <1>3 DEF Compare
<1>4. CASE \E c, b \in Classes : CastUp(c, b)
  BY <1>1, <1>4 DEF CastUp
<1> QED
  BY <1>2, <1>3, <1>4 DEF Next

LEMMA NextRegistryInv ==
  ASSUME RegistryInv, [Next]_vars PROVE RegistryInv'
<1>1. CASE UNCHANGED vars
  BY <1>1 DEF vars, RegistryInv, TypeOK, SoundOn, Sound, PathSound
<1>2. CASE Next
  <2>1. AllSound(meta')
    BY <1>2, StepAllSound
  <2>2. meta' \in Metas
    BY <2>1 DEF AllSound
  <2>3. TypeOK'
    BY <1>2, <2>2, StepLast, StepRegistered DEF TypeOK
  <2>4. ASSUME NEW d \in Classes PROVE Sound(meta[d], d)'
    <3>1. Sound(meta'[d], d)
      BY <2>1 DEF AllSound, SoundOn
    <3> QED
      BY <1>2, <3>1, StepRegistered DEF Sound
  <2>5. PathSound'
    BY <1>2, StepLast DEF PathSound
  <2> QED
    BY <2>3, <2>4, <2>5 DEF RegistryInv, SoundOn
<1> QED
  BY <1>1, <1>2

LEMMA RegistryInvHolds ==
  Spec => []RegistryInv
<1>1. Init => RegistryInv
  BY InitRegistryInv
<1>2. RegistryInv /\ [Next]_vars => RegistryInv'
  BY NextRegistryInv
<1> QED
  BY <1>1, <1>2, PTL DEF Spec

(***************************************************************************)
(* In whatever order the static initialisers run and whatever is looked    *)
(* up, searched, compared or cast in between, the meta-classes hold        *)
(* registered classes, list only what they derive from, and have the       *)
(* members of exactly what they list (resolveBases and                     *)
(* registerSuperClassInternal, class.cpp).                                 *)
(***************************************************************************)
THEOREM MetaAlwaysOK ==
  Spec => []MetaOK
<1>1. RegistryInv => MetaOK
  <2> SUFFICES ASSUME RegistryInv PROVE MetaOK
    OBVIOUS
  <2>1. \A c \in Classes : Sound(meta[c], c)
    BY DEF RegistryInv, SoundOn
  <2>2. SuperclassesAreAncestors
    BY <2>1 DEF SuperclassesAreAncestors, superclasses, Sound
  <2>3. InheritedMembersMatch
    BY <2>1 DEF InheritedMembersMatch, superclasses, Sound
  <2> QED
    BY <2>2, <2>3 DEF MetaOK, RegistryInv
<1> QED
  BY <1>1, RegistryInvHolds, PTL

(***************************************************************************)
(* The pass of resolveBases that erases from the list it goes through,     *)
(* skips the base after each one it finds and may wrap round to the first, *)
(* neither loses a base nor resolves one twice.                            *)
(***************************************************************************)
THEOREM NoBaseIsLost ==
  Spec => []NoBaseLost
<1>1. RegistryInv => NoBaseLost
  BY DEF RegistryInv, SoundOn, Sound, NoBaseLost, superclasses
<1> QED
  BY <1>1, RegistryInvHolds, PTL

(***************************************************************************)
(* inheritancePath ends, and castUp's two checks of the path it returns    *)
(* (from the base, to the derived class) never fail.  Nothing is said of   *)
(* its third check, for a cast function, which may fail.                   *)
(***************************************************************************)
THEOREM PathAlwaysSound ==
  Spec => []PathSound
<1>1. RegistryInv => PathSound
  BY DEF RegistryInv
<1> QED
  BY <1>1, RegistryInvHolds, PTL

(***************************************************************************)
(* findAllMethods ends although the handles its predicate makes append to  *)
(* the list it goes through, and has then seen the whole list in order.    *)
(***************************************************************************)
THEOREM SearchAlwaysSeesAll ==
  Spec => []SearchSeesAll
<1>1. RegistryInv => SearchSeesAll
  <2> SUFFICES ASSUME RegistryInv, NEW c \in registered
               PROVE  findAll(meta, c).found = findAll(meta, c).meta[c].methods
    BY DEF SearchSeesAll
  <2>1. c \in Classes
    BY DEF RegistryInv, TypeOK
  <2> QED
    BY <2>1, InvAllSound, HuntEnds
<1> QED
  BY <1>1, RegistryInvHolds, PTL

-----------------------------------------------------------------------------
(* Progress                                                                *)

\* A pass over waiting bases the first of which is registered
LEMMA PassResolves ==
  ASSUME NEW x \in Metas, NEW c \in Classes,
         x[c].unresolved # <<>>, x[c].unresolved[1] \in registered
  PROVE  Len(Copy(x, c)[c].unresolved) < Len(x[c].unresolved)
<1> DEFINE N == Cardinality(Classes)
           calls == Nested[N - 1]
           at == [meta |-> x, base |-> 1]
           y == Found(calls, x, c, 1)
           z == Copy(x, c)
<1>0. x[c].unresolved \in Seq(Classes) /\ Len(x[c].unresolved) \in Nat /\ Len(x[c].unresolved) # 0
  BY ImplFields, EmptySeq
<1>1. N \in Nat /\ N \in 1..N /\ N - 1 \in 0..N
  <2>1. PICK line : Order(line)
    BY LineExists
  <2>2. N \in Nat /\ line[c] \in 1..N
    BY <2>1, NestedGrowing DEF Order
  <2> QED
    BY <2>2
<1>2. calls \in Growing /\ Nested[N] = Around(calls)
  BY <1>1, NestedGrowing
<1> HIDE DEF calls
<1>3. z = Visit(calls, c)[at]
  <2>1. z = Around(calls).copy[c][x]
    BY <1>2 DEF Copy, Handles
  <2>2. Around(calls).copy[c][x] = resolveBases(calls, x, c)
    BY <1>2, AroundCalls
  <2> QED
    BY <2>1, <2>2, ResolveBasesVisits
<1>4. at \in Places /\ at.meta = x /\ at.base = 1
  BY DEF Places, Positive
<1> HIDE DEF at, N, z
<1>5. PICK next \in Places : next.meta = y /\ Visit(calls, c)[at] = Visit(calls, c)[next]
  <2>1. at.base <= Len(at.meta[c].unresolved) /\ at.meta[c].unresolved[at.base] \in registered
    BY <1>0, <1>4
  <2>2. \E next \in Places : /\ next.meta = Found(calls, at.meta, c, at.base)
                             /\ Visit(calls, c)[at] = Visit(calls, c)[next]
    BY <1>2, <1>4, <2>1, VisitFinds
  <2> QED
    BY <1>4, <2>2
<1>6. y \in Metas /\ Len(y[c].unresolved) < Len(x[c].unresolved)
  <2>1. 1 \in 1..Len(x[c].unresolved)
    BY <1>0
  <2> QED
    BY <1>2, <2>1, FoundGrows
<1> HIDE DEF y
<1> DEFINE Good == {v \in Metas : Grew(y, v)}
<1>7. ASSUME NEW v \in Good, NEW i \in 1..Len(v[c].unresolved)
      PROVE  Found(calls, v, c, i) \in Good
  <2>1. Found(calls, v, c, i) \in Metas /\ Grew(v, Found(calls, v, c, i))
    BY <1>2, FoundGrows
  <2> QED
    BY <1>6, <2>1, GrewTrans
<1>8. y \in Good /\ Good \in SUBSET Metas
  BY <1>6, GrewSelf
<1> HIDE DEF Good
<1>9. Visit(calls, c)[next] \in Good
  BY <1>2, <1>5, <1>7, <1>8, VisitKeeps
<1>10. z \in Metas /\ Grew(y, z)
  BY <1>3, <1>5, <1>9 DEF Good
<1>11. Len(z[c].unresolved) <= Len(y[c].unresolved)
  BY <1>10 DEF Grew, Grown, Longer
<1>12. Len(z[c].unresolved) \in Nat /\ Len(y[c].unresolved) \in Nat
  BY <1>6, <1>10, ImplFields
<1> QED
  BY <1>0, <1>6, <1>11, <1>12 DEF z

(***************************************************************************)
(* Copying a handle of a class whose waiting bases are all registered      *)
(* always resolves one of them, although a pass may skip some.             *)
(***************************************************************************)
THEOREM PassAlwaysMakesProgress ==
  Spec => PassMakesProgress
<1> DEFINE Shorter(c) ==
             Handle(c) /\ meta[c].unresolved # <<>> /\ ToSet(Bases[c]) \subseteq registered
               => Len(meta'[c].unresolved) < Len(meta[c].unresolved)
<1>1. ASSUME RegistryInv, NEW c \in Classes PROVE Shorter(c)
  <2> SUFFICES ASSUME Handle(c), meta[c].unresolved # <<>>, ToSet(Bases[c]) \subseteq registered
               PROVE  Len(meta'[c].unresolved) < Len(meta[c].unresolved)
    OBVIOUS
  <2>1. meta \in Metas /\ Sound(meta[c], c)
    BY <1>1 DEF RegistryInv, TypeOK, SoundOn
  <2>2. meta[c].unresolved \in Seq(Classes) /\ 1 \in DOMAIN meta[c].unresolved
    BY <2>1, ImplFields, EmptySeq
  <2>3. meta[c].unresolved[1] \in ToSet(Bases[c])
    BY <2>1, <2>2 DEF Sound, ToSet
  <2>4. Len(Copy(meta, c)[c].unresolved) < Len(meta[c].unresolved)
    BY <2>1, <2>3, PassResolves
  <2> QED
    BY <2>4 DEF Handle
<1>2. RegistryInv => [\A c \in Classes : Shorter(c)]_vars
  BY <1>1
<1>3. Spec => [][\A c \in Classes : Shorter(c)]_vars
  <2> HIDE DEF Shorter
  <2> QED
    BY <1>2, RegistryInvHolds, PTL
<1> QED
  BY <1>3 DEF PassMakesProgress

-----------------------------------------------------------------------------
(* Independence of the order of the copies                                 *)

(***************************************************************************)
(* What a list holds besides classes above a.                              *)
(***************************************************************************)
KeptUpTo(a, s) ==
  CHOOSE k : k = [n \in 0..Len(s) |->
                    IF n = 0 THEN <<>>
                    ELSE IF s[n] \in Ancestors[a] THEN k[n - 1] ELSE Append(k[n - 1], s[n])]

Kept(a, s) == KeptUpTo(a, s)[Len(s)]

LEMMA KeptSteps ==
  ASSUME NEW a \in Classes, NEW s \in Seq(Classes)
  PROVE  LET k == KeptUpTo(a, s)
         IN  /\ k \in [0..Len(s) -> Seq(Classes)]
             /\ k[0] = <<>>
             /\ \A n \in 1..Len(s) :
                  k[n] = IF s[n] \in Ancestors[a] THEN k[n - 1] ELSE Append(k[n - 1], s[n])
<1> DEFINE N == Len(s)
           step == [n \in 1..N |-> [m \in Seq(Classes) |->
                      IF s[n] \in Ancestors[a] THEN m ELSE Append(m, s[n])]]
           Code(f) == f = [n \in 0..N |->
                        IF n = 0 THEN <<>>
                        ELSE IF s[n] \in Ancestors[a] THEN f[n - 1] ELSE Append(f[n - 1], s[n])]
           g == KeptUpTo(a, s)
<1>1. N \in Nat /\ <<>> \in Seq(Classes)
  OBVIOUS
<1>2. step \in [1..N -> [Seq(Classes) -> Seq(Classes)]]
  OBVIOUS
<1>3. \E f \in [0..N -> Seq(Classes)] : IsChain(f, N, <<>>, step)
  <2> HIDE DEF step, N
  <2> QED
    BY <1>1, <1>2, ChainExists
<1>4. PICK f \in [0..N -> Seq(Classes)] : IsChain(f, N, <<>>, step)
  BY <1>3
<1>5. Code(f)
  <2> DEFINE One(n) == IF n = 0 THEN <<>> ELSE step[n][f[n - 1]]
             Two(n) == IF n = 0 THEN <<>>
                       ELSE IF s[n] \in Ancestors[a] THEN f[n - 1] ELSE Append(f[n - 1], s[n])
  <2>1. ASSUME NEW n \in 0..N PROVE One(n) = Two(n)
    <3>1. CASE n = 0
      BY <3>1
    <3>2. CASE n # 0
      <4>1. n \in 1..N /\ n - 1 \in 0..N
        BY <1>1, <3>2
      <4>2. f[n - 1] \in Seq(Classes)
        BY <4>1
      <4> QED
        BY <3>2, <4>1, <4>2
    <3> QED
      BY <3>1, <3>2
  <2>2. [n \in 0..N |-> One(n)] = [n \in 0..N |-> Two(n)]
    <3> HIDE DEF One, Two
    <3> QED
      BY <2>1
  <2>3. f = [n \in 0..N |-> One(n)]
    BY <1>4 DEF IsChain
  <2> QED
    BY <2>2, <2>3
<1>6. Code(g)
  <2>1. g = CHOOSE h : Code(h)
    BY DEF KeptUpTo
  <2> HIDE DEF g, Code
  <2> QED
    BY <1>5, <2>1
<1> HIDE DEF g
<1>7. /\ g[0] = <<>>
      /\ \A n \in 1..N :
           g[n] = IF s[n] \in Ancestors[a] THEN g[n - 1] ELSE Append(g[n - 1], s[n])
  <2> DEFINE Two(n) == IF n = 0 THEN <<>>
                       ELSE IF s[n] \in Ancestors[a] THEN g[n - 1] ELSE Append(g[n - 1], s[n])
  <2>1. g = [n \in 0..N |-> Two(n)]
    BY <1>6
  <2>2. \A n \in 0..N : g[n] = Two(n)
    <3> HIDE DEF Two
    <3> QED
      BY <2>1
  <2>3. 0 \in 0..N /\ \A n \in 1..N : n \in 0..N /\ n # 0
    BY <1>1
  <2> QED
    BY <2>2, <2>3
<1>8. g \in [0..N -> Seq(Classes)]
  <2> DEFINE T == {k \in Nat : k <= N => g[k] \in Seq(Classes)}
  <2>1. 0 \in T
    BY <1>1, <1>7
  <2>2. ASSUME NEW k \in Nat, k \in T PROVE k + 1 \in T
    <3> SUFFICES ASSUME k + 1 <= N PROVE g[k + 1] \in Seq(Classes)
      OBVIOUS
    <3>1. k + 1 \in 1..N /\ (k + 1) - 1 = k /\ g[k] \in Seq(Classes) /\ s[k + 1] \in Classes
      BY <1>1, <2>2
    <3>2. g[k + 1] = IF s[k + 1] \in Ancestors[a] THEN g[k] ELSE Append(g[k], s[k + 1])
      BY <1>7, <3>1
    <3>3. Append(g[k], s[k + 1]) \in Seq(Classes)
      BY <3>1
    <3> QED
      BY <3>1, <3>2, <3>3
  <2> HIDE DEF T
  <2>3. Nat \subseteq T
    BY <2>1, <2>2, SetInduction
  <2>4. \A k \in 0..N : g[k] \in Seq(Classes)
    BY <1>1, <2>3 DEF T
  <2>5. g = [n \in 0..N |-> g[n]]
    BY <1>6
  <2> QED
    BY <2>4, <2>5
<1> QED
  BY <1>7, <1>8 DEF g

LEMMA KeptAppend ==
  ASSUME NEW a \in Classes, NEW s \in Seq(Classes), NEW b \in Classes
  PROVE  Kept(a, Append(s, b)) = IF b \in Ancestors[a] THEN Kept(a, s) ELSE Append(Kept(a, s), b)
<1> DEFINE t == Append(s, b)
           k == KeptUpTo(a, s)
           l == KeptUpTo(a, t)
<1>1. Len(s) \in Nat /\ t \in Seq(Classes) /\ Len(t) = Len(s) + 1 /\ t[Len(s) + 1] = b
  OBVIOUS
<1>2. \A n \in 1..Len(s) : t[n] = s[n]
  OBVIOUS
<1> HIDE DEF t
<1>3. /\ k[0] = <<>>
      /\ \A n \in 1..Len(s) :
           k[n] = IF s[n] \in Ancestors[a] THEN k[n - 1] ELSE Append(k[n - 1], s[n])
  BY KeptSteps
<1>4. /\ l[0] = <<>>
      /\ \A n \in 1..(Len(s) + 1) :
           l[n] = IF t[n] \in Ancestors[a] THEN l[n - 1] ELSE Append(l[n - 1], t[n])
  BY <1>1, KeptSteps
<1>9. Kept(a, s) = k[Len(s)] /\ Kept(a, t) = l[Len(s) + 1]
  BY <1>1 DEF Kept
<1> HIDE DEF k, l
<1> DEFINE T == {n \in Nat : n <= Len(s) => l[n] = k[n]}
<1>5. 0 \in T
  BY <1>3, <1>4
<1>6. ASSUME NEW n \in Nat, n \in T PROVE n + 1 \in T
  <2> SUFFICES ASSUME n + 1 <= Len(s) PROVE l[n + 1] = k[n + 1]
    OBVIOUS
  <2>1. n + 1 \in 1..Len(s) /\ n + 1 \in 1..(Len(s) + 1) /\ (n + 1) - 1 = n /\ l[n] = k[n]
    BY <1>1, <1>6
  <2> QED
    BY <1>2, <1>3, <1>4, <2>1
<1> HIDE DEF T
<1>7. Nat \subseteq T
  BY <1>5, <1>6, SetInduction
<1>8. l[Len(s)] = k[Len(s)]
  BY <1>1, <1>7 DEF T
<1>10. Len(s) + 1 \in 1..(Len(s) + 1) /\ (Len(s) + 1) - 1 = Len(s)
  BY <1>1
<1> QED
  BY <1>1, <1>4, <1>8, <1>9, <1>10 DEF t

LEMMA KeptSet ==
  ASSUME NEW a \in Classes, NEW s \in Seq(Classes)
  PROVE  a \in ToSet(Kept(a, s)) <=> a \in ToSet(s)
<1> DEFINE k == KeptUpTo(a, s)
           Some(n) == \E i \in 1..n : s[i] = a
           T == {n \in Nat : n <= Len(s) => (a \in ToSet(k[n]) <=> Some(n))}
<1>1. /\ k \in [0..Len(s) -> Seq(Classes)] /\ k[0] = <<>>
      /\ \A n \in 1..Len(s) :
           k[n] = IF s[n] \in Ancestors[a] THEN k[n - 1] ELSE Append(k[n - 1], s[n])
  BY KeptSteps
<1> HIDE DEF k
<1>2. Len(s) \in Nat /\ DOMAIN s = 1..Len(s) /\ a \notin Ancestors[a]
  <2>1. a \notin Ancestors[a]
    BY Acyclic
  <2> QED
    BY <2>1
<1>3. 0 \in T
  BY <1>1 DEF ToSet
<1>4. ASSUME NEW n \in Nat, n \in T PROVE n + 1 \in T
  <2> SUFFICES ASSUME n + 1 <= Len(s) PROVE a \in ToSet(k[n + 1]) <=> Some(n + 1)
    OBVIOUS
  <2>1. n + 1 \in 1..Len(s) /\ (n + 1) - 1 = n /\ n \in 0..Len(s) /\ n <= Len(s)
    BY <1>2
  <2>2. a \in ToSet(k[n]) <=> Some(n)
    BY <1>4, <2>1
  <2>3. \A i \in 1..(n + 1) : i \in 1..n \/ i = n + 1
    OBVIOUS
  <2>4. Some(n + 1) <=> Some(n) \/ s[n + 1] = a
    BY <2>3
  <2>5. k[n] \in Seq(Classes) /\ s[n + 1] \in Classes
    BY <1>1, <2>1
  <2>6. CASE s[n + 1] \in Ancestors[a]
    <3>1. k[n + 1] = k[n] /\ s[n + 1] # a
      BY <1>1, <1>2, <2>1, <2>6
    <3> HIDE DEF Some
    <3> QED
      BY <2>2, <2>4, <3>1
  <2>7. CASE s[n + 1] \notin Ancestors[a]
    <3>1. k[n + 1] = Append(k[n], s[n + 1])
      BY <1>1, <2>1, <2>7
    <3>2. ToSet(k[n + 1]) = ToSet(k[n]) \union {s[n + 1]}
      BY <2>5, <3>1, SetOfAppended
    <3> HIDE DEF Some
    <3> QED
      BY <2>2, <2>4, <3>2
  <2> QED
    BY <2>6, <2>7
<1> HIDE DEF T, Some
<1>5. Nat \subseteq T
  BY <1>3, <1>4, SetInduction
<1>6. a \in ToSet(k[Len(s)]) <=> Some(Len(s))
  BY <1>2, <1>5 DEF T
<1>7. Some(Len(s)) <=> a \in ToSet(s)
  BY <1>2 DEF Some, ToSet
<1> QED
  BY <1>6, <1>7 DEF Kept, k

(***************************************************************************)
(* Meta-classes that a handle of a, or of a class above it, may have       *)
(* resolved further on one side: elsewhere the same bases wait, and the    *)
(* same is listed besides classes above a.                                 *)
(***************************************************************************)
AgreeAt(a, m, n) ==
  m.unresolved = n.unresolved /\ Kept(a, m.superclasses) = Kept(a, n.superclasses)

Agree(a, x, y) == \A d \in Classes \ Down(a) : AgreeAt(a, x[d], y[d])

LEMMA AgreeTrans ==
  ASSUME NEW a, NEW x, NEW y, NEW z, Agree(a, x, y), Agree(a, y, z)
  PROVE  Agree(a, x, z)
BY DEF Agree, AgreeAt

LEMMA AgreeSym ==
  ASSUME NEW a, NEW x, NEW y, Agree(a, x, y)
  PROVE  Agree(a, y, x)
BY DEF Agree, AgreeAt

LEMMA AgreeOff ==
  ASSUME NEW a, NEW x, NEW y, NEW S \in SUBSET Down(a), SameOff(x, y, S)
  PROVE  Agree(a, x, y)
BY DEF Agree, AgreeAt, SameOff

\* What is above a class that is a or above it
LEMMA DownTrans ==
  ASSUME NEW a \in Classes, NEW b \in Down(a)
  PROVE  /\ b \in Classes /\ Down(b) \subseteq Down(a)
         /\ Ancestors[b] \subseteq Ancestors[a]
<1>1. CASE b = a
  BY <1>1 DEF Down
<1>2. CASE b \in Ancestors[a]
  BY <1>2, AncestorsTrans DEF Down
<1> QED
  BY <1>1, <1>2 DEF Down

CopyAgrees(a, calls, c) ==
  \A x, y \in Metas :
    SoundOn(x, Down(c)) /\ SoundOn(y, Down(c)) /\ Agree(a, x, y)
      => Agree(a, calls.copy[c][x], calls.copy[c][y])

RegisterAgrees(a, calls, c, b) ==
  \A x, y \in Metas :
    SoundOn(x, Down(b)) /\ SoundOn(y, Down(b)) /\ Agree(a, x, y)
      => Agree(a, calls.register[c][b][x], calls.register[c][b][y])

\* Registering b, which is a or above it, with a class that is neither
RegisterKeeps(a, calls, c, b) ==
  \A x \in Metas : SoundOn(x, Down(b)) =>
    Kept(a, calls.register[c][b][x][c].superclasses) = Kept(a, Append(x[c].superclasses, b))

CopiesAgree(a, calls, S) == \A c \in S : CopyAgrees(a, calls, c)

RegistersAgree(a, calls, S) ==
  \A c \in Classes \ Down(a) : \A b \in S \intersect registered :
    c \notin Down(b) => RegisterAgrees(a, calls, c, b)

RegistersKeep(a, calls, S) ==
  \A c \in Classes \ Down(a) : \A b \in S \intersect registered \intersect Down(a) :
    RegisterKeeps(a, calls, c, b)


\* What registering a class above a, or a itself, leaves agrees where it was made from
\* what agrees, and with what it was made from if the class is above a
LEMMA RegisterSame ==
  ASSUME NEW a \in Classes, NEW c \in Classes \ Down(a), NEW b \in Down(a),
         NEW x \in Metas, NEW y \in Metas, NEW g, NEW h,
         RegisterLeaves(x, g, c, b), RegisterLeaves(y, h, c, b), Agree(a, x, y),
         Kept(a, g[c].superclasses) = Kept(a, Append(x[c].superclasses, b)),
         Kept(a, h[c].superclasses) = Kept(a, Append(y[c].superclasses, b))
  PROVE  Agree(a, g, h)
<1>1. b \in Classes /\ Down(b) \subseteq Down(a)
  BY DownTrans
<1> SUFFICES ASSUME NEW d \in Classes \ Down(a) PROVE AgreeAt(a, g[d], h[d])
  BY DEF Agree
<1>2. AgreeAt(a, x[d], y[d])
  BY DEF Agree
<1>3. CASE d # c
  <2>1. g[d] = x[d] /\ h[d] = y[d]
    BY <1>1, <1>3 DEF RegisterLeaves, SameOff
  <2> QED
    BY <1>2, <2>1
<1>4. CASE d = c
  <2>1. g[c].unresolved = x[c].unresolved /\ h[c].unresolved = y[c].unresolved
    BY DEF RegisterLeaves, Extended
  <2>2. x[c].superclasses \in Seq(Classes) /\ y[c].superclasses \in Seq(Classes)
    BY ImplFields
  <2>3. Kept(a, Append(x[c].superclasses, b)) =
          IF b \in Ancestors[a] THEN Kept(a, x[c].superclasses)
                                ELSE Append(Kept(a, x[c].superclasses), b)
    BY <1>1, <2>2, KeptAppend
  <2>4. Kept(a, Append(y[c].superclasses, b)) =
          IF b \in Ancestors[a] THEN Kept(a, y[c].superclasses)
                                ELSE Append(Kept(a, y[c].superclasses), b)
    BY <1>1, <2>2, KeptAppend
  <2>5. x[c].unresolved = y[c].unresolved
    BY <1>2, <1>4 DEF AgreeAt
  <2>6. Kept(a, x[c].superclasses) = Kept(a, y[c].superclasses)
    BY <1>2, <1>4 DEF AgreeAt
  <2>7. Kept(a, g[c].superclasses) = Kept(a, h[c].superclasses)
    BY <2>3, <2>4, <2>6
  <2> QED
    BY <1>4, <2>1, <2>5, <2>7 DEF AgreeAt
<1> QED
  BY <1>3, <1>4

LEMMA RegisterSkips ==
  ASSUME NEW a \in Classes, NEW c \in Classes \ Down(a), NEW b \in Ancestors[a],
         NEW x \in Metas, NEW g, RegisterLeaves(x, g, c, b),
         Kept(a, g[c].superclasses) = Kept(a, Append(x[c].superclasses, b))
  PROVE  Agree(a, x, g)
<1>1. b \in Classes /\ Down(b) \subseteq Down(a)
  BY DownTrans DEF Down
<1> SUFFICES ASSUME NEW d \in Classes \ Down(a) PROVE AgreeAt(a, x[d], g[d])
  BY DEF Agree
<1>2. CASE d # c
  <2>1. g[d] = x[d]
    BY <1>1, <1>2 DEF RegisterLeaves, SameOff
  <2> QED
    BY <2>1 DEF AgreeAt
<1>3. CASE d = c
  <2>1. g[c].unresolved = x[c].unresolved
    BY DEF RegisterLeaves, Extended
  <2>2. x[c].superclasses \in Seq(Classes)
    BY ImplFields
  <2>3. Kept(a, Append(x[c].superclasses, b)) = Kept(a, x[c].superclasses)
    BY <1>1, <2>2, KeptAppend
  <2> QED
    BY <1>3, <2>1, <2>3 DEF AgreeAt
<1> QED
  BY <1>2, <1>3

\* Flattening classes above a into a class that is not
LEMMA FlattenSkips ==
  ASSUME NEW calls \in Growing, NEW a \in Classes, NEW c \in Classes \ Down(a),
         NEW b \in Classes,
         c \notin Down(b), CopiesSound(calls, Down(b)), RegistersSound(calls, Ancestors[b]),
         RegistersKeep(a, calls, Ancestors[b]),
         NEW s \in Seq(Classes), ToSet(s) \subseteq Ancestors[b] \intersect registered,
         NEW f, Flattened(calls, c, b, s, f),
         NEW n \in 1..Len(s), s[n] \in Ancestors[a]
  PROVE  Agree(a, f[n - 1], f[n])
<1> DEFINE r == s[n]
           x == f[n - 1]
           u == calls.copy[r][x]
<1>1. n - 1 \in 0..Len(s)
  <2>1. Len(s) \in Nat
    OBVIOUS
  <2> QED
    BY <2>1
<1>2. SoundOn(f[n - 1], Down(b)) /\ Flattening(calls, c, s, f)
  BY <1>1 DEF Flattened
<1>3. /\ r \in Ancestors[b] /\ r \in registered
      /\ u \in Metas /\ CopyLeaves(x, u, r) /\ SoundOn(u, Down(r))
      /\ f[n] = calls.register[c][r][u] /\ RegisterLeaves(u, f[n], c, r)
  <2>1. r \in Ancestors[b] /\ r \in registered
    BY <1>2, FlattenLeaves
  <2>2. u \in Metas /\ CopyLeaves(x, u, r)
    BY <1>2, FlattenLeaves
  <2>3. SoundOn(u, Down(r))
    BY <1>2, FlattenLeaves
  <2>4. f[n] = calls.register[c][r][u]
    BY <1>2 DEF Flattening
  <2>5. RegisterLeaves(u, f[n], c, r)
    BY <1>2, FlattenLeaves
  <2> QED
    BY <2>1, <2>2, <2>3, <2>4, <2>5
<1> HIDE DEF r, x, u
<1>4. r \in Ancestors[a] /\ r \in Down(a) /\ Down(r) \subseteq Down(a)
  <2>1. r \in Ancestors[a]
    BY DEF r
  <2> QED
    BY <2>1, DownTrans DEF Down
<1>5. Agree(a, x, u)
  BY <1>3, <1>4, AgreeOff DEF CopyLeaves
<1>6. RegisterKeeps(a, calls, c, r)
  BY <1>3, <1>4 DEF RegistersKeep
<1>7. Kept(a, f[n][c].superclasses) = Kept(a, Append(u[c].superclasses, r))
  BY <1>3, <1>6 DEF RegisterKeeps
<1>8. Agree(a, u, f[n])
  BY <1>3, <1>4, <1>7, RegisterSkips
<1> QED
  BY <1>5, <1>8, AgreeTrans DEF x

\* The same class is flattened on both sides
LEMMA FlattenTogether ==
  ASSUME NEW calls \in Growing, NEW a \in Classes, NEW c \in Classes \ Down(a),
         NEW b \in Classes,
         c \notin Down(b), CopiesSound(calls, Down(b)), RegistersSound(calls, Ancestors[b]),
         CopiesAgree(a, calls, Down(b)), RegistersAgree(a, calls, Ancestors[b]),
         NEW s \in Seq(Classes), ToSet(s) \subseteq Ancestors[b] \intersect registered,
         NEW t \in Seq(Classes), ToSet(t) \subseteq Ancestors[b] \intersect registered,
         NEW f, Flattened(calls, c, b, s, f), NEW g, Flattened(calls, c, b, t, g),
         NEW n \in 1..Len(s), NEW m \in 1..Len(t), s[n] = t[m], Agree(a, f[n - 1], g[m - 1])
  PROVE  Agree(a, f[n], g[m])
<1> DEFINE r == s[n]
           x == f[n - 1]
           y == g[m - 1]
           u == calls.copy[r][x]
           v == calls.copy[r][y]
<1>1. n - 1 \in 0..Len(s) /\ m - 1 \in 0..Len(t)
  <2>1. Len(s) \in Nat /\ Len(t) \in Nat
    OBVIOUS
  <2> QED
    BY <2>1
<1>2. SoundOn(f[n - 1], Down(b)) /\ Flattening(calls, c, s, f)
  BY <1>1 DEF Flattened
<1>3. SoundOn(g[m - 1], Down(b)) /\ Flattening(calls, c, t, g)
  BY <1>1 DEF Flattened
<1>4. r \in Ancestors[b] /\ r \in registered /\ c \notin Down(r)
  BY <1>2, FlattenLeaves
<1>5. x \in Metas /\ SoundOn(x, Down(r)) /\ u \in Metas /\ SoundOn(u, Down(r))
  BY <1>2, FlattenLeaves
<1>6. y \in Metas /\ SoundOn(y, Down(r)) /\ v \in Metas /\ SoundOn(v, Down(r))
  <2>1. y \in Metas /\ SoundOn(y, Down(t[m]))
    BY <1>3, FlattenLeaves
  <2>2. calls.copy[t[m]][y] \in Metas /\ SoundOn(calls.copy[t[m]][y], Down(t[m]))
    BY <1>3, FlattenLeaves
  <2>3. r = t[m]
    OBVIOUS
  <2> HIDE DEF r, y
  <2> QED
    BY <2>1, <2>2, <2>3
<1>7. f[n] = calls.register[c][r][u]
  BY <1>2 DEF Flattening
<1>8. g[m] = calls.register[c][r][v]
  BY <1>3 DEF Flattening
<1>9. Agree(a, x, y)
  OBVIOUS
<1> HIDE DEF r, x, y
<1>10. Agree(a, u, v)
  <2>1. CopyAgrees(a, calls, r)
    BY <1>4 DEF CopiesAgree, Down
  <2> QED
    BY <1>5, <1>6, <1>9, <2>1 DEF CopyAgrees
<1> HIDE DEF u, v
<1>11. RegisterAgrees(a, calls, c, r)
  BY <1>4 DEF RegistersAgree
<1> QED
  BY <1>5, <1>6, <1>7, <1>8, <1>10, <1>11 DEF RegisterAgrees

LEMMA AppendUnique ==
  ASSUME NEW s \in Seq(Classes), NEW t \in Seq(Classes), NEW b \in Classes, NEW d \in Classes,
         Append(s, b) = Append(t, d)
  PROVE  s = t /\ b = d
<1>1. Len(s) \in Nat /\ Len(t) \in Nat /\ DOMAIN s = 1..Len(s) /\ DOMAIN t = 1..Len(t)
  OBVIOUS
<1>2. Len(Append(s, b)) = Len(s) + 1 /\ Len(Append(t, d)) = Len(t) + 1
  OBVIOUS
<1>3. Len(s) = Len(t)
  <2> DEFINE p == Append(s, b)
             q == Append(t, d)
  <2>1. Len(p) = Len(s) + 1 /\ Len(q) = Len(t) + 1
    BY <1>2
  <2>2. p = q
    OBVIOUS
  <2> HIDE DEF p, q
  <2>3. Len(s) + 1 = Len(t) + 1
    BY <2>1, <2>2
  <2>4. Len(s) \in Nat /\ Len(t) \in Nat
    BY <1>1
  <2> QED
    BY <2>3, <2>4
<1>4. Append(s, b)[Len(s) + 1] = b /\ Append(t, d)[Len(t) + 1] = d
  OBVIOUS
<1>5. \A i \in 1..Len(s) : Append(s, b)[i] = s[i]
  OBVIOUS
<1>6. \A i \in 1..Len(t) : Append(t, d)[i] = t[i]
  OBVIOUS
<1>7. \A i \in 1..Len(s) : s[i] = t[i]
  BY <1>3, <1>5, <1>6
<1>8. s = t
  BY <1>3, <1>7, SeqEqual
<1> QED
  BY <1>3, <1>4, <1>8

LEMMA AppendNotEmpty ==
  ASSUME NEW s \in Seq(Classes), NEW b \in Classes PROVE Append(s, b) # <<>>
<1>1. Len(Append(s, b)) = Len(s) + 1 /\ Len(s) \in Nat /\ Len(<<>>) = 0
  OBVIOUS
<1> QED
  BY <1>1

(***************************************************************************)
(* Flattening two lists that hold the same besides classes above a, from   *)
(* where the two sides agree, leads to where they agree.                   *)
(***************************************************************************)
LEMMA FlattenAgree ==
  ASSUME NEW calls \in Growing, NEW a \in Classes, NEW c \in Classes \ Down(a),
         NEW b \in Classes,
         c \notin Down(b), CopiesSound(calls, Down(b)), RegistersSound(calls, Ancestors[b]),
         CopiesAgree(a, calls, Down(b)), RegistersAgree(a, calls, Ancestors[b]),
         RegistersKeep(a, calls, Ancestors[b]),
         NEW s \in Seq(Classes), ToSet(s) \subseteq Ancestors[b] \intersect registered,
         NEW t \in Seq(Classes), ToSet(t) \subseteq Ancestors[b] \intersect registered,
         NEW f, Flattened(calls, c, b, s, f), NEW g, Flattened(calls, c, b, t, g),
         Agree(a, f[0], g[0]), Kept(a, s) = Kept(a, t)
  PROVE  Agree(a, f[Len(s)], g[Len(t)])
<1> DEFINE k == KeptUpTo(a, s)
           l == KeptUpTo(a, t)
           At(n, m) == k[n] = l[m] => Agree(a, f[n], g[m])
           T == {j \in Nat : \A n \in 0..Len(s), m \in 0..Len(t) : n + m <= j => At(n, m)}
<1>1. Len(s) \in Nat /\ Len(t) \in Nat
  OBVIOUS
<1>2. /\ k \in [0..Len(s) -> Seq(Classes)] /\ k[0] = <<>>
      /\ \A n \in 1..Len(s) :
           k[n] = IF s[n] \in Ancestors[a] THEN k[n - 1] ELSE Append(k[n - 1], s[n])
  BY KeptSteps
<1>3. /\ l \in [0..Len(t) -> Seq(Classes)] /\ l[0] = <<>>
      /\ \A m \in 1..Len(t) :
           l[m] = IF t[m] \in Ancestors[a] THEN l[m - 1] ELSE Append(l[m - 1], t[m])
  BY KeptSteps
<1>4. k[Len(s)] = l[Len(t)]
  BY DEF Kept
<1> HIDE DEF k, l
<1>5. \A n \in 1..Len(s) : s[n] \in Ancestors[a] => Agree(a, f[n - 1], f[n])
  BY FlattenSkips
<1>6. \A m \in 1..Len(t) : t[m] \in Ancestors[a] => Agree(a, g[m - 1], g[m])
  BY FlattenSkips
<1>7. \A n \in 1..Len(s), m \in 1..Len(t) :
        s[n] = t[m] /\ Agree(a, f[n - 1], g[m - 1]) => Agree(a, f[n], g[m])
  BY FlattenTogether
<1>8. 0 \in T
  <2> SUFFICES ASSUME NEW n \in 0..Len(s), NEW m \in 0..Len(t), n + m <= 0 PROVE At(n, m)
    OBVIOUS
  <2>1. n = 0 /\ m = 0
    BY <1>1
  <2> QED
    BY <2>1
<1>9. ASSUME NEW j \in Nat, j \in T PROVE j + 1 \in T
  <2> SUFFICES ASSUME NEW n \in 0..Len(s), NEW m \in 0..Len(t), n + m <= j + 1, k[n] = l[m]
               PROVE  Agree(a, f[n], g[m])
    OBVIOUS
  <2>1. n \in Nat /\ m \in Nat /\ j \in Nat
    BY <1>1
  <2>2. \A p \in 0..Len(s), q \in 0..Len(t) : p + q <= j /\ k[p] = l[q] => Agree(a, f[p], g[q])
    BY <1>9
  <2>3. CASE n \in 1..Len(s) /\ s[n] \in Ancestors[a]
    <3>1. k[n - 1] = l[m]
      BY <1>2, <2>3
    <3>2. n - 1 \in 0..Len(s) /\ (n - 1) + m <= j
      BY <1>1, <2>1, <2>3
    <3>3. Agree(a, f[n - 1], g[m])
      BY <2>2, <3>1, <3>2
    <3>4. Agree(a, f[n], f[n - 1])
      BY <1>5, <2>3, AgreeSym
    <3> QED
      BY <3>3, <3>4, AgreeTrans
  <2>4. CASE m \in 1..Len(t) /\ t[m] \in Ancestors[a]
    <3>1. k[n] = l[m - 1]
      BY <1>3, <2>4
    <3>2. m - 1 \in 0..Len(t) /\ n + (m - 1) <= j
      BY <1>1, <2>1, <2>4
    <3>3. Agree(a, f[n], g[m - 1])
      BY <2>2, <3>1, <3>2
    <3>4. Agree(a, g[m - 1], g[m])
      BY <1>6, <2>4
    <3> QED
      BY <3>3, <3>4, AgreeTrans
  <2>5. CASE /\ n \in 1..Len(s) /\ s[n] \notin Ancestors[a]
             /\ m \in 1..Len(t) /\ t[m] \notin Ancestors[a]
    <3>1. n - 1 \in 0..Len(s) /\ m - 1 \in 0..Len(t) /\ (n - 1) + (m - 1) <= j
      BY <1>1, <2>1, <2>5
    <3>2. k[n - 1] \in Seq(Classes) /\ l[m - 1] \in Seq(Classes)
      BY <1>2, <1>3, <3>1
    <3>3. s[n] \in Classes /\ t[m] \in Classes
      BY <2>5
    <3>4. Append(k[n - 1], s[n]) = Append(l[m - 1], t[m])
      BY <1>2, <1>3, <2>5
    <3>5. k[n - 1] = l[m - 1]
      <4> DEFINE p == k[n - 1]
                 q == l[m - 1]
      <4> HIDE DEF p, q
      <4>1. p \in Seq(Classes) /\ q \in Seq(Classes) /\ Append(p, s[n]) = Append(q, t[m])
        BY <3>2, <3>4 DEF p, q
      <4>2. p = q
        BY <3>3, <4>1, AppendUnique
      <4> QED
        BY <4>2 DEF p, q
    <3>6. s[n] = t[m]
      BY <3>2, <3>3, <3>4, AppendUnique
    <3> QED
      BY <1>7, <2>2, <2>5, <3>1, <3>5, <3>6
  <2>6. CASE n = 0 /\ m \in 1..Len(t) /\ t[m] \notin Ancestors[a]
    <3>1. m - 1 \in 0..Len(t)
      BY <1>1, <2>6
    <3>2. Append(l[m - 1], t[m]) = <<>>
      BY <1>2, <1>3, <2>6
    <3>3. l[m - 1] \in Seq(Classes)
      BY <1>3, <3>1
    <3>4. t[m] \in Classes
      BY <2>6
    <3> QED
      BY <3>2, <3>3, <3>4, AppendNotEmpty
  <2>7. CASE m = 0 /\ n \in 1..Len(s) /\ s[n] \notin Ancestors[a]
    <3>1. n - 1 \in 0..Len(s)
      BY <1>1, <2>7
    <3>2. Append(k[n - 1], s[n]) = <<>>
      BY <1>2, <1>3, <2>7
    <3>3. k[n - 1] \in Seq(Classes)
      BY <1>2, <3>1
    <3>4. s[n] \in Classes
      BY <2>7
    <3> QED
      BY <3>2, <3>3, <3>4, AppendNotEmpty
  <2>8. CASE n = 0 /\ m = 0
    BY <2>8
  <2>9. (n = 0 \/ n \in 1..Len(s)) /\ (m = 0 \/ m \in 1..Len(t))
    BY <1>1
  <2> QED
    BY <2>3, <2>4, <2>5, <2>6, <2>7, <2>8, <2>9
<1> HIDE DEF T, At
<1>10. Nat \subseteq T
  BY <1>8, <1>9, SetInduction
<1>11. At(Len(s), Len(t))
  <2>1. Len(s) + Len(t) \in Nat /\ Len(s) \in 0..Len(s) /\ Len(t) \in 0..Len(t)
    BY <1>1
  <2>2. Len(s) + Len(t) \in T
    BY <1>10, <2>1
  <2> QED
    BY <2>1, <2>2 DEF T
<1> QED
  BY <1>4, <1>11 DEF At

LEMMA RegisterInternalKeeps ==
  ASSUME NEW calls \in Growing, NEW a \in Classes, NEW c \in Classes \ Down(a),
         NEW b \in Down(a), b \in registered,
         CopiesSound(calls, Down(b)), RegistersSound(calls, Ancestors[b]),
         RegistersKeep(a, calls, Ancestors[b]),
         NEW x \in Metas, SoundOn(x, Down(b))
  PROVE  Kept(a, registerSuperClassInternal(calls, x, c, b)[c].superclasses) =
           Kept(a, Append(x[c].superclasses, b))
<1> DEFINE s == TwiceBy(calls, x, b)[b].superclasses
           f == FlattenOf(calls, x, c, b)
<1>1. b \in Classes /\ Down(b) \subseteq Down(a) /\ Ancestors[b] \subseteq Ancestors[a]
  BY DownTrans
<1>2. c \in Classes /\ c \notin Down(b)
  BY <1>1
<1>3. s \in Seq(Classes) /\ ToSet(s) \subseteq Ancestors[b] \intersect registered
  BY <1>1, <1>2, RegisterChain
<1>4. Flattened(calls, c, b, s, f)
  BY <1>1, <1>2, RegisterChain
<1>5. Begins(x, f[0], c, b)
  BY <1>1, <1>2, RegisterChain
<1>6. registerSuperClassInternal(calls, x, c, b) = f[Len(s)]
  BY RegisterFlattens DEF FlattenOf, TwiceBy
<1> HIDE DEF s, f
<1>7. ASSUME NEW n \in 1..Len(s) PROVE Agree(a, f[n - 1], f[n])
  <2>1. s[n] \in Ancestors[a]
    <3>1. s[n] \in ToSet(s)
      BY <1>3 DEF ToSet
    <3> QED
      BY <1>1, <1>3, <3>1
  <2> QED
    BY <1>1, <1>2, <1>3, <1>4, <2>1, FlattenSkips
<1> DEFINE T == {n \in Nat : n <= Len(s) => Agree(a, f[0], f[n])}
<1>8. 0 \in T
  BY DEF Agree, AgreeAt
<1>9. ASSUME NEW n \in Nat, n \in T PROVE n + 1 \in T
  <2> SUFFICES ASSUME n + 1 <= Len(s) PROVE Agree(a, f[0], f[n + 1])
    OBVIOUS
  <2>1. n + 1 \in 1..Len(s) /\ (n + 1) - 1 = n /\ n <= Len(s)
    BY <1>3
  <2>2. Agree(a, f[0], f[n])
    BY <1>9, <2>1
  <2>3. Agree(a, f[n], f[n + 1])
    <3>1. Agree(a, f[(n + 1) - 1], f[n + 1])
      BY <1>7, <2>1
    <3> QED
      BY <2>1, <3>1
  <2> QED
    BY <2>2, <2>3, AgreeTrans
<1> HIDE DEF T
<1>10. Nat \subseteq T
  BY <1>8, <1>9, SetInduction
<1>11. Agree(a, f[0], f[Len(s)])
  BY <1>3, <1>10 DEF T
<1>12. Kept(a, f[0][c].superclasses) = Kept(a, f[Len(s)][c].superclasses)
  BY <1>11 DEF Agree, AgreeAt
<1> QED
  BY <1>5, <1>6, <1>12 DEF Begins

LEMMA RegisterInternalAgrees ==
  ASSUME NEW calls \in Growing, NEW a \in Classes, NEW c \in Classes \ Down(a),
         NEW b \in Classes, b \in registered, c \notin Down(b),
         CopiesSound(calls, Down(b)), RegistersSound(calls, Ancestors[b]),
         CopiesAgree(a, calls, Down(b)), RegistersAgree(a, calls, Ancestors[b]),
         RegistersKeep(a, calls, Ancestors[b]),
         NEW x \in Metas, SoundOn(x, Down(b)), NEW y \in Metas, SoundOn(y, Down(b)),
         Agree(a, x, y)
  PROVE  Agree(a, registerSuperClassInternal(calls, x, c, b),
                  registerSuperClassInternal(calls, y, c, b))
<1>1. CASE b \in Down(a)
  <2> DEFINE g == registerSuperClassInternal(calls, x, c, b)
             h == registerSuperClassInternal(calls, y, c, b)
  <2>1. RegisterLeaves(x, g, c, b) /\ RegisterLeaves(y, h, c, b)
    BY RegisterInternalLeaves
  <2>2. Kept(a, g[c].superclasses) = Kept(a, Append(x[c].superclasses, b))
    BY <1>1, RegisterInternalKeeps
  <2>3. Kept(a, h[c].superclasses) = Kept(a, Append(y[c].superclasses, b))
    BY <1>1, RegisterInternalKeeps
  <2> HIDE DEF g, h
  <2>4. Agree(a, g, h)
    BY <1>1, <2>1, <2>2, <2>3, RegisterSame
  <2> QED
    BY <2>4 DEF g, h
<1>2. CASE b \notin Down(a)
  <2> DEFINE v == TwiceBy(calls, x, b)
             w == TwiceBy(calls, y, b)
             s == v[b].superclasses
             t == w[b].superclasses
             f == FlattenOf(calls, x, c, b)
             g == FlattenOf(calls, y, c, b)
  <2>1. s \in Seq(Classes) /\ ToSet(s) \subseteq Ancestors[b] \intersect registered
    BY RegisterChain
  <2>2. t \in Seq(Classes) /\ ToSet(t) \subseteq Ancestors[b] \intersect registered
    BY RegisterChain
  <2>3. Flattened(calls, c, b, s, f)
    BY RegisterChain
  <2>4. Flattened(calls, c, b, t, g)
    BY RegisterChain
  <2>5. registerSuperClassInternal(calls, x, c, b) = f[Len(s)]
    BY RegisterFlattens DEF FlattenOf, TwiceBy
  <2>6. registerSuperClassInternal(calls, y, c, b) = g[Len(t)]
    BY RegisterFlattens DEF FlattenOf, TwiceBy
  <2>7. Agree(a, v, w)
    <3> DEFINE p == calls.copy[b][x]
               q == calls.copy[b][y]
    <3>1. b \in Down(b) /\ CopySound(calls, b) /\ CopyAgrees(a, calls, b)
      BY DownTyped DEF CopiesSound, CopiesAgree
    <3>2. p \in Metas /\ SoundOn(p, Down(b)) /\ q \in Metas /\ SoundOn(q, Down(b))
      BY <3>1, CallsTyped DEF CopySound, CopyLeaves
    <3>3. Agree(a, p, q)
      BY <3>1 DEF CopyAgrees
    <3>4. v = calls.copy[b][p] /\ w = calls.copy[b][q]
      BY DEF TwiceBy
    <3> HIDE DEF p, q, v, w
    <3> QED
      BY <3>1, <3>2, <3>3, <3>4 DEF CopyAgrees
  <2>8. Begins(v, f[0], c, b) /\ SameOff(v, f[0], {c}) /\ v \in Metas
    BY RegisterChain
  <2>12. Begins(w, g[0], c, b) /\ SameOff(w, g[0], {c}) /\ w \in Metas
    BY RegisterChain
  <2> HIDE DEF v, w, f, g
  <2>9. Kept(a, s) = Kept(a, t)
    BY <1>2, <2>7 DEF Agree, AgreeAt
  <2>10. Agree(a, f[0], g[0])
    <3> SUFFICES ASSUME NEW d \in Classes \ Down(a) PROVE AgreeAt(a, f[0][d], g[0][d])
      BY DEF Agree
    <3>1. AgreeAt(a, v[d], w[d])
      BY <2>7 DEF Agree
    <3>2. CASE d # c
      <4>1. f[0][d] = v[d] /\ g[0][d] = w[d]
        BY <2>8, <2>12, <3>2 DEF SameOff
      <4> QED
        BY <3>1, <4>1
    <3>3. CASE d = c
      <4>4. v[c].superclasses \in Seq(Classes) /\ w[c].superclasses \in Seq(Classes)
        BY <2>8, <2>12, ImplFields
      <4>5. Kept(a, Append(v[c].superclasses, b)) = Append(Kept(a, v[c].superclasses), b)
        BY <1>2, <4>4, KeptAppend DEF Down
      <4>6. Kept(a, Append(w[c].superclasses, b)) = Append(Kept(a, w[c].superclasses), b)
        BY <1>2, <4>4, KeptAppend DEF Down
      <4> QED
        BY <2>8, <2>12, <3>1, <3>3, <4>5, <4>6 DEF AgreeAt, Begins
    <3> QED
      BY <3>2, <3>3
  <2> HIDE DEF s, t
  <2>11. Agree(a, f[Len(s)], g[Len(t)])
    BY <2>1, <2>2, <2>3, <2>4, <2>9, <2>10, FlattenAgree
  <2> QED
    BY <2>5, <2>6, <2>11
<1> QED
  BY <1>1, <1>2

-----------------------------------------------------------------------------
(* A base that is found on both sides                                      *)

AgreeBelow(a, calls, c) ==
  CopiesAgree(a, calls, Ancestors[c]) /\ RegistersAgree(a, calls, Ancestors[c])

LEMMA ErasedAgree ==
  ASSUME NEW calls \in Growing, NEW a \in Classes, NEW c \in Classes \ Down(a),
         SoundBelow(calls, c), AgreeBelow(a, calls, c),
         NEW x \in Metas, SoundOn(x, Down(c)), NEW y \in Metas, SoundOn(y, Down(c)),
         Agree(a, x, y), NEW i \in 1..Len(x[c].unresolved), x[c].unresolved = y[c].unresolved
  PROVE  Agree(a, Erased(calls, x, c, i), Erased(calls, y, c, i))
<1> DEFINE b == x[c].unresolved[i]
           f == calls.copy[b][x]
           g == calls.copy[b][y]
           t == Erased(calls, x, c, i)
           u == Erased(calls, y, c, i)
<1>1. b \in Ancestors[c] /\ SoundOn(x, Down(b))
  BY WaitingBase
<1>2. SoundOn(y, Down(b))
  BY WaitingBase
<1>3. SameOff(f, t, {c})
  BY ErasedLeaves
<1>4. SameOff(g, u, {c})
  BY ErasedLeaves
<1>5. t[c].unresolved = RemoveAt(x[c].unresolved, i) /\ t[c].superclasses = x[c].superclasses
  BY ErasedLeaves
<1>6. u[c].unresolved = RemoveAt(y[c].unresolved, i) /\ u[c].superclasses = y[c].superclasses
  <2>1. i \in 1..Len(y[c].unresolved)
    OBVIOUS
  <2>2. u[c].unresolved = RemoveAt(y[c].unresolved, i)
    BY <2>1, ErasedLeaves
  <2>3. u[c].superclasses = y[c].superclasses
    BY <2>1, ErasedLeaves
  <2> QED
    BY <2>2, <2>3
<1> HIDE DEF b, t, u
<1>7. Agree(a, f, g)
  <2>1. CopyAgrees(a, calls, b)
    BY <1>1 DEF AgreeBelow, CopiesAgree
  <2> QED
    BY <1>1, <1>2, <2>1 DEF CopyAgrees
<1> HIDE DEF f, g
<1>8. AgreeAt(a, x[c], y[c])
  BY DEF Agree
<1>9. Agree(a, t, u)
  <2> SUFFICES ASSUME NEW d \in Classes \ Down(a) PROVE AgreeAt(a, t[d], u[d])
    BY DEF Agree
  <2>1. CASE d = c
    BY <1>5, <1>6, <1>8, <2>1 DEF AgreeAt
  <2>2. CASE d # c
    <3>1. t[d] = f[d] /\ u[d] = g[d]
      BY <1>3, <1>4, <2>2 DEF SameOff
    <3> QED
      BY <1>7, <3>1 DEF Agree
  <2> QED
    BY <2>1, <2>2
<1> QED
  BY <1>9 DEF t, u

LEMMA AddedAgree ==
  ASSUME NEW calls \in Growing, NEW a \in Classes, NEW c \in Classes \ Down(a),
         SoundBelow(calls, c), AgreeBelow(a, calls, c),
         NEW x \in Metas, SoundOn(x, Down(c)), NEW y \in Metas, SoundOn(y, Down(c)),
         Agree(a, x, y), NEW i \in 1..Len(x[c].unresolved), x[c].unresolved = y[c].unresolved,
         x[c].unresolved[i] \in registered
  PROVE  Agree(a, Added(calls, x, c, i), Added(calls, y, c, i))
<1> DEFINE b == x[c].unresolved[i]
           t == Erased(calls, x, c, i)
           u == Erased(calls, y, c, i)
           g == calls.register[c][b][t]
           h == calls.register[c][b][u]
<1>1. b \in Ancestors[c] /\ b \in registered /\ c \notin Down(b)
  BY WaitingBase
<1>2. Agree(a, t, u)
  BY ErasedAgree
<1>3. t \in Metas /\ SoundOn(t, Down(b))
  BY ErasedLeaves
<1>4. u \in Metas /\ SoundOn(u, Down(b))
  BY ErasedLeaves
<1>5. g \in Metas /\ RegisterLeaves(t, g, c, b)
  BY AddedLeaves
<1>6. h \in Metas /\ RegisterLeaves(u, h, c, b)
  <2>1. y[c].unresolved[i] = b /\ i \in 1..Len(y[c].unresolved)
    OBVIOUS
  <2> QED
    BY <1>1, <2>1, AddedLeaves
<1>7. Added(calls, x, c, i) = calls.copy[b][g] /\ Added(calls, y, c, i) = calls.copy[b][h]
  BY DEF Added
<1> HIDE DEF b, t, u
<1>8. Agree(a, g, h)
  <2>1. RegisterAgrees(a, calls, c, b)
    BY <1>1 DEF AgreeBelow, RegistersAgree
  <2> QED
    BY <1>2, <1>3, <1>4, <2>1 DEF RegisterAgrees
<1> HIDE DEF g, h
<1>9. CopyAgrees(a, calls, b)
  BY <1>1 DEF AgreeBelow, CopiesAgree
<1> QED
  BY <1>5, <1>6, <1>7, <1>8, <1>9 DEF CopyAgrees, RegisterLeaves

LEMMA FoundAgree ==
  ASSUME NEW calls \in Growing, NEW a \in Classes, NEW c \in Classes \ Down(a),
         SoundBelow(calls, c), AgreeBelow(a, calls, c),
         NEW x \in Metas, SoundOn(x, Down(c)), NEW y \in Metas, SoundOn(y, Down(c)),
         Agree(a, x, y), NEW i \in 1..Len(x[c].unresolved), x[c].unresolved = y[c].unresolved,
         x[c].unresolved[i] \in registered
  PROVE  Agree(a, Found(calls, x, c, i), Found(calls, y, c, i))
<1> DEFINE g == Added(calls, x, c, i)
           h == Added(calls, y, c, i)
           v == Found(calls, x, c, i)
           w == Found(calls, y, c, i)
<1>1. Agree(a, g, h)
  BY AddedAgree
<1>2. g \in Metas
  BY AddedLeaves
<1>3. h \in Metas
  <2>1. y[c].unresolved[i] \in registered /\ i \in 1..Len(y[c].unresolved)
    OBVIOUS
  <2> QED
    BY <2>1, AddedLeaves
<1>4. SameOff(g, v, {c}) /\ v[c].unresolved = g[c].unresolved
  BY <1>2, FoundFields
<1>5. v[c].superclasses = g[c].superclasses
  BY <1>2, FoundFields
<1>6. i \in 1..Len(y[c].unresolved)
  OBVIOUS
<1>7. SameOff(h, w, {c}) /\ w[c].unresolved = h[c].unresolved
  BY <1>3, <1>6, FoundFields
<1>8. w[c].superclasses = h[c].superclasses
  BY <1>3, <1>6, FoundFields
<1> HIDE DEF g, h, v, w
<1>9. Agree(a, v, w)
  <2> SUFFICES ASSUME NEW d \in Classes \ Down(a) PROVE AgreeAt(a, v[d], w[d])
    BY DEF Agree
  <2>1. AgreeAt(a, g[d], h[d])
    BY <1>1 DEF Agree
  <2>2. CASE d = c
    BY <1>4, <1>5, <1>7, <1>8, <2>1, <2>2 DEF AgreeAt
  <2>3. CASE d # c
    BY <1>4, <1>7, <2>1, <2>3 DEF SameOff
  <2> QED
    BY <2>2, <2>3
<1> QED
  BY <1>9 DEF v, w

LEMMA ResolveAgrees ==
  ASSUME NEW calls \in Growing, NEW a \in Classes, NEW c \in Classes,
         SoundBelow(calls, c), AgreeBelow(a, calls, c),
         NEW x \in Metas, SoundOn(x, Down(c)), NEW y \in Metas, SoundOn(y, Down(c)),
         Agree(a, x, y)
  PROVE  Agree(a, resolveBases(calls, x, c), resolveBases(calls, y, c))
<1>1. CASE c \in Down(a)
  <2> DEFINE v == resolveBases(calls, x, c)
             w == resolveBases(calls, y, c)
  <2>1. SameOff(x, v, Down(c)) /\ SameOff(y, w, Down(c))
    BY ResolveLeaves DEF CopyLeaves
  <2>2. Down(c) \subseteq Down(a)
    BY <1>1, DownTrans
  <2> HIDE DEF v, w
  <2>3. Agree(a, v, x) /\ Agree(a, y, w)
    BY <2>1, <2>2, AgreeOff, AgreeSym
  <2>4. Agree(a, v, w)
    BY <2>3, AgreeTrans
  <2> QED
    BY <2>4 DEF v, w
<1>2. CASE c \notin Down(a)
  <2> DEFINE Corresponding(p) == /\ p[1].base = p[2].base
                          /\ SoundOn(p[1].meta, Down(c)) /\ SoundOn(p[2].meta, Down(c))
                          /\ Agree(a, p[1].meta, p[2].meta)
             R == {p \in Places \X Places : Corresponding(p)}
             D == Visited(c)
             step == VisitStep(calls, c)
             big == Waiting(c)
             small == Ahead(c)
             s == [meta |-> x, base |-> 1]
             t == [meta |-> y, base |-> 1]
             f == Visit(calls, c)
  <2>1. big \in [Places -> Nat] /\ small \in [Places -> Nat] /\ Descends(Places, D, step, big, small)
    BY VisitDescends
  <2>2. ASSUME NEW u \in Places, NEW v \in Places, Corresponding(<<u, v>>)
        PROVE  /\ u \in D => v \in D
               /\ u \notin D => v \notin D /\ <<step[u], step[v]>> \in R
    <3>1. u.base = v.base /\ SoundOn(u.meta, Down(c)) /\ SoundOn(v.meta, Down(c)) /\ Agree(a, u.meta, v.meta)
      BY <2>2
    <3>2. u.meta \in Metas /\ v.meta \in Metas
      BY DEF Places
    <3>3. u.meta[c].unresolved = v.meta[c].unresolved
      BY <1>2, <3>1 DEF Agree, AgreeAt
    <3>4. u \in D <=> v \in D
      BY <3>1, <3>3 DEF Visited
    <3>5. ASSUME u \notin D PROVE <<step[u], step[v]>> \in R
      <4> DEFINE i == u.base
                 n == Len(u.meta[c].unresolved)
                 b == u.meta[c].unresolved[i]
      <4>1. step[u] \in Places /\ step[v] \in Places
        BY VisitStepTyped
      <4>2. i \in 1..n
        BY <3>5, VisitSteps
      <4>3. CASE b \notin registered
        <5>1. step[u] = [meta |-> u.meta, base |-> i + 1]
          BY <3>5, <4>3, VisitSteps
        <5>2. step[v] = [meta |-> v.meta, base |-> i + 1]
          <6>1. v \in Places \ Visited(c) /\ v.base = i /\ v.meta[c].unresolved[v.base] = b
            BY <3>1, <3>3, <3>4, <3>5
          <6> HIDE DEF i, b
          <6> QED
            BY <4>3, <6>1, VisitSteps
        <5>3. step[u].meta = u.meta /\ step[v].meta = v.meta /\ step[u].base = step[v].base
          BY <5>1, <5>2
        <5> QED
          BY <3>1, <4>1, <5>3
      <4>4. CASE b \in registered
        <5> DEFINE g == Found(calls, u.meta, c, i)
                   h == Found(calls, v.meta, c, i)
        <5>1. step[u] = [meta |-> g, base |-> Advance(i, n - 1)]
          BY <3>5, <4>4, VisitSteps
        <5>2. step[v] = [meta |-> h, base |-> Advance(i, n - 1)]
          <6>1. /\ v \in Places \ Visited(c) /\ v.base = i /\ v.meta[c].unresolved[v.base] = b
                /\ Len(v.meta[c].unresolved) = n
            BY <3>1, <3>3, <3>4, <3>5
          <6> HIDE DEF i, b, n
          <6> QED
            BY <4>4, <6>1, VisitSteps
        <5>3. Agree(a, g, h)
          BY <1>2, <3>1, <3>2, <3>3, <4>2, <4>4, FoundAgree
        <5>4. SoundOn(g, Down(c))
          BY <3>1, <3>2, <4>2, <4>4, FoundLeaves DEF CopyLeaves
        <5>5. SoundOn(h, Down(c))
          <6>1. i \in 1..Len(v.meta[c].unresolved) /\ v.meta[c].unresolved[i] \in registered
            BY <3>3, <4>2, <4>4
          <6> QED
            BY <3>1, <3>2, <6>1, FoundLeaves DEF CopyLeaves
        <5> HIDE DEF g, h
        <5>6. step[u].meta = g /\ step[v].meta = h /\ step[u].base = step[v].base
          BY <5>1, <5>2
        <5> HIDE DEF step
        <5> QED
          BY <4>1, <5>3, <5>4, <5>5, <5>6
      <4> QED
        BY <4>3, <4>4
    <3> QED
      BY <3>4, <3>5
  <2>3. Paired(R, D, step, big, small)
    <3> SUFFICES ASSUME NEW p \in R
                 PROVE  IF p[1] \in D THEN p[2] \in D
                        ELSE /\ p[2] \notin D /\ <<step[p[1]], step[p[2]]>> \in R
                             /\ \/ big[step[p[1]]] < big[p[1]]
                                \/ big[step[p[1]]] = big[p[1]] /\ small[step[p[1]]] < small[p[1]]
      BY DEF Paired
    <3>1. p[1] \in Places /\ p[2] \in Places /\ Corresponding(<<p[1], p[2]>>)
      OBVIOUS
    <3> HIDE DEF Corresponding, R, D, step, big, small
    <3> QED
      BY <2>1, <2>2, <3>1 DEF Descends
  <2>4. s \in Places /\ t \in Places /\ <<s, t>> \in R
    BY DEF Places, Positive
  <2>5. IsLoop(f, Places, D, step, MetaOf)
    BY VisitLoops
  <2>6. step \in [Places -> Places] /\ D \in SUBSET Places /\ PairsOf(R, Places)
    BY VisitStepTyped DEF Visited, PairsOf
  <2> HIDE DEF R, D, step, big, small, s, t, f
  <2>7. OutTogether(R, D, f, MetaOf, s, t)
    BY <2>1, <2>3, <2>4, <2>5, <2>6, LoopsAgree
  <2>8. PICK d \in D : \E e \in D : <<d, e>> \in R /\ f[s] = MetaOf[d] /\ f[t] = MetaOf[e]
    BY <2>7 DEF OutTogether
  <2>9. PICK e \in D : <<d, e>> \in R /\ f[s] = MetaOf[d] /\ f[t] = MetaOf[e]
    BY <2>8
  <2>10. d \in Places /\ e \in Places /\ Agree(a, d.meta, e.meta)
    BY <2>9 DEF R
  <2>11. f[s] = d.meta /\ f[t] = e.meta
    BY <2>9, <2>10 DEF MetaOf
  <2> QED
    BY <2>10, <2>11, ResolveBasesVisits DEF f, s, t
<1> QED
  BY <1>1, <1>2

CallsAgree(a, calls, S) ==
  CopiesAgree(a, calls, S) /\ RegistersAgree(a, calls, S) /\ RegistersKeep(a, calls, S)

(***************************************************************************)
(* Calls nested deep enough keep two sides in agreement.                   *)
(***************************************************************************)
LEMMA NestedAgree ==
  ASSUME NEW line, Order(line), NEW a \in Classes, NEW n \in 0..Cardinality(Classes)
  PROVE  CallsAgree(a, Nested[n], UpTo(line, n))
<1> DEFINE N == Cardinality(Classes)
           T == {k \in Nat : k <= N => CallsAgree(a, Nested[k], UpTo(line, k))}
<1>1. N \in Nat
  BY NestedGrowing
<1>2. \A c \in Classes : line[c] \in Nat \ {0}
  BY <1>1 DEF Order
<1>3. 0 \in T
  <2>1. UpTo(line, 0) = {}
    BY <1>2 DEF UpTo
  <2> QED
    BY <2>1 DEF CallsAgree, CopiesAgree, RegistersAgree, RegistersKeep
<1>4. ASSUME NEW k \in Nat, k \in T PROVE k + 1 \in T
  <2> SUFFICES ASSUME k + 1 <= N PROVE CallsAgree(a, Nested[k + 1], UpTo(line, k + 1))
    OBVIOUS
  <2>1. k + 1 \in 1..N /\ k \in 0..N /\ (k + 1) - 1 = k /\ k + 1 \in 0..N
    BY <1>1
  <2> DEFINE calls == Nested[k]
             next == Nested[k + 1]
             copies == WithCopies(calls)
             S == UpTo(line, k)
             U == UpTo(line, k + 1)
  <2>2. CallsAgree(a, calls, S)
    BY <1>1, <1>4, <2>1
  <2>3. calls \in Growing /\ next = Around(calls)
    BY <2>1, NestedGrowing
  <2>4. CopiesSound(calls, S) /\ RegistersSound(calls, S)
    BY <2>1, NestedSound
  <2>5. CopiesSound(next, U)
    BY <2>1, NestedSound
  <2>6. \A c \in U : c \in Classes /\ Ancestors[c] \subseteq S
    BY UpToBelow
  <2>7. S \subseteq U
    BY <1>2 DEF UpTo
  <2> HIDE DEF calls, next, S, U
  <2>8. copies \in Growing
    BY <2>3, WithCopiesGrowing
  <2>9. ASSUME NEW c \in U
        PROVE  \A x \in Metas : /\ next.copy[c][x] = resolveBases(calls, x, c)
                                /\ copies.copy[c][x] = next.copy[c][x]
    BY <2>3, <2>6, AroundCalls
  <2>10. ASSUME NEW c \in U PROVE CopyAgrees(a, next, c)
    <3> SUFFICES ASSUME NEW x \in Metas, NEW y \in Metas,
                        SoundOn(x, Down(c)), SoundOn(y, Down(c)), Agree(a, x, y)
                 PROVE  Agree(a, next.copy[c][x], next.copy[c][y])
      BY DEF CopyAgrees
    <3>1. c \in Classes /\ SoundBelow(calls, c)
      BY <2>4, <2>6 DEF SoundBelow, CopiesSound, RegistersSound
    <3>2. AgreeBelow(a, calls, c)
      BY <2>2, <2>6 DEF AgreeBelow, CallsAgree, CopiesAgree, RegistersAgree
    <3>3. Agree(a, resolveBases(calls, x, c), resolveBases(calls, y, c))
      BY <2>3, <3>1, <3>2, ResolveAgrees
    <3> QED
      BY <2>9, <3>3
  <2>11. CopiesAgree(a, copies, U) /\ CopiesAgree(a, next, U)
    BY <2>9, <2>10 DEF CopiesAgree, CopyAgrees
  <2>12. CopiesSound(copies, U)
    BY <2>5, <2>9 DEF CopiesSound, CopySound
  <2>13. copies.register = calls.register
    BY DEF WithCopies
  <2>14. /\ RegistersSound(copies, S) /\ RegistersAgree(a, copies, S) /\ RegistersKeep(a, copies, S)
    <3>1. RegistersSound(copies, S)
      BY <2>4, <2>13 DEF RegistersSound, RegisterSound
    <3>2. RegistersAgree(a, copies, S)
      BY <2>2, <2>13 DEF CallsAgree, RegistersAgree, RegisterAgrees
    <3>3. RegistersKeep(a, copies, S)
      BY <2>2, <2>13 DEF CallsAgree, RegistersKeep, RegisterKeeps
    <3> QED
      BY <3>1, <3>2, <3>3
  <2> HIDE DEF copies
  <2>15. ASSUME NEW b \in U
         PROVE  /\ CopiesSound(copies, Down(b)) /\ RegistersSound(copies, Ancestors[b])
                /\ CopiesAgree(a, copies, Down(b)) /\ RegistersAgree(a, copies, Ancestors[b])
                /\ RegistersKeep(a, copies, Ancestors[b])
    <3>1. Ancestors[b] \subseteq S /\ Down(b) \subseteq U
      BY <2>6, <2>7 DEF Down
    <3>2. CopiesSound(copies, Down(b)) /\ CopiesAgree(a, copies, Down(b))
      BY <2>11, <2>12, <3>1 DEF CopiesSound, CopiesAgree
    <3>3. RegistersSound(copies, Ancestors[b])
      BY <2>14, <3>1 DEF RegistersSound
    <3>4. RegistersAgree(a, copies, Ancestors[b])
      BY <2>14, <3>1 DEF RegistersAgree
    <3>5. RegistersKeep(a, copies, Ancestors[b])
      BY <2>14, <3>1 DEF RegistersKeep
    <3> QED
      BY <3>2, <3>3, <3>4, <3>5
  <2>16. ASSUME NEW c \in Classes, NEW b \in U, NEW x \in Metas
         PROVE  next.register[c][b][x] = registerSuperClassInternal(copies, x, c, b)
    BY <2>3, <2>6, AroundCalls DEF copies
  <2>17. RegistersAgree(a, next, U)
    <3> SUFFICES ASSUME NEW c \in Classes \ Down(a), NEW b \in U \intersect registered,
                        c \notin Down(b), NEW x \in Metas, NEW y \in Metas,
                        SoundOn(x, Down(b)), SoundOn(y, Down(b)), Agree(a, x, y)
                 PROVE  Agree(a, next.register[c][b][x], next.register[c][b][y])
      BY DEF RegistersAgree, RegisterAgrees
    <3>1. b \in Classes
      BY <2>6
    <3>2. Agree(a, registerSuperClassInternal(copies, x, c, b),
                   registerSuperClassInternal(copies, y, c, b))
      BY <2>8, <2>15, <3>1, RegisterInternalAgrees
    <3> QED
      BY <2>16, <3>2
  <2>18. RegistersKeep(a, next, U)
    <3> SUFFICES ASSUME NEW c \in Classes \ Down(a),
                        NEW b \in U \intersect registered \intersect Down(a),
                        NEW x \in Metas, SoundOn(x, Down(b))
                 PROVE  Kept(a, next.register[c][b][x][c].superclasses) =
                          Kept(a, Append(x[c].superclasses, b))
      BY DEF RegistersKeep, RegisterKeeps
    <3>1. Kept(a, registerSuperClassInternal(copies, x, c, b)[c].superclasses) =
            Kept(a, Append(x[c].superclasses, b))
      BY <2>8, <2>15, RegisterInternalKeeps
    <3> QED
      BY <2>16, <3>1
  <2> QED
    BY <2>11, <2>17, <2>18 DEF CallsAgree, next, U
<1> HIDE DEF T
<1>5. Nat \subseteq T
  BY <1>3, <1>4, SetInduction
<1> QED
  BY <1>1, <1>5 DEF T

-----------------------------------------------------------------------------
(* Comparing methods in either order                                       *)

LEMMA CopyAgree ==
  ASSUME NEW a \in Classes, NEW c \in Classes, NEW x, AllSound(x), NEW y, AllSound(y),
         Agree(a, x, y)
  PROVE  Agree(a, Copy(x, c), Copy(y, c))
<1> DEFINE N == Cardinality(Classes)
<1>1. PICK line : Order(line)
  BY LineExists
<1>2. N \in Nat /\ N \in 0..N
  BY NestedGrowing
<1>3. CallsAgree(a, Nested[N], UpTo(line, N))
  BY <1>1, <1>2, NestedAgree
<1>4. c \in UpTo(line, N)
  BY <1>1, <1>2 DEF Order, UpTo
<1>5. CopyAgrees(a, Nested[N], c)
  BY <1>3, <1>4 DEF CallsAgree, CopiesAgree
<1>6. SoundOn(x, Down(c)) /\ SoundOn(y, Down(c)) /\ x \in Metas /\ y \in Metas
  BY DownTyped DEF AllSound, SoundOn
<1>7. Agree(a, Nested[N].copy[c][x], Nested[N].copy[c][y])
  BY <1>5, <1>6 DEF CopyAgrees
<1> QED
  BY <1>7 DEF Copy, Handles

LEMMA CopyOwn ==
  ASSUME NEW a \in Classes, NEW x, AllSound(x)
  PROVE  Agree(a, x, Copy(x, a))
<1>1. SoundOn(x, Down(a)) /\ x \in Metas
  BY DownTyped DEF AllSound, SoundOn
<1>2. SameOff(x, Copy(x, a), Down(a))
  BY <1>1, CopySounds DEF CopyLeaves
<1> QED
  BY <1>2, AgreeOff

\* A handle of the one class more or less does not show in what lists it
LEMMA GetClassesAgree ==
  ASSUME NEW a \in Classes, NEW c \in Classes, NEW x, AllSound(x), NEW y, AllSound(y),
         Agree(a, x, y), NEW order \in {<<a, c>>, <<c, a>>}, NEW reverse \in {<<a, c>>, <<c, a>>}
  PROVE  Agree(a, GetClasses(x, order), GetClasses(y, reverse))
<1>1. ASSUME NEW z, AllSound(z), NEW o \in {<<a, c>>, <<c, a>>}
      PROVE  Agree(a, Copy(z, c), GetClasses(z, o))
  <2>1. CASE o = <<a, c>>
    <3>1. AllSound(Copy(z, a)) /\ Agree(a, z, Copy(z, a))
      BY <1>1, CopyAllSound, CopyOwn
    <3>2. Agree(a, Copy(z, c), Copy(Copy(z, a), c))
      BY <1>1, <3>1, CopyAgree
    <3>3. GetClasses(z, o) = Copy(Copy(z, a), c)
      BY <2>1 DEF GetClasses
    <3> QED
      BY <3>2, <3>3
  <2>2. CASE o = <<c, a>>
    <3>1. AllSound(Copy(z, c))
      BY <1>1, CopyAllSound
    <3>2. Agree(a, Copy(z, c), Copy(Copy(z, c), a))
      BY <3>1, CopyOwn
    <3>3. GetClasses(z, o) = Copy(Copy(z, c), a)
      BY <2>2 DEF GetClasses
    <3> QED
      BY <3>2, <3>3
  <2> QED
    BY <1>1, <2>1, <2>2
<1>2. Agree(a, Copy(x, c), Copy(y, c))
  BY CopyAgree
<1>3. Agree(a, Copy(x, c), GetClasses(x, order)) /\ Agree(a, Copy(y, c), GetClasses(y, reverse))
  BY <1>1
<1> QED
  BY <1>2, <1>3, AgreeTrans, AgreeSym

\* What agrees answers alike whether a is listed
LEMMA InheritsAgree ==
  ASSUME NEW a \in Classes, NEW c \in Classes, NEW x, AllSound(x), NEW y, AllSound(y),
         Agree(a, x, y)
  PROVE  inherits(x, c, a) <=> inherits(y, c, a)
<1>1. x \in Metas /\ y \in Metas
  BY DEF AllSound
<1>2. CASE c = a
  BY <1>2 DEF inherits
<1>3. CASE c \in Ancestors[a]
  <2>1. a \notin Ancestors[c]
    BY <1>3, Acyclic DEF Down
  <2> QED
    BY <2>1 DEF AllSound, SoundOn, Sound, inherits, superclasses
<1>4. CASE c \notin Down(a)
  <2>1. Kept(a, x[c].superclasses) = Kept(a, y[c].superclasses)
    BY <1>4 DEF Agree, AgreeAt
  <2>2. x[c].superclasses \in Seq(Classes) /\ y[c].superclasses \in Seq(Classes)
    BY <1>1, ImplFields
  <2>3. a \in ToSet(x[c].superclasses) <=> a \in ToSet(Kept(a, x[c].superclasses))
    BY <2>2, KeptSet
  <2>4. a \in ToSet(y[c].superclasses) <=> a \in ToSet(Kept(a, y[c].superclasses))
    BY <2>2, KeptSet
  <2> QED
    BY <2>1, <2>3, <2>4 DEF inherits, superclasses
<1> QED
  BY <1>2, <1>3, <1>4 DEF Down

Related(x, order) == GetClasses(GetClasses(x, order), order)

Final(x, order) == GetClasses(Related(x, order), order)

Overriding(x, m1, m2, order) ==
  /\ m1.class # m2.class /\ Alike(m1, m2) /\ m1.args = m2.args
  /\ inheritanceRelation(Related(x, order), m1.class, m2.class)
  /\ inherits(Final(x, order), m1.class, m2.class)

Overloading(x, m1, m2, order) ==
  /\ m1 # m2 /\ m1.name = m2.name /\ m1.static = m2.static
  /\ inheritanceRelation(GetClasses(x, order), m1.class, m2.class)

LEMMA ComparisonAnswers ==
  ASSUME NEW x, NEW m1, NEW m2, NEW order
  PROVE  /\ overrides(x, m1, m2, order).answer = Overriding(x, m1, m2, order)
         /\ overloads(x, m1, m2, order).answer = Overloading(x, m1, m2, order)
<1>1. overrides(x, m1, m2, order).answer = Overriding(x, m1, m2, order)
  <2> DEFINE P == m1.class = m2.class \/ ~Alike(m1, m2)
             Q == ~inheritanceRelation(Related(x, order), m1.class, m2.class) \/ m1.args # m2.args
             I == inherits(Final(x, order), m1.class, m2.class)
             p == [meta |-> GetClasses(x, order), answer |-> FALSE]
             q == [meta |-> Related(x, order), answer |-> FALSE]
             r == [meta |-> Final(x, order), answer |-> I]
  <2>1. overrides(x, m1, m2, order) = IF P THEN p ELSE IF Q THEN q ELSE r
    BY DEF overrides, Related, Final
  <2>2. Overriding(x, m1, m2, order) <=> ~P /\ ~Q /\ I
    BY DEF Overriding
  <2>3. I \in BOOLEAN /\ Overriding(x, m1, m2, order) \in BOOLEAN
    BY DEF inherits, Overriding
  <2>4. p.answer = FALSE /\ q.answer = FALSE /\ r.answer = I
    OBVIOUS
  <2> HIDE DEF P, Q, I, p, q, r
  <2>5. CASE P
    BY <2>1, <2>2, <2>3, <2>4, <2>5
  <2>6. CASE ~P /\ Q
    BY <2>1, <2>2, <2>3, <2>4, <2>6
  <2>7. CASE ~P /\ ~Q
    BY <2>1, <2>2, <2>3, <2>4, <2>7
  <2> QED
    BY <2>5, <2>6, <2>7
<1>2. overloads(x, m1, m2, order).answer = Overloading(x, m1, m2, order)
  <2> DEFINE P == m1 = m2 \/ m1.name # m2.name \/ m1.static # m2.static
             I == inheritanceRelation(GetClasses(x, order), m1.class, m2.class)
             p == [meta |-> x, answer |-> FALSE]
             r == [meta |-> GetClasses(x, order), answer |-> I]
  <2>1. overloads(x, m1, m2, order) = IF P THEN p ELSE r
    BY DEF overloads
  <2>2. Overloading(x, m1, m2, order) <=> ~P /\ I
    BY DEF Overloading
  <2>3. I \in BOOLEAN /\ Overloading(x, m1, m2, order) \in BOOLEAN
    BY DEF inheritanceRelation, inherits, Overloading
  <2>4. p.answer = FALSE /\ r.answer = I
    OBVIOUS
  <2> HIDE DEF P, I, p, r
  <2>5. CASE P
    BY <2>1, <2>2, <2>3, <2>4, <2>5
  <2>6. CASE ~P
    BY <2>1, <2>2, <2>3, <2>4, <2>6
  <2> QED
    BY <2>5, <2>6
<1> QED
  BY <1>1, <1>2

\* Where both orders end, the answers about the two classes are the same
LEMMA SameRelations ==
  ASSUME NEW c1 \in Classes, NEW c2 \in Classes, NEW x, AllSound(x), NEW y, AllSound(y),
         Agree(c1, x, y), Agree(c2, x, y)
  PROVE  /\ inherits(x, c1, c2) <=> inherits(y, c1, c2)
         /\ inherits(x, c2, c1) <=> inherits(y, c2, c1)
         /\ inheritanceRelation(x, c1, c2) <=> inheritanceRelation(y, c1, c2)
<1>1. inherits(x, c1, c2) <=> inherits(y, c1, c2)
  BY InheritsAgree
<1>2. inherits(x, c2, c1) <=> inherits(y, c2, c1)
  BY InheritsAgree
<1> QED
  BY <1>1, <1>2 DEF inheritanceRelation

LEMMA OrdersAgree ==
  ASSUME NEW x, AllSound(x), NEW y, AllSound(y), NEW m1 \in Methods, NEW m2 \in Methods,
         NEW order \in CallOrders(m1, m2), NEW reverse \in CallOrders(m1, m2),
         Agree(m1.class, x, y), Agree(m2.class, x, y)
  PROVE  /\ AllSound(GetClasses(x, order)) /\ AllSound(GetClasses(y, reverse))
         /\ Agree(m1.class, GetClasses(x, order), GetClasses(y, reverse))
         /\ Agree(m2.class, GetClasses(x, order), GetClasses(y, reverse))
<1>1. m1.class \in Classes /\ m2.class \in Classes
  BY MethodsAssumption
<1>2. AllSound(GetClasses(x, order)) /\ AllSound(GetClasses(y, reverse))
  BY GetClassesAllSound
<1>3. Agree(m1.class, GetClasses(x, order), GetClasses(y, reverse))
  BY <1>1, GetClassesAgree DEF CallOrders
<1>4. Agree(m2.class, GetClasses(x, order), GetClasses(y, reverse))
  BY <1>1, GetClassesAgree DEF CallOrders
<1> QED
  BY <1>2, <1>3, <1>4

\* The three rounds of handles that overrides makes
LEMMA RoundsAgree ==
  ASSUME NEW x, AllSound(x), NEW m1 \in Methods, NEW m2 \in Methods,
         NEW order \in CallOrders(m1, m2), NEW reverse \in CallOrders(m1, m2)
  PROVE  LET c1 == m1.class
             c2 == m2.class
         IN  /\ inheritanceRelation(GetClasses(x, order), c1, c2)
                  <=> inheritanceRelation(GetClasses(x, reverse), c1, c2)
             /\ inheritanceRelation(Related(x, order), c1, c2)
                  <=> inheritanceRelation(Related(x, reverse), c1, c2)
             /\ inherits(Final(x, order), c1, c2) <=> inherits(Final(x, reverse), c1, c2)
<1> DEFINE u == GetClasses(x, order)
           v == GetClasses(x, reverse)
           p == Related(x, order)
           q == Related(x, reverse)
           s == Final(x, order)
           t == Final(x, reverse)
<1>1. m1.class \in Classes /\ m2.class \in Classes
  BY MethodsAssumption
<1>2. Agree(m1.class, x, x) /\ Agree(m2.class, x, x)
  BY DEF Agree, AgreeAt
<1>3. AllSound(u) /\ AllSound(v) /\ Agree(m1.class, u, v) /\ Agree(m2.class, u, v)
  BY <1>2, OrdersAgree
<1>4. p = GetClasses(u, order) /\ q = GetClasses(v, reverse)
  BY DEF Related
<1> HIDE DEF u, v, p, q
<1>5. AllSound(p) /\ AllSound(q) /\ Agree(m1.class, p, q) /\ Agree(m2.class, p, q)
  BY <1>3, <1>4, OrdersAgree
<1>6. s = GetClasses(p, order) /\ t = GetClasses(q, reverse)
  BY DEF Final, p, q
<1> HIDE DEF s, t
<1>7. AllSound(s) /\ AllSound(t) /\ Agree(m1.class, s, t) /\ Agree(m2.class, s, t)
  BY <1>5, <1>6, OrdersAgree
<1>8. inheritanceRelation(u, m1.class, m2.class) <=> inheritanceRelation(v, m1.class, m2.class)
  BY <1>1, <1>3, SameRelations
<1>9. inheritanceRelation(p, m1.class, m2.class) <=> inheritanceRelation(q, m1.class, m2.class)
  BY <1>1, <1>5, SameRelations
<1>10. inherits(s, m1.class, m2.class) <=> inherits(t, m1.class, m2.class)
  BY <1>1, <1>7, SameRelations
<1> QED
  BY <1>8, <1>9, <1>10 DEF u, v, p, q, s, t

LEMMA FinalAllSound ==
  ASSUME NEW x, AllSound(x), NEW m1 \in Methods, NEW m2 \in Methods,
         NEW order \in CallOrders(m1, m2)
  PROVE  /\ AllSound(Related(x, order)) /\ Grew(x, Related(x, order))
         /\ AllSound(Final(x, order)) /\ Grew(x, Final(x, order))
<1> DEFINE u == GetClasses(x, order)
           p == GetClasses(u, order)
           s == GetClasses(p, order)
<1>1. AllSound(u) /\ Grew(x, u)
  BY GetClassesAllSound
<1> HIDE DEF u
<1>2. AllSound(p) /\ Grew(u, p)
  BY <1>1, GetClassesAllSound
<1> HIDE DEF p
<1>3. AllSound(s) /\ Grew(p, s)
  BY <1>2, GetClassesAllSound
<1> HIDE DEF s
<1>4. x \in Metas /\ u \in Metas /\ p \in Metas /\ s \in Metas
  BY <1>1, <1>2, <1>3 DEF AllSound
<1>5. Grew(x, p)
  BY <1>1, <1>2, <1>4, GrewTrans
<1>6. Grew(x, s)
  BY <1>3, <1>4, <1>5, GrewTrans
<1> QED
  BY <1>2, <1>3, <1>5, <1>6 DEF Related, Final, u, p, s

\* overrides is answered downwards only, and whenever the direct base is resolved
LEMMA OverridingDown ==
  ASSUME NEW x, AllSound(x), NEW m1 \in Methods, NEW m2 \in Methods,
         NEW order \in CallOrders(m1, m2)
  PROVE  /\ Overriding(x, m1, m2, order) => m2.class \in Ancestors[m1.class]
         /\ m2.class \in x[m1.class].casts /\ m1.args = m2.args /\ Alike(m1, m2)
              => Overriding(x, m1, m2, order)
<1> DEFINE c1 == m1.class
           c2 == m2.class
           p == Related(x, order)
           s == Final(x, order)
<1>1. c1 \in Classes /\ c2 \in Classes
  BY MethodsAssumption
<1>2. /\ AllSound(p) /\ Grew(x, p)
      /\ AllSound(s) /\ Grew(x, s)
  BY FinalAllSound
<1> HIDE DEF c1, c2, p, s
<1>3. ASSUME inherits(s, c1, c2) PROVE c2 \in Ancestors[c1]
  BY <1>1, <1>2, <1>3 DEF AllSound, SoundOn, Sound, inherits, superclasses
<1>4. ASSUME c2 \in x[c1].casts
      PROVE  c1 # c2 /\ inheritanceRelation(p, c1, c2) /\ inherits(s, c1, c2)
  <2>1. c2 \in superclasses(x, c1) /\ c2 \in Ancestors[c1]
    BY <1>1, <1>4 DEF AllSound, SoundOn, Sound, superclasses
  <2>2. c1 # c2
    BY <1>1, <2>1, Acyclic DEF Down
  <2>3. x \in Metas /\ p \in Metas /\ s \in Metas
    BY <1>2 DEF AllSound
  <2>4. c2 \in superclasses(p, c1)
    BY <1>1, <1>2, <2>1, <2>3, StillListed
  <2>5. c2 \in superclasses(s, c1)
    BY <1>1, <1>2, <2>1, <2>3, StillListed
  <2> QED
    BY <2>2, <2>4, <2>5 DEF inherits, inheritanceRelation
<1> QED
  BY <1>3, <1>4 DEF Overriding, c1, c2, p, s

LEMMA InvMethodsRelated ==
  ASSUME RegistryInv PROVE MethodsRelated
<1>1. AllSound(meta)
  BY InvAllSound
<1> SUFFICES ASSUME NEW m1 \in Methods, NEW m2 \in Methods,
                    NEW order \in CallOrders(m1, m2), NEW reverse \in CallOrders(m1, m2)
             PROVE  LET over == overrides(meta, m1, m2, order).answer
                        load == overloads(meta, m1, m2, order).answer
                    IN  /\ over => /\ m2.class \in Ancestors[m1.class]
                                   /\ m1.args = m2.args /\ Alike(m1, m2)
                        /\ over = overrides(meta, m1, m2, reverse).answer
                        /\ ~(over /\ overrides(meta, m2, m1, reverse).answer)
                        /\ m2.class \in meta[m1.class].casts /\ m1.args = m2.args /\ Alike(m1, m2)
                             => over
                        /\ load = overloads(meta, m2, m1, reverse).answer
  BY DEF MethodsRelated, Comparable
<1>2. m1.class \in Classes /\ m2.class \in Classes /\ reverse \in CallOrders(m2, m1)
  BY MethodsAssumption DEF CallOrders
<1> DEFINE over == Overriding(meta, m1, m2, order)
           back == Overriding(meta, m1, m2, reverse)
           other == Overriding(meta, m2, m1, reverse)
           load == Overloading(meta, m1, m2, order)
           swapped == Overloading(meta, m2, m1, reverse)
<1>3. /\ overrides(meta, m1, m2, order).answer = over
      /\ overrides(meta, m1, m2, reverse).answer = back
      /\ overrides(meta, m2, m1, reverse).answer = other
      /\ overloads(meta, m1, m2, order).answer = load
      /\ overloads(meta, m2, m1, reverse).answer = swapped
  BY ComparisonAnswers
<1>4. over => m2.class \in Ancestors[m1.class] /\ m1.args = m2.args /\ Alike(m1, m2)
  <2>1. over => m2.class \in Ancestors[m1.class]
    BY <1>1, OverridingDown
  <2> QED
    BY <2>1 DEF Overriding
<1>5. over = back
  <2>1. over <=> back
    BY <1>1, RoundsAgree DEF Overriding
  <2>2. over \in BOOLEAN /\ back \in BOOLEAN
    BY DEF Overriding
  <2> HIDE DEF over, back
  <2> QED
    BY <2>1, <2>2
<1>6. ~(over /\ other)
  <2>1. other => m1.class \in Ancestors[m2.class]
    BY <1>1, <1>2, OverridingDown
  <2>2. m2.class \in Ancestors[m1.class] => m1.class \notin Ancestors[m2.class]
    BY <1>2, Acyclic DEF Down
  <2> QED
    BY <1>4, <2>1, <2>2
<1>7. m2.class \in meta[m1.class].casts /\ m1.args = m2.args /\ Alike(m1, m2) => over
  BY <1>1, OverridingDown
<1>8. load = swapped
  <2>1. /\ inheritanceRelation(GetClasses(meta, order), m1.class, m2.class)
             <=> inheritanceRelation(GetClasses(meta, reverse), m1.class, m2.class)
        /\ inheritanceRelation(GetClasses(meta, reverse), m1.class, m2.class)
             <=> inheritanceRelation(GetClasses(meta, reverse), m2.class, m1.class)
    BY <1>1, RoundsAgree DEF inheritanceRelation
  <2>2. load <=> swapped
    BY <2>1 DEF Overloading
  <2>3. load \in BOOLEAN /\ swapped \in BOOLEAN
    BY DEF Overloading
  <2> HIDE DEF load, swapped
  <2> QED
    BY <2>2, <2>3
<1> HIDE DEF over, back, other, load, swapped
<1> QED
  BY <1>3, <1>4, <1>5, <1>6, <1>7, <1>8

(***************************************************************************)
(* What overrides and overloads answer does not depend on the order in     *)
(* which the compiler has the handles made, although each of them may      *)
(* resolve bases; overrides only holds of a method of a derived class,     *)
(* never both ways, and always if the direct base has been resolved.       *)
(***************************************************************************)
THEOREM ComparisonsRelated ==
  Spec => []MethodsRelated
<1>1. RegistryInv => MethodsRelated
  BY InvMethodsRelated
<1> QED
  BY <1>1, RegistryInvHolds, PTL
=============================================================================
