---------------------------- MODULE MCLuaBinding ----------------------------
EXTENDS LuaBinding

\* No step takes n over max
Limit(n, after, max) == after <= max \/ after <= n

\* A kind of misuse, or calls that leak
Accidents(x) == Cardinality(x.misuse) + IF x.leaked THEN 1 ELSE 0

\* The accidents that are about an object the program keeps, and about the
\* coroutine, the library or debug.traceback; the others need none of these
AboutKept == {"closed", "panic", "stack", "unloaded"}
AboutEnv  == {"coroutine", "unloaded", "stack"}

\* What needs nothing to have happened before
AtOnce == {"modulo", "empty"}

\* Bounds: two objects at a time, two userdata and an argument of a call; one
\* accident in a behaviour; one object the program keeps; one of the coroutine,
\* the library and debug.traceback; one object, not kept, with the coroutine,
\* and none kept with the library while there are two
MCWithin(x, y) ==
  /\ Limit(x.alive, y.alive, IF "coroutine" \in y.env THEN 1 ELSE 2)
  /\ Limit(x.used, y.used, IF y.calls /\ ~x.calls THEN 3 ELSE 2)
  /\ Limit(Accidents(x), Accidents(y), 1)
  /\ Limit(x.kept, y.kept, IF y.leaked \/ "coroutine" \in y.env THEN 0 ELSE 1)
  /\ Limit(Cardinality(x.env), Cardinality(y.env), IF y.leaked THEN 0 ELSE 1)
  /\ "coroutine" \in y.env \ x.env => x.kept = 0 /\ x.alive <= 1
  /\ y.kept > 0 /\ <<x.kept, x.misuse>> # <<y.kept, y.misuse>> => y.misuse \subseteq AboutKept
  /\ y.env # {} /\ <<x.env, x.misuse>> # <<y.env, y.misuse>> => y.misuse \subseteq AboutEnv
  /\ "lib" \in y.env /\ y.kept > 0 /\ <<x.env, x.kept, x.alive>> # <<y.env, y.kept, y.alive>>
       => y.alive <= 1
  /\ y.misuse \cap AtOnce # {} => x.alive = 0
=============================================================================
