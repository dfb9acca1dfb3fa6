-------------------------- MODULE LuaBindingProofs --------------------------
(***************************************************************************)
(* The Lua module for any number of userdata, registry entries and objects:*)
(* what has to come before each fault the model knows, and the pairing of  *)
(* handlers and registry entries.  Every action ends in Settle, so one     *)
(* lemma says what an action's own assignments have to establish, and each *)
(* action is shown to establish it.                                        *)
(***************************************************************************)
EXTENDS LuaBinding, TLAPS, SequenceTheorems, FiniteSetTheorems

-----------------------------------------------------------------------------
(* The inductive invariant                                                  *)

CallRecord == [obj : Stubs \union {None}, arg : Plain \union {None},
               by : {"script", "program", None}, replaced : BOOLEAN]

Typed ==
  /\ ud \in [Slots -> Userdata] /\ roots \subseteq Slots
  /\ alive \subseteq Objects /\ kept \subseteq Objects /\ leaked \subseteq Objects
  /\ call \in CallRecord
  /\ handler \in [Stubs -> Wrapper \union {None}]
  /\ registry \in [Refs -> {Empty} \union SUBSET Slots]
  /\ coroutine \in {"none", "held", "lost", "gone"} /\ lib \in {"held", "lost", "unloaded"}
  /\ closed \in BOOLEAN /\ traceback \in BOOLEAN /\ garbage \in 0..MaxGarbage
  /\ fault \in Faults \union {None} /\ misuse \subseteq Faults

Owning == {"own", "proxy", "string"}

\* What an owner owns exists, what exists has an owner, and a view of what is
\* gone is one the script was warned about
HeapTrue ==
  /\ \A s \in Slots : ud[s].is \notin {"free", "ended"} => ud[s].of \in Objects
  /\ \A s \in Slots : ud[s].is \in Owning => ud[s].of \in alive
  /\ \A s \in Slots : ud[s].is = "proxy" => ud[s].of \in Stubs
  /\ \A s \in Slots : ud[s].is = "ended" => "ended" \in misuse
  /\ kept \subseteq alive /\ leaked \subseteq alive /\ Locals(call) \subseteq alive
  /\ call # NoCall => call.obj \in alive
  /\ \A o \in alive : Owned(ud, kept, leaked, call, o)
  /\ \A s \in Reachable : ud[s].is = "view" /\ ud[s].of \notin alive => "view" \in misuse

\* Handlers and functions of the registry are paired, but for the functions of
\* wrappers that are gone
Paired(wr, reg, gone) ==
  /\ \A o \in Stubs : wr[o] # None =>
       reg[wr[o].ref] # Empty /\ \A w \in gone : w.ref # wr[o].ref
  /\ \A o, q \in Stubs : wr[o] # None /\ wr[q] # None /\ wr[o].ref = wr[q].ref => o = q
  /\ \A r \in Refs : reg[r] # Empty =>
       (\E o \in Stubs : wr[o] # None /\ wr[o].ref = r) \/ \E w \in gone : w.ref = r

HandlersTrue ==
  /\ \A o \in Stubs : handler[o] # None => o \in alive
  /\ call # NoCall => handler[call.obj] # None
  /\ ~closed => Paired(handler, registry, {})
  /\ closed => \A r \in Refs : registry[r] = Empty

\* Some userdata mentions the object, or C++ code holds it and will let it go
Known(o, k, u, c) == o \in k \union Locals(c) \/ \E s \in Slots : u[s].of = o

\* Every fault that may still come has been announced
Announced ==
  /\ call.replaced => "replaced" \in misuse
  /\ ~traceback => "stack" \in misuse
  /\ coroutine \in {"lost", "gone"} =>
       \A o \in Stubs : handler[o] # None /\ handler[o].thread = "coroutine" => "coroutine" \in misuse
  /\ closed =>
       /\ roots = {} /\ (\A s \in Slots : Fresh(s)) /\ call = NoCall
       /\ \A o \in kept \cap Stubs : handler[o] # None => "closed" \in misuse
  /\ lib # "held" => \A o \in alive \cap LibObjects :
       Known(o, kept, ud, call) => "unloaded" \in misuse

Inv ==
  /\ Typed /\ FaultsHaveACause
  /\ fault = None => HeapTrue /\ HandlersTrue /\ Announced

-----------------------------------------------------------------------------
(* What the assignments of an action establish before Settle: al, wr, reg   *)
(* are the objects, handlers and registry it made, gone the wrappers it     *)
(* destroyed, fs the faults it ran into, ms the misuses it announces        *)

Prepared(al, wr, reg, gone) ==
  /\ ud' \in [Slots -> Userdata] /\ roots' \subseteq Slots
  /\ al \subseteq Objects /\ kept' \subseteq al /\ leaked' \subseteq al
  /\ call' \in CallRecord /\ (call' # NoCall => call'.obj \in al) /\ Locals(call') \subseteq al
  /\ wr \in [Stubs -> Wrapper \union {None}]
  /\ reg \in [Refs -> {Empty} \union SUBSET Slots]
  /\ coroutine' \in {"none", "held", "lost", "gone"} /\ lib' \in {"held", "lost", "unloaded"}
  /\ closed' \in BOOLEAN /\ traceback' \in BOOLEAN /\ garbage' \in 0..MaxGarbage
  /\ \A s \in Slots : ud'[s].is \notin {"free", "ended"} => ud'[s].of \in Objects
  /\ \A s \in Slots : ud'[s].is \in Owning => ud'[s].of \in al
  /\ \A s \in Slots : ud'[s].is = "proxy" => ud'[s].of \in Stubs
  /\ \A o \in Stubs : wr[o] # None => o \in al
  /\ call' # NoCall => wr[call'.obj] # None
  /\ ~closed' => Paired(wr, reg, gone)

\* How they relate to the state before
Steady(al, wr, ms) ==
  /\ leaked \subseteq leaked'
  /\ closed => al = alive /\ wr = handler
  /\ coroutine = "gone" =>
       \A o \in Stubs : wr[o] # None /\ wr[o].thread = "coroutine" => wr[o] = handler[o]
  /\ lib # "held" => \A o \in (al \ alive) \cap LibObjects : "unloaded" \in misuse \union ms

WillBeAnnounced(al, wr, reg, fs, ms) ==
  /\ fs \subseteq misuse \union ms /\ ms \subseteq Faults
  /\ call'.replaced => "replaced" \in misuse \union ms
  /\ ~traceback' => "stack" \in misuse \union ms
  /\ coroutine' \in {"lost", "gone"} =>
       \A o \in Stubs : wr[o] # None /\ wr[o].thread = "coroutine" =>
         "coroutine" \in misuse \union ms
  /\ closed' =>
       /\ roots' = {} /\ (\A s \in Slots : ud'[s] = Free) /\ (call' = NoCall \/ fs # {})
       /\ \A o \in kept' \cap Stubs : wr[o] # None => "closed" \in misuse \union ms
  /\ lib' # "held" => \A o \in al \cap LibObjects :
       Known(o, kept', ud', call') => "unloaded" \in misuse \union ms
  /\ \A s \in Slots : ud'[s].is = "ended" => "ended" \in misuse \union ms

\* What is destroyed ran into nothing that was not announced
LEMMA DeadAnnounced ==
  ASSUME Inv, fault = None, NEW al, NEW wr, NEW ms, Steady(al, wr, ms),
         al \subseteq Objects,
         NEW o \in al, ~Owned(ud', kept', leaked', call', o)
  PROVE  Bad(o, IF o \in Stubs THEN wr[o] ELSE None) \subseteq misuse \union ms
<1> DEFINE w == IF o \in Stubs THEN wr[o] ELSE None
<1>0. o \notin leaked
  BY DEF Steady, Owned
<1>1. ASSUME w # None, coroutine = "gone", w.thread = "coroutine" PROVE "coroutine" \in misuse
  BY <1>1 DEF Inv, Announced, Steady
<1>2. ASSUME w # None, closed PROVE "closed" \in misuse
  <2>1. o \in alive /\ o \in Stubs /\ w = handler[o]
    BY <1>2 DEF Steady
  <2>2. Owners(ud, o) = {}
    BY <1>2 DEF Inv, Announced, Owners, Fresh, Free
  <2>3. o \notin Locals(call)
    BY <1>2 DEF Inv, Announced, NoCall, Locals
  <2>4. o \in kept
    BY <1>0, <2>1, <2>2, <2>3 DEF Inv, HeapTrue, Owned
  <2> QED
    BY <1>2, <2>1, <2>4 DEF Inv, Announced
<1>3. ASSUME o \in LibObjects, lib = "unloaded" PROVE "unloaded" \in misuse \union ms
  <2>1. CASE o \notin alive
    BY <1>3, <2>1 DEF Steady
  <2>2. CASE o \in alive
    <3>1. Owners(ud, o) # {} \/ o \in kept \union Locals(call)
      BY <1>0, <2>2 DEF Inv, HeapTrue, Owned
    <3>2. Known(o, kept, ud, call)
      BY <3>1 DEF Known, Owners
    <3> QED
      BY <1>3, <2>2, <3>2 DEF Inv, Announced
  <2> QED
    BY <2>1, <2>2
<1> QED
  BY <1>1, <1>2, <1>3 DEF Bad

(***************************************************************************)
(* Every action ends here.                                                 *)
(***************************************************************************)
LEMMA SettleStep ==
  ASSUME Inv, fault = None, NEW al, NEW wr, NEW reg, NEW gone, NEW fs, NEW ms,
         Settle(al, wr, reg, gone, fs, ms), Prepared(al, wr, reg, gone), Steady(al, wr, ms),
         WillBeAnnounced(al, wr, reg, fs, ms)
  PROVE  Inv'
<1> DEFINE dead  == {o \in al : ~Owned(ud', kept', leaked', call', o)}
           ended == {wr[o] : o \in dead \cap Stubs} \ {None}
           lost  == gone \union ended
           reg1  == Released(reg, lost)
           bad   == fs \union UNION {Bad(o, IF o \in Stubs THEN wr[o] ELSE None) : o \in dead}
           all   == misuse \union ms
<1>1. /\ alive' = al \ dead
      /\ handler' = [o \in Stubs |-> IF o \in dead THEN None ELSE wr[o]]
      /\ registry' = IF closed' THEN [r \in Refs |-> Empty] ELSE reg1
      /\ IF bad = {} THEN fault' = fault ELSE fault' \in bad
      /\ misuse' = all \union
           (IF Orphaned(ud', roots', reg1, kept', leaked', call') THEN {"view"} ELSE {})
  BY DEF Settle
<1>2. bad \subseteq all /\ all \subseteq misuse' /\ misuse' \subseteq Faults
  <2>1. \A o \in dead : Bad(o, IF o \in Stubs THEN wr[o] ELSE None) \subseteq all
    BY DeadAnnounced DEF Prepared
  <2>2. fs \subseteq all /\ all \subseteq Faults /\ "view" \in Faults
    BY DEF WillBeAnnounced, Inv, Typed, Faults
  <2> QED
    BY <1>1, <2>1, <2>2
<1>3. \A o \in dead : o \in al /\ ~Owned(ud', kept', leaked', call', o)
  OBVIOUS
<1>4. \A o \in al \ dead : Owned(ud', kept', leaked', call', o)
  OBVIOUS
<1>5. \A r \in Refs : reg1[r] = IF \E w \in lost : w.ref = r THEN Empty ELSE reg[r]
  BY DEF Released
<1>6. \A w \in ended : \E o \in dead \cap Stubs : w = wr[o] /\ wr[o] # None
  OBVIOUS
<1>7. \A o \in dead \cap Stubs : wr[o] # None => wr[o] \in ended
  OBVIOUS
<1>8. reg1 \in [Refs -> {Empty} \union SUBSET Slots]
  BY DEF Released, Prepared
<1> HIDE DEF dead, ended, reg1, bad, all
<1>9. fault' \in Faults \union {None} /\ FaultsHaveACause' /\ (fault' = None => fs = {})
  <2>1. CASE bad = {}
    BY <1>1, <2>1 DEF FaultsHaveACause, bad
  <2>2. CASE bad # {}
    BY <1>1, <1>2, <2>2, LuaBindingAssumption DEF FaultsHaveACause
  <2> QED
    BY <2>1, <2>2
<1>10. Typed'
  <2>1. alive' \subseteq Objects /\ kept' \subseteq Objects /\ leaked' \subseteq Objects
    BY <1>1 DEF Prepared
  <2>2. handler' \in [Stubs -> Wrapper \union {None}]
    BY <1>1 DEF Prepared
  <2>3. registry' \in [Refs -> {Empty} \union SUBSET Slots]
    BY <1>1, <1>8
  <2> QED
    BY <1>2, <1>9, <2>1, <2>2, <2>3 DEF Prepared, Typed
<1>11. Reachable' \subseteq Reach(roots', reg1) /\ Reach(roots', reg1) \subseteq Reach(roots', reg)
  <2>1. \A r \in Refs : registry'[r] = Empty \/ registry'[r] = reg1[r]
    BY <1>1
  <2>2. \A r \in Refs : reg1[r] = Empty \/ reg1[r] = reg[r]
    BY <1>5
  <2>3. Captured(registry') \subseteq Captured(reg1)
    BY <2>1 DEF Captured
  <2>4. Captured(reg1) \subseteq Captured(reg)
    BY <2>2 DEF Captured
  <2>5. Reachable' = roots' \union Captured(registry')
    BY DEF Reachable, Reach
  <2> QED
    BY <2>3, <2>4, <2>5 DEF Reach
<1>12. HeapTrue'
  <2>1. \A s \in Slots : ud'[s].is \in Owning => ud'[s].of \in alive'
    BY <1>1, <1>3 DEF Prepared, Owned, Owners, Owning
  <2>2. kept' \subseteq alive' /\ leaked' \subseteq alive' /\ Locals(call') \subseteq alive'
    BY <1>1, <1>3 DEF Prepared, Owned
  <2>3. call' # NoCall => call'.obj \in alive'
    <3>1. call' # NoCall => call'.obj \in al /\ al \subseteq Objects
      BY DEF Prepared
    <3> QED
      BY <2>2, <3>1, LuaBindingAssumption DEF Locals
  <2>4. \A o \in alive' : Owned(ud', kept', leaked', call', o)
    BY <1>1, <1>4
  <2>5. ASSUME NEW s \in Reachable', ud'[s].is = "view", ud'[s].of \notin alive'
        PROVE  "view" \in misuse'
    <3>1. s \in Slots
      BY <1>10 DEF Typed, Reachable, Reach, Captured
    <3>2. Owners(ud', ud'[s].of) = {}
      BY <2>1, <2>5 DEF Owners, Owning
    <3>3. ud'[s].of \notin kept' \union leaked' \union Locals(call')
      BY <2>2, <2>5
    <3>4. Orphaned(ud', roots', reg1, kept', leaked', call')
      BY <1>11, <2>5, <3>2, <3>3 DEF Orphaned
    <3> QED
      BY <1>1, <3>4
  <2>6. \A s \in Slots : ud'[s].is = "ended" => "ended" \in misuse'
    BY <1>2 DEF WillBeAnnounced, all
  <2> QED
    BY <2>1, <2>2, <2>3, <2>4, <2>5, <2>6 DEF HeapTrue, Prepared
<1>13. \A o \in Stubs : handler'[o] # None => o \in al \ dead /\ handler'[o] = wr[o]
  BY <1>1 DEF Prepared
<1>14. HandlersTrue'
  <2>1. \A o \in Stubs : handler'[o] # None => o \in alive'
    BY <1>1, <1>13
  <2>2. ASSUME ~closed' PROVE Paired(handler', registry', {})
    <3>0. registry' = reg1 /\ Paired(wr, reg, gone)
      BY <1>1, <2>2 DEF Prepared
    <3>1. ASSUME NEW o \in Stubs, handler'[o] # None PROVE registry'[handler'[o].ref] # Empty
      <4>1. wr[o] # None /\ handler'[o] = wr[o] /\ o \notin dead
        BY <1>13, <3>1
      <4>2. wr[o].ref \in Refs
        BY <4>1 DEF Prepared, Wrapper
      <4>3. \A w \in ended : w.ref # wr[o].ref
        BY <1>6, <3>0, <4>1 DEF Paired
      <4>4. \A w \in gone : w.ref # wr[o].ref
        BY <3>0, <4>1 DEF Paired
      <4> QED
        BY <1>5, <3>0, <4>1, <4>2, <4>3, <4>4 DEF Paired
    <3>2. ASSUME NEW o \in Stubs, NEW q \in Stubs, handler'[o] # None, handler'[q] # None,
                 handler'[o].ref = handler'[q].ref
          PROVE  o = q
      BY <1>13, <3>0, <3>2 DEF Paired
    <3>3. ASSUME NEW r \in Refs, registry'[r] # Empty
          PROVE  \E o \in Stubs : handler'[o] # None /\ handler'[o].ref = r
      <4>1. reg[r] # Empty /\ \A w \in lost : w.ref # r
        BY <1>5, <3>0, <3>3
      <4>2. PICK o \in Stubs : wr[o] # None /\ wr[o].ref = r
        BY <3>0, <4>1 DEF Paired
      <4>3. o \notin dead
        BY <1>7, <4>1, <4>2
      <4> QED
        BY <1>1, <4>2, <4>3
    <3> QED
      BY <3>1, <3>2, <3>3 DEF Paired
  <2>3. closed' => \A r \in Refs : registry'[r] = Empty
    BY <1>1
  <2>4. ASSUME call' # NoCall PROVE handler'[call'.obj] # None
    <3>1. call'.obj \in al /\ call'.obj \in Stubs /\ wr[call'.obj] # None
      BY <2>4, LuaBindingAssumption DEF Prepared, CallRecord, Objects
    <3>2. call'.obj \notin dead
      BY <1>3, <3>1, LuaBindingAssumption DEF Owned, Locals, Objects
    <3> QED
      BY <1>1, <3>1, <3>2
  <2> QED
    BY <2>1, <2>2, <2>3, <2>4 DEF HandlersTrue
<1>15. fault' = None => Announced'
  <2> SUFFICES ASSUME fault' = None PROVE Announced'
    OBVIOUS
  <2>0. all \subseteq misuse' /\ fs = {} /\ alive' \subseteq al
    BY <1>1, <1>2, <1>9
  <2>1. (call'.replaced => "replaced" \in misuse') /\ (~traceback' => "stack" \in misuse')
    BY <2>0 DEF WillBeAnnounced, all
  <2>2. coroutine' \in {"lost", "gone"} =>
          \A o \in Stubs : handler'[o] # None /\ handler'[o].thread = "coroutine" => "coroutine" \in misuse'
    BY <1>13, <2>0 DEF WillBeAnnounced, all
  <2>3. closed' =>
          /\ roots' = {} /\ (\A s \in Slots : ud'[s] = Free) /\ call' = NoCall
          /\ \A o \in kept' \cap Stubs : handler'[o] # None => "closed" \in misuse'
    BY <1>13, <2>0 DEF WillBeAnnounced, all
  <2>4. lib' # "held" => \A o \in alive' \cap LibObjects :
          Known(o, kept', ud', call') => "unloaded" \in misuse'
    BY <2>0 DEF WillBeAnnounced, all
  <2> QED
    BY <2>1, <2>2, <2>3, <2>4 DEF Announced, Fresh
<1> QED
  BY <1>9, <1>10, <1>12, <1>14, <1>15 DEF Inv

-----------------------------------------------------------------------------
(* Facts the actions share                                                  *)

LEMMA ReachableSlots ==
  ASSUME Inv
  PROVE  Reachable \subseteq Slots
BY DEF Inv, Typed, Reachable, Reach, Captured

\* What the running code has at hand it can reach
LEMMA AtHandReachable ==
  ASSUME Inv, Runs
  PROVE  AtHand \subseteq Reachable
<1>1. CASE call.obj # None /\ handler[call.obj] # None
  <2>1. call.obj \in Stubs /\ handler[call.obj].ref \in Refs
    BY <1>1 DEF Inv, Typed, CallRecord, Wrapper
  <2>2. registry[handler[call.obj].ref] # Empty
    BY <1>1, <2>1 DEF Inv, Runs, HandlersTrue, Paired
  <2> QED
    BY <1>1, <2>1, <2>2 DEF AtHand, Reachable, Reach, Captured
<1>2. CASE ~(call.obj # None /\ handler[call.obj] # None)
  BY <1>2 DEF AtHand, Reachable, Reach
<1> QED
  BY <1>1, <1>2

\* A userdata at hand holds an object somebody knows, and an owner's exists
LEMMA HoldsKnown ==
  ASSUME Inv, Runs, NEW s, Holds(s, {"own", "view", "string", "proxy"})
  PROVE  /\ s \in Reachable /\ s \in Slots /\ ud[s].of \in Objects
         /\ Known(ud[s].of, kept, ud, call)
         /\ ud[s].is \in Owning => ud[s].of \in alive
<1>1. s \in Reachable /\ s \in Slots
  BY AtHandReachable, ReachableSlots DEF Holds
<1> QED
  BY <1>1 DEF Inv, Runs, HeapTrue, Holds, Known

LEMMA BrokenAnnounced ==
  ASSUME Inv, Runs, NEW s, Holds(s, {"own", "view", "ended"})
  PROVE  Broken(s) \subseteq misuse
<1> DEFINE o == ud[s].of
<1>0. CASE ud[s].is = "ended"
  <2>1. s \in Slots
    BY AtHandReachable, ReachableSlots DEF Holds
  <2> QED
    BY <1>0, <2>1 DEF Broken, Inv, Runs, HeapTrue
<1> SUFFICES ASSUME ud[s].is # "ended" PROVE Broken(s) \subseteq misuse
  BY <1>0
<1>1. /\ s \in Reachable /\ s \in Slots /\ Known(o, kept, ud, call)
      /\ ud[s].is \in Owning => o \in alive
  BY HoldsKnown DEF Holds
<1>2. CASE o \in alive
  <2>1. o \in LibObjects /\ lib = "unloaded" => "unloaded" \in misuse
    BY <1>1, <1>2 DEF Inv, Runs, Announced
  <2> QED
    BY <1>2, <2>1 DEF Broken, Bad
<1>3. CASE o \notin alive
  BY <1>1, <1>3 DEF Inv, Runs, HeapTrue, Holds, Owning, Broken
<1> QED
  BY <1>2, <1>3

\* Running or destroying the handler of a stub that exists
LEMMA HandlerAnnounced ==
  ASSUME Inv, fault = None, NEW o \in Stubs, closed => o \in kept
  PROVE  Bad(o, handler[o]) \subseteq misuse
<1>1. o \notin LibObjects
  BY LuaBindingAssumption
<1> QED
  BY <1>1 DEF Bad, Inv, Announced

(***************************************************************************)
(* An action that leaves handlers, coroutine and libraries alone.          *)
(***************************************************************************)
LEMMA Ordinary ==
  ASSUME Inv, fault = None, NEW al, NEW fs, NEW ms, Settle(al, handler, registry, {}, fs, ms),
         UNCHANGED <<coroutine, lib, closed, traceback>>, garbage' \in 0..MaxGarbage,
         alive \subseteq al, al \subseteq Objects, ud' \in [Slots -> Userdata], roots' \subseteq Slots,
         kept' \subseteq al, leaked \subseteq leaked', leaked' \subseteq al,
         call' \in CallRecord, call' # NoCall => call'.obj \in al /\ handler[call'.obj] # None,
         Locals(call') \subseteq al, call'.replaced => "replaced" \in misuse \union ms,
         \A s \in Slots : ud'[s].is \notin {"free", "ended"} => ud'[s].of \in Objects,
         \A s \in Slots : ud'[s].is \in Owning => ud'[s].of \in al,
         \A s \in Slots : ud'[s].is = "proxy" => ud'[s].of \in Stubs,
         \A s \in Slots : ud'[s].is = "ended" => "ended" \in misuse \union ms,
         closed => al = alive /\ ud' = ud /\ roots' = roots /\ kept' \subseteq kept
                   /\ (call' = NoCall \/ fs # {}),
         lib # "held" => \A o \in (al \ alive) \cap LibObjects : "unloaded" \in ms,
         \A o \in alive \cap LibObjects : Known(o, kept', ud', call') => Known(o, kept, ud, call),
         fs \subseteq misuse \union ms, ms \subseteq Faults
  PROVE  Inv'
<1>1. Prepared(al, handler, registry, {})
  BY DEF Prepared, Inv, Typed, HandlersTrue
<1>2. Steady(al, handler, ms)
  BY DEF Steady
<1>3. WillBeAnnounced(al, handler, registry, fs, ms)
  <2>1. coroutine' \in {"lost", "gone"} =>
          \A o \in Stubs : handler[o] # None /\ handler[o].thread = "coroutine" =>
            "coroutine" \in misuse \union ms
    BY DEF Inv, Announced
  <2>2. closed' =>
          /\ roots' = {} /\ (\A s \in Slots : ud'[s] = Free) /\ (call' = NoCall \/ fs # {})
          /\ \A o \in kept' \cap Stubs : handler[o] # None => "closed" \in misuse \union ms
    BY DEF Inv, Announced, Fresh
  <2>3. lib' # "held" => \A o \in al \cap LibObjects :
          Known(o, kept', ud', call') => "unloaded" \in misuse \union ms
    BY DEF Inv, Announced
  <2>4. ~traceback' => "stack" \in misuse \union ms
    BY DEF Inv, Announced
  <2> QED
    BY <2>1, <2>2, <2>3, <2>4 DEF WillBeAnnounced
<1> QED
  BY <1>1, <1>2, <1>3, SettleStep

(***************************************************************************)
(* One that gives the script a new userdata for an object that exists, or  *)
(* that the action makes, or for a view of one somebody knows.             *)
(***************************************************************************)
LEMMA PutStep ==
  ASSUME Inv, Runs, NEW s \in Slots, NEW is \in {"own", "view", "proxy", "string"},
         NEW o \in Objects, Put(s, is, o), UNCHANGED <<kept, leaked, env>>,
         NEW al, NEW fs, NEW ms, Settle(al, handler, registry, {}, fs, ms),
         \/ al = alive /\ Known(o, kept, ud, call)
         \/ /\ al = alive \union {o} /\ o \notin alive
            /\ o \in LibObjects /\ lib # "held" => "unloaded" \in ms,
         is \in Owning => o \in al, is = "proxy" => o \in Stubs,
         call' \in CallRecord, call' # NoCall => call'.obj \in alive /\ handler[call'.obj] # None,
         \A q \in Locals(call') : q \in alive /\ Known(q, kept, ud, call),
         call'.replaced => "replaced" \in misuse \union ms,
         fs \subseteq misuse \union ms, ms \subseteq Faults
  PROVE  Inv'
<1>0. /\ ud \in [Slots -> Userdata] /\ roots \subseteq Slots /\ garbage \in 0..MaxGarbage
      /\ alive \subseteq Objects /\ kept \subseteq alive /\ leaked \subseteq alive
      /\ \A t \in Slots : ud[t].is \notin {"free", "ended"} => ud[t].of \in Objects
      /\ \A t \in Slots : ud[t].is \in Owning => ud[t].of \in alive
      /\ \A t \in Slots : ud[t].is = "proxy" => ud[t].of \in Stubs
      /\ \A t \in Slots : ud[t].is = "ended" => "ended" \in misuse
  BY DEF Inv, Typed, Runs, HeapTrue
<1>1. /\ ud' = [ud EXCEPT ![s] = [is |-> is, of |-> o]] /\ roots' = roots \union {s}
      /\ [is |-> is, of |-> o] \in Userdata
  BY DEF Put, Userdata
<1>2. /\ ud' \in [Slots -> Userdata] /\ ud'[s].is = is /\ ud'[s].of = o
      /\ \A t \in Slots \ {s} : ud'[t] = ud[t]
  BY <1>0, <1>1
<1>3. alive \subseteq al /\ al \subseteq Objects
  BY <1>0
<1>4. \A q \in al \ alive : q = o
  OBVIOUS
<1>5. /\ \A t \in Slots : ud'[t].is \notin {"free", "ended"} => ud'[t].of \in Objects
      /\ \A t \in Slots : ud'[t].is \in Owning => ud'[t].of \in al
      /\ \A t \in Slots : ud'[t].is = "proxy" => ud'[t].of \in Stubs
      /\ \A t \in Slots : ud'[t].is = "ended" => "ended" \in misuse \union ms
  BY <1>0, <1>2, <1>3
<1>6. ASSUME NEW q \in alive \cap LibObjects, Known(q, kept', ud', call')
      PROVE  Known(q, kept, ud, call)
  <2>1. q = o => Known(q, kept, ud, call)
    OBVIOUS
  <2> QED
    BY <1>2, <1>6, <2>1 DEF Known
<1>7. /\ UNCHANGED <<coroutine, lib, closed, traceback>> /\ garbage' \in 0..MaxGarbage
      /\ kept' \subseteq al /\ leaked \subseteq leaked' /\ leaked' \subseteq al
      /\ roots' \subseteq Slots /\ fault = None /\ ~closed
  BY <1>0, <1>1, <1>3 DEF Runs, env
<1>8. lib # "held" => \A q \in (al \ alive) \cap LibObjects : "unloaded" \in ms
  BY <1>4
<1>9. (call' # NoCall => call'.obj \in al /\ handler[call'.obj] # None) /\ Locals(call') \subseteq al
  BY <1>3
<1> QED
  BY <1>2, <1>3, <1>5, <1>6, <1>7, <1>8, <1>9, Ordinary

\* The call in progress, when a step leaves it alone
LEMMA SameCall ==
  ASSUME Inv, fault = None, call' = call
  PROVE  /\ call' \in CallRecord /\ (call' # NoCall => call'.obj \in alive /\ handler[call'.obj] # None)
         /\ \A q \in Locals(call') : q \in alive /\ Known(q, kept, ud, call)
         /\ call'.replaced => "replaced" \in misuse
BY DEF Inv, Typed, HeapTrue, HandlersTrue, Announced, Known

-----------------------------------------------------------------------------
(* The script                                                               *)

LEMMA ConstructOk ==
  ASSUME Inv, NEW s \in Slots, NEW o \in Objects, Construct(s, o)
  PROVE  Inv'
<1> DEFINE is == IF o \in Strings THEN "string" ELSE "own"
           al == alive \union {o}
<1>1. /\ Runs /\ o \notin alive /\ Put(s, is, o) /\ UNCHANGED <<kept, leaked, env>> /\ call' = call
      /\ Settle(al, handler, registry, {}, Bad(o, None), FromLost(o))
  BY DEF Construct, New
<1>2. Bad(o, None) \subseteq FromLost(o) /\ FromLost(o) \subseteq Faults
  BY DEF Bad, FromLost, Faults
<1>3. o \in LibObjects /\ lib # "held" => "unloaded" \in FromLost(o)
  BY DEF FromLost
<1>4. is \in {"own", "view", "proxy", "string"} /\ o \in al /\ is # "proxy"
  OBVIOUS
<1>5. /\ call' \in CallRecord /\ (call' # NoCall => call'.obj \in alive /\ handler[call'.obj] # None)
      /\ \A q \in Locals(call') : q \in alive /\ Known(q, kept, ud, call)
      /\ call'.replaced => "replaced" \in misuse
  BY <1>1, SameCall DEF Runs
<1> HIDE DEF is
<1> QED
  BY <1>1, <1>2, <1>3, <1>4, <1>5, PutStep

LEMMA newInstanceOk ==
  ASSUME Inv, NEW s \in Slots, NEW t \in Slots, newInstance(s, t)
  PROVE  Inv'
<1> DEFINE is == IF ud[s].is = "own" THEN "own" ELSE "view"
           o  == ud[s].of
<1>1. /\ Runs /\ Holds(s, {"own", "view", "string"}) /\ Put(t, is, o)
      /\ UNCHANGED <<kept, leaked, env>> /\ call' = call
      /\ Settle(alive, handler, registry, {}, {}, {})
  BY DEF newInstance, Settled
<1>2. o \in Objects /\ Known(o, kept, ud, call) /\ (is \in Owning => o \in alive)
  BY <1>1, HoldsKnown DEF Holds, Owning
<1>3. is \in {"own", "view", "proxy", "string"} /\ is # "proxy"
  OBVIOUS
<1>4. /\ call' \in CallRecord /\ (call' # NoCall => call'.obj \in alive /\ handler[call'.obj] # None)
      /\ \A q \in Locals(call') : q \in alive /\ Known(q, kept, ud, call)
      /\ call'.replaced => "replaced" \in misuse
  BY <1>1, SameCall DEF Runs
<1> HIDE DEF is, o
<1> QED
  BY <1>1, <1>2, <1>3, <1>4, PutStep

LEMMA getOk ==
  ASSUME Inv, NEW s \in Slots, NEW t \in Slots, get(s, t)
  PROVE  Inv'
<1> DEFINE o == ud[s].of
<1>1. /\ Runs /\ Holds(s, {"own", "view"}) /\ Put(t, "view", o)
      /\ UNCHANGED <<kept, leaked, env>> /\ call' = call
      /\ Settle(alive, handler, registry, {}, Broken(s), {})
  BY DEF get, Settled
<1>2. o \in Objects /\ Known(o, kept, ud, call) /\ Broken(s) \subseteq misuse
  BY <1>1, HoldsKnown, BrokenAnnounced DEF Holds
<1>3. "view" \notin Owning
  BY DEF Owning
<1>4. /\ call' \in CallRecord /\ (call' # NoCall => call'.obj \in alive /\ handler[call'.obj] # None)
      /\ \A q \in Locals(call') : q \in alive /\ Known(q, kept, ud, call)
      /\ call'.replaced => "replaced" \in misuse
  BY <1>1, SameCall DEF Runs
<1> HIDE DEF o
<1> QED
  BY <1>1, <1>2, <1>3, <1>4, PutStep

LEMMA createOk ==
  ASSUME Inv, NEW s \in Slots, NEW o \in Objects, create(s, o)
  PROVE  Inv'
<1>1. /\ Runs /\ o \notin alive /\ o \in Stubs /\ Put(s, "proxy", o)
      /\ UNCHANGED <<kept, leaked, env>> /\ call' = call
      /\ Settle(alive \union {o}, handler, registry, {}, {}, {})
  BY DEF create, New
<1>2. o \notin LibObjects
  BY <1>1, LuaBindingAssumption
<1>3. /\ call' \in CallRecord /\ (call' # NoCall => call'.obj \in alive /\ handler[call'.obj] # None)
      /\ \A q \in Locals(call') : q \in alive /\ Known(q, kept, ud, call)
      /\ call'.replaced => "replaced" \in misuse
  BY <1>1, SameCall DEF Runs
<1> QED
  BY <1>1, <1>2, <1>3, PutStep

LEMMA referenceOk ==
  ASSUME Inv, NEW s \in Slots, NEW t \in Slots, reference(s, t)
  PROVE  Inv'
<1> DEFINE o == ud[s].of
<1>1. /\ Runs /\ Holds(s, {"proxy"}) /\ Put(t, "own", o)
      /\ UNCHANGED <<kept, leaked, env>> /\ call' = call
      /\ Settle(alive, handler, registry, {}, {}, {})
  BY DEF reference, Settled
<1>2. o \in Objects /\ Known(o, kept, ud, call) /\ o \in alive
  BY <1>1, HoldsKnown DEF Holds, Owning
<1>3. /\ call' \in CallRecord /\ (call' # NoCall => call'.obj \in alive /\ handler[call'.obj] # None)
      /\ \A q \in Locals(call') : q \in alive /\ Known(q, kept, ud, call)
      /\ call'.replaced => "replaced" \in misuse
  BY <1>1, SameCall DEF Runs
<1> HIDE DEF o
<1> QED
  BY <1>1, <1>2, <1>3, PutStep

\* An action that makes no userdata: slots may be freed, variables dropped,
\* the program may keep what the script has at hand, locals may be leaked
LEMMA NoPutStep ==
  ASSUME Inv, fault = None, NEW fs, NEW ms, Settle(alive, handler, registry, {}, fs, ms),
         UNCHANGED <<coroutine, lib, closed, traceback>>, garbage' \in 0..MaxGarbage,
         ud' \in [Slots -> Userdata],
         \A s \in Slots : ud'[s] \in {ud[s], Free} \/ (ud'[s] = Ended /\ "ended" \in ms),
         roots' \subseteq roots, leaked \subseteq leaked', leaked' \subseteq alive,
         kept' \subseteq alive, \A o \in kept' : Known(o, kept, ud, call),
         call' \in CallRecord, call' # NoCall => call'.obj \in alive /\ handler[call'.obj] # None,
         \A q \in Locals(call') : q \in alive /\ Known(q, kept, ud, call),
         call'.replaced => "replaced" \in misuse \union ms,
         closed => ud' = ud /\ roots' = roots /\ kept' \subseteq kept /\ (call' = NoCall \/ fs # {}),
         fs \subseteq misuse \union ms, ms \subseteq Faults
  PROVE  Inv'
<1>0. /\ roots \subseteq Slots /\ alive \subseteq Objects
      /\ \A t \in Slots : ud[t].is \notin {"free", "ended"} => ud[t].of \in Objects
      /\ \A t \in Slots : ud[t].is \in Owning => ud[t].of \in alive
      /\ \A t \in Slots : ud[t].is = "proxy" => ud[t].of \in Stubs
      /\ \A t \in Slots : ud[t].is = "ended" => "ended" \in misuse
  BY DEF Inv, Typed, HeapTrue
<1>1. \A t \in Slots : \/ ud'[t] = ud[t]
                       \/ ud'[t].is = "free" /\ ud'[t].of = None
                       \/ ud'[t].is = "ended" /\ ud'[t].of = None /\ "ended" \in ms
  BY DEF Free, Ended
<1>2. /\ \A t \in Slots : ud'[t].is \notin {"free", "ended"} => ud'[t].of \in Objects
      /\ \A t \in Slots : ud'[t].is \in Owning => ud'[t].of \in alive
      /\ \A t \in Slots : ud'[t].is = "proxy" => ud'[t].of \in Stubs
      /\ \A t \in Slots : ud'[t].is = "ended" => "ended" \in misuse \union ms
  BY <1>0, <1>1 DEF Owning
<1>3. ASSUME NEW q \in alive \cap LibObjects, Known(q, kept', ud', call')
      PROVE  Known(q, kept, ud, call)
  <2>1. q # None
    BY LuaBindingAssumption DEF Objects
  <2>2. \A t \in Slots : ud'[t].of = q => ud[t].of = q
    BY <1>1, <2>1
  <2> QED
    BY <1>3, <2>2 DEF Known
<1>4. \A o \in (alive \ alive) \cap LibObjects : "unloaded" \in ms
  OBVIOUS
<1>5. roots' \subseteq Slots /\ Locals(call') \subseteq alive
  BY <1>0
<1> QED
  BY <1>0, <1>2, <1>3, <1>4, <1>5, Ordinary

LEMMA Typing ==
  ASSUME Inv, fault = None
  PROVE  /\ ud \in [Slots -> Userdata] /\ roots \subseteq Slots /\ alive \subseteq Objects
         /\ kept \subseteq alive /\ leaked \subseteq alive /\ garbage \in 0..MaxGarbage
         /\ \A o \in kept : Known(o, kept, ud, call)
         /\ closed => call = NoCall
BY DEF Inv, Typed, HeapTrue, Announced, Known

LEMMA UseOk ==
  ASSUME Inv, NEW s \in Slots, Use(s)
  PROVE  Inv'
<1>1. /\ Runs /\ UNCHANGED <<ud, roots, kept, leaked, call, env>>
      /\ Settle(alive, handler, registry, {}, Broken(s), {}) /\ Broken(s) \subseteq misuse
  BY BrokenAnnounced DEF Use, Settled, heap
<1>2. /\ call' \in CallRecord /\ (call' # NoCall => call'.obj \in alive /\ handler[call'.obj] # None)
      /\ \A q \in Locals(call') : q \in alive /\ Known(q, kept, ud, call)
      /\ call'.replaced => "replaced" \in misuse
  BY <1>1, SameCall DEF Runs
<1> QED
  BY <1>1, <1>2, Typing, NoPutStep DEF Runs, env

LEMMA DropOk ==
  ASSUME Inv, NEW s \in Slots, Drop(s)
  PROVE  Inv'
<1>1. /\ Runs /\ roots' \subseteq roots /\ UNCHANGED <<ud, kept, leaked, call, env>>
      /\ Settle(alive, handler, registry, {}, {}, {})
  BY DEF Drop, Settled
<1>2. /\ call' \in CallRecord /\ (call' # NoCall => call'.obj \in alive /\ handler[call'.obj] # None)
      /\ \A q \in Locals(call') : q \in alive /\ Known(q, kept, ud, call)
      /\ call'.replaced => "replaced" \in misuse
  BY <1>1, SameCall DEF Runs
<1> QED
  BY <1>1, <1>2, Typing, NoPutStep DEF Runs, env

LEMMA gcOk ==
  ASSUME Inv, NEW s \in Slots, gc(s)
  PROVE  Inv'
<1>1. /\ Runs /\ ud' = [ud EXCEPT ![s] = Free] /\ UNCHANGED <<roots, kept, leaked, call, env>>
      /\ Settle(alive, handler, registry, {}, EndedTwice({s}), {})
  BY DEF gc
<1>2. ud' \in [Slots -> Userdata] /\ \A t \in Slots : ud'[t] \in {ud[t], Free}
  BY <1>1, Typing DEF Runs, Userdata, Free
<1>3. /\ call' \in CallRecord /\ (call' # NoCall => call'.obj \in alive /\ handler[call'.obj] # None)
      /\ \A q \in Locals(call') : q \in alive /\ Known(q, kept, ud, call)
      /\ call'.replaced => "replaced" \in misuse
  BY <1>1, SameCall DEF Runs
<1>4. EndedTwice({s}) \subseteq misuse
  BY <1>1 DEF EndedTwice, Ended, Inv, Runs, HeapTrue
<1> DEFINE fs == EndedTwice({s})
<1>5. Settle(alive, handler, registry, {}, fs, {}) /\ fs \subseteq misuse
  BY <1>1, <1>4
<1> HIDE DEF fs
<1> QED
  BY <1>1, <1>2, <1>3, <1>5, Typing, NoPutStep DEF Runs, env

\* __gc called by the script
LEMMA finaliseOk ==
  ASSUME Inv, NEW s \in Slots, finalise(s)
  PROVE  Inv'
<1>1. /\ Runs /\ ud' = [ud EXCEPT ![s] = Ended] /\ UNCHANGED <<roots, kept, leaked, call, env>>
      /\ Settle(alive, handler, registry, {}, {}, {"ended"}) /\ {"ended"} \subseteq Faults
  BY DEF finalise, Settled, Faults
<1>2. /\ ud' \in [Slots -> Userdata]
      /\ \A t \in Slots : ud'[t] \in {ud[t], Free} \/ (ud'[t] = Ended /\ "ended" \in {"ended"})
  BY <1>1, Typing DEF Runs, Userdata, Ended
<1>3. /\ call' \in CallRecord /\ (call' # NoCall => call'.obj \in alive /\ handler[call'.obj] # None)
      /\ \A q \in Locals(call') : q \in alive /\ Known(q, kept, ud, call)
      /\ call'.replaced => "replaced" \in misuse
  BY <1>1, SameCall DEF Runs
<1> QED
  BY <1>1, <1>2, <1>3, Typing, NoPutStep DEF Runs, env

\* v % 0, assign on an empty variant, an attribute set through a conversion
\* that fails
LEMMA UndefinedOk ==
  ASSUME Inv, NEW f \in Faults, Undefined(f)
  PROVE  Inv'
<1>1. /\ Runs /\ UNCHANGED <<ud, roots, kept, leaked, call, env>>
      /\ Settle(alive, handler, registry, {}, {f}, {f}) /\ {f} \subseteq Faults
  BY DEF Undefined, Settled, heap
<1>2. /\ call' \in CallRecord /\ (call' # NoCall => call'.obj \in alive /\ handler[call'.obj] # None)
      /\ \A q \in Locals(call') : q \in alive /\ Known(q, kept, ud, call)
      /\ call'.replaced => "replaced" \in misuse
  BY <1>1, SameCall DEF Runs
<1> QED
  BY <1>1, <1>2, Typing, NoPutStep DEF Runs, env

LEMMA AtOnceOk ==
  ASSUME Inv, mod \/ assign \/ \E s, t \in Slots : set(s, t)
  PROVE  Inv'
<1>1. \E f \in Faults : Undefined(f)
  BY DEF mod, assign, set, Faults
<1> QED
  BY <1>1, UndefinedOk

-----------------------------------------------------------------------------
(* Stacks                                                                   *)

LEMMA RotatedOnce ==
  ASSUME NEW stack
  PROVE  Rotated(stack, 0) = stack /\ Rotated(stack, 1) = Rotate(stack)
<1>1. Rotated(stack, 0) = stack
  <2> DEFINE Step(g) == [i \in 0..0 |-> IF i = 0 THEN stack ELSE Rotate(g[i - 1])]
             after   == CHOOSE g : g = Step(g)
  <2>1. Rotated(stack, 0) = after[0]
    BY Zenon DEF Rotated
  <2>2. [i \in 0..0 |-> stack] = Step([i \in 0..0 |-> stack])
    OBVIOUS
  <2> HIDE DEF Step
  <2>3. after = Step(after)
    BY <2>2, Zenon
  <2> QED
    BY <2>1, <2>3 DEF Step
<1>2. Rotated(stack, 1) = Rotate(stack)
  <2> DEFINE Step(g) == [i \in 0..1 |-> IF i = 0 THEN stack ELSE Rotate(g[i - 1])]
             once    == [i \in 0..1 |-> IF i = 0 THEN stack ELSE Rotate(stack)]
             after   == CHOOSE g : g = Step(g)
  <2>1. Rotated(stack, 1) = after[1]
    BY Zenon DEF Rotated
  <2>2. once = Step(once)
    OBVIOUS
  <2> HIDE DEF Step, once
  <2>3. after = Step(after)
    BY <2>2, Zenon
  <2> HIDE DEF after
  <2>4. after[0] = stack /\ after[1] = Rotate(after[0])
    BY <2>3 DEF Step
  <2> QED
    BY <2>1, <2>4
<1> QED
  BY <1>1, <1>2

LEMMA RotatedTwice ==
  ASSUME NEW stack
  PROVE  Rotated(stack, 2) = Rotate(Rotate(stack))
<1> DEFINE Step(g) == [i \in 0..2 |-> IF i = 0 THEN stack ELSE Rotate(g[i - 1])]
           times   == [i \in 0..2 |->
                 IF i = 0 THEN stack ELSE IF i = 1 THEN Rotate(stack) ELSE Rotate(Rotate(stack))]
           after   == CHOOSE g : g = Step(g)
<1>1. Rotated(stack, 2) = after[2]
  BY Zenon DEF Rotated
<1>2. times = Step(times)
  OBVIOUS
<1> HIDE DEF Step, times
<1>3. after = Step(after)
  BY <1>2, Zenon
<1> HIDE DEF after
<1>4. after[0] = stack /\ after[1] = Rotate(after[0]) /\ after[2] = Rotate(after[1])
  BY <1>3 DEF Step
<1> QED
  BY <1>1, <1>4

LEMMA RotatedThrice ==
  ASSUME NEW stack
  PROVE  Rotated(stack, 3) = Rotate(Rotate(Rotate(stack)))
<1> DEFINE Step(g) == [i \in 0..3 |-> IF i = 0 THEN stack ELSE Rotate(g[i - 1])]
           times   == [i \in 0..3 |->
                 IF i = 0 THEN stack ELSE IF i = 1 THEN Rotate(stack) ELSE IF i = 2 THEN Rotate(Rotate(stack)) ELSE Rotate(Rotate(Rotate(stack)))]
           after   == CHOOSE g : g = Step(g)
<1>1. Rotated(stack, 3) = after[3]
  BY Zenon DEF Rotated
<1>2. times = Step(times)
  OBVIOUS
<1> HIDE DEF Step, times
<1>3. after = Step(after)
  BY <1>2, Zenon
<1> HIDE DEF after
<1>4. after[0] = stack /\ after[1] = Rotate(after[0]) /\ after[2] = Rotate(after[1]) /\ after[3] = Rotate(after[2])
  BY <1>3 DEF Step
<1> QED
  BY <1>1, <1>4

\* One rotation takes the bottom of a stack to its top
LEMMA RotateStack ==
  ASSUME NEW T, NEW q \in Seq(T), q # <<>>
  PROVE  /\ Rotate(q) \in Seq(T) /\ Len(Rotate(q)) = Len(q)
         /\ \A i \in 1..(Len(q) - 1) : Rotate(q)[i] = q[i + 1]
         /\ Rotate(q)[Len(q)] = q[1]
<1>1. q[1] \in T /\ Len(q) \in Nat /\ Len(q) >= 1
  BY EmptySeq, LenProperties
<1>2. Tail(q) \in Seq(T) /\ Len(Tail(q)) = Len(q) - 1 /\ \A i \in 1..Len(Tail(q)) : Tail(q)[i] = q[i + 1]
  BY HeadTailProperties
<1>3. /\ Append(Tail(q), q[1]) \in Seq(T) /\ Len(Append(Tail(q), q[1])) = Len(Tail(q)) + 1
      /\ \A i \in 1..Len(Tail(q)) : Append(Tail(q), q[1])[i] = Tail(q)[i]
      /\ Append(Tail(q), q[1])[Len(Tail(q)) + 1] = q[1]
  BY <1>1, <1>2, AppendProperties
<1> QED
  BY <1>1, <1>2, <1>3 DEF Rotate

\* r is q, turned n times
Turned(r, q, n) ==
  /\ Len(r) = Len(q)
  /\ \A i \in 1..Len(q) : r[i] = IF i + n <= Len(q) THEN q[i + n] ELSE q[i + n - Len(q)]

LEMMA TurnOnce ==
  ASSUME NEW T, NEW q \in Seq(T), NEW r \in Seq(T), NEW n \in 0..(Len(q) - 1), Turned(r, q, n)
  PROVE  Rotate(r) \in Seq(T) /\ Turned(Rotate(r), q, n + 1)
<1>1. Len(q) \in Nat /\ Len(r) = Len(q) /\ r # <<>>
  BY EmptySeq, LenProperties DEF Turned
<1>2. /\ Rotate(r) \in Seq(T) /\ Len(Rotate(r)) = Len(r)
      /\ \A i \in 1..(Len(r) - 1) : Rotate(r)[i] = r[i + 1]
      /\ Rotate(r)[Len(r)] = r[1]
  BY <1>1, RotateStack
<1>3. ASSUME NEW i \in 1..(Len(q) - 1)
      PROVE  Rotate(r)[i] = IF i + (n + 1) <= Len(q) THEN q[i + (n + 1)] ELSE q[i + (n + 1) - Len(q)]
  <2>1. i + 1 \in 1..Len(q) /\ Rotate(r)[i] = r[i + 1]
    BY <1>1, <1>2
  <2>2. r[i + 1] = IF (i + 1) + n <= Len(q) THEN q[(i + 1) + n] ELSE q[(i + 1) + n - Len(q)]
    BY <2>1 DEF Turned
  <2>3. (i + 1) + n = i + (n + 1)
    BY <1>1
  <2> QED
    BY <2>1, <2>2, <2>3
<1>4. Rotate(r)[Len(q)] = q[n + 1]
  <2>1. 1 \in 1..Len(q) /\ 1 + n <= Len(q) /\ 1 + n = n + 1
    BY <1>1
  <2> QED
    BY <1>1, <1>2, <2>1 DEF Turned
<1>5. Len(q) + (n + 1) - Len(q) = n + 1 /\ ~(Len(q) + (n + 1) <= Len(q))
  BY <1>1
<1>6. \A i \in 1..Len(q) : i \in 1..(Len(q) - 1) \/ i = Len(q)
  BY <1>1
<1> QED
  BY <1>1, <1>2, <1>3, <1>4, <1>5, <1>6 DEF Turned

\* As far as a stack with two arguments needs it
LEMMA RotatedTurns ==
  ASSUME NEW T, NEW q \in Seq(T), NEW n \in 0..3, n <= Len(q)
  PROVE  Rotated(q, n) \in Seq(T) /\ Turned(Rotated(q, n), q, n)
<1>0. Len(q) \in Nat
  BY LenProperties
<1>1. Rotated(q, 0) \in Seq(T) /\ Turned(Rotated(q, 0), q, 0)
  <2>1. \A i \in 1..Len(q) : i + 0 <= Len(q) /\ i + 0 = i
    BY <1>0
  <2> QED
    BY <2>1, RotatedOnce DEF Turned
<1>2. ASSUME n >= 1 PROVE Rotated(q, 1) \in Seq(T) /\ Turned(Rotated(q, 1), q, 1)
  <2>1. 0 \in 0..(Len(q) - 1) /\ 0 + 1 = 1
    BY <1>0, <1>2
  <2> QED
    BY <1>1, <2>1, RotatedOnce, TurnOnce
<1>3. ASSUME n >= 2 PROVE Rotated(q, 2) \in Seq(T) /\ Turned(Rotated(q, 2), q, 2)
  <2>1. 1 \in 0..(Len(q) - 1) /\ 1 + 1 = 2 /\ n >= 1
    BY <1>0, <1>3
  <2>2. Rotated(q, 2) = Rotate(Rotated(q, 1))
    BY RotatedOnce, RotatedTwice
  <2>3. /\ Rotate(Rotated(q, 1)) \in Seq(T)
        /\ Turned(Rotate(Rotated(q, 1)), q, 1 + 1)
    BY <1>2, <2>1, TurnOnce
  <2> QED
    BY <2>1, <2>2, <2>3
<1>4. ASSUME n >= 3 PROVE Rotated(q, 3) \in Seq(T) /\ Turned(Rotated(q, 3), q, 3)
  <2>1. 2 \in 0..(Len(q) - 1) /\ 2 + 1 = 3 /\ n >= 2
    BY <1>0, <1>4
  <2>2. Rotated(q, 3) = Rotate(Rotated(q, 2))
    BY RotatedTwice, RotatedThrice
  <2>3. /\ Rotate(Rotated(q, 2)) \in Seq(T)
        /\ Turned(Rotate(Rotated(q, 2)), q, 2 + 1)
    BY <1>3, <2>1, TurnOnce
  <2> QED
    BY <2>1, <2>2, <2>3
<1>5. n = 0 \/ n = 1 \/ n = 2 \/ n = 3
  OBVIOUS
<1> QED
  BY <1>1, <1>2, <1>3, <1>4, <1>5

\* A sequence whose last element comes first
LEMMA LastFirst ==
  ASSUME NEW T, NEW q \in Seq(T), NEW m \in T, NEW r \in Seq(T),
         Turned(r, Append(q, m), Len(q))
  PROVE  r = <<m>> \o q
<1> DEFINE p == Append(q, m)
           h == <<m>>
<1>1. Len(q) \in Nat /\ h \in Seq(T) /\ Len(h) = 1 /\ h[1] = m
  BY LenProperties
<1>2. Len(p) = Len(q) + 1 /\ p[Len(q) + 1] = m /\ \A i \in 1..Len(q) : p[i] = q[i]
  BY AppendProperties
<1>3. Len(r) = Len(p) /\ \A i \in 1..Len(p) :
        r[i] = IF i + Len(q) <= Len(p) THEN p[i + Len(q)] ELSE p[i + Len(q) - Len(p)]
  BY DEF Turned
<1> HIDE DEF p, h
<1>4. /\ h \o q \in Seq(T) /\ Len(h \o q) = Len(h) + Len(q)
      /\ \A i \in 1..(Len(h) + Len(q)) : (h \o q)[i] = IF i <= Len(h) THEN h[i] ELSE q[i - Len(h)]
  BY <1>1, ConcatProperties
<1>5. ASSUME NEW i \in 1..Len(r) PROVE r[i] = (h \o q)[i]
  <2>1. CASE i = 1
    BY <1>1, <1>2, <1>3, <1>4, <2>1
  <2>2. CASE i # 1
    <3>1. /\ i \in 1..Len(p) /\ i \in 1..(Len(h) + Len(q)) /\ ~(i <= Len(h))
          /\ ~(i + Len(q) <= Len(p)) /\ i + Len(q) - Len(p) = i - 1 /\ i - Len(h) = i - 1
          /\ i - 1 \in 1..Len(q)
      BY <1>1, <1>2, <1>3, <2>2
    <3> QED
      BY <1>2, <1>3, <1>4, <3>1
  <2> QED
    BY <2>1, <2>2
<1>6. r = h \o q
  BY <1>1, <1>2, <1>3, <1>4, <1>5, SeqEqual
<1> QED
  BY <1>6 DEF h

LEMMA Stubbed ==
  ASSUME NEW T, NEW q \in Seq(T), NEW m \in T, Len(q) \in 0..3
  PROVE  method_stub(q, m) = <<m>> \o q
<1>1. Append(q, m) \in Seq(T) /\ Len(Append(q, m)) = Len(q) + 1
  BY AppendProperties
<1>2. Len(q) <= Len(Append(q, m))
  BY <1>1
<1>3. /\ method_stub(q, m) \in Seq(T)
      /\ Turned(method_stub(q, m), Append(q, m), Len(q))
  BY <1>1, <1>2, RotatedTurns DEF method_stub
<1> QED
  BY <1>3, LastFirst

LEMMA Constructed ==
  ASSUME NEW T, NEW q \in Seq(T), NEW m \in T, Len(q) \in 1..3
  PROVE  construct(q, m) = <<m>> \o Tail(q)
<1>1. Tail(q) \in Seq(T) /\ Len(Tail(q)) = Len(q) - 1
  BY EmptySeq, HeadTailProperties
<1>2. Append(Tail(q), m) \in Seq(T) /\ Len(Append(Tail(q), m)) = Len(Tail(q)) + 1
  BY <1>1, AppendProperties
<1>3. Len(q) - 1 \in 0..3 /\ Len(q) - 1 <= Len(Append(Tail(q), m))
  BY <1>1, <1>2
<1>4. construct(q, m) \in Seq(T) /\ Turned(construct(q, m), Append(Tail(q), m), Len(Tail(q)))
  BY <1>1, <1>2, <1>3, RotatedTurns DEF construct
<1> QED
  BY <1>1, <1>4, LastFirst

LEMMA Indexed ==
  ASSUME NEW T, NEW q \in Seq(T), NEW m \in T, Len(q) >= 2,
         NEW top, top = Tail(Tail(Append(Append(q, m), q[1])))
  PROVE  /\ top \in Seq(T) /\ Len(top) = Len(q) /\ top[Len(q)] = q[1]
         /\ top[Len(q) - 1] = m /\ \A i \in 1..(Len(q) - 2) : top[i] = q[i + 2]
<1> DEFINE n  == Len(q)
           x  == q[1]
           p1 == Append(q, m)
           p2 == Append(p1, x)
           p3 == Tail(p2)
           p4 == Tail(p3)
<1>1. n \in Nat /\ x \in T
  BY LenProperties
<1>2. /\ p1 \in Seq(T) /\ Len(p1) = n + 1 /\ p1[n + 1] = m
      /\ \A i \in 1..n : p1[i] = q[i]
  BY AppendProperties
<1> HIDE DEF p1
<1>3. /\ p2 \in Seq(T) /\ Len(p2) = n + 2 /\ p2[n + 2] = x /\ p2[n + 1] = m
      /\ \A i \in 1..n : p2[i] = q[i]
  <2>1. /\ p2 \in Seq(T) /\ Len(p2) = Len(p1) + 1 /\ p2[Len(p1) + 1] = x
        /\ \A i \in 1..Len(p1) : p2[i] = p1[i]
    BY <1>1, <1>2, AppendProperties
  <2> HIDE DEF p2, x
  <2> QED
    BY <1>1, <1>2, <2>1
<1> HIDE DEF p2, x
<1>4. p2 # <<>>
  BY <1>1, <1>3, EmptySeq
<1>5. p3 \in Seq(T) /\ Len(p3) = n + 1 /\ \A i \in 1..(n + 1) : p3[i] = p2[i + 1]
  <2>1. p3 \in Seq(T) /\ Len(p3) = Len(p2) - 1 /\ \A i \in 1..Len(p3) : p3[i] = p2[i + 1]
    BY <1>3, <1>4, HeadTailProperties
  <2> HIDE DEF p3
  <2> QED
    BY <1>1, <1>3, <2>1
<1> HIDE DEF p3
<1>6. p3 # <<>>
  BY <1>1, <1>5, EmptySeq
<1>7. p4 \in Seq(T) /\ Len(p4) = n /\ \A i \in 1..n : p4[i] = p3[i + 1]
  <2>1. p4 \in Seq(T) /\ Len(p4) = Len(p3) - 1 /\ \A i \in 1..Len(p4) : p4[i] = p3[i + 1]
    BY <1>5, <1>6, HeadTailProperties
  <2> HIDE DEF p4
  <2> QED
    BY <1>1, <1>5, <2>1
<1> HIDE DEF p4, n
<1>8. \A i \in 1..n : i + 1 \in 1..(n + 1) /\ (i + 1) + 1 = i + 2
  BY <1>1
<1>9. \A i \in 1..n : p4[i] = p2[i + 2]
  BY <1>5, <1>7, <1>8
<1>10. p4[n] = x /\ p4[n - 1] = m /\ \A i \in 1..(n - 2) : p4[i] = q[i + 2]
  <2>1. n \in 1..n /\ n - 1 \in 1..n /\ (n - 1) + 2 = n + 1
    BY <1>1 DEF n
  <2>2. \A i \in 1..(n - 2) : i \in 1..n /\ i + 2 \in 1..n
    BY <1>1
  <2> QED
    BY <1>3, <1>9, <2>1, <2>2
<1> QED
  BY <1>7, <1>10 DEF n, x, p1, p2, p3, p4

LEMMA Pushed ==
  ASSUME NEW T, NEW q \in Seq(T), NEW m \in T
  PROVE  Tail(<<m>> \o q) = q
<1> DEFINE h == <<m>>
           p == h \o q
<1>1. Len(q) \in Nat /\ h \in Seq(T) /\ Len(h) = 1 /\ h[1] = m
  BY LenProperties
<1> HIDE DEF h
<1>2. /\ p \in Seq(T) /\ Len(p) = Len(q) + 1
      /\ \A i \in 1..(Len(h) + Len(q)) : p[i] = IF i <= Len(h) THEN h[i] ELSE q[i - Len(h)]
  BY <1>1, ConcatProperties
<1> HIDE DEF p
<1>3. p # <<>>
  BY <1>1, <1>2, EmptySeq
<1>4. Tail(p) \in Seq(T) /\ Len(Tail(p)) = Len(p) - 1 /\ \A i \in 1..Len(Tail(p)) : Tail(p)[i] = p[i + 1]
  BY <1>2, <1>3, HeadTailProperties
<1>5. ASSUME NEW i \in 1..Len(q) PROVE Tail(p)[i] = q[i]
  <2>1. i + 1 \in 1..(Len(h) + Len(q)) /\ ~(i + 1 <= Len(h)) /\ i + 1 - Len(h) = i
    BY <1>1
  <2>2. i \in 1..Len(Tail(p))
    BY <1>1, <1>2, <1>4
  <2> QED
    BY <1>2, <1>4, <2>1, <2>2
<1>6. Tail(p) = q
  BY <1>1, <1>2, <1>4, <1>5, SeqEqual
<1> QED
  BY <1>6 DEF p, h

-----------------------------------------------------------------------------
(* The script, continued: a call with an argument that is no variant       *)

LEMMA CallFailsOk ==
  ASSUME Inv, NEW stack \in Seq(Slots \union {Table}), Len(stack) \in 1..3,
         stack[Len(stack)] = Table, CallFails(stack)
  PROVE  Inv'
<1> DEFINE T == Slots \union {Table, Callee}
           n == CHOOSE k \in 1..Len(stack) : stack[k] = Table /\ \A j \in 1..(k - 1) : stack[j] # Table
<1>1. /\ Runs /\ \A k \in 1..(Len(stack) - 1) : Holds(stack[k], {"own", "view", "string"})
      /\ leaked' = leaked \union LeakedBy(Tail(method_stub(stack, Callee)))
      /\ UNCHANGED <<ud, roots, kept, call, env>>
      /\ Settle(alive, handler, registry, {}, {}, {})
  BY DEF CallFails, Settled
<1>2. LeakedBy(Tail(method_stub(stack, Callee))) = LeakedBy(stack)
  <2>1. Seq(Slots \union {Table}) \subseteq Seq(T)
    BY SeqMonotonic
  <2>2. stack \in Seq(T) /\ Callee \in T
    BY <2>1
  <2>3. Len(stack) \in 0..3
    OBVIOUS
  <2> HIDE DEF T
  <2>4. method_stub(stack, Callee) = <<Callee>> \o stack
    BY <2>2, <2>3, Stubbed
  <2>5. Tail(<<Callee>> \o stack) = stack
    BY <2>2, Pushed
  <2> QED
    BY <2>4, <2>5
<1>3. \A k \in 1..(Len(stack) - 1) : stack[k] \in Slots /\ (ud[stack[k]].is = "own" => ud[stack[k]].of \in alive)
  BY <1>1, HoldsKnown DEF Holds, Owning
<1>4. n \in 1..Len(stack)
  <2>1. \A k \in 1..(Len(stack) - 1) : stack[k] # Table
    BY <1>3 DEF Slots, Table
  <2>2. \E k \in 1..Len(stack) : stack[k] = Table /\ \A j \in 1..(k - 1) : stack[j] # Table
    BY <2>1
  <2> QED
    BY <2>2
<1>5. LeakedBy(stack) = {ud[stack[k]].of : k \in {j \in 1..(n - 1) : ud[stack[j]].is = "own"}}
  BY Zenon DEF LeakedBy
<1> HIDE DEF n
<1>6. \A k \in 1..(n - 1) : k \in 1..(Len(stack) - 1)
  BY <1>4
<1>7. LeakedBy(stack) \subseteq alive
  BY <1>3, <1>5, <1>6
<1>8. /\ call' \in CallRecord /\ (call' # NoCall => call'.obj \in alive /\ handler[call'.obj] # None)
      /\ \A q \in Locals(call') : q \in alive /\ Known(q, kept, ud, call)
      /\ call'.replaced => "replaced" \in misuse
  BY <1>1, SameCall DEF Runs
<1>9. leaked \subseteq leaked' /\ leaked' \subseteq alive
  BY <1>1, <1>2, <1>7, Typing DEF Runs
<1> QED
  BY <1>1, <1>8, <1>9, Typing, NoPutStep DEF Runs, env

-----------------------------------------------------------------------------
(* Handlers                                                                 *)

LEMMA EnterOk ==
  ASSUME Inv, fault = None, NEW o \in Stubs, o \in alive, NEW by \in {"script", "program"},
         NEW t \in Slots, NEW arg \in Plain \union {None}, Enter(o, by, t, arg),
         closed => o \in kept /\ arg = None, Known(o, kept, ud, call),
         arg # None => arg \in alive /\ Known(arg, kept, ud, call)
  PROVE  Inv'
<1> DEFINE fs == Bad(o, handler[o])
<1>0. /\ call = NoCall /\ handler[o] # None /\ call' = [obj |-> o, by |-> by, replaced |-> FALSE,
                                                         arg |-> IF by = "script" THEN arg ELSE None]
      /\ IF arg = None THEN UNCHANGED <<ud, roots>> ELSE Put(t, "view", arg)
  BY DEF Enter
<1>1. UNCHANGED <<kept, leaked, env>> /\ Settle(alive, handler, registry, {}, fs, {})
  BY DEF Enter, Settled
<1>2. fs \subseteq misuse
  BY HandlerAnnounced
<1>3. closed => fs # {}
  BY <1>0 DEF Bad
<1>4. /\ call' \in CallRecord /\ (call' # NoCall => call'.obj \in alive /\ handler[call'.obj] # None)
      /\ \A q \in Locals(call') : q \in alive /\ Known(q, kept, ud, call)
      /\ call'.replaced => "replaced" \in misuse
  BY <1>0 DEF CallRecord, Locals
<1> HIDE DEF fs
<1>5. CASE arg = None
  <2>1. ud' = ud /\ roots' = roots /\ UNCHANGED <<kept, leaked, env>>
    BY <1>0, <1>1, <1>5
  <2> QED
    BY <1>1, <1>2, <1>3, <1>4, <2>1, Typing, NoPutStep DEF env
<1>6. CASE arg # None
  <2>1. /\ Put(t, "view", arg) /\ Runs /\ arg \in Objects /\ "view" \notin Owning
        /\ Known(arg, kept, ud, call) /\ UNCHANGED <<kept, leaked, env>>
    BY <1>0, <1>1, <1>6 DEF Runs, Objects, Owning
  <2> QED
    BY <1>1, <1>2, <1>4, <2>1, PutStep
<1> QED
  BY <1>5, <1>6

LEMMA CallStubOk ==
  ASSUME Inv, NEW s \in Slots, NEW t \in Slots, NEW arg \in Plain \union {None}, CallStub(s, t, arg)
  PROVE  Inv'
<1>1. /\ Runs /\ fault = None /\ ~closed /\ Holds(s, {"own"}) /\ ud[s].of \in Stubs
      /\ Enter(ud[s].of, "script", t, arg)
  BY DEF CallStub, Runs
<1>2. ud[s].of \in alive /\ Known(ud[s].of, kept, ud, call)
  BY <1>1, HoldsKnown DEF Holds, Owning
<1>3. ASSUME arg # None PROVE arg \in alive /\ Known(arg, kept, ud, call)
  <2>1. PICK q \in Slots : q \in AtHand /\ ud[q].of = arg /\ ud[q].is \in Owning
    BY <1>3 DEF CallStub, Owners, Owning
  <2>2. q \in Reachable
    BY <1>1, <2>1, AtHandReachable
  <2> QED
    BY <1>1, <2>1, <2>2 DEF Inv, HeapTrue, Known
<1> QED
  BY <1>1, <1>2, <1>3, EnterOk

LEMMA ProgramCallsOk ==
  ASSUME Inv, NEW o \in Stubs, NEW t \in Slots, NEW arg \in Plain \union {None}, ProgramCalls(o, t, arg)
  PROVE  Inv'
<1>1. /\ fault = None /\ o \in kept /\ Enter(o, "program", t, arg)
      /\ arg # None => arg \in kept /\ ~closed
  BY DEF ProgramCalls
<1>2. kept \subseteq alive /\ Known(o, kept, ud, call)
  BY <1>1, Typing
<1>3. arg # None => arg \in alive /\ Known(arg, kept, ud, call)
  BY <1>1, <1>2 DEF Known
<1> QED
  BY <1>1, <1>2, <1>3, EnterOk

LEMMA ReturnOk ==
  ASSUME Inv, NEW result \in {"value", "error", "table"}, Return(result)
  PROVE  Inv'
<1> DEFINE ends == EndsIn(result)
<1>1. /\ Runs /\ call # NoCall /\ call' = NoCall
      /\ leaked' = IF result = "table" /\ ends = {} THEN leaked \union Locals(call) ELSE leaked
      /\ garbage' = IF call.by = "program" /\ ~traceback /\ ends = {} THEN garbage + 1 ELSE garbage
      /\ UNCHANGED <<ud, roots, kept, coroutine, lib, closed, traceback>>
      /\ Settle(alive, handler, registry, {}, ends, ends \cap {"panic"})
  BY DEF Return, Settled
<1>2. call.obj \in alive /\ Locals(call) \subseteq alive
  BY <1>1 DEF Inv, Runs, HeapTrue
<1>3. ends \subseteq misuse \union (ends \cap {"panic"}) /\ ends \cap {"panic"} \subseteq Faults
  <2>1. WrapperGone => "replaced" \in misuse
    BY <1>1, <1>2 DEF WrapperGone, Inv, Runs, Announced
  <2>2. ~traceback => "stack" \in misuse
    BY <1>1 DEF Inv, Runs, Announced
  <2> QED
    BY <2>1, <2>2 DEF EndsIn, Faults
<1>4. garbage' \in 0..MaxGarbage
  <2>1. garbage \in 0..MaxGarbage /\ MaxGarbage \in Nat
    BY <1>1, Typing, LuaBindingAssumption DEF Runs
  <2>2. CASE call.by = "program" /\ ~traceback /\ ends = {}
    <3>1. garbage # MaxGarbage
      BY <2>2 DEF EndsIn
    <3>2. garbage' = garbage + 1
      BY <1>1, <2>2
    <3> QED
      BY <2>1, <3>1, <3>2
  <2>3. CASE ~(call.by = "program" /\ ~traceback /\ ends = {})
    BY <1>1, <2>1, <2>3
  <2> QED
    BY <2>2, <2>3
<1>5. leaked \subseteq leaked' /\ leaked' \subseteq alive
  BY <1>1, <1>2, Typing DEF Runs
<1>6. call' \in CallRecord /\ call' = NoCall /\ ~call'.replaced /\ Locals(call') = {}
  BY <1>1 DEF CallRecord, NoCall, Locals
<1> HIDE DEF ends
<1> QED
  BY <1>1, <1>3, <1>4, <1>5, <1>6, Typing, NoPutStep DEF Runs

-----------------------------------------------------------------------------
(* The C++ program                                                          *)

LEMMA ProgramKeepsOk ==
  ASSUME Inv, NEW s \in Slots, ProgramKeeps(s)
  PROVE  Inv'
<1>1. /\ Runs /\ Holds(s, {"own"}) /\ kept' = kept \union {ud[s].of}
      /\ UNCHANGED <<ud, roots, leaked, call, env>>
      /\ Settle(alive, handler, registry, {}, {}, {})
  BY DEF ProgramKeeps, Settled
<1>2. ud[s].of \in alive /\ Known(ud[s].of, kept, ud, call)
  BY <1>1, HoldsKnown DEF Holds, Owning
<1>3. kept' \subseteq alive /\ \A o \in kept' : Known(o, kept, ud, call)
  BY <1>1, <1>2, Typing DEF Runs
<1>4. /\ call' \in CallRecord /\ (call' # NoCall => call'.obj \in alive /\ handler[call'.obj] # None)
      /\ \A q \in Locals(call') : q \in alive /\ Known(q, kept, ud, call)
      /\ call'.replaced => "replaced" \in misuse
  BY <1>1, SameCall DEF Runs
<1> QED
  BY <1>1, <1>3, <1>4, Typing, NoPutStep DEF Runs, env

LEMMA ProgramDropsOk ==
  ASSUME Inv, NEW o, ProgramDrops(o)
  PROVE  Inv'
<1>1. /\ fault = None /\ kept' \subseteq kept
      /\ UNCHANGED <<ud, roots, leaked, call, env>>
      /\ Settle(alive, handler, registry, {}, {}, {})
  BY DEF ProgramDrops, Settled
<1>2. /\ call' \in CallRecord /\ (call' # NoCall => call'.obj \in alive /\ handler[call'.obj] # None)
      /\ \A q \in Locals(call') : q \in alive /\ Known(q, kept, ud, call)
      /\ call'.replaced => "replaced" \in misuse
  BY <1>1, SameCall
<1>3. kept' \subseteq alive /\ \A q \in kept' : Known(q, kept, ud, call)
  BY <1>1, Typing
<1> QED
  BY <1>1, <1>2, <1>3, Typing, NoPutStep DEF env

-----------------------------------------------------------------------------
(* Coroutine, library, debug.traceback                                      *)

LEMMA EnvStep ==
  ASSUME Inv, Runs, UNCHANGED heap, UNCHANGED <<closed, garbage>>, NEW ms, ms \subseteq Faults,
         Settle(alive, handler, registry, {}, {}, ms),
         coroutine' \in {"none", "held", "lost", "gone"}, lib' \in {"held", "lost", "unloaded"},
         traceback' \in BOOLEAN, ~traceback' => "stack" \in misuse \union ms,
         coroutine' \in {"lost", "gone"} =>
           \A o \in Stubs : handler[o] # None /\ handler[o].thread = "coroutine" =>
             "coroutine" \in misuse \union ms,
         lib' # "held" => \A o \in alive \cap LibObjects :
           Known(o, kept, ud, call) => "unloaded" \in misuse \union ms
  PROVE  Inv'
<1>1. /\ ud' = ud /\ roots' = roots /\ kept' = kept /\ leaked' = leaked /\ call' = call
      /\ closed' = FALSE /\ garbage' = garbage /\ fault = None
  BY DEF heap, Runs, Inv, Typed
<1>2. Prepared(alive, handler, registry, {})
  <2>1. Typed /\ HeapTrue /\ HandlersTrue
    BY <1>1 DEF Inv
  <2> QED
    BY <1>1, <2>1 DEF Prepared, Typed, HeapTrue, HandlersTrue, Runs
<1>3. Steady(alive, handler, ms)
  BY <1>1 DEF Steady
<1>4. WillBeAnnounced(alive, handler, registry, {}, ms)
  <2>1. call'.replaced => "replaced" \in misuse \union ms
    BY <1>1 DEF Inv, Announced
  <2>2. \A s \in Slots : ud'[s].is = "ended" => "ended" \in misuse \union ms
    BY <1>1 DEF Inv, HeapTrue
  <2> QED
    BY <1>1, <2>1, <2>2 DEF WillBeAnnounced
<1> QED
  BY <1>1, <1>2, <1>3, <1>4, SettleStep

LEMMA CoroutineOk ==
  ASSUME Inv, NEW before, NEW after \in {"held", "lost", "gone"}, NEW ms, ms \subseteq Faults,
         Coroutine(before, after, ms),
         after \in {"lost", "gone"} =>
           \A o \in Stubs : handler[o] # None /\ handler[o].thread = "coroutine" =>
             "coroutine" \in misuse \union ms
  PROVE  Inv'
<1>1. /\ Runs /\ UNCHANGED heap /\ UNCHANGED <<closed, garbage>>
      /\ coroutine' = after /\ lib' = lib /\ traceback' = traceback
      /\ Settle(alive, handler, registry, {}, {}, ms)
  BY DEF Coroutine, Settled
<1>2. /\ lib' \in {"held", "lost", "unloaded"} /\ traceback' \in BOOLEAN
      /\ ~traceback' => "stack" \in misuse \union ms
      /\ lib' # "held" => \A o \in alive \cap LibObjects :
           Known(o, kept, ud, call) => "unloaded" \in misuse \union ms
  BY <1>1 DEF Inv, Typed, Announced, Runs
<1> QED
  BY <1>1, <1>2, EnvStep

LEMMA CoroutinesOk ==
  ASSUME Inv, CreateCoroutine \/ DropCoroutine \/ CollectCoroutine
  PROVE  Inv'
<1>1. ASSUME CreateCoroutine PROVE Inv'
  BY <1>1, CoroutineOk DEF CreateCoroutine
<1>2. ASSUME DropCoroutine PROVE Inv'
  <2> DEFINE ms == IF \E o \in Stubs : handler[o] # None /\ handler[o].thread = "coroutine"
                     THEN {"coroutine"} ELSE {}
  <2>1. /\ Coroutine("held", "lost", ms) /\ ms \subseteq Faults
        /\ \A o \in Stubs : handler[o] # None /\ handler[o].thread = "coroutine" => "coroutine" \in misuse \union ms
    BY <1>2 DEF DropCoroutine, Faults
  <2> HIDE DEF ms
  <2> QED
    BY <2>1, CoroutineOk
<1>3. ASSUME CollectCoroutine PROVE Inv'
  <2>1. Coroutine("lost", "gone", {})
    BY <1>3 DEF CollectCoroutine
  <2>2. \A o \in Stubs : handler[o] # None /\ handler[o].thread = "coroutine" => "coroutine" \in misuse
    BY <2>1 DEF Coroutine, Runs, Inv, Announced
  <2> QED
    BY <2>1, <2>2, CoroutineOk
<1> QED
  BY <1>1, <1>2, <1>3

LEMMA LibraryOk ==
  ASSUME Inv, NEW before, NEW after \in {"lost", "unloaded"}, NEW slots, Library(before, after, slots),
         \A o \in alive \cap LibObjects :
           Known(o, kept, ud, call) => LibInUse(slots) \/ "unloaded" \in misuse
  PROVE  Inv'
<1> DEFINE ms == IF LibInUse(slots) THEN {"unloaded"} ELSE {}
<1>1. /\ Runs /\ UNCHANGED heap /\ UNCHANGED <<closed, garbage>>
      /\ coroutine' = coroutine /\ lib' = after /\ traceback' = traceback
      /\ Settle(alive, handler, registry, {}, {}, ms)
  BY DEF Library, Settled
<1>2. /\ coroutine' \in {"none", "held", "lost", "gone"} /\ traceback' \in BOOLEAN
      /\ ~traceback' => "stack" \in misuse \union ms
      /\ coroutine' \in {"lost", "gone"} =>
           \A o \in Stubs : handler[o] # None /\ handler[o].thread = "coroutine" =>
             "coroutine" \in misuse \union ms
  BY <1>1 DEF Inv, Typed, Announced, Runs
<1>3. ms \subseteq Faults
  BY DEF Faults
<1>4. \A o \in alive \cap LibObjects : Known(o, kept, ud, call) => "unloaded" \in misuse \union ms
  BY <1>1
<1> HIDE DEF ms
<1> QED
  BY <1>1, <1>2, <1>3, <1>4, EnvStep

LEMMA LibrariesOk ==
  ASSUME Inv, DropLibrary \/ close \/ CollectLibrary
  PROVE  Inv'
<1>1. \A o \in alive \cap LibObjects : Known(o, kept, ud, call) => LibInUse(Slots)
  BY DEF Known, LibInUse
<1>2. ASSUME DropLibrary PROVE Inv'
  BY <1>1, <1>2, LibraryOk DEF DropLibrary
<1>3. ASSUME close PROVE Inv'
  BY <1>1, <1>3, LibraryOk DEF close
<1>4. ASSUME CollectLibrary PROVE Inv'
  <2>1. Library("lost", "unloaded", {})
    BY <1>4 DEF CollectLibrary
  <2>2. \A o \in alive \cap LibObjects : Known(o, kept, ud, call) => "unloaded" \in misuse
    BY <2>1 DEF Library, Runs, Inv, Announced
  <2> QED
    BY <2>1, <2>2, LibraryOk
<1> QED
  BY <1>2, <1>3, <1>4

LEMMA ReplaceTracebackOk ==
  ASSUME Inv, ReplaceTraceback
  PROVE  Inv'
<1>1. /\ Runs /\ UNCHANGED heap /\ UNCHANGED <<closed, garbage>>
      /\ coroutine' = coroutine /\ lib' = lib /\ traceback' = FALSE
      /\ Settle(alive, handler, registry, {}, {}, {"stack"}) /\ {"stack"} \subseteq Faults
  BY DEF ReplaceTraceback, Settled, Faults
<1>2. /\ coroutine' \in {"none", "held", "lost", "gone"} /\ lib' \in {"held", "lost", "unloaded"}
      /\ coroutine' \in {"lost", "gone"} =>
           \A o \in Stubs : handler[o] # None /\ handler[o].thread = "coroutine" =>
             "coroutine" \in misuse \union {"stack"}
      /\ lib' # "held" => \A o \in alive \cap LibObjects :
           Known(o, kept, ud, call) => "unloaded" \in misuse \union {"stack"}
  BY <1>1 DEF Inv, Typed, Announced, Runs
<1>3. traceback' \in BOOLEAN /\ "stack" \in misuse \union {"stack"}
  BY <1>1
<1> QED
  BY <1>1, <1>2, <1>3, EnvStep

\* lua_close
LEMMA CloseOk ==
  ASSUME Inv, Close
  PROVE  Inv'
<1> DEFINE ms == {m \in {"closed", "unloaded"} :
                    \/ m = "closed" /\ \E o \in kept \cap Stubs : handler[o] # None
                    \/ m = "unloaded" /\ kept \cap LibObjects # {}}
<1>1. /\ Runs /\ fault = None /\ ~closed /\ call = NoCall /\ call' = NoCall
      /\ ud' = [s \in Slots |-> Free] /\ roots' = {} /\ lib' = "unloaded" /\ closed' = TRUE
      /\ kept' = kept /\ leaked' = leaked /\ coroutine' = coroutine /\ traceback' = traceback
      /\ garbage' = garbage /\ Settle(alive, handler, registry, {}, EndedTwice(Slots), ms)
  BY DEF Close, Settled, Runs
<1>2. \A s \in Slots : ud'[s] = Free /\ ud'[s].is = "free" /\ ud'[s].of = None
  BY <1>1 DEF Free
<1>3. Prepared(alive, handler, registry, {})
  <2>1. Typed /\ HeapTrue /\ HandlersTrue
    BY <1>1 DEF Inv
  <2>2. ud' \in [Slots -> Userdata]
    BY <1>1 DEF Free, Userdata
  <2>3. "free" \notin Owning /\ "free" # "proxy" /\ call' \in CallRecord /\ Locals(call') = {}
    BY <1>1, <2>1 DEF Owning, Typed, Locals, NoCall
  <2> QED
    BY <1>1, <1>2, <2>1, <2>2, <2>3 DEF Prepared, Typed, HeapTrue, HandlersTrue
<1>4. Steady(alive, handler, ms)
  BY <1>1 DEF Steady
<1>5. WillBeAnnounced(alive, handler, registry, EndedTwice(Slots), ms)
  <2>1. ms \subseteq Faults /\ EndedTwice(Slots) \subseteq misuse
    BY <1>1 DEF Faults, EndedTwice, Ended, Inv, HeapTrue
  <2>2. call'.replaced = FALSE
    BY <1>1 DEF NoCall
  <2>3. /\ ~traceback' => "stack" \in misuse \union ms
        /\ coroutine' \in {"lost", "gone"} =>
             \A o \in Stubs : handler[o] # None /\ handler[o].thread = "coroutine" =>
               "coroutine" \in misuse \union ms
    BY <1>1 DEF Inv, Announced
  <2>4. \A o \in kept' \cap Stubs : handler[o] # None => "closed" \in misuse \union ms
    BY <1>1
  <2>5. ASSUME NEW o \in alive \cap LibObjects, Known(o, kept', ud', call')
        PROVE  "unloaded" \in misuse \union ms
    <3>1. o # None /\ Locals(call') = {}
      BY <1>1, LuaBindingAssumption DEF Objects, Locals, NoCall
    <3>2. o \in kept
      BY <1>1, <1>2, <2>5, <3>1 DEF Known
    <3> QED
      BY <3>2
  <2> HIDE DEF ms
  <2> QED
    BY <1>1, <1>2, <2>1, <2>2, <2>3, <2>4, <2>5 DEF WillBeAnnounced
<1> HIDE DEF ms
<1> QED
  BY <1>1, <1>3, <1>4, <1>5, SettleStep

-----------------------------------------------------------------------------
(* The registry                                                             *)

\* luaL_ref and luaL_unref, when the handler of stub o is replaced
LEMMA Replaced ==
  ASSUME Paired(handler, registry, {}), handler \in [Stubs -> Wrapper \union {None}],
         registry \in [Refs -> {Empty} \union SUBSET Slots],
         NEW o \in Stubs, NEW r \in Refs, registry[r] = Empty,
         NEW w \in Wrapper, w.ref = r, NEW C \in SUBSET Slots,
         NEW wr, wr = [handler EXCEPT ![o] = w], NEW reg, reg = [registry EXCEPT ![r] = C]
  PROVE  Paired(wr, reg, {handler[o]} \ {None})
<1>1. C # Empty /\ w # None
  BY LuaBindingAssumption DEF Empty
<1>2. wr[o] = w /\ \A q \in Stubs \ {o} : wr[q] = handler[q]
  OBVIOUS
<1>3. reg[r] = C /\ \A x \in Refs \ {r} : reg[x] = registry[x]
  OBVIOUS
<1>4. \A q \in Stubs : handler[q] # None =>
        handler[q].ref \in Refs /\ handler[q].ref # r /\ registry[handler[q].ref] # Empty
  BY DEF Paired, Wrapper
<1>5. ASSUME NEW q \in Stubs, wr[q] # None
      PROVE  reg[wr[q].ref] # Empty /\ \A g \in {handler[o]} \ {None} : g.ref # wr[q].ref
  <2>1. CASE q = o
    BY <1>1, <1>2, <1>3, <1>4, <2>1
  <2>2. CASE q # o
    BY <1>2, <1>3, <1>4, <1>5, <2>2 DEF Paired
  <2> QED
    BY <2>1, <2>2
<1>6. ASSUME NEW q \in Stubs, NEW p \in Stubs, wr[q] # None, wr[p] # None, wr[q].ref = wr[p].ref
      PROVE  q = p
  BY <1>2, <1>4, <1>6 DEF Paired
<1>7. ASSUME NEW x \in Refs, reg[x] # Empty
      PROVE  \/ \E q \in Stubs : wr[q] # None /\ wr[q].ref = x
             \/ \E g \in {handler[o]} \ {None} : g.ref = x
  <2>1. CASE x = r
    BY <1>1, <1>2, <2>1
  <2>2. CASE x # r
    <3>1. PICK q \in Stubs : handler[q] # None /\ handler[q].ref = x
      BY <1>3, <1>7, <2>2 DEF Paired
    <3> QED
      BY <1>2, <3>1
  <2> QED
    BY <2>1, <2>2
<1> QED
  BY <1>5, <1>6, <1>7 DEF Paired

LEMMA addImplementationOk ==
  ASSUME Inv, NEW s \in Slots, NEW C \in SUBSET Slots, NEW thread \in {"main", "coroutine"},
         addImplementation(s, C, thread)
  PROVE  Inv'
<1> DEFINE o    == ud[s].of
           old  == handler[o]
           runs == call.obj = o /\ ~call.replaced
           ms   == IF runs THEN {"replaced"} ELSE {}
<1>1. /\ Runs /\ fault = None /\ ~closed /\ Holds(s, {"proxy"}) /\ C \subseteq AtHand
      /\ thread = "coroutine" => coroutine = "held"
  BY DEF addImplementation, Runs
<1>2. PICK r \in Refs :
        /\ registry[r] = Empty
        /\ roots' = IF runs THEN roots \union registry[old.ref] ELSE roots
        /\ call' = [call EXCEPT !.replaced = @ \/ runs]
        /\ UNCHANGED <<ud, kept, leaked, env>>
        /\ Settle(alive, [handler EXCEPT ![o] = [ref |-> r, thread |-> thread]],
                  [registry EXCEPT ![r] = C], {old} \ {None}, Bad(o, old), ms)
  BY DEF addImplementation
<1> DEFINE w    == [ref |-> r, thread |-> thread]
           wr   == [handler EXCEPT ![o] = w]
           reg  == [registry EXCEPT ![r] = C]
           gone == {old} \ {None}
           fs   == Bad(o, old)
<1>3. Typed /\ HeapTrue /\ HandlersTrue /\ Announced
  BY <1>1 DEF Inv
<1>4. o \in Stubs /\ o \in alive /\ w \in Wrapper /\ w # None /\ w.thread = thread
  <2>1. o \in Stubs
    BY <1>1, <1>3 DEF Holds, HeapTrue
  <2>2. o \in alive
    BY <1>1, HoldsKnown DEF Holds, Owning
  <2>3. w \in Wrapper
    BY DEF Wrapper
  <2> QED
    BY <2>1, <2>2, <2>3, LuaBindingAssumption
<1>5. wr[o] = w /\ (\A q \in Stubs \ {o} : wr[q] = handler[q]) /\ wr \in [Stubs -> Wrapper \union {None}]
  BY <1>3, <1>4 DEF Typed
<1>6. reg \in [Refs -> {Empty} \union SUBSET Slots] /\ reg[r] = C
      /\ \A x \in Refs \ {r} : reg[x] = registry[x]
  BY <1>3 DEF Typed
<1>7. runs => old # None /\ registry[old.ref] # Empty /\ old.ref \in Refs
  <2>1. runs => call # NoCall
    BY <1>4, LuaBindingAssumption DEF NoCall, Objects
  <2>2. runs => old # None
    BY <1>3, <2>1 DEF HandlersTrue
  <2> QED
    BY <1>1, <1>3, <1>4, <2>2 DEF HandlersTrue, Paired, Typed, Wrapper
<1>8. Paired(wr, reg, gone)
  BY <1>1, <1>2, <1>3, <1>4, Replaced DEF HandlersTrue, Typed
<1>9. /\ call' \in CallRecord /\ call'.obj = call.obj /\ call'.arg = call.arg
      /\ (call'.replaced <=> call.replaced \/ runs)
      /\ (call' = NoCall <=> call = NoCall)
  <2>1. call \in CallRecord
    BY <1>3 DEF Typed
  <2>2. call' = [obj |-> call.obj, by |-> call.by, arg |-> call.arg, replaced |-> (call.replaced \/ runs)]
    BY <1>2, <2>1 DEF CallRecord
  <2>3. (call.replaced \/ runs) \in BOOLEAN
    BY <2>1 DEF CallRecord
  <2>4. call = NoCall => call.obj # o /\ ~call.replaced
    BY <1>4, LuaBindingAssumption DEF NoCall, Objects
  <2>5. call = [obj |-> call.obj, by |-> call.by, arg |-> call.arg, replaced |-> call.replaced]
    BY <2>1 DEF CallRecord
  <2>6. runs => call # NoCall /\ call'.obj # None
    BY <1>4, <2>2, <2>4, LuaBindingAssumption DEF Objects
  <2>7. call' \in CallRecord /\ call'.obj = call.obj /\ call'.arg = call.arg
        /\ (call'.replaced <=> call.replaced \/ runs)
    BY <2>1, <2>2, <2>3 DEF CallRecord
  <2>8. CASE runs
    BY <2>6, <2>7, <2>8 DEF NoCall
  <2>9. CASE ~runs
    <3>1. (call.replaced \/ runs) = call.replaced
      BY <2>1, <2>9 DEF CallRecord
    <3>2. call' = call
      BY <2>2, <2>5, <3>1
    <3> QED
      BY <2>7, <3>2
  <2> QED
    BY <2>7, <2>8, <2>9
<1>10. /\ ud' = ud /\ kept' = kept /\ leaked' = leaked /\ coroutine' = coroutine /\ lib' = lib
       /\ closed' = closed /\ traceback' = traceback /\ garbage' = garbage
  BY <1>2 DEF env
<1>11. roots' \subseteq Reachable /\ Reach(roots', reg) \subseteq Reachable /\ Reachable \subseteq Slots
  <2>1. roots' \subseteq Reachable
    <3>1. runs => registry[old.ref] \subseteq Captured(registry)
      BY <1>7 DEF Captured
    <3> QED
      BY <1>2, <3>1 DEF Reachable, Reach
  <2>2. \A x \in Refs : reg[x] # Empty => reg[x] \subseteq Reachable
    <3>1. reg[r] \subseteq Reachable
      BY <1>1, <1>6, AtHandReachable
    <3>2. \A x \in Refs : registry[x] # Empty => registry[x] \subseteq Reachable
      BY DEF Reachable, Reach, Captured
    <3> QED
      BY <1>6, <3>1, <3>2
  <2>3. Captured(reg) \subseteq Reachable
    BY <2>2 DEF Captured
  <2> QED
    BY <2>1, <2>3, ReachableSlots DEF Reach
<1>12. fs \subseteq misuse \union ms /\ ms \subseteq Faults
  BY <1>1, <1>4, HandlerAnnounced DEF Faults
<1>13. Settle(alive, wr, reg, gone, fs, ms)
  BY <1>2
<1>14. call'.replaced => "replaced" \in misuse \union ms
  BY <1>3, <1>9 DEF Announced
<1>15. coroutine \in {"lost", "gone"} => thread # "coroutine"
  BY <1>1
<1> HIDE DEF wr, reg, gone, fs, ms, w, runs
<1>16. Prepared(alive, wr, reg, gone)
  <2>1. \A q \in Stubs : wr[q] # None => q \in alive
    BY <1>3, <1>4, <1>5 DEF HandlersTrue
  <2>2. call' # NoCall => call'.obj \in alive /\ wr[call'.obj] # None
    <3>1. call' # NoCall => call.obj \in alive /\ handler[call.obj] # None /\ call.obj \in Stubs
      BY <1>3, <1>9, LuaBindingAssumption DEF HeapTrue, HandlersTrue, Typed, CallRecord, Objects
    <3> QED
      BY <1>4, <1>5, <1>9, <3>1
  <2>3. roots' \subseteq Slots /\ Locals(call') \subseteq alive
    BY <1>3, <1>9, <1>11 DEF Locals, HeapTrue
  <2> QED
    BY <1>3, <1>5, <1>6, <1>8, <1>9, <1>10, <2>1, <2>2, <2>3 DEF Prepared, Typed, HeapTrue
<1>17. Steady(alive, wr, ms)
  <2>1. coroutine = "gone" =>
          \A q \in Stubs : wr[q] # None /\ wr[q].thread = "coroutine" => wr[q] = handler[q]
    BY <1>4, <1>5, <1>15
  <2> QED
    BY <1>1, <1>10, <2>1 DEF Steady
<1>18. WillBeAnnounced(alive, wr, reg, fs, ms)
  <2>1. ~traceback' => "stack" \in misuse \union ms
    BY <1>3, <1>10 DEF Announced
  <2>2. coroutine' \in {"lost", "gone"} =>
          \A q \in Stubs : wr[q] # None /\ wr[q].thread = "coroutine" => "coroutine" \in misuse \union ms
    BY <1>3, <1>4, <1>5, <1>10, <1>15 DEF Announced
  <2>3. lib' # "held" => \A q \in alive \cap LibObjects :
          Known(q, kept', ud', call') => "unloaded" \in misuse \union ms
    BY <1>3, <1>9, <1>10 DEF Announced, Known, Locals
  <2>4. \A q \in Slots : ud'[q].is = "ended" => "ended" \in misuse \union ms
    BY <1>3, <1>10 DEF HeapTrue
  <2> QED
    BY <1>1, <1>10, <1>12, <1>14, <2>1, <2>2, <2>3, <2>4 DEF WillBeAnnounced
<1> QED
  BY <1>1, <1>13, <1>16, <1>17, <1>18, SettleStep

-----------------------------------------------------------------------------
(* The shorthands of the script                                             *)

LEMMA Resolved == ResolvedRight
<1> SUFFICES ASSUME NEW m \in Candidates, NEW n \in Candidates
             PROVE  IF <<m, n>> \in ConstTwins
                    THEN Resolve(<<m, n>>).const /\ Resolve(<<m, n>>) = Resolve(<<n, m>>)
                    ELSE m.id # n.id => Resolve(<<m, n>>) = None
  BY DEF ResolvedRight
<1>1. <<m, n>> \in ConstTwins <=> m.id # n.id /\ m.args = n.args /\ m.const # n.const
  BY DEF ConstTwins
<1>2. /\ m.const # n.const /\ m.args = n.args => Resolve(<<m, n>>) = IF n.const THEN n ELSE m
      /\ ~(m.const # n.const /\ m.args = n.args) => Resolve(<<m, n>>) = None
  BY DEF Resolve
<1>3. n.const # m.const /\ n.args = m.args => Resolve(<<n, m>>) = IF m.const THEN m ELSE n
  BY DEF Resolve
<1> QED
  BY <1>1, <1>2, <1>3 DEF Candidates

LEMMA Sugar == SugarCallsRight
<1> DEFINE T == AtHand \union {Callee, Table}
<1>1. ASSUME NEW n \in 1..3, NEW stack \in [1..n -> AtHand]
      PROVE  /\ method_stub(stack, Callee) = <<Callee>> \o stack
             /\ construct(stack, Callee) = <<Callee>> \o Tail(stack)
  <2>1. n \in Nat /\ stack \in [1..n -> T] /\ Callee \in T
    OBVIOUS
  <2> HIDE DEF T
  <2>2. stack \in Seq(T)
    BY <2>1, SeqDef
  <2>3. Len(stack) = n
    BY <2>1, <2>2, LenProperties
  <2>4. Len(stack) \in 0..3 /\ Len(stack) \in 1..3
    BY <2>3
  <2> QED
    BY <2>1, <2>2, <2>4, Stubbed, Constructed
<1>2. ASSUME NEW v \in AtHand, NEW val \in AtHand
      PROVE  /\ index(<<v, Table>>, Callee) = <<Callee, v>>
             /\ newindex(<<v, Table, val>>, Callee) = <<Callee, v, val>>
  <2> DEFINE q == <<v, Table>>
             p == <<v, Table, val>>
             i == <<Callee, v>>
             j == <<Callee, v, val>>
             top == Tail(Tail(Append(Append(p, Callee), p[1])))
  <2>1. /\ q \in Seq(T) /\ Len(q) = 2 /\ q[1] = v
        /\ i \in Seq(T) /\ Len(i) = 2 /\ i[1] = Callee /\ i[2] = v /\ Callee \in T
    OBVIOUS
  <2>2. /\ p \in Seq(T) /\ Len(p) = 3 /\ p[1] = v /\ p[3] = val
        /\ j \in Seq(T) /\ Len(j) = 3 /\ j[1] = Callee /\ j[2] = v /\ j[3] = val
    OBVIOUS
  <2> HIDE DEF q, p, i, j, T
  <2>3. /\ index(q, Callee) \in Seq(T) /\ Len(index(q, Callee)) = 2
        /\ index(q, Callee)[2] = v /\ index(q, Callee)[1] = Callee
    <3>1. Len(q) >= 2 /\ Len(q) - 1 = 1
      BY <2>1
    <3>2. index(q, Callee) = Tail(Tail(Append(Append(q, Callee), q[1])))
      BY Zenon DEF index
    <3>3. /\ index(q, Callee) \in Seq(T) /\ Len(index(q, Callee)) = Len(q)
          /\ index(q, Callee)[Len(q)] = q[1] /\ index(q, Callee)[Len(q) - 1] = Callee
      <4> DEFINE w == index(q, Callee)
      <4>1. w = Tail(Tail(Append(Append(q, Callee), q[1])))
        BY <3>2
      <4>2. q \in Seq(T) /\ Callee \in T /\ Len(q) >= 2
        BY <2>1, <3>1
      <4> HIDE DEF w
      <4> QED
        BY <4>1, <4>2, Indexed DEF w
    <3> QED
      BY <2>1, <3>1, <3>3
  <2>4. index(q, Callee) = i
    BY <2>1, <2>3, SeqEqual
  <2>5. top \in Seq(T) /\ Len(top) = 3 /\ top[3] = v /\ top[2] = Callee /\ top[1] = val
    <3>1. Len(p) >= 2 /\ Len(p) - 1 = 2 /\ 1 \in 1..(Len(p) - 2) /\ 1 + 2 = 3
      BY <2>2
    <3>2. /\ top \in Seq(T) /\ Len(top) = Len(p) /\ top[Len(p)] = p[1]
          /\ top[Len(p) - 1] = Callee /\ \A k \in 1..(Len(p) - 2) : top[k] = p[k + 2]
      <4>1. top = Tail(Tail(Append(Append(p, Callee), p[1])))
        OBVIOUS
      <4>2. p \in Seq(T) /\ Callee \in T /\ Len(p) >= 2
        BY <2>1, <2>2, <3>1
      <4> HIDE DEF top
      <4> QED
        BY <4>1, <4>2, Indexed
    <3> HIDE DEF top
    <3> QED
      BY <2>2, <3>1, <3>2
  <2>6. newindex(p, Callee) = Rotate(top)
    BY DEF newindex
  <2> HIDE DEF top
  <2>7. top # <<>>
    BY <2>5, EmptySeq
  <2>8. /\ Rotate(top) \in Seq(T) /\ Len(Rotate(top)) = 3
        /\ \A k \in 1..(Len(top) - 1) : Rotate(top)[k] = top[k + 1]
        /\ Rotate(top)[3] = val
    BY <2>5, <2>7, RotateStack
  <2>9. Rotate(top)[1] = Callee /\ Rotate(top)[2] = v
    BY <2>5, <2>8
  <2>10. Rotate(top) = j
    BY <2>2, <2>8, <2>9, SeqEqual
  <2> QED
    BY <2>4, <2>6, <2>10 DEF q, p, i, j
<1> QED
  BY <1>1, <1>2, Resolved DEF SugarCallsRight

-----------------------------------------------------------------------------
(* Searches with a predicate                                                *)

\* What pushTraceBack leaves hides the predicate from the second candidate on
LEMMA Verdicted ==
  ASSUME NEW v, NEW n \in 1..3, NEW intact \in BOOLEAN
  PROVE  Verdict(v, n, intact) = IF n = 1 \/ intact THEN v[n] ELSE "fails"
<1> DEFINE Step(g) == [k \in 1..n |-> IF k = 1 THEN "function" ELSE AfterCallback(g[k - 1], intact)]
           tops    == [k \in 1..n |-> IF k = 1 \/ intact THEN "function" ELSE "table"]
           top     == CHOOSE g : g = Step(g)
<1>1. Verdict(v, n, intact) = IF top[n] = "function" THEN v[n] ELSE "fails"
  BY Zenon DEF Verdict
<1>2. tops = Step(tops)
  <2>1. \A k \in 1..n : k # 1 => k - 1 \in 1..n
    OBVIOUS
  <2>2. ASSUME NEW k \in 1..n PROVE tops[k] = IF k = 1 THEN "function" ELSE AfterCallback(tops[k - 1], intact)
    BY <2>1 DEF AfterCallback
  <2> HIDE DEF tops
  <2>3. tops = [k \in 1..n |-> tops[k]]
    BY DEF tops
  <2> QED
    BY <2>2, <2>3
<1> HIDE DEF Step, tops
<1>3. top = Step(top)
  BY <1>2, Zenon
<1> HIDE DEF top
<1>4. top[1] = "function" /\ \A k \in 1..n : k # 1 => top[k] = AfterCallback(top[k - 1], intact)
  BY <1>3 DEF Step
<1>5. /\ n >= 2 => top[2] = AfterCallback(top[1], intact)
      /\ n >= 3 => top[3] = AfterCallback(top[2], intact)
  <2>1. n >= 2 => 2 \in 1..n /\ 2 - 1 = 1
    OBVIOUS
  <2>2. n >= 3 => 3 \in 1..n /\ 3 - 1 = 2
    OBVIOUS
  <2> QED
    BY <1>4, <2>1, <2>2
<1>6. n = 1 \/ n = 2 \/ n = 3
  OBVIOUS
<1> QED
  BY <1>1, <1>4, <1>5, <1>6 DEF AfterCallback

LEMMA Searched ==
  ASSUME NEW intact \in BOOLEAN
  PROVE  SearchRight(intact)
<1> SUFFICES ASSUME NEW v \in Verdicts
             PROVE  LET yes == {n \in 1..Len(v) : v[n] = "yes"}
                        one == findFirst(v, intact)
                        all == findAll(v, intact)
                    IN  /\ one[1] = "found" =>
                             one[2] \in yes /\ \A n \in 1..(one[2] - 1) : v[n] = "no"
                        /\ one[1] = "nothing" => \A n \in 1..Len(v) : v[n] = "no"
                        /\ all[1] = "found" => all[2] = yes
                        /\ intact =>
                             /\ one[1] = "error" => v[one[2]] = "fails"
                             /\ all[1] = "error" => \E n \in 1..Len(v) : v[n] = "fails"
  BY DEF SearchRight
<1>1. Len(v) \in 0..3 /\ \A n \in 1..Len(v) : v[n] \in {"yes", "no", "fails"}
  <2>1. PICK n \in 0..3 : v \in [1..n -> {"yes", "no", "fails"}]
    BY DEF Verdicts
  <2>2. v \in Seq({"yes", "no", "fails"}) /\ n \in Nat
    BY <2>1, SeqDef
  <2>3. Len(v) = n
    BY <2>1, <2>2, LenProperties
  <2> QED
    BY <2>1, <2>3
<1> DEFINE W(n) == Verdict(v, n, intact)
<1>2. ASSUME NEW n \in 1..Len(v)
      PROVE  /\ W(n) = IF n = 1 \/ intact THEN v[n] ELSE "fails"
             /\ W(n) \in {"yes", "no", "fails"}
             /\ W(n) = "fails" \/ W(n) = v[n]
             /\ intact => W(n) = v[n]
  <2>1. n \in 1..3
    BY <1>1
  <2> QED
    BY <1>1, <2>1, Verdicted
<1> DEFINE all  == 1..Len(v)
           ends == {n \in all : W(n) # "no"}
           last == CHOOSE n \in ends : \A m \in ends : n <= m
<1>3. findFirst(v, intact) =
        IF ends = {} THEN <<"nothing", 0>>
        ELSE IF W(last) = "yes" THEN <<"found", last>> ELSE <<"error", last>>
  BY Zenon DEF findFirst
<1>4. findAll(v, intact) =
        IF \E n \in all : W(n) = "fails" THEN <<"error", {}>>
        ELSE <<"found", {n \in all : W(n) = "yes"}>>
  BY Zenon DEF findAll
<1> HIDE DEF W
<1>5. ASSUME ends # {} PROVE last \in ends /\ \A m \in ends : last <= m
  <2>1. ends \subseteq {1, 2, 3}
    BY <1>1
  <2>2. \E n \in ends : \A m \in ends : n <= m
    <3>1. CASE 1 \in ends
      BY <2>1, <3>1
    <3>2. CASE 1 \notin ends /\ 2 \in ends
      BY <2>1, <3>2
    <3>3. CASE 1 \notin ends /\ 2 \notin ends
      <4>1. 3 \in ends /\ \A m \in ends : m = 3
        BY <1>5, <2>1, <3>3
      <4> QED
        BY <4>1
    <3> QED
      BY <3>1, <3>2, <3>3
  <2> HIDE DEF ends
  <2> QED
    BY <2>2
<1> DEFINE one == findFirst(v, intact)
<1>6. /\ ends = {} /\ one[1] = "nothing" /\ \A n \in all : v[n] = "no"
      \/ /\ last \in all /\ one[2] = last /\ \A n \in 1..(last - 1) : v[n] = "no"
         /\ \/ one[1] = "found" /\ v[last] = "yes"
            \/ one[1] = "error" /\ (intact => v[last] = "fails")
  <2>1. CASE ends = {}
    BY <1>2, <1>3, <2>1
  <2>2. CASE ends # {}
    <3>1. last \in all /\ W(last) # "no" /\ one[2] = last
      BY <1>3, <1>5, <2>2
    <3> HIDE DEF last
    <3>2. ASSUME NEW n \in 1..(last - 1) PROVE v[n] = "no"
      <4>1. n \in all /\ ~(last <= n)
        BY <1>1, <3>1
      <4>2. n \notin ends
        BY <1>5, <2>2, <4>1 DEF last
      <4> QED
        BY <1>2, <4>1, <4>2
    <3>3. W(last) \in {"yes", "fails"} /\ (W(last) = "yes" => v[last] = "yes")
          /\ (intact => W(last) = v[last])
      BY <1>2, <3>1
    <3>4. IF W(last) = "yes" THEN one[1] = "found" ELSE one[1] = "error"
      BY <1>3, <2>2 DEF last
    <3> QED
      BY <3>1, <3>2, <3>3, <3>4
  <2> QED
    BY <2>1, <2>2
<1>7. LET r == findAll(v, intact)
      IN  /\ r[1] = "found" => r[2] = {n \in all : v[n] = "yes"}
          /\ intact /\ r[1] = "error" => \E n \in all : v[n] = "fails"
  <2>1. CASE \E n \in all : W(n) = "fails"
    BY <1>2, <1>4, <2>1
  <2>2. CASE ~\E n \in all : W(n) = "fails"
    <3>1. {n \in all : W(n) = "yes"} = {n \in all : v[n] = "yes"}
      BY <1>2, <2>2
    <3> QED
      BY <1>4, <2>2, <3>1
  <2> QED
    BY <2>1, <2>2
<1> HIDE DEF last, ends, one
<1> QED
  BY <1>6, <1>7 DEF one

-----------------------------------------------------------------------------
(* The invariant is one                                                     *)

LEMMA InitInv ==
  ASSUME Init
  PROVE  Inv
<1>1. Typed
  <2>1. ud \in [Slots -> Userdata] /\ handler \in [Stubs -> Wrapper \union {None}]
        /\ registry \in [Refs -> {Empty} \union SUBSET Slots]
    BY DEF Init, Userdata, Free
  <2>2. call \in CallRecord
    BY DEF Init, CallRecord, NoCall
  <2>3. garbage \in 0..MaxGarbage
    BY LuaBindingAssumption DEF Init
  <2> QED
    BY <2>1, <2>2, <2>3 DEF Init, Typed
<1>2. FaultsHaveACause
  BY DEF Init, FaultsHaveACause
<1>3. HeapTrue
  BY DEF Init, HeapTrue, Owning, Free, Reachable, Reach, Captured, NoCall, Locals
<1>4. HandlersTrue
  BY DEF Init, HandlersTrue, Paired
<1>5. Announced
  BY DEF Init, Announced, NoCall
<1> QED
  BY <1>1, <1>2, <1>3, <1>4, <1>5 DEF Inv

LEMMA EveryStep ==
  ASSUME Inv, [Next]_vars
  PROVE  Inv'
<1>1. CASE UNCHANGED vars
  <2>1. /\ ud' = ud /\ roots' = roots /\ alive' = alive /\ kept' = kept /\ leaked' = leaked
        /\ call' = call /\ handler' = handler /\ registry' = registry /\ coroutine' = coroutine
        /\ lib' = lib /\ closed' = closed /\ traceback' = traceback /\ garbage' = garbage
        /\ fault' = fault /\ misuse' = misuse
    BY <1>1 DEF vars, heap, env
  <2>2. Typed' = Typed /\ FaultsHaveACause' = FaultsHaveACause
    BY <2>1 DEF Typed, FaultsHaveACause
  <2>3. Reachable' = Reachable
    BY <2>1 DEF Reachable, Reach, Captured
  <2>4. HeapTrue' = HeapTrue
    BY <2>1, <2>3 DEF HeapTrue, Owned, Owners, Locals
  <2>5. HandlersTrue' = HandlersTrue
    BY <2>1 DEF HandlersTrue, Paired
  <2>6. Announced' = Announced
    BY <2>1, <2>3 DEF Announced, Known, Fresh, Locals
  <2> QED
    BY <2>1, <2>2, <2>4, <2>5, <2>6 DEF Inv
<1>2. ASSUME NEW s \in Slots, NEW o \in Objects, Construct(s, o) \/ create(s, o) PROVE Inv'
  BY <1>2, ConstructOk, createOk
<1>3. ASSUME NEW s \in Slots, NEW t \in Slots,
             newInstance(s, t) \/ get(s, t) \/ set(s, t) \/ reference(s, t)
      PROVE  Inv'
  BY <1>3, newInstanceOk, getOk, referenceOk, AtOnceOk
<1>4. ASSUME NEW s \in Slots, Use(s) \/ Drop(s) \/ ProgramKeeps(s) \/ finalise(s) \/ gc(s) PROVE Inv'
  BY <1>4, UseOk, DropOk, ProgramKeepsOk, finaliseOk, gcOk
<1>5. ASSUME NEW s \in Slots, CallFails(<<s, Table>>) PROVE Inv'
  <2> DEFINE stack == <<s, Table>>
  <2>1. /\ stack \in Seq(Slots \union {Table}) /\ Len(stack) = 2 /\ stack[2] = Table
        /\ CallFails(stack)
    BY <1>5
  <2> HIDE DEF stack
  <2>2. Len(stack) \in 1..3 /\ stack[Len(stack)] = Table
    BY <2>1
  <2> QED
    BY <2>1, <2>2, CallFailsOk
<1>6. ASSUME NEW s \in Slots, NEW t \in Slots, CallFails(<<s, t, Table>>) PROVE Inv'
  <2> DEFINE stack == <<s, t, Table>>
  <2>1. /\ stack \in Seq(Slots \union {Table}) /\ Len(stack) = 3 /\ stack[3] = Table
        /\ CallFails(stack)
    BY <1>6
  <2> HIDE DEF stack
  <2>2. Len(stack) \in 1..3 /\ stack[Len(stack)] = Table
    BY <2>1
  <2> QED
    BY <2>1, <2>2, CallFailsOk
<1>7. ASSUME NEW s \in Slots, NEW C \in SUBSET Slots, NEW thread \in {"main", "coroutine"},
             addImplementation(s, C, thread)
      PROVE  Inv'
  BY <1>7, addImplementationOk
<1>8. ASSUME NEW s \in Slots, NEW t \in Slots, NEW arg \in Plain \union {None}, CallStub(s, t, arg)
      PROVE  Inv'
  BY <1>8, CallStubOk
<1>9. ASSUME NEW result \in {"value", "error", "table"}, Return(result) PROVE Inv'
  BY <1>9, ReturnOk
<1>10. ASSUME NEW o \in Plain \union Stubs, ProgramDrops(o) PROVE Inv'
  BY <1>10, ProgramDropsOk
<1>11. ASSUME NEW o \in Stubs, NEW t \in Slots, NEW arg \in Plain \union {None}, ProgramCalls(o, t, arg)
       PROVE  Inv'
  BY <1>11, ProgramCallsOk
<1>12. ASSUME \/ Close \/ CreateCoroutine \/ DropCoroutine \/ CollectCoroutine
              \/ DropLibrary \/ close \/ CollectLibrary \/ ReplaceTraceback
       PROVE  Inv'
  BY <1>12, CloseOk, CoroutinesOk, LibrariesOk, ReplaceTracebackOk
<1>13. ASSUME mod \/ assign PROVE Inv'
  BY <1>13, AtOnceOk
<1>14. ASSUME Over PROVE Inv'
  BY <1>1, <1>14 DEF Over
<1> QED
  BY <1>1, <1>2, <1>3, <1>4, <1>5, <1>6, <1>7, <1>8, <1>9, <1>10, <1>11, <1>12, <1>13, <1>14 DEF Next

LEMMA LuaInvariant == Spec => []Inv
<1>1. Init => Inv
  BY InitInv
<1>2. Inv /\ [Next]_vars => Inv'
  BY EveryStep
<1> QED
  BY <1>1, <1>2, PTL DEF Spec

-----------------------------------------------------------------------------
(* What follows                                                             *)

(***************************************************************************)
(* Whatever the script, the collector and the program do, each fault the   *)
(* model knows (FaultsHaveACause lists them) was announced by the act of   *)
(* its kind: a crash over a view needs a view that outlived its owners, a  *)
(* crash in a handler a coroutine that was dropped or a handler replaced   *)
(* while it ran, and so on, also when __gc runs in no order and twice, and *)
(* when errors leave shares behind.  A value or proxy that owns its object *)
(* and was not finalised by the script never finds it destroyed.           *)
(***************************************************************************)
THEOREM FaultsAreMisuses == Spec => []FaultsHaveACause
<1>1. Inv => FaultsHaveACause
  BY DEF Inv
<1> QED
  BY <1>1, LuaInvariant, PTL

\* The handlers at a registry entry: at most one
LEMMA HandlersCounted ==
  ASSUME Inv, fault = None, ~closed, NEW r \in Refs
  PROVE  Cardinality({o \in Stubs : handler[o] # None /\ handler[o].ref = r})
           = IF registry[r] = Empty THEN 0 ELSE 1
<1> DEFINE H == {o \in Stubs : handler[o] # None /\ handler[o].ref = r}
<1>1. Paired(handler, registry, {})
  BY DEF Inv, HandlersTrue
<1>2. CASE registry[r] = Empty
  <2>1. H = {}
    BY <1>1, <1>2 DEF Paired
  <2> QED
    BY <1>2, <2>1, FS_EmptySet
<1>3. CASE registry[r] # Empty
  <2>1. PICK o \in Stubs : handler[o] # None /\ handler[o].ref = r
    BY <1>1, <1>3 DEF Paired
  <2>2. H = {o}
    BY <1>1, <2>1 DEF Paired
  <2>3. Cardinality({o}) = 1
    BY FS_Singleton
  <2> QED
    BY <1>3, <2>2, <2>3
<1> QED
  BY <1>2, <1>3

(***************************************************************************)
(* luaL_ref and luaL_unref stay paired however handlers are replaced,      *)
(* stubs are destroyed and errors leave the C++ functions: the registry    *)
(* holds exactly one function for each handler of a ProxyImpl that exists. *)
(***************************************************************************)
THEOREM RegistryStaysPaired == Spec => []RegistryOK
<1>1. Inv => TypeOK
  <2> SUFFICES ASSUME Inv PROVE TypeOK
    OBVIOUS
  <2>1. Typed
    BY DEF Inv
  <2>2. /\ call.obj \in Stubs \union {None} /\ call.arg \in Plain \union {None} /\ call.by \in {"script", "program", None}
        /\ call.replaced \in BOOLEAN
    BY <2>1 DEF Typed, CallRecord
  <2>3. \A o \in Stubs : handler[o] = None \/ handler[o] \in Wrapper
    BY <2>1 DEF Typed
  <2>4. \A r \in Refs : registry[r] = Empty \/ registry[r] \subseteq Slots
    BY <2>1 DEF Typed
  <2> QED
    BY <2>1, <2>2, <2>3, <2>4 DEF Typed, TypeOK
<1>2. Inv => RegistryExact
  BY HandlersCounted DEF Inv, HandlersTrue, RegistryExact
<1>3. Inv => RegistryOK
  BY <1>1, <1>2 DEF RegistryOK
<1> QED
  BY <1>3, LuaInvariant, PTL

(***************************************************************************)
(* obj:name(...), class:construct(...) and v.attribute put the method,     *)
(* constructor or attribute below the object and its arguments, which keep *)
(* their order, whatever is at hand (method_stub, construct, __index and   *)
(* __newindex); of two methods that differ in const the const one is called.*)
(***************************************************************************)
THEOREM ShorthandsKeepTheOrder == Spec => []SugarCallsRight
<1>1. SugarCallsRight
  BY Sugar
<1> QED
  BY <1>1, PTL

(***************************************************************************)
(* findFirst and findAll never give a wrong answer, also when the script   *)
(* has replaced debug.traceback: pushTraceBack then leaves a table in the  *)
(* place of the predicate, and the search ends in an error.                *)
(***************************************************************************)
THEOREM SearchesAnswerRight == Spec => []PredicateFound
<1>1. Inv => PredicateFound
  BY Searched DEF Inv, Typed, PredicateFound, RightWhen
<1> QED
  BY <1>1, LuaInvariant, PTL
=============================================================================
