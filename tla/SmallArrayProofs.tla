-------------------------- MODULE SmallArrayProofs --------------------------
(***************************************************************************)
(* SmallArray for every number of inline elements, every size, every set   *)
(* of values and every way realloc may move the block.                     *)
(***************************************************************************)
EXTENDS SmallArray, SequenceTheorems, TLAPS

\* Nothing lies in the memory that is not counted
BeyondRaw == \A i \in Positions : i >= m_size => mem[i] = RawSlot

ArrayInv == ElementsOK /\ BeyondRaw

-----------------------------------------------------------------------------
(***************************************************************************)
(* When inc() moves the block, what was sound stays so, or the move is an  *)
(* event: inline elements are not moved, and the block moves only when it  *)
(* is needed.                                                              *)
(***************************************************************************)
LEMMA MoveExplained ==
  ASSUME ArrayInv, NEW block \in Grown, NEW i \in Positions, i < m_size
  PROVE  mem[i].val \in SelfPointing /\ mem[i].at # Home(i, block) =>
           i >= Small /\ "moved" \in happened \union MoveEvents(block)
<1> SUFFICES ASSUME mem[i].val \in SelfPointing, mem[i].at # Home(i, block)
             PROVE  i >= Small /\ "moved" \in happened \union MoveEvents(block)
  OBVIOUS
<1>1. i \in Nat /\ i < m_size /\ m_size \in Nat /\ Small \in Nat /\ i \in Positions
  BY SmallArrayAssumption DEF Positions, ArrayInv, ElementsOK, TypeOK
<1>2. mem[i].val # Raw
  BY SmallArrayAssumption
<1>3. mem[i].at # Home(i, m_excess) => i >= Small /\ "moved" \in happened
  BY <1>1, <1>2 DEF ArrayInv, ElementsOK, DamageExplained, Sound
<1>4. CASE Home(i, block) = Home(i, m_excess)
  BY <1>3, <1>4
<1>5. CASE Home(i, block) # Home(i, m_excess)
  <2>1. i >= Small /\ block # m_excess
    BY <1>1, <1>5 DEF Home
  <2>2. i \in Moved(block)
    BY <1>1, <2>1 DEF Moved
  <2> QED
    BY <2>1, <2>2 DEF MoveEvents
<1> QED
  BY <1>4, <1>5

(***************************************************************************)
(* Where the block may be, and what a move may be remembered as.           *)
(***************************************************************************)
LEMMA GrownType ==
  ASSUME TypeOK, NEW block \in Grown
  PROVE  block \in Blocks \union {NoBlock} /\ happened \union MoveEvents(block) \subseteq Events
BY SmallArrayAssumption DEF TypeOK, Grown, MoveEvents

(***************************************************************************)
(* A slot that counts from now on joins the others: it holds an element    *)
(* constructed where it lies, or it is raw and an event explains that.     *)
(***************************************************************************)
LEMMA GrowStep ==
  ASSUME ArrayInv, Growing, NEW block \in Grown, NEW e \in Elements \union {Raw},
         m_size' = m_size + 1, m_excess' = block,
         mem' = Placed(block, e) \/ (mem' = mem /\ e = Raw),
         happened \union MoveEvents(block) \subseteq happened', happened' \subseteq Events,
         e = Raw => happened' \intersect {"constructor", "memory", "ownElement"} # {},
         life' \in {"none", "list", "full"}, got' \in Elements, leaked' \in BOOLEAN
  PROVE  ArrayInv'
<1>1. /\ m_size \in Positions /\ m_size \in Nat /\ Small \in Nat /\ MaxSize \in Nat
      /\ m_size + 1 \in 0..MaxSize
  BY SmallArrayAssumption DEF ArrayInv, ElementsOK, TypeOK, Growing, Positions
<1>2. block \in Blocks \union {NoBlock} /\ mem \in [Positions -> Slot]
  BY GrownType DEF ArrayInv, ElementsOK, TypeOK
<1>3. Home(m_size, block) \in Homes
  BY <1>2 DEF Home, Homes
<1>4. /\ mem' \in [Positions -> Slot] /\ mem'[m_size].val = e
      /\ e # Raw => mem'[m_size].at = Home(m_size, block)
      /\ \A i \in Positions \ {m_size} : mem'[i] = mem[i]
  <2>1. mem[m_size].val = Raw
    BY <1>1 DEF ArrayInv, BeyondRaw, RawSlot
  <2> QED
    BY <1>1, <1>2, <1>3, <2>1 DEF Placed, Slot
<1>5. TypeOK'
  BY <1>1, <1>2, <1>4 DEF TypeOK
<1>6. BeyondRaw'
  BY <1>1, <1>4 DEF ArrayInv, BeyondRaw, Positions
<1>7. DamageExplained'
  <2> SUFFICES ASSUME NEW i \in Positions, i < m_size + 1
               PROVE  /\ mem'[i].val = Raw =>
                           happened' \intersect {"constructor", "memory", "ownElement"} # {}
                      /\ mem'[i].val # Raw /\ ~Sound(i)' => i >= Small /\ "moved" \in happened'
    BY DEF DamageExplained
  <2>1. CASE i = m_size
    BY <1>1, <1>4, <2>1 DEF Sound
  <2>2. CASE i # m_size
    <3>1. i < m_size /\ mem'[i] = mem[i]
      BY <1>1, <1>4, <2>2 DEF Positions
    <3>2. mem[i].val = Raw => happened \intersect {"constructor", "memory", "ownElement"} # {}
      BY <3>1 DEF ArrayInv, ElementsOK, DamageExplained
    <3>3. mem[i].val # Raw /\ ~Sound(i)' => mem[i].val \in SelfPointing /\ mem[i].at # Home(i, block)
      BY <3>1 DEF Sound, Home
    <3> QED
      BY <3>1, <3>2, <3>3, MoveExplained
  <2> QED
    BY <2>1, <2>2
<1> QED
  BY <1>5, <1>6, <1>7 DEF ArrayInv, ElementsOK

(***************************************************************************)
(* An array that goes leaves nothing behind.                               *)
(***************************************************************************)
LEMMA GoneStep ==
  ASSUME ArrayInv, m_size' = 0, m_excess' = NoBlock, mem' = Empty, life' = "none",
         leaked' \in BOOLEAN, UNCHANGED <<got, happened>>
  PROVE  ArrayInv'
<1>1. RawSlot \in Slot
  BY DEF RawSlot, Slot, Homes
<1>2. mem' \in [Positions -> Slot] /\ \A i \in Positions : mem'[i] = RawSlot
  BY <1>1 DEF Empty
<1> QED
  BY <1>2, SmallArrayAssumption
     DEF ArrayInv, ElementsOK, TypeOK, DamageExplained, BeyondRaw, Positions

(***************************************************************************)
(* A throw keeps the invariant, in the constructor and after it.           *)
(***************************************************************************)
LEMMA ThrowStep ==
  ASSUME ArrayInv, NEW event \in {"constructor", "memory"}, Throw(event)
  PROVE  ArrayInv'
<1>0. TypeOK
  BY DEF ArrayInv, ElementsOK
<1>1. CASE life = "list"
  <2>1. leaked' \in BOOLEAN
    BY <1>1 DEF Throw
  <2> QED
    BY <1>1, <2>1, GoneStep DEF Throw
<1>2. CASE life # "list"
  <2>1. PICK block \in IF event = "memory" THEN {m_excess} ELSE Grown :
          /\ m_size' = m_size + 1 /\ m_excess' = block
          /\ happened' = happened \union MoveEvents(block) \union {event}
          /\ UNCHANGED <<life, mem, got, leaked>>
    BY <1>2 DEF Throw
  <2>2. Growing /\ event \in Events
    BY DEF Throw
  <2>3. CASE block \in Grown
    BY <1>0, <2>1, <2>2, <2>3, GrownType, GrowStep DEF TypeOK
  <2>4. CASE block \notin Grown
    \* realloc failed when there was no block yet
    <3>1. block = m_excess /\ MoveEvents(block) = {}
      BY <2>1, <2>4 DEF MoveEvents, Moved
    <3>2. /\ m_size \in Positions /\ m_size \in Nat /\ Small \in Nat /\ MaxSize \in Nat
          /\ m_size + 1 \in 0..MaxSize
      BY <1>0, <2>2, SmallArrayAssumption DEF TypeOK, Growing, Positions
    <3>3. TypeOK'
      BY <1>0, <2>1, <2>2, <3>1, <3>2 DEF TypeOK
    <3>4. BeyondRaw'
      BY <2>1, <3>2 DEF ArrayInv, BeyondRaw, Positions
    <3>5. DamageExplained'
      <4> SUFFICES ASSUME NEW i \in Positions, i < m_size + 1
                   PROVE  /\ mem[i].val = Raw =>
                               happened' \intersect {"constructor", "memory", "ownElement"} # {}
                          /\ mem[i].val # Raw /\ ~Sound(i)' => i >= Small /\ "moved" \in happened'
        BY <2>1 DEF DamageExplained
      <4>1. Sound(i)' <=> Sound(i)
        BY <2>1, <3>1 DEF Sound
      <4>2. CASE i < m_size
        BY <2>1, <4>1, <4>2 DEF ArrayInv, ElementsOK, DamageExplained
      <4>3. CASE ~(i < m_size)
        BY <2>1, <3>2, <4>3 DEF ArrayInv, BeyondRaw, RawSlot, Positions
      <4> QED
        BY <4>2, <4>3
    <3> QED
      BY <3>3, <3>4, <3>5 DEF ArrayInv, ElementsOK
  <2> QED
    BY <2>3, <2>4
<1> QED
  BY <1>1, <1>2

(***************************************************************************)
(* Every step of the program keeps the invariant.                          *)
(***************************************************************************)
LEMMA ArrayStep == ArrayInv /\ [Next]_vars => ArrayInv'
<1> SUFFICES ASSUME ArrayInv, [Next]_vars PROVE ArrayInv'
  OBVIOUS
<1>0. TypeOK
  BY DEF ArrayInv, ElementsOK
<1>G. ASSUME Growing, NEW block \in Grown, NEW e \in Elements, Grow(block, e) PROVE ArrayInv'
  <2>1. happened \union MoveEvents(block) \subseteq Events
    BY <1>0, <1>G, GrownType
  <2> QED
    BY <1>0, <1>G, <2>1, GrowStep, SmallArrayAssumption DEF Grow, TypeOK
<1>1. ASSUME NEW e \in Elements, push_back(e) PROVE ArrayInv'
  BY <1>1, <1>G DEF push_back
<1>2. ASSUME NEW e \in Elements, variant_construct(e) PROVE ArrayInv'
  BY <1>2, <1>G, SmallArrayAssumption DEF variant_construct
<1>3. ASSUME NEW i \in Positions, push_backOwn(i) PROVE ArrayInv'
  <2>0. Growing /\ mem[i].val \in Elements
    BY <1>0, <1>3 DEF push_backOwn, Sound, TypeOK, Slot
  <2>1. PICK block \in Grown :
           \/ Grow(block, mem[i].val)
           \/ /\ "ownElement" \in Events
              /\ m_size' = m_size + 1 /\ m_excess' = block
              /\ \E e \in Elements \union {Raw} : mem' = Placed(block, e)
              /\ happened' = happened \union MoveEvents(block) \union {"ownElement"}
              /\ UNCHANGED <<life, got, leaked>>
    BY <1>3 DEF push_backOwn
  <2>2. CASE Grow(block, mem[i].val)
    BY <1>G, <2>0, <2>2
  <2>3. CASE ~Grow(block, mem[i].val)
    BY <1>0, <2>0, <2>1, <2>3, GrownType, GrowStep DEF TypeOK
  <2> QED
    BY <2>2, <2>3
<1>4. ASSUME NEW i \in Positions, Get(i) PROVE ArrayInv'
  <2>1. mem[i].val \in Elements
    BY <1>0, <1>4 DEF Get, Sound, TypeOK, Slot
  <2> QED
    BY <1>4, <2>1 DEF Get, ArrayInv, ElementsOK, TypeOK, DamageExplained, BeyondRaw, Sound
<1>5. CASE Create
  BY <1>5 DEF Create, ArrayInv, ElementsOK, TypeOK, DamageExplained, BeyondRaw, Sound
<1>6. CASE Destroy
  <2>1. leaked' \in BOOLEAN
    BY <1>0, <1>6 DEF Destroy, TypeOK
  <2> QED
    BY <1>6, <2>1, GoneStep DEF Destroy
<1>7. CASE OutOfMemory
  BY <1>7, ThrowStep DEF OutOfMemory
<1>8. CASE ConstructorThrows
  BY <1>8, ThrowStep DEF ConstructorThrows
<1>9. CASE Damaged \/ UNCHANGED vars
  BY <1>9
     DEF Damaged, vars, ArrayInv, ElementsOK, TypeOK, DamageExplained, BeyondRaw, Sound
<1> QED
  BY <1>1, <1>2, <1>3, <1>4, <1>5, <1>6, <1>7, <1>8, <1>9 DEF Next

LEMMA ArrayInvariant == Spec => []ArrayInv
<1>1. Init => ArrayInv
  <2> SUFFICES ASSUME Init PROVE ArrayInv
    OBVIOUS
  <2>1. mem \in [Positions -> Slot] /\ \A i \in Positions : mem[i] = RawSlot
    BY DEF Init, Empty, RawSlot, Slot, Homes
  <2>2. TypeOK
    <3>1. leaked \in BOOLEAN
      BY Zenon DEF Init
    <3> QED
      BY <2>1, <3>1, SmallArrayAssumption DEF Init, TypeOK
  <2>3. DamageExplained
    BY SmallArrayAssumption DEF Init, DamageExplained, Positions
  <2> QED
    BY <2>1, <2>2, <2>3 DEF ArrayInv, ElementsOK, BeyondRaw
<1> QED
  BY <1>1, ArrayStep, PTL DEF Spec

(***************************************************************************)
(* ElementsOK for every instance: a counted argument is raw only after a   *)
(* throw, a failed realloc or a push_back of an own element, and points to *)
(* where it no longer is only past the inline elements after realloc moved *)
(* the block (smallarray.h: inc); up to Small arguments never do.          *)
(***************************************************************************)
THEOREM DamageIsExplained == Spec => []ElementsOK
<1>1. ArrayInv => ElementsOK
  BY DEF ArrayInv
<1> QED
  BY <1>1, ArrayInvariant, PTL

-----------------------------------------------------------------------------
(* The sequence that the calls expect                                       *)

args   == IF life = "full" THEN Contents ELSE <<>>
exists == life = "full"
broken == happened # {}

(***************************************************************************)
(* The contents of an array without damage are a sequence of values.       *)
(***************************************************************************)
LEMMA ContentsType ==
  ASSUME ArrayInv, ~broken
  PROVE  /\ m_size \in Nat /\ Contents \in Seq(Elements) /\ Len(Contents) = m_size
         /\ \A n \in 1..m_size : n - 1 \in Positions
<1>1. m_size \in 0..MaxSize /\ mem \in [Positions -> Slot] /\ MaxSize \in Nat
  BY SmallArrayAssumption DEF ArrayInv, ElementsOK, TypeOK
<1>2. ASSUME NEW n \in 1..m_size PROVE n - 1 \in Positions /\ mem[n - 1].val \in Elements
  <2>1. n - 1 \in Positions /\ n - 1 < m_size
    BY <1>1 DEF Positions
  <2>2. mem[n - 1].val # Raw
    BY <2>1 DEF ArrayInv, ElementsOK, DamageExplained, broken
  <2> QED
    BY <1>1, <2>1, <2>2 DEF Slot
<1>3. Contents \in [1..m_size -> Elements]
  BY <1>2 DEF Contents
<1> QED
  BY <1>1, <1>2, <1>3, SeqDef, LenProperties DEF Contents

(***************************************************************************)
(* One element more at the end, the others as they were: that is what      *)
(* realloc and a constructor in place do to the contents.                  *)
(***************************************************************************)
LEMMA GrowAppends ==
  ASSUME ArrayInv, ArrayInv', ~broken, ~broken', NEW block, NEW e \in Elements, Grow(block, e)
  PROVE  Contents' = Append(Contents, e)
<1>1. /\ m_size \in Nat /\ Contents \in Seq(Elements) /\ Len(Contents) = m_size
      /\ \A n \in 1..m_size : n - 1 \in Positions
  BY ContentsType
<1>2. m_size' = m_size + 1 /\ mem' = Placed(block, e) /\ m_size + 1 \in 0..MaxSize
  BY DEF Grow, ArrayInv, ElementsOK, TypeOK
<1>3. m_size \in Positions /\ mem \in [Positions -> Slot]
  BY <1>1, <1>2, SmallArrayAssumption DEF Positions, ArrayInv, ElementsOK, TypeOK
<1>4. mem'[m_size].val = e /\ \A i \in Positions \ {m_size} : mem'[i] = mem[i]
  BY <1>2, <1>3 DEF Placed
<1>5. /\ Append(Contents, e) \in Seq(Elements) /\ Len(Append(Contents, e)) = m_size + 1
      /\ \A n \in 1..m_size : Append(Contents, e)[n] = Contents[n]
      /\ Append(Contents, e)[m_size + 1] = e
  BY <1>1, AppendProperties
<1>6. Contents' = [n \in 1..(m_size + 1) |-> mem'[n - 1].val]
  BY <1>2 DEF Contents
<1>7. \A n \in 1..(m_size + 1) : mem'[n - 1].val = Append(Contents, e)[n]
  <2> SUFFICES ASSUME NEW n \in 1..(m_size + 1)
               PROVE  mem'[n - 1].val = Append(Contents, e)[n]
    OBVIOUS
  <2>1. CASE n = m_size + 1
    BY <1>1, <1>4, <1>5, <2>1
  <2>2. CASE n # m_size + 1
    <3>1. n \in 1..m_size /\ n - 1 # m_size
      BY <1>1, <2>2
    <3> QED
      BY <1>1, <1>4, <1>5, <3>1 DEF Contents
  <2> QED
    BY <2>1, <2>2
<1>8. Append(Contents, e) = [n \in 1..(m_size + 1) |-> Append(Contents, e)[n]]
  <2>1. Append(Contents, e) \in [1..(m_size + 1) -> Elements]
    BY <1>5, LenProperties
  <2> QED
    BY <2>1
<1> QED
  BY <1>6, <1>7, <1>8

(***************************************************************************)
(* Every step of the array is one of the sequence, or leaves it alone, or  *)
(* is an event.                                                            *)
(***************************************************************************)
LEMMA SequenceStep ==
  ArrayInv /\ ArrayInv' /\ [Next]_vars => [Sequence!Next]_(Sequence!vars)
<1> SUFFICES ASSUME ArrayInv, ArrayInv', [Next]_vars
             PROVE  [Sequence!Next]_<<args, exists, got, broken>>
  BY DEF Sequence!vars, args, exists, broken
<1>A. Sequence!Next <=>
        \/ /\ ~broken
           /\ \/ ~exists /\ exists' = TRUE /\ args' \in Seq(Elements) /\ UNCHANGED <<got, broken>>
              \/ \E e \in Elements : exists /\ args' = Append(args, e) /\ UNCHANGED <<exists, got, broken>>
              \/ \E n \in 1..Len(args) : exists /\ got' = args[n] /\ UNCHANGED <<args, exists, broken>>
              \/ exists /\ exists' = FALSE /\ args' = <<>> /\ UNCHANGED <<got, broken>>
        \/ broken'
  BY DEF Sequence!Next, Sequence!Create, Sequence!Push, Sequence!Get, Sequence!Destroy,
         args, exists, broken
<1> SUFFICES ASSUME ~broken' PROVE Sequence!Next \/ UNCHANGED <<args, exists, got, broken>>
  BY <1>A
<1>0. ~broken /\ happened = {} /\ happened' = {}
  <2>1. happened \subseteq happened'
    <3>1. ASSUME NEW block, NEW e, Grow(block, e) PROVE happened \subseteq happened'
      BY <3>1 DEF Grow
    <3>2. ASSUME NEW event, Throw(event) PROVE happened \subseteq happened'
      BY <3>2 DEF Throw
    <3> QED
      BY <3>1, <3>2 DEF Next, push_back, push_backOwn, variant_construct, OutOfMemory,
         ConstructorThrows, Create, Get, Destroy, Damaged, vars
  <2> QED
    BY <2>1 DEF broken
<1>C. m_size \in Nat /\ Contents \in Seq(Elements) /\ Len(Contents) = m_size
  BY <1>0, ContentsType
<1>S. ASSUME life # "full", life' # "full", got' = got
      PROVE  UNCHANGED <<args, exists, got, broken>>
  BY <1>0, <1>S DEF args, exists, broken
<1>G. ASSUME NEW block, NEW e \in Elements, Growing, Grow(block, e)
      PROVE  Sequence!Next \/ UNCHANGED <<args, exists, got, broken>>
  <2>1. CASE life = "full"
    <3>1. Contents' = Append(Contents, e)
      BY <1>0, <1>G, GrowAppends
    <3> QED
      BY <1>0, <1>A, <1>G, <2>1, <3>1 DEF Grow, args, exists, broken
  <2>2. CASE life # "full"
    BY <1>G, <1>S, <2>2 DEF Grow
  <2> QED
    BY <2>1, <2>2
<1>T. ASSUME NEW event, Throw(event)
      PROVE  UNCHANGED <<args, exists, got, broken>>
  <2>1. life = "list"
    BY <1>0, <1>T DEF Throw
  <2> QED
    BY <1>S, <1>T, <2>1 DEF Throw
<1>1. ASSUME NEW e \in Elements, push_back(e)
      PROVE  Sequence!Next \/ UNCHANGED <<args, exists, got, broken>>
  BY <1>1, <1>G DEF push_back
<1>2. ASSUME NEW e \in Elements, variant_construct(e)
      PROVE  Sequence!Next \/ UNCHANGED <<args, exists, got, broken>>
  BY <1>2, <1>G, SmallArrayAssumption DEF variant_construct
<1>3. ASSUME NEW i \in Positions, push_backOwn(i)
      PROVE  Sequence!Next \/ UNCHANGED <<args, exists, got, broken>>
  <2>1. Growing /\ mem[i].val \in Elements
    BY <1>3 DEF push_backOwn, Sound, Slot, ArrayInv, ElementsOK, TypeOK
  <2>2. \E block \in Grown : Grow(block, mem[i].val)
    BY <1>0, <1>3 DEF push_backOwn
  <2> QED
    BY <1>G, <2>1, <2>2
<1>4. ASSUME NEW i \in Positions, Get(i)
      PROVE  Sequence!Next \/ UNCHANGED <<args, exists, got, broken>>
  <2>1. i \in Nat /\ i < m_size
    BY <1>4, SmallArrayAssumption DEF Get, Positions
  <2>2. i + 1 \in 1..m_size /\ (i + 1) - 1 = i
    BY <1>C, <2>1
  <2>3. Contents[i + 1] = mem[i].val
    BY <2>2 DEF Contents
  <2>4. Contents' = Contents
    BY <1>4 DEF Get, Contents
  <2> QED
    BY <1>0, <1>A, <1>C, <1>4, <2>2, <2>3, <2>4 DEF Get, args, exists, broken
<1>5. CASE Create
  <2>1. CASE life' = "full"
    <3>1. Contents' = Contents
      BY <1>5 DEF Create, Contents
    <3> QED
      BY <1>0, <1>A, <1>C, <1>5, <2>1, <3>1 DEF Create, args, exists, broken
  <2>2. CASE life' # "full"
    BY <1>5, <1>S, <2>2 DEF Create
  <2> QED
    BY <2>1, <2>2
<1>6. CASE Destroy
  BY <1>0, <1>A, <1>6 DEF Destroy, args, exists, broken
<1>7. CASE OutOfMemory \/ ConstructorThrows
  BY <1>7, <1>T DEF OutOfMemory, ConstructorThrows
<1>8. CASE Damaged \/ UNCHANGED vars
  <2>1. UNCHANGED vars
    BY <1>8 DEF Damaged
  <2> QED
    BY <2>1 DEF vars, args, exists, broken, Contents
<1> QED
  BY <1>1, <1>2, <1>3, <1>4, <1>5, <1>6, <1>7, <1>8 DEF Next

(***************************************************************************)
(* IsSequence for every instance: as long as no event has happened, the    *)
(* array behaves as the sequence (std::vector in the other build) that     *)
(* callArgArray and the constructors read their arguments from.            *)
(***************************************************************************)
THEOREM SequenceImplemented == Spec => IsSequence
<1>1. Init => Sequence!Init
  BY DEF Init, Sequence!Init
<1> QED
  BY <1>1, SequenceStep, ArrayInvariant, PTL DEF Spec, IsSequence, Sequence!Spec
=============================================================================
