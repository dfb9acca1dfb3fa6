------------------------------ MODULE SmallArray ------------------------------
(***************************************************************************)
(* SmallArray<VariantValue>, the default ArgArray: the first Small         *)
(* elements lie in the object, the others in a block that realloc extends  *)
(* by one element at a time.  realloc copies bytes, so an element that     *)
(* points into itself (a VariantValue that embeds a std::string whose      *)
(* characters lie in the string) is good only where it was constructed.    *)
(***************************************************************************)
EXTENDS Naturals, Sequences, FiniteSets

CONSTANTS
  Elements,     \* the VariantValues told apart
  Null,         \* the default constructed one
  SelfPointing, \* those that point into themselves
  Small,        \* how many are held in the object
  MaxSize,      \* bound on the size
  Blocks,       \* addresses realloc may return (the heap's bound)
  NoBlock,      \* m_excess is null
  Raw,          \* memory in which nothing was constructed
  Events        \* the events that may occur, see Throw, push_backOwn and MoveEvents

ASSUME SmallArrayAssumption ==
  /\ Small \in Nat /\ MaxSize \in Nat /\ Small <= MaxSize
  /\ Null \in Elements /\ SelfPointing \subseteq Elements \ {Null}
  /\ Raw \notin Elements /\ NoBlock \notin Blocks
  /\ Events \subseteq {"constructor", "memory", "ownElement", "moved"}
  /\ "moved" \in Events \* realloc decides, not the program

VARIABLES
  life,         \* "none", in the constructor from a "list", or "full"
  m_size,
  m_excess,
  mem,          \* mem[i]: the element at position i and where it was constructed
  got,          \* what the last access returned
  leaked,       \* whether an element's memory went without its destructor
  happened      \* history: the events after which the array is no sequence

vars == <<life, m_size, m_excess, mem, got, leaked, happened>>

Positions == 0..(MaxSize - 1)
Homes     == {"fixed", NoBlock} \union Blocks
Slot      == [val : Elements \union {Raw}, at : Homes]
RawSlot   == [val |-> Raw, at |-> NoBlock]
Empty     == [i \in Positions |-> RawSlot]

TypeOK ==
  /\ life \in {"none", "list", "full"} /\ m_size \in 0..MaxSize
  /\ m_excess \in Blocks \union {NoBlock}
  /\ mem \in [Positions -> Slot]
  /\ got \in Elements
  /\ leaked \in BOOLEAN
  /\ happened \subseteq Events

\* access_mem(i) lies in the object or in the block
Home(i, block) == IF i < Small THEN "fixed" ELSE block

\* The element at position i may be used and destroyed
Sound(i) ==
  /\ mem[i].val # Raw
  /\ mem[i].val \in SelfPointing => mem[i].at = Home(i, m_excess)

AllSound == \A i \in Positions : i < m_size => Sound(i)

Init ==
  /\ life = "none" /\ m_size = 0 /\ m_excess = NoBlock /\ mem = Empty
  /\ got = Null /\ leaked = FALSE /\ happened = {}

-----------------------------------------------------------------------------
Growing == life # "none" /\ m_size < MaxSize

\* Where the block is after inc(): realloc extends it in place or moves it
Grown == IF m_size >= Small THEN Blocks ELSE {m_excess}

\* The positions whose bytes a move to block takes along
Moved(block) ==
  IF block = m_excess THEN {} ELSE {i \in Positions : Small <= i /\ i < m_size}

MoveEvents(block) ==
  IF \E i \in Moved(block) : mem[i].val \in SelfPointing THEN {"moved"} ELSE {}

\* Fault: access_mem subtracts one more than Small
PlacedTooLow(block, e) ==
  [mem EXCEPT ![IF m_size > Small THEN m_size - 1 ELSE m_size] =
     [val |-> e, at |-> Home(m_size, block)]]

\* new(access_mem(size() - 1)) T(e), after inc().  construct() is declared to
\* return a T& and returns nothing, which is undefined although no caller uses
\* the result; modelled is the build that comes back from it
Placed(block, e) == [mem EXCEPT ![m_size] = [val |-> e, at |-> Home(m_size, block)]]

\* A new element, counted by inc() before it is constructed
Grow(block, e) ==
  /\ m_size' = m_size + 1 /\ m_excess' = block
  /\ mem' = Placed(block, e)
  /\ happened' = happened \union MoveEvents(block)
  /\ UNCHANGED <<life, got, leaked>>

\* A throw in push_back.  The element stays counted; in the constructor from a
\* list the array does not come to life, ~SmallArrayBase frees the block and
\* nobody destroys the elements.
Throw(event) ==
  /\ Growing /\ event \in Events
  /\ IF life = "list"
     THEN /\ life' = "none" /\ m_size' = 0 /\ m_excess' = NoBlock /\ mem' = Empty
          /\ leaked' = (leaked \/ m_size > 0)
          /\ UNCHANGED <<got, happened>>
     ELSE /\ m_size' = m_size + 1
          /\ \E block \in IF event = "memory" THEN {m_excess} ELSE Grown :
               m_excess' = block /\ happened' = happened \union MoveEvents(block) \union {event}
          /\ UNCHANGED <<life, mem, got, leaked>>

\* push_back(const T&), push_back(T&&) and emplace_back of a value from outside
push_back(e) == Growing /\ \E block \in Grown : Grow(block, e)

\* push_back(a[i]): the argument is a reference, and inc() may have moved what
\* it refers to before the constructor reads it
push_backOwn(i) ==
  /\ Growing /\ life = "full" /\ i < m_size /\ Sound(i)
  /\ \E block \in Grown :
       \/ i \notin Moved(block) /\ Grow(block, mem[i].val)
       \/ /\ i \in Moved(block) /\ "ownElement" \in Events
          /\ m_size' = m_size + 1 /\ m_excess' = block
          /\ \E e \in Elements \union {Raw} : mem' = Placed(block, e)
          /\ happened' = happened \union MoveEvents(block) \union {"ownElement"}
          /\ UNCHANGED <<life, got, leaked>>

\* Fault: the element is not default constructed first
variant_constructRaw(e) ==
  /\ Growing /\ life = "full"
  /\ \E block \in Grown, built \in {e, Raw} : Grow(block, built)

\* variant_construct(v, t): emplace_back() does not throw; if construct<T>(t)
\* does, the element is the empty variant
variant_construct(e) ==
  /\ Growing /\ life = "full"
  /\ \E block \in Grown, built \in {e, Null} : Grow(block, built)

\* realloc fails in inc(), or the element's constructor throws
OutOfMemory == m_size >= Small /\ Throw("memory")

ConstructorThrows == Throw("constructor")

\* SmallArray(), or the start and the end of the constructor from a list
Create ==
  \/ /\ life = "none" /\ life' \in {"full", "list"}
     /\ UNCHANGED <<m_size, m_excess, mem, got, leaked, happened>>
  \/ /\ life = "list" /\ life' = "full"
     /\ UNCHANGED <<m_size, m_excess, mem, got, leaked, happened>>

\* operator[], front, back and the iterators, which are positions
Get(i) ==
  /\ life = "full" /\ i < m_size /\ Sound(i)
  /\ got' = mem[i].val
  /\ UNCHANGED <<life, m_size, m_excess, mem, leaked, happened>>

\* ~SmallArray destroys what is counted, ~SmallArrayBase frees the block
Destroy ==
  /\ life = "full" /\ AllSound
  /\ life' = "none" /\ m_size' = 0 /\ m_excess' = NoBlock /\ mem' = Empty
  /\ leaked' = (leaked \/ \E i \in Positions : i >= m_size /\ mem[i].val # Raw)
  /\ UNCHANGED <<got, happened>>

\* The array cannot be destroyed, or used, without undefined behaviour
Damaged == ~AllSound /\ UNCHANGED vars

Next ==
  \/ \E e \in Elements : push_back(e) \/ variant_construct(e)
  \/ \E i \in Positions : push_backOwn(i) \/ Get(i)
  \/ Create \/ Destroy
  \/ OutOfMemory \/ ConstructorThrows
  \/ Damaged

Spec == Init /\ [][Next]_vars

-----------------------------------------------------------------------------
Contents == [n \in 1..m_size |-> mem[n - 1].val]

Sequence == INSTANCE ArgSequence WITH
  NoElement <- Null,
  args      <- IF life = "full" THEN Contents ELSE <<>>,
  exists    <- life = "full",
  broken    <- happened # {}

(***************************************************************************)
(* Until an event happens the array is the sequence the calls expect (and  *)
(* the other build's std::vector is): growing by realloc, past the inline  *)
(* elements and with the block moving, never loses, reorders or changes an *)
(* argument, whichever way it was put in.                                  *)
(***************************************************************************)
IsSequence == Sequence!Spec

(***************************************************************************)
(* What is wrong with a counted element, and why: it was never constructed *)
(* only if a constructor threw, memory ran out or a reference to an        *)
(* element was pushed; it points to where it no longer is only if it lies  *)
(* behind the inline elements and the block moved.  So up to Small         *)
(* arguments, strings included, are safe as long as their copies are.      *)
(***************************************************************************)
DamageExplained ==
  \A i \in Positions : i < m_size =>
    /\ mem[i].val = Raw => happened \intersect {"constructor", "memory", "ownElement"} # {}
    /\ mem[i].val # Raw /\ ~Sound(i) => i >= Small /\ "moved" \in happened

(***************************************************************************)
(* The memory is well formed, but for the damage that has an explanation.  *)
(***************************************************************************)
ElementsOK == TypeOK /\ DamageExplained
=============================================================================
