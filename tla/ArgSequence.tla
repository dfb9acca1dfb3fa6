----------------------------- MODULE ArgSequence -----------------------------
(***************************************************************************)
(* What the calls of the library expect of an ArgArray, and what the       *)
(* std::vector of selfportrait_config.h gives: a sequence that grows at    *)
(* its end, whose elements keep their values and go with the array.  After *)
(* an event it makes no promise about (broken), anything may happen.       *)
(***************************************************************************)
EXTENDS Naturals, Sequences

CONSTANTS
  Elements,     \* the values an argument may have
  NoElement     \* nothing has been read

VARIABLES
  args,         \* the arguments, in order
  exists,       \* whether the array's lifetime is running
  got,          \* what the last access returned
  broken        \* whether an event happened after which nothing is promised

vars == <<args, exists, got, broken>>

Init == args = <<>> /\ ~exists /\ got = NoElement /\ ~broken

\* ArgArray args; or ArgArray args = {...}
Create ==
  /\ ~exists /\ exists' = TRUE
  /\ args' \in Seq(Elements)
  /\ UNCHANGED <<got, broken>>

\* push_back of a value from outside or of one of its own elements
Push(e) ==
  /\ exists /\ args' = Append(args, e)
  /\ UNCHANGED <<exists, got, broken>>

Get(n) ==
  /\ exists /\ got' = args[n]
  /\ UNCHANGED <<args, exists, broken>>

Destroy ==
  /\ exists /\ exists' = FALSE
  /\ args' = <<>>
  /\ UNCHANGED <<got, broken>>

Next ==
  \/ /\ ~broken
     /\ \/ Create
        \/ \E e \in Elements : Push(e)
        \/ \E n \in 1..Len(args) : Get(n)
        \/ Destroy
  \/ broken'

Spec == Init /\ [][Next]_vars
=============================================================================
