----------------------------- MODULE Collector ------------------------------
(***************************************************************************)
(* What a Ruby program may expect of its heap: objects it allocates, links *)
(* and drops, and a collector that takes away nothing the program can      *)
(* still get at.  No colours, no phases.                                   *)
(*                                                                         *)
(* stack is what the registers of the running context hold; slots is every *)
(* other place outside the heap: global variables, the arena, the pending  *)
(* exception, the procs and environments of active calls.                  *)
(***************************************************************************)
CONSTANT Obj   \* heap slots

VARIABLES
    live,    \* slots that hold an object
    ref,     \* ref[o]: what the fields of o refer to
    stack,
    slots

heapVars == <<live, ref, stack, slots>>

\* What can be reached from roots along the fields r.
ReachIn(r, roots) ==
    {o \in Obj : \A S \in SUBSET Obj : roots \subseteq S /\ (\A x \in S : r[x] \subseteq S) => o \in S}

ReachFrom(roots) == ReachIn(ref, roots)

Reach == ReachFrom(stack \cup slots)

HeapTypeOK ==
    /\ live \subseteq Obj
    /\ ref \in [Obj -> SUBSET Obj]
    /\ stack \subseteq Obj
    /\ slots \subseteq Obj

HeapInit == live = {} /\ ref = [o \in Obj |-> {}] /\ stack = {} /\ slots = {}

-----------------------------------------------------------------------------
(* The program. *)

\* A new object has no references, and the arena holds it.
HeapAlloc(o) ==
    /\ o \notin live
    /\ live' = live \cup {o}
    /\ slots' = slots \cup {o}
    /\ UNCHANGED <<ref, stack>>

Push(o) ==
    /\ o \in slots
    /\ stack' = stack \cup {o}
    /\ UNCHANGED <<live, ref, slots>>

Load(a, b) ==
    /\ a \in stack /\ b \in ref[a]
    /\ stack' = stack \cup {b}
    /\ UNCHANGED <<live, ref, slots>>

Pop(o) ==
    /\ o \in stack
    /\ stack' = stack \ {o}
    /\ UNCHANGED <<live, ref, slots>>

SetSlot(o) ==
    /\ o \in stack
    /\ slots' = slots \cup {o}
    /\ UNCHANGED <<live, ref, stack>>

ClearSlot(o) ==
    /\ o \in slots
    /\ slots' = slots \ {o}
    /\ UNCHANGED <<live, ref, stack>>

HeapStore(a, b) ==
    /\ a \in stack \cup slots /\ b \in stack \cup slots
    /\ ref' = [ref EXCEPT ![a] = @ \cup {b}]
    /\ UNCHANGED <<live, stack, slots>>

Erase(a, b) ==
    /\ a \in stack \cup slots /\ b \in ref[a]
    /\ ref' = [ref EXCEPT ![a] = @ \ {b}]
    /\ UNCHANGED <<live, stack, slots>>

Program ==
    \/ \E o \in Obj : HeapAlloc(o) \/ Push(o) \/ Pop(o) \/ SetSlot(o) \/ ClearSlot(o)
    \/ \E a, b \in Obj : Load(a, b) \/ HeapStore(a, b) \/ Erase(a, b)

\* The collector: freeing an object frees its fields.
Without(S) == [o \in Obj |-> IF o \in S THEN {} ELSE ref[o]]

Free ==
    /\ \E S \in SUBSET Obj : S \cap Reach = {} /\ live' = live \ S /\ ref' = Without(S)
    /\ UNCHANGED <<stack, slots>>

HeapSpec == HeapInit /\ [][Program \/ Free]_heapVars

=============================================================================
