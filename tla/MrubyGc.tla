------------------------------ MODULE MrubyGc -------------------------------
(***************************************************************************)
(* mruby's garbage collector (gc.c): tri-colour, incremental, and          *)
(* generational by default.  The program and the collector take turns: the *)
(* collector runs inside an allocation or a call of GC, does a part of its *)
(* work, and lets the program go on.  Where gc.c loops until a phase is    *)
(* over, job is not "run" and the program waits.                           *)
(*                                                                         *)
(* The gray lists are sets.  An object is a heap slot; a slot belongs to a *)
(* page, and pages are swept whole.                                        *)
(***************************************************************************)
EXTENDS Naturals, FiniteSets

CONSTANTS
    Obj,     \* heap slots
    Page,    \* heap pages
    PageOf,  \* PageOf[o]: the page of a slot
    MaxRefs  \* bound: fields of an object

ASSUME GcAssumption == PageOf \in [Obj -> Page] /\ MaxRefs \in Nat

VARIABLES
    live, ref, stack, slots,   \* the heap, as in Collector
    color,       \* color[o]
    white,       \* current_white_part
    gc_state,    \* "root", "mark", "sweep"; and the two halves of the final marking
    gray_list, atomic_gray_list,
    sweeps,      \* pages still to be swept
    old,         \* pages with page->old
    gen,         \* is_generational_gc_mode
    gc_full,
    job,         \* "run", or what the program waits for
    goal,        \* what the job is done for
    lost         \* history: reachable objects that marking has missed

gcVars == <<color, white, gc_state, gray_list, atomic_gray_list, sweeps, old, gen,
            gc_full, job, goal, lost>>
vars == <<live, ref, stack, slots, gcVars>>

\* The heap the program sees.
Heap == INSTANCE Collector WITH Obj <- Obj, live <- live, ref <- ref,
                                stack <- stack, slots <- slots

White == {"white_a", "white_b"}
Other(w) == IF w = "white_a" THEN "white_b" ELSE "white_a"

is_white(o) == color[o] \in White
is_black(o) == color[o] = "black"
is_gray(o) == color[o] = "gray"

\* Slip: either white is dead.
is_deadWhite(o) == is_white(o) \/ o \notin live

\* Both of a slot that holds nothing and of one the mark phase has not found.
is_dead(o) == color[o] = Other(white) \/ o \notin live

is_minor_gc == gen /\ ~gc_full

TypeOK ==
    /\ Heap!HeapTypeOK
    /\ color \in [Obj -> White \cup {"gray", "black"}]
    /\ white \in White
    /\ gc_state \in {"root", "mark", "final", "atomic", "sweep"}
    /\ gray_list \subseteq Obj /\ atomic_gray_list \subseteq Obj
    /\ sweeps \subseteq Page /\ old \subseteq Page
    /\ gen \in BOOLEAN /\ gc_full \in BOOLEAN
    /\ job \in {"run", "minor", "finish", "clear", "cycle"}
    /\ goal \in {"none", "major", "full", "off", "on"}
    /\ lost \subseteq Obj

Init ==
    /\ Heap!HeapInit
    /\ color = [o \in Obj |-> "gray"]
    /\ white = "white_a"
    /\ gc_state = "root"
    /\ gray_list = {} /\ atomic_gray_list = {}
    /\ sweeps = {} /\ old = {}
    /\ gen = TRUE /\ gc_full = TRUE
    /\ job = "run" /\ goal = "none"
    /\ lost = {}

-----------------------------------------------------------------------------
(* The program.  What it cannot expect to survive ends the model: once     *)
(* something is lost, nothing is said any more.                            *)

Runs == job = "run" /\ gc_state \in {"root", "mark", "sweep"} /\ lost = {}

Quiet == UNCHANGED gcVars

\* mrb_obj_alloc, after the collector has had its turn.
Alloc(o) ==
    /\ Runs /\ Heap!HeapAlloc(o)
    /\ color' = [color EXCEPT ![o] = white]
    /\ UNCHANGED <<white, gc_state, gray_list, atomic_gray_list, sweeps, old, gen,
                   gc_full, job, goal, lost>>

\* mrb_field_write_barrier(a, b)
field_write_barrier(a, b) ==
    IF is_black(a) /\ is_white(b)
    THEN IF gen \/ gc_state = "mark"
         THEN /\ color' = [color EXCEPT ![b] = "gray"]
              /\ gray_list' = gray_list \cup {b}
         ELSE /\ color' = [color EXCEPT ![a] = white]
              /\ UNCHANGED gray_list
    ELSE UNCHANGED <<color, gray_list>>

StoreField(a, b) ==
    /\ Runs /\ Cardinality(ref[a] \cup {b}) <= MaxRefs
    /\ Heap!HeapStore(a, b)
    /\ field_write_barrier(a, b)
    /\ UNCHANGED <<white, gc_state, atomic_gray_list, sweeps, old, gen, gc_full, job, goal, lost>>

\* mrb_write_barrier(a)
write_barrier(a) ==
    IF is_black(a)
    THEN /\ color' = [color EXCEPT ![a] = "gray"]
         /\ atomic_gray_list' = atomic_gray_list \cup {a}
    ELSE UNCHANGED <<color, atomic_gray_list>>

StoreObj(a, b) ==
    /\ Runs /\ Cardinality(ref[a] \cup {b}) <= MaxRefs
    /\ Heap!HeapStore(a, b)
    /\ write_barrier(a)
    /\ UNCHANGED <<white, gc_state, gray_list, sweeps, old, gen, gc_full, job, goal, lost>>

\* Registers, globals, the arena and fields that are cleared have no barrier.
Moves ==
    /\ Runs /\ Quiet
    /\ \/ \E o \in Obj : Heap!Push(o) \/ Heap!Pop(o) \/ Heap!SetSlot(o) \/ Heap!ClearSlot(o)
       \/ \E a, b \in Obj : Heap!Load(a, b) \/ Heap!Erase(a, b)

-----------------------------------------------------------------------------
(* incremental_gc: one phase, or a part of it. *)

Collects == lost = {} /\ (job # "run" \/ ~is_minor_gc)

HeapStays == UNCHANGED <<live, ref, stack, slots>>

\* mrb_gc_mark of every object in S.
Painted(S) == [o \in Obj |-> IF o \in S /\ is_white(o) THEN "gray" ELSE color[o]]
Whites(S) == {o \in S : is_white(o)}

\* Slip: the globals are not scanned.
RootScanStack ==
    /\ Collects /\ gc_state = "root"
    /\ color' = Painted(stack)
    /\ gray_list' = (IF is_minor_gc THEN gray_list ELSE {}) \cup Whites(stack)
    /\ atomic_gray_list' = IF is_minor_gc THEN atomic_gray_list ELSE {}
    /\ gc_state' = "mark"
    /\ white' = Other(white)
    /\ HeapStays /\ UNCHANGED <<sweeps, old, gen, gc_full, job, goal, lost>>

RootScan ==
    /\ Collects /\ gc_state = "root"
    /\ color' = Painted(stack \cup slots)
    /\ gray_list' = (IF is_minor_gc THEN gray_list ELSE {}) \cup Whites(stack \cup slots)
    /\ atomic_gray_list' = IF is_minor_gc THEN atomic_gray_list ELSE {}
    /\ gc_state' = "mark"
    /\ white' = Other(white)
    /\ HeapStays /\ UNCHANGED <<sweeps, old, gen, gc_full, job, goal, lost>>

\* gc_mark_children; the loops of the final marking pass over entries that
\* are not gray.
gc_mark_children(o) ==
    /\ color' = [Painted(ref[o]) EXCEPT ![o] = "black"]
    /\ gray_list' = (gray_list \cup Whites(ref[o])) \ {o}

Mark(o) ==
    /\ Collects /\ gc_state \in {"mark", "final", "atomic"}
    /\ o \in gray_list
    /\ IF gc_state = "mark" \/ is_gray(o)
       THEN gc_mark_children(o)
       ELSE gray_list' = gray_list \ {o} /\ UNCHANGED color
    /\ HeapStays
    /\ UNCHANGED <<white, gc_state, atomic_gray_list, sweeps, old, gen, gc_full, job, goal, lost>>

\* Slip: the stack is not scanned again.
FinalScanNothing ==
    /\ Collects /\ gc_state = "mark" /\ gray_list = {}
    /\ gc_state' = "final"
    /\ HeapStays
    /\ UNCHANGED <<color, gray_list, white, atomic_gray_list, sweeps, old, gen, gc_full, job, goal, lost>>

\* final_marking_phase: the stack again, then what the write barrier put off.
FinalScan ==
    /\ Collects /\ gc_state = "mark" /\ gray_list = {}
    /\ color' = Painted(stack)
    /\ gray_list' = Whites(stack)
    /\ gc_state' = "final"
    /\ HeapStays
    /\ UNCHANGED <<white, atomic_gray_list, sweeps, old, gen, gc_full, job, goal, lost>>

FinalAtomic ==
    /\ Collects /\ gc_state = "final" /\ gray_list = {}
    /\ gray_list' = atomic_gray_list
    /\ atomic_gray_list' = {}
    /\ gc_state' = "atomic"
    /\ HeapStays
    /\ UNCHANGED <<color, white, sweeps, old, gen, gc_full, job, goal, lost>>

\* prepare_incremental_sweep
FinalEnd ==
    /\ Collects /\ gc_state = "atomic" /\ gray_list = {}
    /\ gc_state' = "sweep" /\ sweeps' = Page
    /\ lost' = {o \in Heap!Reach : color[o] = Other(white)}
    /\ HeapStays
    /\ UNCHANGED <<color, white, gray_list, atomic_gray_list, old, gen, gc_full, job, goal>>

\* Slip: survivors keep their colour.
SweptBlack(mine, dead) == [o \in Obj |-> IF o \in dead THEN "gray" ELSE color[o]]

\* obj_free gives up the fields; nobody looks at the colour of a free slot.
\* The other objects become white again unless the mode is generational.
Swept(mine, dead) ==
    [o \in Obj |-> IF o \in dead THEN "gray"
                   ELSE IF o \in mine /\ ~gen THEN white ELSE color[o]]

\* Slip: the fields of survivors are given up too.
SweepPageEmpty(p) ==
    LET mine == {o \in Obj : PageOf[o] = p}
        skip == is_minor_gc /\ p \in old
        dead == IF skip THEN {} ELSE {o \in mine : is_dead(o)}
    IN
    /\ Collects /\ gc_state = "sweep" /\ p \in sweeps
    /\ sweeps' = sweeps \ {p}
    /\ live' = live \ dead /\ ref' = Heap!Without(mine)
    /\ color' = Swept(mine, dead)
    /\ old' = IF is_minor_gc /\ mine \subseteq live' THEN old \cup {p} ELSE old \ {p}
    /\ UNCHANGED <<stack, slots, white, gc_state, gray_list, atomic_gray_list, gen,
                   gc_full, job, goal, lost>>

\* incremental_sweep_phase, one page.
SweepPage(p) ==
    LET mine == {o \in Obj : PageOf[o] = p}
        skip == is_minor_gc /\ p \in old
        dead == IF skip THEN {} ELSE {o \in mine : is_dead(o)}
    IN
    /\ Collects /\ gc_state = "sweep" /\ p \in sweeps
    /\ sweeps' = sweeps \ {p}
    /\ live' = live \ dead /\ ref' = Heap!Without(dead)
    /\ color' = Swept(mine, dead)
    /\ old' = IF is_minor_gc /\ mine \subseteq live' THEN old \cup {p} ELSE old \ {p}
    /\ UNCHANGED <<stack, slots, white, gc_state, gray_list, atomic_gray_list, gen,
                   gc_full, job, goal, lost>>

-----------------------------------------------------------------------------
(* Who waits for what when the state is "root" again. *)

\* clear_all_old: a sweep out of turn, with the generational mode switched
\* off, makes every object young.
StartClear(g) ==
    /\ job' = "clear" /\ goal' = g
    /\ gen' = FALSE
    /\ gc_state' = "sweep" /\ sweeps' = Page
    /\ UNCHANGED <<gray_list, atomic_gray_list, gc_full>>

\* The collection is over: the program goes on.
Return(full, mode) ==
    /\ job' = "run" /\ goal' = "none"
    /\ gc_state' = "root"
    /\ gc_full' = full /\ gen' = mode
    /\ UNCHANGED <<gray_list, atomic_gray_list, sweeps>>

\* The tail of mrb_incremental_gc, after a step or after a minor collection:
\* a heap that has grown too far makes the next one a major one.
AfterStep == job = "run" /\ Return(FALSE, gen)
AfterMinor == job = "minor" /\ (Return(FALSE, TRUE) \/ StartClear("major"))

\* clear_all_old, after the half baked collection, and after its sweep.
AfterFinish ==
    /\ job = "finish"
    /\ IF gen THEN StartClear(goal)
       ELSE /\ job' = "cycle" /\ gc_state' = "root"
            /\ UNCHANGED <<goal, gen, gc_full, gray_list, atomic_gray_list, sweeps>>

AfterClear ==
    /\ job = "clear"
    /\ job' = IF goal = "full" THEN "cycle" ELSE "run"
    /\ goal' = IF goal = "full" THEN goal ELSE "none"
    /\ gen' = (goal # "off") /\ gc_full' = (goal # "off")
    /\ gc_state' = "root"
    /\ gray_list' = {} /\ atomic_gray_list' = {}
    /\ UNCHANGED sweeps

\* The end of mrb_full_gc, and of switching the generational mode on.
AfterCycle == job = "cycle" /\ Return(FALSE, gen \/ goal = "on")

SweepEnd ==
    /\ Collects /\ gc_state = "sweep" /\ sweeps = {}
    /\ AfterStep \/ AfterMinor \/ AfterFinish \/ AfterClear \/ AfterCycle
    /\ HeapStays /\ UNCHANGED <<color, white, old, lost>>

\* mrb_incremental_gc in minor mode: all of it at once.
StartMinor ==
    /\ Runs /\ is_minor_gc
    /\ job' = "minor"
    /\ HeapStays /\ UNCHANGED <<color, white, gc_state, gray_list, atomic_gray_list, sweeps,
                                old, gen, gc_full, goal, lost>>

\* mrb_full_gc, and change_gen_gc_mode(FALSE): both clear first.
StartFull(g) ==
    /\ Runs /\ (g = "off" => gen)
    /\ \/ /\ gen /\ ~gc_full /\ StartClear(g)
       \/ /\ IF gen THEN gc_full ELSE gc_state # "root"
          /\ job' = "finish" /\ goal' = g
          /\ UNCHANGED <<gen, gc_state, sweeps, gray_list, atomic_gray_list, gc_full>>
       \/ /\ ~gen /\ gc_state = "root"
          /\ job' = "cycle" /\ goal' = g
          /\ UNCHANGED <<gen, gc_state, sweeps, gray_list, atomic_gray_list, gc_full>>
    /\ HeapStays /\ UNCHANGED <<color, white, old, lost>>

\* change_gen_gc_mode(TRUE)
StartOn ==
    /\ Runs /\ ~gen
    /\ job' = "cycle" /\ goal' = "on"
    /\ HeapStays /\ UNCHANGED <<color, white, gc_state, gray_list, atomic_gray_list, sweeps,
                                old, gen, gc_full, lost>>

-----------------------------------------------------------------------------
Step ==
    \/ RootScan \/ FinalScan \/ FinalAtomic \/ FinalEnd \/ SweepEnd
    \/ \E o \in Obj : Mark(o)
    \/ \E p \in Page : SweepPage(p)

Next ==
    \/ Moves \/ Step \/ StartMinor \/ StartFull("full") \/ StartFull("off") \/ StartOn
    \/ \E o \in Obj : Alloc(o)
    \/ \E a, b \in Obj : StoreField(a, b) \/ StoreObj(a, b)

Spec == Init /\ [][Next]_vars

-----------------------------------------------------------------------------
(* Properties. *)

\* Nothing the program can reach is ever freed, in either mode, whatever the
\* collector and the program do between two steps, as long as the marking has
\* not missed anything.
ReachableIsLive == lost = {} => Heap!Reach \subseteq live

\* Marking misses only what neither the registers nor anything they lead to
\* refers to: the final marking looks at the stack again, but not at globals,
\* the arena or the pending exception.
StackIsSafe == lost \cap Heap!ReachFrom(stack) = {}

\* A collection that runs from its root scan to its sweep without the program
\* in between, as every minor one does, misses nothing at all.
MinorMissesNothing == is_minor_gc => lost = {}

\* What mrb_assert says in the barriers and at the end of a cycle: outside
\* the generational mode nothing is black between two collections; and at
\* that point nobody is left who wears the colour of the dead.
CycleEndsClean ==
    gc_state = "root" =>
        /\ \A o \in live : color[o] # Other(white)
        /\ ~gen => \A o \in live : ~is_black(o)

\* "the Sweep Target White color (the dead objects to be swept)": nothing the
\* program can reach has that colour when the sweep begins.
NothingIsLost == lost = {}

-----------------------------------------------------------------------------
(* The invariant behind them. *)

\* Everything that is marked or leads from a root or from a marked object:
\* what the collection under way may still come to look at.
NonWhite == {o \in live : ~is_white(o)}
Ahead == Heap!ReachFrom(stack \cup slots \cup NonWhite)

Marking == gc_state \in {"mark", "final", "atomic"}

AheadIsLive == Ahead \subseteq live
AheadIsSpared == gc_state = "sweep" /\ lost = {} => \A o \in Ahead : color[o] # Other(white)

\* A slot that is free has no fields.
FreeIsBare == \A o \in Obj \ live : ref[o] = {}

\* No black object refers to a white one.
TriColor ==
    gen \/ Marking =>
        \A o \in live : is_black(o) => \A c \in ref[o] : ~is_white(c)

Lists ==
    /\ gray_list \cup atomic_gray_list \subseteq live
    /\ \A o \in live : is_gray(o) => o \in gray_list \cup atomic_gray_list
    /\ gc_state = "sweep" =>
          \A o \in gray_list \cup atomic_gray_list : color[o] # Other(white)
    /\ job # "clear" /\ gc_state # "atomic" => \A o \in gray_list : is_gray(o)
    /\ ~gen /\ ~Marking /\ job # "clear" => gray_list = {}
    /\ gc_state = "atomic" => atomic_gray_list = {}

Colors ==
    /\ gc_state = "root" => \A o \in live : color[o] # Other(white)
    /\ gc_state = "root" /\ ~is_minor_gc => \A o \in live : color[o] = white
    /\ gc_state = "sweep" =>
          \A o \in live : PageOf[o] \notin sweeps =>
              color[o] # Other(white) /\ (~gen => color[o] = white)
    /\ job = "minor" /\ gc_state # "root" => \A o \in live : color[o] # white

Roots ==
    /\ gc_state \in {"final", "atomic"} => \A o \in stack : ~is_white(o)
    /\ job = "minor" /\ Marking => \A o \in stack \cup slots : ~is_white(o)

Control ==
    /\ job = "minor" => is_minor_gc
    /\ is_minor_gc => job = "minor" \/ (job = "run" /\ gc_state = "root")
    /\ job = "clear" => ~gen /\ gc_state = "sweep"
    /\ job = "finish" => goal \in {"full", "off"}

OldPages ==
    \A p \in old :
        \/ job = "clear" /\ p \in sweeps
        \/ is_minor_gc /\ \A o \in Obj : PageOf[o] = p => o \in live /\ ~is_white(o)

Losses ==
    /\ lost # {} => gc_state = "sweep" /\ sweeps = Page
    /\ StackIsSafe
    /\ MinorMissesNothing

IInv ==
    /\ TypeOK /\ FreeIsBare /\ AheadIsLive /\ AheadIsSpared /\ TriColor /\ Lists
    /\ Colors /\ Roots /\ Control /\ OldPages /\ Losses

\* The collector does to the heap what Collector allows.
HeapSpec == Heap!HeapSpec

=============================================================================
