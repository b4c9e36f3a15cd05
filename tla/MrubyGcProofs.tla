--------------------------- MODULE MrubyGcProofs ----------------------------
(***************************************************************************)
(* Proofs about mruby's collector, for any number of objects and pages and *)
(* any assignment of objects to pages.                                     *)
(***************************************************************************)
EXTENDS MrubyGc, TLAPS

-----------------------------------------------------------------------------
(* Reachability. *)

\* The roots are reachable, and so is what a reachable object refers to.
LEMMA ReachIsClosed ==
    ASSUME NEW r \in [Obj -> SUBSET Obj], NEW R \in SUBSET Obj
    PROVE  /\ Heap!ReachIn(r, R) \subseteq Obj
           /\ R \subseteq Heap!ReachIn(r, R)
           /\ \A x \in Heap!ReachIn(r, R) : r[x] \subseteq Heap!ReachIn(r, R)
BY DEF Heap!ReachIn

\* Nothing else is reachable: a set that has the roots and is closed has it all.
LEMMA ReachIsLeast ==
    ASSUME NEW r, NEW R, NEW S \in SUBSET Obj,
           R \subseteq S, \A x \in S : r[x] \subseteq S
    PROVE  Heap!ReachIn(r, R) \subseteq S
BY DEF Heap!ReachIn

\* More roots reach more.
LEMMA ReachGrows ==
    ASSUME NEW r, NEW R, NEW Q, R \subseteq Q
    PROVE  Heap!ReachIn(r, R) \subseteq Heap!ReachIn(r, Q)
BY DEF Heap!ReachIn

\* What is ahead of the collector contains the roots and all that is marked,
\* and is closed.
LEMMA AheadFacts ==
    ASSUME TypeOK
    PROVE  /\ Ahead \subseteq Obj
           /\ stack \cup slots \cup NonWhite \subseteq Ahead
           /\ \A x \in Ahead : ref[x] \subseteq Ahead
           /\ Heap!Reach \subseteq Ahead
<1>1. stack \cup slots \cup NonWhite \in SUBSET Obj
  BY DEF TypeOK, Heap!HeapTypeOK, NonWhite
<1>2. ref \in [Obj -> SUBSET Obj]
  BY DEF TypeOK, Heap!HeapTypeOK
<1>3. QED
  BY <1>1, <1>2, ReachIsClosed, ReachGrows DEF Ahead, Heap!ReachFrom, Heap!Reach

\* A step that leads only to S leaves only S ahead.
LEMMA AheadStep ==
    ASSUME NEW S \in SUBSET Obj,
           stack' \cup slots' \cup NonWhite' \subseteq S,
           \A x \in S : ref'[x] \subseteq S
    PROVE  Ahead' \subseteq S
<1>1. Heap!ReachIn(ref', (stack \cup slots \cup NonWhite)') \subseteq S
  BY ReachIsLeast
<1>2. QED
  BY <1>1 DEF Ahead, Heap!ReachFrom

-----------------------------------------------------------------------------
(* The invariant. *)

LEMMA InitHolds == Init => IInv
<1> SUFFICES ASSUME Init PROVE IInv
  OBVIOUS
<1> USE DEF Init, Heap!HeapInit
<1>1. TypeOK
  BY DEF TypeOK, Heap!HeapTypeOK, White
<1>2. Ahead = {}
  <2>1. NonWhite = {}
    BY DEF NonWhite
  <2>2. Ahead \subseteq {}
    BY <2>1, ReachIsLeast DEF Ahead, Heap!ReachFrom
  <2> QED
    BY <2>2
<1>3. AheadIsLive /\ AheadIsSpared
  BY <1>2 DEF AheadIsLive, AheadIsSpared
<1>6. FreeIsBare
  BY DEF FreeIsBare
<1>4. TriColor /\ Lists /\ Colors /\ Roots /\ Control /\ OldPages
  BY DEF TriColor, Lists, Colors, Roots, Control, OldPages, Marking, is_minor_gc
<1>5. Losses
  BY DEF Losses, StackIsSafe, MinorMissesNothing
<1> QED
  BY <1>1, <1>3, <1>4, <1>5, <1>6 DEF IInv

\* When the program takes a step, everything it may come to hold was ahead of
\* the collector already, or is new.
LEMMA ProgramStep ==
    ASSUME IInv, Runs, TypeOK', live \subseteq live',
           \A o \in live' \ live : color'[o] # Other(white),
           stack' \cup slots' \cup NonWhite' \subseteq Ahead \cup (live' \ live),
           \A x \in Ahead \cup (live' \ live) : ref'[x] \subseteq Ahead \cup (live' \ live),
           gc_state' = gc_state, lost' = lost, white' = white,
           \A o \in live : color'[o] = Other(white) => color[o] = Other(white)
    PROVE  AheadIsLive' /\ AheadIsSpared' /\ Losses'
<1>1. Ahead \cup (live' \ live) \in SUBSET Obj
  BY AheadFacts DEF IInv, TypeOK, Heap!HeapTypeOK
<1>2. Ahead' \subseteq Ahead \cup (live' \ live)
  BY ZenonT(40), <1>1, AheadStep
<1>3. AheadIsLive'
  BY <1>2 DEF IInv, AheadIsLive
<1>4. AheadIsSpared'
  BY <1>2 DEF IInv, AheadIsLive, AheadIsSpared
<1>5. Losses'
  BY DEF Runs, Losses, StackIsSafe, MinorMissesNothing
<1> QED
  BY <1>3, <1>4, <1>5

LEMMA MovesHolds == ASSUME IInv, Moves PROVE IInv'
<1> USE DEF Moves, Heap!Push, Heap!Pop, Heap!SetSlot, Heap!ClearSlot, Heap!Load, Heap!Erase
<1>q. UNCHANGED <<live, color, white, gc_state, gray_list, atomic_gray_list, sweeps, old, gen,
                  gc_full, job, goal, lost>>
  BY DEF Quiet, gcVars
<1>1. TypeOK'
  BY <1>q DEF IInv, TypeOK, Heap!HeapTypeOK
<1>r. \A x \in Obj : ref'[x] \subseteq ref[x]
  BY DEF IInv, TypeOK, Heap!HeapTypeOK
<1>l. live \in SUBSET Obj
  BY DEF IInv, TypeOK, Heap!HeapTypeOK
<1>2. AheadIsLive' /\ AheadIsSpared' /\ Losses'
  <2>1. stack' \cup slots' \subseteq Ahead
    BY AheadFacts DEF IInv
  <2>3. NonWhite' = NonWhite
    BY <1>q DEF NonWhite, is_white
  <2>4. stack' \cup slots' \cup NonWhite' \subseteq Ahead
    BY <2>1, <2>3, AheadFacts DEF IInv
  <2>5. \A x \in Ahead : ref'[x] \subseteq Ahead
    BY <1>r, AheadFacts DEF IInv
  <2>6. QED
    BY <1>q, <1>1, <2>4, <2>5, ProgramStep
<1>3. TriColor'
  BY <1>q, <1>r, <1>l DEF IInv, TriColor, Marking, is_black, is_white
<1>4. Lists' /\ Colors' /\ Control' /\ OldPages'
  BY <1>q DEF IInv, Lists, Colors, Control, OldPages, Marking, is_minor_gc, is_gray, is_white
<1>5. Roots'
  BY <1>q DEF IInv, Runs, Roots, Marking, Control
<1>6. FreeIsBare'
  BY <1>q, <1>r DEF IInv, FreeIsBare
<1> QED
  BY <1>1, <1>2, <1>3, <1>4, <1>5, <1>6 DEF IInv

LEMMA AllocHolds == ASSUME IInv, NEW o \in Obj, Alloc(o) PROVE IInv'
<1> USE DEF Alloc, Heap!HeapAlloc
<1>1. TypeOK'
  BY DEF IInv, TypeOK, Heap!HeapTypeOK
<1>c. \A x \in Obj \ {o} : color'[x] = color[x]
  BY DEF IInv, TypeOK
<1>d. color'[o] = white /\ white \in White /\ white # Other(white)
  BY DEF IInv, TypeOK, White, Other
<1>l. live \in SUBSET Obj
  BY DEF IInv, TypeOK, Heap!HeapTypeOK
<1>r. ref' = ref /\ ref[o] = {}
  BY DEF IInv, FreeIsBare
<1>2. AheadIsLive' /\ AheadIsSpared' /\ Losses'
  <2>1. stack' \cup slots' \subseteq Ahead \cup {o}
    BY AheadFacts DEF IInv
  <2>3. NonWhite' \subseteq NonWhite
    BY <1>c, <1>d, <1>l DEF NonWhite, is_white
  <2>4. stack' \cup slots' \cup NonWhite' \subseteq Ahead \cup {o}
    BY <2>1, <2>3, AheadFacts DEF IInv
  <2>5. \A x \in Ahead \cup {o} : ref'[x] \subseteq Ahead \cup {o}
    BY <1>r, AheadFacts DEF IInv
  <2>6. live' \ live = {o}
    OBVIOUS
  <2>7. QED
    BY <1>c, <1>d, <1>l, <1>1, <2>4, <2>5, <2>6, ProgramStep
<1>3. TriColor'
  <2>1. \A x \in live : is_black(x) => o \notin ref[x]
    BY AheadFacts, <1>l DEF IInv, AheadIsLive, NonWhite, is_white, is_black, White
  <2> QED
    BY <2>1, <1>c, <1>d, <1>r, <1>l DEF IInv, TriColor, Marking, is_black, is_white, White,
       TypeOK, Heap!HeapTypeOK
<1>4. Lists'
  BY <1>c, <1>d, <1>l DEF IInv, Lists, Marking, is_gray, White
<1>5. Colors'
  BY <1>c, <1>d, <1>l DEF IInv, Colors, is_minor_gc, Runs
<1>6. Control'
  BY DEF IInv, Control, is_minor_gc
<1>7. OldPages'
  BY <1>c, <1>l DEF IInv, OldPages, is_minor_gc, is_white
<1>8. Roots'
  BY DEF IInv, Runs, Roots, Marking, Control
<1>9. FreeIsBare'
  BY <1>r DEF IInv, FreeIsBare
<1> QED
  BY <1>1, <1>2, <1>3, <1>4, <1>5, <1>6, <1>7, <1>8, <1>9 DEF IInv

LEMMA StoreFieldHolds == ASSUME IInv, NEW a \in Obj, NEW b \in Obj, StoreField(a, b) PROVE IInv'
<1> USE DEF StoreField, Heap!HeapStore
<1>t. TypeOK /\ live \in SUBSET Obj /\ color \in [Obj -> White \cup {"gray", "black"}]
  BY DEF IInv, TypeOK, Heap!HeapTypeOK
<1>w. white \in White /\ white # Other(white) /\ Other(white) \in White
      /\ "gray" \notin White /\ "black" \notin White
  BY <1>t DEF TypeOK, White, Other
<1>ab. a \in Ahead /\ b \in Ahead /\ a \in live /\ b \in live
  BY <1>t, AheadFacts DEF IInv, AheadIsLive
<1>r. \A x \in Obj : ref'[x] = IF x = a THEN ref[a] \cup {b} ELSE ref[x]
  BY <1>t DEF TypeOK, Heap!HeapTypeOK
<1>k. \/ /\ is_black(a) /\ is_white(b) /\ (gen \/ gc_state = "mark")
         /\ color' = [color EXCEPT ![b] = "gray"] /\ gray_list' = gray_list \cup {b}
      \/ /\ is_black(a) /\ is_white(b) /\ ~gen /\ gc_state # "mark"
         /\ color' = [color EXCEPT ![a] = white] /\ gray_list' = gray_list
      \/ /\ ~(is_black(a) /\ is_white(b)) /\ color' = color /\ gray_list' = gray_list
  BY DEF field_write_barrier
<1>1. TypeOK'
  BY <1>t, <1>w, <1>k DEF TypeOK, Heap!HeapTypeOK
<1>2. AheadIsLive' /\ AheadIsSpared' /\ Losses'
  <2>1. NonWhite' \subseteq NonWhite \cup {b}
    BY <1>t, <1>w, <1>k DEF NonWhite, is_white
  <2>2. stack' \cup slots' \cup NonWhite' \subseteq Ahead
    BY <2>1, <1>t, <1>ab, AheadFacts
  <2>3. \A x \in Ahead : ref'[x] \subseteq Ahead
    BY <1>t, <1>r, <1>ab, AheadFacts
  <2>4. \A o \in live : color'[o] = Other(white) => color[o] = Other(white)
    BY <1>t, <1>w, <1>k
  <2> QED
    BY <1>1, <2>2, <2>3, <2>4, ProgramStep
<1>3. TriColor'
  BY <1>t, <1>w, <1>r, <1>k DEF IInv, TriColor, Marking, Runs, is_black, is_white,
     TypeOK, Heap!HeapTypeOK
<1>4. Lists'
  BY <1>t, <1>w, <1>ab, <1>k DEF IInv, Lists, Marking, Runs, is_gray, is_black
<1>5. Colors'
  BY <1>t, <1>w, <1>ab, <1>k DEF IInv, Colors, Runs, is_minor_gc, is_black
<1>6. Control'
  BY DEF IInv, Control, is_minor_gc
<1>7. OldPages'
  BY <1>t, <1>w, <1>k DEF IInv, OldPages, Runs, is_minor_gc, is_white
<1>8. Roots'
  BY DEF IInv, Runs, Roots, Marking, Control
<1>9. FreeIsBare'
  BY <1>r, <1>ab DEF IInv, FreeIsBare
<1> QED
  BY <1>1, <1>2, <1>3, <1>4, <1>5, <1>6, <1>7, <1>8, <1>9 DEF IInv

LEMMA StoreObjHolds == ASSUME IInv, NEW a \in Obj, NEW b \in Obj, StoreObj(a, b) PROVE IInv'
<1> USE DEF StoreObj, Heap!HeapStore
<1>t. TypeOK /\ live \in SUBSET Obj /\ color \in [Obj -> White \cup {"gray", "black"}]
  BY DEF IInv, TypeOK, Heap!HeapTypeOK
<1>w. white \in White /\ white # Other(white) /\ Other(white) \in White
      /\ "gray" \notin White /\ "black" \notin White
  BY <1>t DEF TypeOK, White, Other
<1>ab. a \in Ahead /\ b \in Ahead /\ a \in live /\ b \in live
  BY <1>t, AheadFacts DEF IInv, AheadIsLive
<1>r. \A x \in Obj : ref'[x] = IF x = a THEN ref[a] \cup {b} ELSE ref[x]
  BY <1>t DEF TypeOK, Heap!HeapTypeOK
<1>k. \/ /\ is_black(a) /\ color' = [color EXCEPT ![a] = "gray"]
         /\ atomic_gray_list' = atomic_gray_list \cup {a}
      \/ ~is_black(a) /\ color' = color /\ atomic_gray_list' = atomic_gray_list
  BY DEF write_barrier
<1>1. TypeOK'
  BY <1>t, <1>w, <1>k DEF TypeOK, Heap!HeapTypeOK
<1>2. AheadIsLive' /\ AheadIsSpared' /\ Losses'
  <2>1. NonWhite' \subseteq NonWhite
    BY <1>t, <1>w, <1>k DEF NonWhite, is_white, is_black
  <2>2. stack' \cup slots' \cup NonWhite' \subseteq Ahead
    BY <2>1, <1>t, AheadFacts
  <2>3. \A x \in Ahead : ref'[x] \subseteq Ahead
    BY <1>t, <1>r, <1>ab, AheadFacts
  <2>4. \A o \in live : color'[o] = Other(white) => color[o] = Other(white)
    BY <1>t, <1>w, <1>k
  <2> QED
    BY <1>1, <2>2, <2>3, <2>4, ProgramStep
<1>3. TriColor'
  BY <1>t, <1>w, <1>r, <1>k DEF IInv, TriColor, Marking, Runs, is_black, is_white,
     TypeOK, Heap!HeapTypeOK
<1>4. Lists'
  BY <1>t, <1>w, <1>ab, <1>k DEF IInv, Lists, Marking, Runs, is_gray, is_black
<1>5. Colors'
  BY <1>t, <1>w, <1>ab, <1>k DEF IInv, Colors, Runs, is_minor_gc, is_black
<1>6. Control'
  BY DEF IInv, Control, is_minor_gc
<1>7. OldPages'
  BY <1>t, <1>w, <1>k DEF IInv, OldPages, Runs, is_minor_gc, is_white
<1>8. Roots'
  BY DEF IInv, Runs, Roots, Marking, Control
<1>9. FreeIsBare'
  BY <1>r, <1>ab DEF IInv, FreeIsBare
<1> QED
  BY <1>1, <1>2, <1>3, <1>4, <1>5, <1>6, <1>7, <1>8, <1>9 DEF IInv

-----------------------------------------------------------------------------
(* The collector. *)

\* The two whites differ, and neither is gray or black.
LEMMA Whiteness ==
    ASSUME TypeOK
    PROVE  /\ white \in White /\ Other(white) \in White /\ white # Other(white)
           /\ Other(Other(white)) = white
           /\ \A c \in White : c = white \/ c = Other(white)
           /\ "gray" \notin White /\ "black" \notin White
           /\ live \in SUBSET Obj
           /\ color \in [Obj -> White \cup {"gray", "black"}]
BY DEF TypeOK, Heap!HeapTypeOK, White, Other

\* Marking leaves nothing ahead that was not ahead before.
LEMMA MarkingStep ==
    ASSUME TypeOK, HeapStays, NonWhite' \subseteq Ahead
    PROVE  Ahead' \subseteq Ahead
<1>1. Ahead \in SUBSET Obj /\ stack' \cup slots' \cup NonWhite' \subseteq Ahead
  BY AheadFacts DEF HeapStays
<1>2. \A x \in Ahead : ref'[x] \subseteq Ahead
  BY AheadFacts DEF HeapStays
<1> QED
  BY <1>1, <1>2, AheadStep

\* What mrb_gc_mark does to colours.
LEMMA PaintedFacts ==
    ASSUME TypeOK, NEW S \in SUBSET Obj
    PROVE  /\ Painted(S) \in [Obj -> White \cup {"gray", "black"}]
           /\ \A o \in Obj : Painted(S)[o] = IF o \in S /\ color[o] \in White
                                              THEN "gray" ELSE color[o]
           /\ Whites(S) = {o \in S : color[o] \in White}
BY Whiteness DEF Painted, Whites, is_white

LEMMA RootScanHolds == ASSUME IInv, RootScan PROVE IInv'
<1> USE DEF RootScan, HeapStays
<1>t. TypeOK
  BY DEF IInv
<1>w. /\ white \in White /\ Other(white) \in White /\ white # Other(white)
      /\ Other(Other(white)) = white
      /\ "gray" \notin White /\ "black" \notin White
      /\ live \in SUBSET Obj /\ color \in [Obj -> White \cup {"gray", "black"}]
  BY <1>t, Whiteness
<1>s. stack \cup slots \in SUBSET Obj /\ stack \cup slots \subseteq Ahead /\ Ahead \subseteq live
  BY <1>t, AheadFacts DEF IInv, AheadIsLive, TypeOK, Heap!HeapTypeOK
<1>c. /\ color' \in [Obj -> White \cup {"gray", "black"}]
      /\ \A o \in Obj : color'[o] = IF o \in stack \cup slots /\ color[o] \in White
                                     THEN "gray" ELSE color[o]
      /\ Whites(stack \cup slots) = {o \in stack \cup slots : color[o] \in White}
  BY <1>t, <1>s, PaintedFacts
<1>1. TypeOK'
  BY ZenonT(40), <1>t, <1>w, <1>s, <1>c DEF TypeOK, Heap!HeapTypeOK
<1>2. AheadIsLive' /\ AheadIsSpared' /\ Losses' /\ FreeIsBare'
  <2>1. NonWhite' \subseteq Ahead
    BY Zenon, <1>t, <1>w, <1>s, <1>c, AheadFacts DEF NonWhite, is_white
  <2>2. Ahead' \subseteq Ahead
    BY <1>t, <2>1, MarkingStep
  <2> QED
    BY <2>2, <1>s DEF IInv, AheadIsLive, AheadIsSpared, FreeIsBare, Losses, StackIsSafe,
       MinorMissesNothing, Collects
<1>3. TriColor'
  <2>1. gen \/ \A o \in live : ~is_black(o)
    BY <1>w DEF IInv, Colors, is_minor_gc, is_black
  <2> QED
    BY ZenonT(40), <2>1, <1>t, <1>w, <1>c DEF IInv, TriColor, is_black, is_white, TypeOK, Heap!HeapTypeOK
<1>4. Lists'
  <2>1. is_minor_gc \/ \A o \in live : color[o] = white
    BY DEF IInv, Colors
  <2>2. job # "clear"
    BY DEF IInv, Control
  <2> QED
    BY <2>1, <2>2, <1>w, <1>s, <1>c DEF IInv, Lists, Marking, is_gray
<1>5. Colors'
  BY <1>w, <1>c DEF IInv, Colors
<1>6. Roots' /\ Control'
  BY <1>w, <1>s, <1>c DEF IInv, Roots, Control, Collects, is_minor_gc, is_white
<1>7. OldPages'
  BY <1>w, <1>c DEF IInv, OldPages, Control, is_minor_gc, is_white
<1> QED
  BY <1>1, <1>2, <1>3, <1>4, <1>5, <1>6, <1>7 DEF IInv

LEMMA MarkHolds == ASSUME IInv, NEW o \in Obj, Mark(o) PROVE IInv'
<1> USE DEF Mark, HeapStays
<1>t. TypeOK
  BY DEF IInv
<1>w. /\ white \in White /\ Other(white) \in White /\ white # Other(white)
      /\ "gray" \notin White /\ "black" \notin White
      /\ live \in SUBSET Obj /\ color \in [Obj -> White \cup {"gray", "black"}]
  BY <1>t, Whiteness
<1>j. job # "clear" /\ Marking
  BY DEF IInv, Control, Marking
<1>o. o \in live /\ (gc_state # "atomic" => is_gray(o))
  BY <1>j DEF IInv, Lists
<1>a. CASE gc_mark_children(o) /\ is_gray(o)
  <2> USE <1>a DEF gc_mark_children
  <2>s. ref[o] \in SUBSET Obj /\ o \in Ahead /\ ref[o] \subseteq Ahead /\ Ahead \subseteq live
    BY <1>t, <1>w, <1>o, AheadFacts
       DEF IInv, AheadIsLive, TypeOK, Heap!HeapTypeOK, NonWhite, is_white, is_gray
  <2>p. /\ Painted(ref[o]) \in [Obj -> White \cup {"gray", "black"}]
        /\ \A x \in Obj : Painted(ref[o])[x] = IF x \in ref[o] /\ color[x] \in White
                                                THEN "gray" ELSE color[x]
        /\ Whites(ref[o]) = {x \in ref[o] : color[x] \in White}
    BY <1>t, <2>s, PaintedFacts
  <2>c. /\ color' \in [Obj -> White \cup {"gray", "black"}]
        /\ \A x \in Obj : color'[x] = IF x = o THEN "black"
                                       ELSE IF x \in ref[o] /\ color[x] \in White
                                       THEN "gray" ELSE color[x]
        /\ gray_list' = (gray_list \cup {x \in ref[o] : color[x] \in White}) \ {o}
    BY <2>p
  <2>1. TypeOK'
    BY Zenon, <1>t, <2>s, <2>c DEF TypeOK, Heap!HeapTypeOK
  <2>2. AheadIsLive' /\ AheadIsSpared' /\ Losses' /\ FreeIsBare'
    <3>1. NonWhite' \subseteq Ahead
      BY SMTT(30), <1>t, <1>w, <2>s, <2>c, AheadFacts DEF NonWhite, is_white
    <3>2. Ahead' \subseteq Ahead
      BY <1>t, <3>1, MarkingStep
    <3> QED
      BY Zenon, <3>2, <2>s DEF IInv, AheadIsLive, AheadIsSpared, FreeIsBare, Losses, StackIsSafe,
         MinorMissesNothing, Collects
  <2>3. TriColor'
    BY <1>t, <1>w, <1>j, <2>c DEF IInv, TriColor, Marking, is_black, is_white,
       TypeOK, Heap!HeapTypeOK
  <2>4. Lists'
    BY ZenonT(40), <1>w, <1>j, <2>s, <2>c DEF IInv, Lists, Marking, is_gray
  <2>5. Colors' /\ Control'
    BY <1>w, <2>c DEF IInv, Colors, Control, is_minor_gc
  <2>6. Roots'
    BY <1>t, <1>w, <2>c DEF IInv, Roots, Marking, is_white, TypeOK, Heap!HeapTypeOK
  <2>7. OldPages'
    BY ZenonT(40), <1>w, <2>c DEF IInv, OldPages, is_minor_gc, is_white
  <2> QED
    BY <2>1, <2>2, <2>3, <2>4, <2>5, <2>6, <2>7 DEF IInv
<1>b. CASE gc_state = "atomic" /\ ~is_gray(o) /\ gray_list' = gray_list \ {o} /\ color' = color
  <2> USE <1>b
  <2>1. TypeOK'
    BY <1>t DEF TypeOK, Heap!HeapTypeOK
  <2>2. Ahead' = Ahead
    BY DEF Ahead, NonWhite, is_white, Heap!ReachFrom
  <2>3. AheadIsLive' /\ AheadIsSpared' /\ Losses' /\ FreeIsBare'
    BY <2>2 DEF IInv, AheadIsLive, AheadIsSpared, FreeIsBare, Losses, StackIsSafe,
       MinorMissesNothing, Collects
  <2>4. Lists'
    BY DEF IInv, Lists, Marking, is_gray
  <2>5. TriColor' /\ Colors' /\ Control' /\ Roots' /\ OldPages'
    BY DEF IInv, TriColor, Colors, Control, Roots, OldPages, Marking, is_minor_gc, is_white,
       is_black
  <2> QED
    BY <2>1, <2>3, <2>4, <2>5 DEF IInv
<1> QED
  BY <1>a, <1>b, <1>o

LEMMA FinalScanHolds == ASSUME IInv, FinalScan PROVE IInv'
<1> USE DEF FinalScan, HeapStays
<1>t. TypeOK
  BY DEF IInv
<1>w. /\ white \in White /\ Other(white) \in White
      /\ "gray" \notin White /\ "black" \notin White
      /\ live \in SUBSET Obj /\ color \in [Obj -> White \cup {"gray", "black"}]
  BY <1>t, Whiteness
<1>s. stack \in SUBSET Obj /\ stack \subseteq Ahead /\ Ahead \subseteq live
  BY <1>t, AheadFacts DEF IInv, AheadIsLive, TypeOK, Heap!HeapTypeOK
<1>c. /\ color' \in [Obj -> White \cup {"gray", "black"}]
      /\ \A o \in Obj : color'[o] = IF o \in stack /\ color[o] \in White
                                     THEN "gray" ELSE color[o]
      /\ gray_list' = {o \in stack : color[o] \in White}
  BY <1>t, <1>s, PaintedFacts
<1>1. TypeOK'
  BY <1>t, <1>s, <1>c DEF TypeOK, Heap!HeapTypeOK
<1>2. AheadIsLive' /\ AheadIsSpared' /\ Losses' /\ FreeIsBare'
  <2>1. NonWhite' \subseteq Ahead
    BY <1>t, <1>w, <1>s, <1>c, AheadFacts DEF NonWhite, is_white
  <2>2. Ahead' \subseteq Ahead
    BY <1>t, <2>1, MarkingStep
  <2> QED
    BY <2>2, <1>s DEF IInv, AheadIsLive, AheadIsSpared, FreeIsBare, Losses, StackIsSafe,
       MinorMissesNothing, Collects
<1>3. TriColor'
  BY <1>t, <1>w, <1>c DEF IInv, TriColor, Marking, is_black, is_white, TypeOK, Heap!HeapTypeOK
<1>4. Lists'
  BY <1>w, <1>s, <1>c DEF IInv, Lists, Marking, is_gray
<1>5. Colors' /\ Control'
  BY <1>w, <1>c DEF IInv, Colors, Control, is_minor_gc
<1>6. Roots'
  BY <1>t, <1>w, <1>s, <1>c DEF IInv, Roots, Marking, is_white, TypeOK, Heap!HeapTypeOK
<1>7. OldPages'
  BY <1>w, <1>c DEF IInv, OldPages, Control, is_minor_gc, is_white
<1> QED
  BY <1>1, <1>2, <1>3, <1>4, <1>5, <1>6, <1>7 DEF IInv

\* A step that leaves the heap and the colours alone leaves what is ahead.
LEMMA SameAhead ==
    ASSUME HeapStays, color' = color
    PROVE  Ahead' = Ahead
BY DEF Ahead, NonWhite, is_white, Heap!ReachFrom, HeapStays

LEMMA FinalAtomicHolds == ASSUME IInv, FinalAtomic PROVE IInv'
<1> USE DEF FinalAtomic
<1>1. TypeOK'
  BY DEF IInv, TypeOK, Heap!HeapTypeOK, HeapStays
<1>2. AheadIsLive' /\ AheadIsSpared' /\ Losses' /\ FreeIsBare'
  BY SameAhead DEF IInv, AheadIsLive, AheadIsSpared, FreeIsBare, Losses, StackIsSafe,
     MinorMissesNothing, Collects, HeapStays
<1>3. Lists'
  BY DEF IInv, Lists, Marking, is_gray, HeapStays
<1>4. TriColor' /\ Colors' /\ Control' /\ Roots' /\ OldPages'
  BY DEF IInv, TriColor, Colors, Control, Roots, OldPages, Marking, is_minor_gc, is_white,
     is_black, HeapStays
<1> QED
  BY <1>1, <1>2, <1>3, <1>4 DEF IInv

\* At the end of the marking nothing is gray, so what is marked is closed:
\* everything the stack leads to is in it.
LEMMA FinalEndHolds == ASSUME IInv, FinalEnd PROVE IInv'
<1> USE DEF FinalEnd
<1>t. TypeOK
  BY DEF IInv
<1>w. /\ white \in White /\ Other(white) \in White
      /\ "gray" \notin White /\ "black" \notin White
      /\ live \in SUBSET Obj /\ color \in [Obj -> White \cup {"gray", "black"}]
      /\ ref \in [Obj -> SUBSET Obj] /\ stack \in SUBSET Obj /\ slots \in SUBSET Obj
  BY <1>t, Whiteness DEF TypeOK, Heap!HeapTypeOK
<1>a. Ahead \subseteq live /\ stack \cup slots \cup NonWhite \subseteq Ahead
      /\ (\A x \in Ahead : ref[x] \subseteq Ahead)
  BY <1>t, AheadFacts DEF IInv, AheadIsLive
<1>e. gray_list = {} /\ atomic_gray_list = {} /\ \A o \in live : ~is_gray(o)
  BY DEF IInv, Lists
<1>n. NonWhite \in SUBSET Obj /\ \A x \in NonWhite : ref[x] \subseteq NonWhite
  BY <1>w, <1>a, <1>e DEF IInv, TriColor, Marking, NonWhite, is_white, is_black, is_gray
<1>r. Heap!Reach \in SUBSET Obj /\ stack \cup slots \subseteq Heap!Reach
      /\ \A x \in Heap!Reach : ref[x] \subseteq Heap!Reach
  BY ZenonT(40), <1>w, ReachIsClosed DEF Heap!Reach, Heap!ReachFrom
<1>1. TypeOK'
  BY <1>t, <1>r DEF TypeOK, Heap!HeapTypeOK, HeapStays
<1>2. Ahead' = Ahead
  BY SameAhead, Zenon
<1>3. AheadIsLive' /\ FreeIsBare'
  BY <1>2 DEF IInv, AheadIsLive, FreeIsBare, HeapStays
<1>4. AheadIsSpared'
  <2>1. Ahead \subseteq Heap!Reach \cup NonWhite
    BY ZenonT(40), <1>n, <1>r, ReachIsLeast DEF Ahead, Heap!ReachFrom
  <2> QED
    BY <1>w, <1>2, <2>1 DEF AheadIsSpared, NonWhite, is_white
<1>5. Losses'
  <2>1. StackIsSafe'
    <3>1. stack \subseteq NonWhite
      BY <1>a DEF IInv, Roots, NonWhite
    <3>2. Heap!ReachFrom(stack) \subseteq NonWhite
      BY <1>n, <3>1, ReachIsLeast DEF Heap!ReachFrom
    <3>3. Heap!ReachFrom(stack)' = Heap!ReachFrom(stack)
      BY DEF HeapStays, Heap!ReachFrom
    <3> QED
      BY <1>w, <3>2, <3>3 DEF StackIsSafe, NonWhite, is_white
  <2>2. MinorMissesNothing'
    <3>1. SUFFICES ASSUME is_minor_gc PROVE lost' = {}
      BY DEF MinorMissesNothing, is_minor_gc
    <3>2. stack \cup slots \subseteq NonWhite
      BY <1>a, <3>1 DEF IInv, Control, Roots, Marking, NonWhite
    <3>3. Heap!Reach \subseteq NonWhite
      BY <1>n, <3>2, ReachIsLeast DEF Heap!Reach, Heap!ReachFrom
    <3> QED
      BY <1>w, <3>3 DEF NonWhite, is_white
  <2> QED
    BY <2>1, <2>2 DEF Losses
<1>6. Lists'
  BY <1>e DEF IInv, Lists, is_gray, HeapStays
<1>7. TriColor' /\ Control' /\ Roots' /\ OldPages'
  BY ZenonT(40) DEF IInv, TriColor, Control, Roots, OldPages, Marking, is_minor_gc, is_white,
     is_black, HeapStays
<1>8. Colors'
  BY <1>w, GcAssumption DEF IInv, Colors, HeapStays
<1> QED
  BY <1>1, <1>3, <1>4, <1>5, <1>6, <1>7, <1>8 DEF IInv

\* What a page's sweep frees is not ahead of the collector: nothing that is
\* reachable, nothing that is marked.
LEMMA SweptIsUnreachable ==
    ASSUME IInv, lost = {}, gc_state = "sweep", NEW S, \A x \in S : x \in Obj /\ is_dead(x)
    PROVE  S \cap Ahead = {}
BY DEF IInv, AheadIsLive, AheadIsSpared, is_dead

LEMMA SweepPageHolds == ASSUME IInv, NEW p \in Page, SweepPage(p) PROVE IInv'
<1> DEFINE mine == {o \in Obj : PageOf[o] = p}
           skip == is_minor_gc /\ p \in old
           dead == IF skip THEN {} ELSE {o \in mine : is_dead(o)}
<1> HIDE DEF mine, skip, dead
<1>s. /\ lost = {} /\ gc_state = "sweep" /\ p \in sweeps /\ (job # "run" \/ ~is_minor_gc)
      /\ sweeps' = sweeps \ {p} /\ live' = live \ dead /\ ref' = Heap!Without(dead)
      /\ color' = Swept(mine, dead)
      /\ old' = IF is_minor_gc /\ mine \subseteq live' THEN old \cup {p} ELSE old \ {p}
      /\ UNCHANGED <<stack, slots, white, gc_state, gray_list, atomic_gray_list, gen,
                     gc_full, job, goal, lost>>
  BY ZenonT(40) DEF SweepPage, Collects, mine, skip, dead
<1>t. TypeOK
  BY DEF IInv
<1>w. /\ white \in White /\ Other(white) \in White /\ white # Other(white)
      /\ (\A c \in White : c = white \/ c = Other(white))
      /\ "gray" \notin White /\ "black" \notin White
      /\ live \in SUBSET Obj /\ color \in [Obj -> White \cup {"gray", "black"}]
      /\ ref \in [Obj -> SUBSET Obj]
  BY <1>t, Whiteness DEF TypeOK, Heap!HeapTypeOK
<1>m. mine \in SUBSET Obj /\ (\A o \in Obj : o \in mine <=> PageOf[o] = p)
      /\ dead \subseteq mine /\ \A o \in dead : o \in Obj /\ is_dead(o)
  BY DEF mine, dead
<1>d. \A o \in mine \ dead : o \in live /\ color[o] # Other(white)
  <2>1. CASE skip
    BY ZenonT(40), <2>1, <1>w, <1>s, <1>m DEF skip, IInv, OldPages, Control, is_minor_gc, is_white
  <2>2. CASE ~skip
    BY <2>2, <1>m DEF dead, is_dead
  <2> QED
    BY <2>1, <2>2
<1>a. dead \cap Ahead = {}
  BY ZenonT(40), <1>s, <1>m, SweptIsUnreachable
<1>f. Ahead \in SUBSET Obj /\ stack \cup slots \cup NonWhite \subseteq Ahead
      /\ Ahead \subseteq live /\ (\A x \in Ahead : ref[x] \subseteq Ahead)
  BY <1>t, AheadFacts DEF IInv, AheadIsLive
<1>c. /\ color' \in [Obj -> White \cup {"gray", "black"}]
      /\ \A o \in Obj : color'[o] = IF o \in dead THEN "gray"
                                     ELSE IF o \in mine /\ ~gen THEN white ELSE color[o]
  BY <1>s, <1>w DEF Swept
<1>r. /\ ref' \in [Obj -> SUBSET Obj]
      /\ \A o \in Obj : ref'[o] = IF o \in dead THEN {} ELSE ref[o]
  BY <1>s, <1>w DEF Heap!Without
<1>l. /\ gray_list \cup atomic_gray_list \subseteq live \ dead
      /\ \A o \in gray_list \cup atomic_gray_list : color[o] # Other(white)
  BY <1>s, <1>m DEF IInv, Lists, is_dead
<1>1. TypeOK'
  BY <1>t, <1>s, <1>c, <1>r DEF TypeOK, Heap!HeapTypeOK
<1>2. AheadIsLive' /\ AheadIsSpared' /\ Losses' /\ FreeIsBare'
  <2>1. NonWhite' \subseteq NonWhite
    BY <1>s, <1>w, <1>c DEF NonWhite, is_white
  <2>2. Ahead' \subseteq Ahead
    <3>1. stack' \cup slots' \cup NonWhite' \subseteq Ahead
      BY <1>s, <1>f, <2>1
    <3>2. \A x \in Ahead : ref'[x] \subseteq Ahead
      BY Zenon, <1>f, <1>r
    <3> QED
      BY ZenonT(40), <1>f, <3>1, <3>2, AheadStep
  <2>3. AheadIsLive'
    BY <2>2, <1>s, <1>a, <1>f DEF AheadIsLive
  <2>4. AheadIsSpared'
    BY <2>2, <1>s, <1>w, <1>a, <1>f, <1>c DEF IInv, AheadIsSpared
  <2>5. FreeIsBare'
    BY <1>s, <1>r DEF IInv, FreeIsBare
  <2> QED
    BY <2>3, <2>4, <2>5, <1>s DEF Losses, StackIsSafe, MinorMissesNothing
<1>3. TriColor'
  <2>1. SUFFICES ASSUME gen, NEW o \in live', color'[o] = "black", NEW c \in ref'[o]
                 PROVE  color'[c] \notin White
    BY <1>s DEF TriColor, Marking, is_black, is_white
  <2>2. o \in live /\ o \notin dead /\ o \in Obj /\ color[o] = "black" /\ c \in ref[o]
    BY <2>1, <1>s, <1>w, <1>c, <1>r
  <2>3. c \in Ahead /\ c \in Obj /\ c \notin dead
    BY Zenon, <2>2, <1>w, <1>a, <1>f DEF NonWhite, is_white
  <2>4. color[c] \notin White
    BY Zenon, <2>1, <2>2 DEF IInv, TriColor, is_black, is_white
  <2> QED
    BY ZenonT(40), <2>1, <2>3, <2>4, <1>c
<1>4. Lists'
  <2>1. \A o \in live' : color'[o] = "gray" => color[o] = "gray"
    BY <1>s, <1>w, <1>c
  <2>2. \A o \in gray_list \cup atomic_gray_list : color'[o] # Other(white)
    BY <1>w, <1>c, <1>l
  <2>3. job # "clear" => \A o \in gray_list : color'[o] = "gray"
    BY Zenon, <1>s, <1>w, <1>c, <1>l DEF IInv, Lists, Marking, is_gray
  <2> QED
    BY Zenon, <2>1, <2>2, <2>3, <1>s, <1>l DEF IInv, Lists, Marking, is_gray
<1>5. Colors'
  <2>1. \A o \in live' : PageOf[o] \notin sweeps' =>
            color'[o] # Other(white) /\ (~gen => color'[o] = white)
    BY <1>s, <1>w, <1>c, <1>m, <1>d DEF IInv, Colors
  <2>2. job = "minor" => \A o \in live' : color'[o] # white
    BY <1>s, <1>w, <1>c DEF IInv, Colors, Control, is_minor_gc
  <2> QED
    BY ZenonT(40), <2>1, <2>2, <1>s DEF Colors
<1>6. Control' /\ Roots'
  BY <1>s DEF IInv, Control, Roots, Marking, is_minor_gc
<1>7. OldPages'
  <2>1. SUFFICES ASSUME NEW q \in old'
                 PROVE  \/ job = "clear" /\ q \in sweeps'
                        \/ is_minor_gc /\ \A o \in Obj : PageOf[o] = q =>
                                              o \in live' /\ color'[o] \notin White
    BY ZenonT(40), <1>s DEF OldPages, is_minor_gc, is_white
  <2>2. CASE q = p
    <3>1. is_minor_gc /\ mine \subseteq live'
      BY <2>1, <2>2, <1>s
    <3>2. job = "minor" /\ gen
      BY Zenon, <3>1, <1>s DEF IInv, Control, is_minor_gc
    <3>3. \A o \in mine : color[o] # white /\ color[o] # Other(white)
      BY ZenonT(40), <3>1, <3>2, <1>s, <1>d DEF IInv, Colors
    <3> QED
      BY <2>2, <3>1, <3>2, <3>3, <1>s, <1>w, <1>m, <1>c
  <2>3. CASE q # p
    <3>1. q \in old
      BY ZenonT(40), <2>1, <2>3, <1>s
    <3> QED
      BY <2>3, <3>1, <1>s, <1>w, <1>m, <1>c DEF IInv, OldPages, is_minor_gc, is_white
  <2> QED
    BY <2>2, <2>3
<1> QED
  BY <1>1, <1>2, <1>3, <1>4, <1>5, <1>6, <1>7 DEF IInv

\* Nobody sees a difference in the heap when only the control changes.
LEMMA ControlStep ==
    ASSUME IInv, HeapStays, UNCHANGED <<color, white, lost>>, lost = {},
           gc_state' = "sweep" => \A o \in live : color[o] # Other(white)
    PROVE  AheadIsLive' /\ AheadIsSpared' /\ FreeIsBare' /\ Losses'
<1>1. Ahead' = Ahead
  BY SameAhead
<1> QED
  BY <1>1 DEF IInv, AheadIsLive, AheadIsSpared, FreeIsBare, Losses, StackIsSafe,
     MinorMissesNothing, HeapStays

\* clear_all_old's sweep starts from a heap in which nobody wears the colour
\* of the dead.
LEMMA StartClearHolds ==
    ASSUME IInv, HeapStays, UNCHANGED <<color, white, old, lost>>, lost = {},
           \A o \in live : color[o] # Other(white),
           NEW g \in {"major", "full", "off"}, StartClear(g)
    PROVE  IInv'
<1> USE DEF StartClear
<1>t. live \in SUBSET Obj /\ old \subseteq Page
  BY DEF IInv, TypeOK, Heap!HeapTypeOK
<1>1. TypeOK'
  BY ZenonT(40) DEF IInv, TypeOK, Heap!HeapTypeOK, HeapStays
<1>2. AheadIsLive' /\ AheadIsSpared' /\ FreeIsBare' /\ Losses'
  BY ControlStep
<1>3. Lists'
  BY DEF IInv, Lists, Marking, is_gray, HeapStays
<1>4. TriColor' /\ Control' /\ Roots'
  BY DEF TriColor, Control, Roots, Marking, is_minor_gc
<1>5. Colors'
  BY <1>t, GcAssumption DEF Colors, HeapStays
<1>6. OldPages'
  BY <1>t DEF OldPages
<1> QED
  BY <1>1, <1>2, <1>3, <1>4, <1>5, <1>6 DEF IInv

LEMMA SweepEndHolds == ASSUME IInv, SweepEnd PROVE IInv'
<1> USE DEF SweepEnd
<1>t. TypeOK
  BY DEF IInv
<1>w. /\ white \in White /\ white # Other(white)
      /\ "gray" \notin White /\ "black" \notin White /\ live \in SUBSET Obj
  BY <1>t, Whiteness
<1>l. lost = {} /\ (job # "run" \/ ~is_minor_gc)
  BY DEF Collects
<1>c. \A o \in live : color[o] # Other(white) /\ (~gen => color[o] = white)
  BY DEF IInv, Colors
<1>2. AheadIsLive' /\ AheadIsSpared' /\ FreeIsBare' /\ Losses'
  BY <1>l, <1>c, ControlStep
<1> DEFINE AllWhite == \A o \in live : color[o] = white
           Rests == /\ gen' \/ AllWhite
                    /\ gc_full' => AllWhite
                    /\ gen' => gen \/ AllWhite
                    /\ job' = "cycle" => ~(gen' /\ ~gc_full')
           Aged == old = {} \/ (is_minor_gc /\ gen' /\ ~gc_full')
           Keeps == \/ gray_list' = gray_list /\ atomic_gray_list' = atomic_gray_list /\ job # "clear"
                    \/ gray_list' = {} /\ atomic_gray_list' = {} /\ AllWhite
<1>r. ASSUME gc_state' = "root", TypeOK', job' \in {"run", "cycle"}, Rests, Keeps,
             Aged
      PROVE  IInv'
  <2>1. TriColor'
    BY <1>r, <1>w DEF IInv, TriColor, Marking, is_black, is_white, HeapStays
  <2>2. Lists'
    BY Zenon, <1>r, <1>w DEF IInv, Lists, Marking, is_gray, HeapStays
  <2>3. Colors' /\ Control' /\ Roots'
    BY ZenonT(40), <1>r, <1>c DEF Colors, Control, Roots, Marking, is_minor_gc, HeapStays
  <2>4. OldPages'
    BY <1>r DEF IInv, OldPages, is_white, is_minor_gc, HeapStays, Control
  <2> QED
    BY <1>2, <1>r, <2>1, <2>2, <2>3, <2>4 DEF IInv
<1>y. ASSUME job # "clear", ~is_minor_gc PROVE old = {}
  BY <1>y DEF IInv, OldPages
<1>b. gen \in BOOLEAN /\ gc_full \in BOOLEAN
  BY <1>t DEF TypeOK
<1> HIDE DEF Rests, Keeps, Aged
<1>3. CASE AfterStep
  <2>1. TypeOK'
    BY ZenonT(40), <1>t, <1>3 DEF AfterStep, Return, TypeOK, Heap!HeapTypeOK, HeapStays
  <2>2. Rests /\ Keeps
    BY <1>3, <1>b, <1>c DEF AfterStep, Return, Rests, Keeps
  <2>3. Aged /\ gc_state' = "root" /\ job' \in {"run", "cycle"}
    BY <1>3, <1>l, <1>y DEF AfterStep, Return, Aged
  <2> QED
    BY <1>r, <2>1, <2>2, <2>3
<1>4. CASE AfterMinor
  <2>1. CASE Return(FALSE, TRUE)
    <3>1. TypeOK'
      BY ZenonT(40), <1>t, <2>1, <1>4 DEF AfterMinor, Return, TypeOK, Heap!HeapTypeOK, HeapStays
    <3>2. is_minor_gc /\ is_minor_gc' /\ job = "minor" /\ gen
      BY <2>1, <1>4 DEF AfterMinor, Return, IInv, Control, is_minor_gc
    <3>3. Rests /\ Keeps /\ Aged
      BY <2>1, <3>2 DEF Return, Rests, Keeps, Aged, is_minor_gc
    <3> QED
      BY <2>1, <3>1, <3>2, <3>3, <1>r DEF Return
  <2>2. CASE StartClear("major")
    BY <2>2, <1>l, <1>c, StartClearHolds
  <2> QED
    BY ZenonT(40), <1>4, <2>1, <2>2 DEF AfterMinor
<1>5. CASE AfterFinish
  <2>1. CASE gen
    BY <2>1, <1>5, <1>l, <1>c, StartClearHolds DEF AfterFinish, IInv, Control
  <2>2. CASE ~gen
    <3>1. TypeOK'
      BY <1>t, <2>2, <1>5 DEF AfterFinish, TypeOK, Heap!HeapTypeOK, HeapStays
    <3>2. Rests /\ Keeps
      BY <2>2, <1>5, <1>b, <1>c DEF AfterFinish, Rests, Keeps
    <3>3. ~is_minor_gc
      BY <2>2 DEF is_minor_gc
    <3>4. Aged /\ gc_state' = "root" /\ job' \in {"run", "cycle"}
      BY ZenonT(40), <2>2, <1>5, <1>y, <3>3 DEF AfterFinish, Aged
    <3> QED
      BY <1>r, <3>1, <3>2, <3>4
  <2> QED
    BY <2>1, <2>2
<1>6. CASE AfterClear
  <2>1. TypeOK'
    BY <1>t, <1>6 DEF AfterClear, TypeOK, Heap!HeapTypeOK, HeapStays
  <2>2. ~gen /\ old = {}
    BY <1>6 DEF AfterClear, IInv, Control, OldPages, is_minor_gc
  <2>3. Rests /\ Keeps
    BY <2>2, <1>6, <1>c DEF AfterClear, Rests, Keeps
  <2>4. Aged /\ gc_state' = "root" /\ job' \in {"run", "cycle"}
    BY <1>6, <2>2 DEF AfterClear, Aged
  <2> QED
    BY <1>r, <2>1, <2>3, <2>4
<1>7. CASE AfterCycle
  <2>1. TypeOK'
    BY ZenonT(40), <1>t, <1>7 DEF AfterCycle, Return, TypeOK, Heap!HeapTypeOK, HeapStays
  <2>2. ~is_minor_gc /\ job # "clear"
    BY <1>7 DEF AfterCycle, IInv, Control
  <2>3. Rests /\ Keeps
    BY <2>2, <1>7, <1>b, <1>c DEF AfterCycle, Return, Rests, Keeps
  <2>4. Aged /\ gc_state' = "root" /\ job' \in {"run", "cycle"}
    BY <1>7, <1>y, <2>2 DEF AfterCycle, Return, Aged
  <2> QED
    BY <1>r, <2>1, <2>3, <2>4
<1> QED
  BY <1>3, <1>4, <1>5, <1>6, <1>7

LEMMA StartMinorHolds == ASSUME IInv, StartMinor PROVE IInv'
<1> USE DEF StartMinor
<1>1. TypeOK'
  BY DEF IInv, TypeOK, Heap!HeapTypeOK, HeapStays
<1>0. gc_state = "root"
  BY DEF IInv, Control, Runs
<1>2. AheadIsLive' /\ AheadIsSpared' /\ FreeIsBare' /\ Losses'
  BY <1>0, ControlStep DEF Runs
<1>3. TriColor' /\ Lists' /\ Colors' /\ Control' /\ Roots' /\ OldPages'
  BY ZenonT(40), <1>0 DEF IInv, TriColor, Lists, Colors, Control, Roots, OldPages, Marking, is_minor_gc,
     is_white, is_black, is_gray, HeapStays, Runs
<1> QED
  BY <1>1, <1>2, <1>3 DEF IInv

LEMMA StartFullHolds ==
    ASSUME IInv, NEW g \in {"full", "off"}, StartFull(g) PROVE IInv'
<1> USE DEF StartFull
<1>1. CASE gen /\ ~gc_full /\ StartClear(g)
  <2>1. \A o \in live : color[o] # Other(white)
    BY <1>1 DEF IInv, Control, Colors, Runs, is_minor_gc
  <2> QED
    BY ZenonT(40), <1>1, <2>1, StartClearHolds DEF Runs
<1>2. CASE ~(gen /\ ~gc_full) /\ job' \in {"finish", "cycle"} /\ goal' = g
           /\ UNCHANGED <<gen, gc_state, sweeps, gray_list, atomic_gray_list, gc_full>>
  <2>1. TypeOK'
    BY ZenonT(40), <1>2 DEF IInv, TypeOK, Heap!HeapTypeOK, HeapStays
  <2>2. AheadIsLive' /\ AheadIsSpared' /\ FreeIsBare' /\ Losses'
    <3>1. Ahead' = Ahead
      BY SameAhead
    <3> QED
      BY <1>2, <3>1 DEF IInv, AheadIsLive, AheadIsSpared, FreeIsBare, Losses, StackIsSafe,
         MinorMissesNothing, HeapStays, Runs
  <2>3. TriColor' /\ Lists' /\ Colors' /\ Control' /\ Roots' /\ OldPages'
    BY ZenonT(40), <1>2 DEF IInv, TriColor, Lists, Colors, Control, Roots, OldPages, Marking, is_minor_gc,
       is_white, is_black, is_gray, HeapStays, Runs
  <2> QED
    BY Zenon, <2>1, <2>2, <2>3 DEF IInv
<1> QED
  BY <1>1, <1>2

LEMMA StartOnHolds == ASSUME IInv, StartOn PROVE IInv'
<1> USE DEF StartOn
<1>1. TypeOK'
  BY ZenonT(40) DEF IInv, TypeOK, Heap!HeapTypeOK, HeapStays
<1>2. AheadIsLive' /\ AheadIsSpared' /\ FreeIsBare' /\ Losses'
  <2>1. Ahead' = Ahead
    BY SameAhead
  <2> QED
    BY <2>1 DEF IInv, AheadIsLive, AheadIsSpared, FreeIsBare, Losses, StackIsSafe,
       MinorMissesNothing, HeapStays, Runs
<1>3. TriColor' /\ Lists' /\ Colors' /\ Control' /\ Roots' /\ OldPages'
  BY ZenonT(40) DEF IInv, TriColor, Lists, Colors, Control, Roots, OldPages, Marking, is_minor_gc,
     is_white, is_black, is_gray, HeapStays, Runs
<1> QED
  BY <1>1, <1>2, <1>3 DEF IInv

LEMMA StutterHolds == ASSUME IInv, UNCHANGED vars PROVE IInv'
<1> USE DEF vars, gcVars
<1>1. Ahead' = Ahead
  BY ZenonT(40), SameAhead DEF HeapStays
<1>2. AheadIsLive' /\ AheadIsSpared' /\ FreeIsBare' /\ Losses'
  BY <1>1 DEF IInv, AheadIsLive, AheadIsSpared, FreeIsBare, Losses, StackIsSafe,
     MinorMissesNothing, is_minor_gc, Heap!ReachFrom
<1>3. TypeOK'
  BY Zenon DEF IInv, TypeOK, Heap!HeapTypeOK
<1>4. TriColor' /\ Lists' /\ Roots'
  BY Zenon DEF IInv, TriColor, Lists, Roots, Marking, is_white, is_black, is_gray
<1>5. Colors' /\ Control' /\ OldPages'
  BY Zenon DEF IInv, Colors, Control, OldPages, is_minor_gc, is_white
<1> QED
  BY <1>2, <1>3, <1>4, <1>5 DEF IInv

LEMMA NextHolds == ASSUME IInv, [Next]_vars PROVE IInv'
<1>1. CASE Step
  BY <1>1, RootScanHolds, FinalScanHolds, FinalAtomicHolds, FinalEndHolds, SweepEndHolds,
     MarkHolds, SweepPageHolds DEF Step
<1>2. CASE StartMinor \/ StartFull("full") \/ StartFull("off") \/ StartOn
  BY <1>2, StartMinorHolds, StartFullHolds, StartOnHolds
<1>3. CASE \E o \in Obj : Alloc(o)
  BY <1>3, AllocHolds
<1>4. CASE \E a, b \in Obj : StoreField(a, b) \/ StoreObj(a, b)
  BY <1>4, StoreFieldHolds, StoreObjHolds
<1> QED
  BY <1>1, <1>2, <1>3, <1>4, MovesHolds, StutterHolds DEF Next

-----------------------------------------------------------------------------
(* The theorems. *)

\* The inductive invariant holds in every reachable state.
LEMMA Invariance == Spec => []IInv
<1>1. Init => IInv
  BY InitHolds
<1>2. IInv /\ [Next]_vars => IInv'
  BY NextHolds
<1> QED
  BY <1>1, <1>2, PTL DEF Spec

\* The variables keep their types.
THEOREM TypeCorrect == Spec => []TypeOK
<1>1. IInv => TypeOK
  BY DEF IInv
<1> QED
  BY <1>1, Invariance, PTL

\* Nothing reachable is freed, as long as the marking missed nothing.
THEOREM ReachableSurvives == Spec => []ReachableIsLive
<1>1. IInv => ReachableIsLive
  BY AheadFacts DEF IInv, AheadIsLive, ReachableIsLive
<1> QED
  BY <1>1, Invariance, PTL

\* The marking misses nothing that the registers lead to.
THEOREM StackSurvives == Spec => []StackIsSafe
<1>1. IInv => StackIsSafe
  BY DEF IInv, Losses
<1> QED
  BY <1>1, Invariance, PTL

\* A minor collection misses nothing at all.
THEOREM MinorIsExact == Spec => []MinorMissesNothing
<1>1. IInv => MinorMissesNothing
  BY DEF IInv, Losses
<1> QED
  BY <1>1, Invariance, PTL

\* Between two collections nobody wears the colour of the dead, and outside
\* the generational mode nobody is black.
THEOREM CyclesEndClean == Spec => []CycleEndsClean
<1>1. IInv => CycleEndsClean
  <2> SUFFICES ASSUME IInv PROVE CycleEndsClean
    OBVIOUS
  <2>1. white # "black"
    BY Whiteness DEF IInv
  <2> QED
    BY <2>1 DEF IInv, Colors, CycleEndsClean, is_minor_gc, is_black
<1> QED
  BY <1>1, Invariance, PTL

\* The collector implements the heap the program expects: it frees only what
\* cannot be reached, and otherwise does not touch it.
THEOREM CollectorRefines == Spec => HeapSpec
<1>1. Init => Heap!HeapInit
  BY DEF Init
<1>2. IInv /\ [Next]_vars => [Heap!Program \/ Heap!Free]_(Heap!heapVars)
  <2> SUFFICES ASSUME IInv, [Next]_vars
               PROVE  [Heap!Program \/ Heap!Free]_(Heap!heapVars)
    OBVIOUS
  <2>1. CASE Moves \/ \E o \in Obj : Alloc(o)
    BY <2>1 DEF Moves, Alloc, Heap!Program
  <2>2. CASE \E a, b \in Obj : StoreField(a, b) \/ StoreObj(a, b)
    BY ZenonT(40), <2>2 DEF StoreField, StoreObj, Heap!Program
  <2>3. ASSUME NEW p \in Page, SweepPage(p) PROVE Heap!Free
    <3> DEFINE dead == IF is_minor_gc /\ p \in old THEN {}
                       ELSE {o \in {x \in Obj : PageOf[x] = p} : is_dead(o)}
    <3>1. /\ lost = {} /\ gc_state = "sweep" /\ UNCHANGED <<stack, slots>>
          /\ live' = live \ dead /\ ref' = Heap!Without(dead)
      BY ZenonT(40), <2>3 DEF SweepPage, Collects
    <3>2. dead \in SUBSET Obj /\ \A o \in dead : o \in Obj /\ is_dead(o)
      OBVIOUS
    <3> HIDE DEF dead
    <3>3. dead \cap Heap!Reach = {}
      BY <3>1, <3>2, SweptIsUnreachable, AheadFacts DEF IInv
    <3> QED
      BY <3>1, <3>2, <3>3 DEF Heap!Free
  <2>4. CASE HeapStays \/ UNCHANGED vars
    BY <2>4 DEF HeapStays, vars, Heap!heapVars
  <2>5. Next => \/ Moves \/ \E o \in Obj : Alloc(o)
                \/ \E a, b \in Obj : StoreField(a, b) \/ StoreObj(a, b)
                \/ \E p \in Page : SweepPage(p)
                \/ HeapStays
    BY ZenonT(40) DEF Next, Step, RootScan, FinalScan, FinalAtomic, FinalEnd, SweepEnd, Mark,
       StartMinor, StartFull, StartOn
  <2> QED
    BY <2>1, <2>2, <2>3, <2>4, <2>5
<1> QED
  BY <1>1, <1>2, Invariance, PTL DEF Spec, HeapSpec, Heap!HeapSpec

=============================================================================
