----------------------------- MODULE LoginProofs -----------------------------
(***************************************************************************)
(* For any number of niri instances, captures and typed commands: what the *)
(* timer saves never makes the restore service skip, no fallback is        *)
(* reopened in an instance that the latest capture saw, and what the       *)
(* service reopens is the newest but for what was typed while it waited,   *)
(* or whose save was cut short or ran beside another.                      *)
(*                                                                         *)
(* The timer's captures of an instance all come after its restore run has  *)
(* ended (Ordered), because captures carry the instance they saw, instances *)
(* grow (Dated) and what belongs to a session ends with it (Down).  A run  *)
(* that was admitted keeps what it compared (Checked): captures are never  *)
(* changed, and the instance only changes when every run has ended.  What  *)
(* was newest when it was selected (Chosen) stays so for the same reason   *)
(* the timer stays out, and because the pointers are never behind a        *)
(* capture whose save ran to its end alone (Pointed).                      *)
(***************************************************************************)
EXTENDS Login, TLAPS

Kinds == {"ready", "dark", "torn", "unref"}
Capture == [kind : Kinds, of : Nat, by : Captures]
Selection == [key : Nat, fallback : BOOLEAN, latest : Nat, clean : SUBSET Nat]
Written == [key : Nat, left : {"none", "latest", "valid"}, alone : BOOLEAN]
Places == {"idle", "select", "fallback", "wait", "compare", "admit", "reopening"}

Typed ==
  /\ instance \in Nat /\ up \in BOOLEAN
  /\ saved \in Seq(Capture) /\ latest \in 0 .. Len(saved) /\ valid \in 0 .. Len(saved)
  /\ reading \in [Captures -> Capture \cup {Nothing}]
  /\ writing \in [Captures -> Written] /\ clean \subseteq 1 .. Len(saved)
  /\ pc \in [Runs -> Places] /\ sel \in [Runs -> Selection]

\* A capture tells who took it, of an instance that had started.
Dated ==
  /\ \A k \in 1 .. Len(saved) : saved[k].of <= instance
  /\ \A c \in Captures : reading[c] # Nothing => reading[c].of <= instance /\ reading[c].by = c
  /\ \A c \in Captures : writing[c] # NotWriting =>
       /\ writing[c].key \in 1 .. Len(saved) /\ saved[writing[c].key].by = c
       /\ writing[c].left = "latest" \/ (writing[c].left = "valid" /\ saved[writing[c].key].kind = "ready")

\* Nothing of a session outlives it but what the user typed.
Down == ~up => /\ pc = [r \in Runs |-> "idle"]
               /\ reading["timer"] = Nothing /\ writing["timer"] = NotWriting

\* A run under way works on a stored capture.
Selections ==
  \A r \in Runs :
    /\ pc[r] \in {"fallback", "wait", "compare", "admit"} => sel[r].latest \in 0 .. Len(saved)
    /\ pc[r] \in {"wait", "compare", "admit"} => sel[r].key \in 1 .. Len(saved)

\* As long as the restore service runs, the timer saves nothing and has saved nothing of this
\* instance.
Ordered ==
  pc["login"] # "idle" =>
    /\ reading["timer"] = Nothing /\ writing["timer"] = NotWriting
    /\ \A k \in 1 .. Len(saved) : saved[k].by = "timer" => saved[k].of # instance

\* A fallback is admitted only in an instance that the latest capture did not see.
Checked ==
  \A r \in Runs : pc[r] = "admit" /\ sel[r].fallback /\ sel[r].latest # 0 =>
    saved[sel[r].latest].of # instance

IInv == Typed /\ Dated /\ Down /\ Selections /\ Ordered /\ Checked

\* The pointers are at or past every clean capture, which every save under way is newer than; a
\* save that runs alone has its own capture under latest-observed once it wrote it.
Pointed ==
  /\ \A k \in clean : k <= latest /\ (saved[k].kind = "ready" => k <= valid)
  /\ \A c \in Captures : writing[c] # NotWriting =>
       /\ \A k \in clean : k < writing[c].key
       /\ writing[c].alone => /\ \A d \in Captures \ {c} : writing[d] = NotWriting
                             /\ (writing[c].left = "valid" => latest = writing[c].key)

\* What the restore service selected was the newest then, and only typed captures came since.
Chosen ==
  /\ pc["login"] \in {"fallback", "wait", "compare", "admit"} =>
       /\ sel["login"].clean \subseteq clean
       /\ \A k \in clean \ sel["login"].clean : saved[k].by = "typed"
  /\ pc["login"] \in {"wait", "compare", "admit"} =>
       \A k \in sel["login"].clean : saved[k].kind = "ready" => k <= sel["login"].key
-----------------------------------------------------------------------------
\* A command that writes nothing is not disturbed.
LEMMA StillNotWriting == [NotWriting EXCEPT !.alone = FALSE] = NotWriting
<1> DEFINE other == [NotWriting EXCEPT !.alone = FALSE]
<1>1. NotWriting \in [key : {0}, left : {"none"}, alone : {FALSE}]
  BY DEF NotWriting
<1>2. other \in [key : {0}, left : {"none"}, alone : {FALSE}]
  BY <1>1
<1> QED
  BY <1>1, <1>2

LEMMA InitIInv == Init => IInv
<1> SUFFICES ASSUME Init PROVE IInv
  OBVIOUS
<1>1. \A r \in Runs : pc[r] = "idle" /\ sel[r] = Unselected
  BY DEF Init
<1>2. Len(saved) = 0 /\ \A c \in Captures : reading[c] = Nothing
  BY DEF Init
<1>3. saved \in Seq(Capture)
  BY DEF Init
<1>4. Unselected \in Selection
  BY DEF Unselected, Selection
<1>5. pc \in [Runs -> Places] /\ sel \in [Runs -> Selection]
  BY <1>4 DEF Init, Places
<1>6. /\ reading \in [Captures -> Capture \cup {Nothing}]
      /\ writing \in [Captures -> Written] /\ \A c \in Captures : writing[c] = NotWriting
      /\ clean = {}
  BY DEF Init, Written, NotWriting
<1>7. instance \in Nat /\ up \in BOOLEAN
  BY DEF Init
<1>8. latest \in 0 .. Len(saved) /\ valid \in 0 .. Len(saved)
  BY <1>2 DEF Init
<1>9. Typed
  BY <1>3, <1>5, <1>6, <1>7, <1>8 DEF Typed
<1> QED
  BY <1>1, <1>2, <1>6, <1>9 DEF Init, IInv, Dated, Down, Selections, Ordered, Checked, Runs, Captures

\* A stored capture, or one being read, is of a numbered instance.
LEMMA Numbered ==
  ASSUME Typed
  PROVE  /\ \A k \in 1 .. Len(saved) : saved[k] \in Capture /\ saved[k].of \in Nat
         /\ \A c \in Captures : reading[c] # Nothing => reading[c] \in Capture
                                                      /\ reading[c].of \in Nat
<1>1. \A k \in 1 .. Len(saved) : saved[k] \in Capture
  BY DEF Typed
<1>2. \A c \in Captures : reading[c] # Nothing => reading[c] \in Capture
  BY DEF Typed
<1>3. \A x \in Capture : x.of \in Nat
  BY DEF Capture
<1> QED
  BY <1>1, <1>2, <1>3

\* Storing a capture adds it at the end and changes no other.
LEMMA Stored ==
  ASSUME Typed, NEW x \in Capture, saved' = Append(saved, x)
  PROVE  /\ saved' \in Seq(Capture) /\ Len(saved') = Len(saved) + 1
         /\ saved'[Len(saved) + 1] = x
         /\ \A k \in 1 .. Len(saved) : saved'[k] = saved[k]
BY DEF Typed

\* Going on with a selection, or without one, keeps the types.
LEMMA Moves ==
  ASSUME Typed, NEW r \in Runs, NEW place \in Places, NEW x \in Selection, Keeps(r, place, x)
  PROVE  /\ pc' \in [Runs -> Places] /\ sel' \in [Runs -> Selection]
         /\ \A q \in Runs : /\ pc'[q] = IF q = r THEN place ELSE pc[q]
                            /\ sel'[q] = IF q = r THEN x ELSE sel[q]
BY DEF Typed, Keeps

LEMMA Drops == Unselected \in Selection
BY DEF Unselected, Selection

\* The session begins and ends: what is saved stays, and no run is admitted.
LEMMA SessionStep ==
  ASSUME IInv, Session
  PROVE  IInv'
<1> USE DEF IInv, Dated, Down, Selections, Ordered, Checked, Runs, Captures, store, runs
<1>0. /\ \A k \in 1 .. Len(saved) : saved[k].of \in Nat
      /\ \A c \in Captures : reading[c] # Nothing => reading[c].of \in Nat
  BY Numbered
<1>1. CASE NiriStarts
  <2>1. /\ instance' = instance + 1 /\ sel' = sel
        /\ UNCHANGED <<saved, latest, valid, reading, writing, clean>>
    BY <1>1 DEF NiriStarts
  <2>2. \A r \in Runs : pc'[r] \in {"idle", "select"}
    BY <1>1 DEF NiriStarts, Typed
  <2>3. Typed'
    BY <1>1, <2>1, <2>2 DEF NiriStarts, Typed, Places
  <2>6. Ordered'
    BY <1>0, <1>1, <2>1 DEF NiriStarts, Typed
  <2>7. Dated'
    <3>1. instance \in Nat
      BY DEF Typed
    <3> QED
      BY <1>0, <2>1, <3>1
  <2> QED
    BY <1>1, <2>1, <2>2, <2>3, <2>6, <2>7 DEF NiriStarts
<1>2. CASE NiriEnds
  <2>1. /\ UNCHANGED <<instance, saved, latest, valid, clean>> /\ up' = FALSE
        /\ reading' = [reading EXCEPT !["timer"] = Nothing]
        /\ writing' = [writing EXCEPT !["timer"] = NotWriting]
        /\ pc' = [r \in Runs |-> "idle"] /\ sel' = [r \in Runs |-> Unselected]
    BY <1>2 DEF NiriEnds
  <2>2. NotWriting \in Written
    BY DEF NotWriting, Written
  <2>3. Typed'
    BY <2>1, <2>2, Drops DEF Typed, Places
  <2>4. Dated'
    BY <2>1 DEF Typed
  <2> QED
    BY <2>1, <2>3, <2>4 DEF Typed
<1>3. CASE Display \/ Lock \/ Enable
  BY <1>3 DEF Display, Lock, Enable, Typed
<1>4. CASE Disable
  <2>1. UNCHANGED <<instance, up, saved, latest, valid, reading, writing, clean>>
    BY <1>4 DEF Disable
  <2>2. CASE Leaves("login", "idle")
    <3>1. /\ pc' \in [Runs -> Places] /\ sel' \in [Runs -> Selection]
          /\ \A q \in Runs : /\ pc'[q] = IF q = "login" THEN "idle" ELSE pc[q]
                             /\ sel'[q] = IF q = "login" THEN Unselected ELSE sel[q]
      BY <2>2, Moves, Drops DEF Leaves, Places
    <3>2. Typed'
      BY <2>1, <3>1 DEF Typed
    <3>3. pc = [r \in Runs |-> "idle"] => pc' = [r \in Runs |-> "idle"]
      BY <3>1
    <3> QED
      BY <2>1, <3>1, <3>2, <3>3
  <2>3. CASE UNCHANGED <<pc, sel>>
    BY <2>1, <2>3 DEF Typed
  <2> QED
    BY <1>4, <2>2, <2>3 DEF Disable
<1> QED
  BY <1>1, <1>2, <1>3, <1>4 DEF Session

\* The steps of a save that write a pointer, or end it, keep the invariant.
LEMMA PointersKeep ==
  ASSUME IInv, UNCHANGED <<instance, up, saved, reading, pc, sel>>,
         latest' \in 0 .. Len(saved), valid' \in 0 .. Len(saved), clean' \subseteq 1 .. Len(saved),
         NEW c \in Captures, writing[c] # NotWriting,
         \/ writing' = [writing EXCEPT ![c] = NotWriting]
         \/ /\ writing' = [writing EXCEPT ![c].left = "valid"]
            /\ saved[writing[c].key].kind = "ready"
  PROVE  IInv'
<1> USE DEF IInv, Captures
<1>1. writing \in [Captures -> Written] /\ NotWriting \in Written
  BY DEF Typed, NotWriting, Written
<1>2. writing' \in [Captures -> Written]
  BY <1>1 DEF Written
<1>3. Typed'
  BY <1>2 DEF Typed
<1>4. \A d \in Captures :
        /\ d # c => writing'[d] = writing[d]
        /\ \/ writing'[c] = NotWriting
           \/ /\ writing'[c].left = "valid" /\ writing'[c].key = writing[c].key
              /\ saved[writing[c].key].kind = "ready"
  BY <1>1 DEF Written
<1>5. Dated'
  BY <1>4 DEF Dated
<1>6. Down' /\ Ordered'
  BY <1>4 DEF Down, Ordered
<1>7. Selections' /\ Checked'
  BY DEF Selections, Checked
<1> QED
  BY <1>3, <1>5, <1>6, <1>7

\* Saving: what is read is of the present instance; what is saved was read.
LEMMA SavingStep ==
  ASSUME IInv, Saving
  PROVE  IInv'
<1> USE DEF IInv, Dated, Down, Selections, Ordered, Checked, Runs, Captures
<1>1. CASE TimerElapses
  BY <1>1 DEF TimerElapses, Typed, machine, store, runs
<1>2. ASSUME NEW c \in Captures, Reads(c), c = "timer" => pc["login"] = "idle"
      PROVE  IInv'
  <2>1. PICK kind \in Kinds :
          reading' = [reading EXCEPT ![c] = [kind |-> kind, of |-> instance, by |-> c]]
    BY <1>2 DEF Reads, Kinds
  <2>2. [kind |-> kind, of |-> instance, by |-> c] \in Capture
    BY DEF Capture, Typed
  <2>5. up /\ UNCHANGED <<instance, up, saved, latest, valid, writing, clean, pc, sel>>
    BY <1>2 DEF Reads, machine, store, runs
  <2>3. Typed'
    BY <2>1, <2>2, <2>5 DEF Typed
  <2>4. Dated'
    BY <2>1, <2>5 DEF Typed
  <2> QED
    BY <1>2, <2>1, <2>3, <2>4, <2>5 DEF Typed
<1>3. CASE TimerReads
  BY <1>2, <1>3 DEF TimerReads, OrderedAfterRestore
<1>4. CASE TypedReads
  BY <1>2, <1>4 DEF TypedReads
<1>5. CASE ReadingFails
  <2>1. /\ UNCHANGED <<instance, up, saved, latest, valid, writing, clean, pc, sel>>
        /\ reading' = reading \/ \E c \in Captures : reading' = [reading EXCEPT ![c] = Nothing]
    BY <1>5 DEF ReadingFails, machine, store, runs
  <2>2. \A c \in Captures : reading'[c] \in {reading[c], Nothing}
    BY <2>1 DEF Typed
  <2>3. reading' \in [Captures -> Capture \cup {Nothing}]
    BY <2>1 DEF Typed
  <2>4. Typed'
    BY <2>1, <2>3 DEF Typed
  <2>5. Dated'
    BY <2>1, <2>2
  <2> QED
    BY <2>1, <2>2, <2>4, <2>5
<1>6. ASSUME NEW c \in Captures, StoreFile(c)
      PROVE  IInv'
  <2>1. /\ reading[c] # Nothing /\ saved' = Append(saved, reading[c])
        /\ reading' = [reading EXCEPT ![c] = Nothing]
        /\ writing' = [d \in Captures |->
             IF d = c THEN [key |-> Len(saved'), left |-> "latest",
                            alone |-> \A e \in Captures \ {c} : writing[e] = NotWriting]
             ELSE [writing[d] EXCEPT !.alone = FALSE]]
        /\ UNCHANGED <<instance, up, latest, valid, pc, sel, clean>>
    BY <1>6 DEF StoreFile, machine, runs
  <2>2. reading[c] \in Capture /\ reading[c].of \in Nat
    BY <2>1, Numbered
  <2>3. /\ saved' \in Seq(Capture) /\ Len(saved') = Len(saved) + 1
        /\ saved'[Len(saved) + 1] = reading[c]
        /\ \A k \in 1 .. Len(saved) : saved'[k] = saved[k]
    BY <2>1, <2>2, Stored
  <2>4. Len(saved) \in Nat
    BY DEF Typed
  <2>5. latest' \in 0 .. Len(saved') /\ valid' \in 0 .. Len(saved') /\ clean' \subseteq 1 .. Len(saved')
    BY <2>1, <2>3, <2>4 DEF Typed
  <2>12. /\ writing'[c].key = Len(saved) + 1 /\ writing'[c].left = "latest"
         /\ \A d \in Captures : d # c =>
              /\ writing'[d].key = writing[d].key /\ writing'[d].left = writing[d].left
              /\ writing[d] = NotWriting => writing'[d] = NotWriting
              /\ writing'[d] # NotWriting => writing[d] # NotWriting
    <3>1. writing \in [Captures -> Written]
      BY DEF Typed
    <3>2. [NotWriting EXCEPT !.alone = FALSE] = NotWriting
      BY StillNotWriting
    <3> QED
      BY <2>1, <2>3, <3>1, <3>2 DEF Written
  <2>13. writing' \in [Captures -> Written]
    <3>1. \A d \in Captures : [writing[d] EXCEPT !.alone = FALSE] \in Written
      BY DEF Typed, Written
    <3>2. [key |-> Len(saved'), left |-> "latest",
           alone |-> \A e \in Captures \ {c} : writing[e] = NotWriting] \in Written
      <4> HIDE DEF Captures
      <4> QED
        BY <2>3, <2>4 DEF Written
    <3> QED
      BY <2>1, <3>1, <3>2
  <2>6. Typed'
    BY <2>1, <2>3, <2>5, <2>13 DEF Typed
  <2>7. Dated'
    <3>1. \A k \in 1 .. Len(saved') : saved'[k].of <= instance
      BY <2>1, <2>2, <2>3, <2>4
    <3>2. \A d \in Captures : reading'[d] # Nothing => reading'[d].of <= instance /\ reading'[d].by = d
      BY <2>1 DEF Typed
    <3>3. ASSUME NEW d \in Captures, writing'[d] # NotWriting
          PROVE  /\ writing'[d].key \in 1 .. Len(saved') /\ saved'[writing'[d].key].by = d
                 /\ \/ writing'[d].left = "latest"
                    \/ writing'[d].left = "valid" /\ saved'[writing'[d].key].kind = "ready"
      <4>1. CASE d = c
        BY <2>1, <2>3, <2>4, <2>12, <4>1
      <4>2. CASE d # c
        BY <2>3, <2>4, <2>12, <3>3, <4>2
      <4> QED
        BY <4>1, <4>2
    <3> QED
      BY <2>1, <3>1, <3>2, <3>3
  <2>8. Down'
    BY <2>1, <2>12 DEF Typed
  <2>9. Selections'
    BY <2>1, <2>3, <2>4 DEF Typed
  <2>10. Ordered'
    <3> SUFFICES ASSUME pc["login"] # "idle"
                 PROVE  /\ reading'["timer"] = Nothing /\ writing'["timer"] = NotWriting
                        /\ \A k \in 1 .. Len(saved') : saved'[k].by = "timer" => saved'[k].of # instance
      BY <2>1
    <3>1. c # "timer" /\ reading[c].by = c
      BY <2>1
    <3> QED
      BY <2>1, <2>3, <2>4, <2>12, <3>1 DEF Typed
  <2>11. Checked'
    <3> SUFFICES ASSUME NEW r \in Runs, pc[r] = "admit", sel[r].fallback, sel[r].latest # 0
                 PROVE  saved'[sel[r].latest].of # instance
      BY <2>1
    <3>1. sel[r].latest \in 1 .. Len(saved)
      BY <2>4
    <3> QED
      BY <2>3, <3>1
  <2> QED
    BY <2>6, <2>7, <2>8, <2>9, <2>10, <2>11
<1>7. ASSUME NEW c \in Captures, PointLatest(c) \/ PointValid(c) \/ SaveDies(c)
      PROVE  IInv'
  <2>1. /\ UNCHANGED <<instance, up, saved, reading, pc, sel>> /\ writing[c] # NotWriting
        /\ \/ writing' = [writing EXCEPT ![c] = NotWriting]
           \/ /\ writing' = [writing EXCEPT ![c].left = "valid"]
              /\ saved[writing[c].key].kind = "ready"
    BY <1>7 DEF PointLatest, PointValid, SaveDies, SaveEnds, Promoted, machine, store, runs, NotWriting
  <2>2. writing[c].key \in 1 .. Len(saved) /\ Len(saved) \in Nat
    BY <2>1 DEF Typed
  <2>3. /\ latest' \in {latest, writing[c].key} /\ valid' \in {valid, writing[c].key}
        /\ clean' \subseteq clean \cup {writing[c].key}
    BY <1>7 DEF PointLatest, PointValid, SaveDies, SaveEnds, store
  <2>4. latest' \in 0 .. Len(saved) /\ valid' \in 0 .. Len(saved) /\ clean' \subseteq 1 .. Len(saved)
    BY <2>2, <2>3 DEF Typed
  <2> QED
    BY <2>1, <2>4, PointersKeep
<1> QED
  BY <1>1, <1>3, <1>4, <1>5, <1>6, <1>7 DEF Saving, Save
-----------------------------------------------------------------------------
\* Where a run goes from its place, the desktop and the store being as they are.
LEMMA RunStep ==
  ASSUME IInv, TypedRestore \/ \E r \in Runs : Advance(r) \/ Dies(r)
  PROVE  IInv'
<1> USE DEF IInv, Dated, Down, Selections, Ordered, Checked, machine, store
<1>1. Len(saved) \in Nat /\ "login" \in Runs /\ "typed" \in Runs
  BY DEF Typed, Runs
<1>2. ASSUME NEW r \in Runs, NEW place \in Places, NEW x \in Selection, Keeps(r, place, x),
             UNCHANGED <<instance, up, saved, latest, valid, reading, writing, clean>>, up,
             r = "login" => pc[r] # "idle",
             place \in {"fallback", "wait", "compare", "admit"} => x.latest \in 0 .. Len(saved),
             place \in {"wait", "compare", "admit"} => x.key \in 1 .. Len(saved),
             place = "admit" /\ x.fallback /\ x.latest # 0 => saved[x.latest].of # instance
      PROVE  IInv'
  <2>1. /\ pc' \in [Runs -> Places] /\ sel' \in [Runs -> Selection]
        /\ \A q \in Runs : /\ pc'[q] = IF q = r THEN place ELSE pc[q]
                           /\ sel'[q] = IF q = r THEN x ELSE sel[q]
    BY <1>2, Moves
  <2>2. Typed'
    BY <1>2, <2>1 DEF Typed
  <2>3. Selections' /\ Checked'
    BY <1>2, <2>1
  <2>4. Ordered' /\ Dated' /\ Down'
    BY <1>1, <1>2, <2>1
  <2> QED
    BY <2>2, <2>3, <2>4
<1>3. ASSUME NEW r \in Runs, pc[r] # "idle" PROVE up
  BY <1>3
<1>4. ASSUME NEW r \in Runs, SelectLatest(r)
      PROVE  IInv'
  <2> DEFINE x == [key |-> latest, fallback |-> Unready, latest |-> latest, clean |-> clean]
  <2>1. x \in Selection /\ Unselected \in Selection
    BY <1>1, Drops DEF Typed, Selection, Unready
  <2>2. latest \in 0 .. Len(saved) /\ (~Unready => latest \in 1 .. Len(saved))
    BY <1>1 DEF Typed, Unready
  <2>3. up /\ pc[r] # "idle" /\ UNCHANGED <<instance, up, saved, latest, valid, reading, writing, clean>>
    BY <1>3, <1>4 DEF SelectLatest
  <2>4. CASE Leaves(r, "idle")
    BY <1>2, <2>1, <2>3, <2>4 DEF Leaves, Places
  <2>5. CASE Keeps(r, IF Unready THEN "fallback" ELSE Ahead(r), x)
    <3>1. CASE Unready
      BY <1>2, <2>1, <2>2, <2>3, <2>5, <3>1 DEF Places
    <3>2. CASE ~Unready
      <4>1. Ahead(r) \in {"wait", "compare"}
        BY DEF Ahead
      <4> QED
        BY <1>2, <2>1, <2>2, <2>3, <2>5, <3>2, <4>1 DEF Places
    <3> QED
      BY <3>1, <3>2
  <2> QED
    BY <1>4, <2>4, <2>5 DEF SelectLatest
<1>5. ASSUME NEW r \in Runs, SelectValid(r)
      PROVE  IInv'
  <2> DEFINE x == [sel[r] EXCEPT !.key = valid]
  <2>1. valid \in Nat /\ sel[r] \in Selection
    BY <1>1 DEF Typed
  <2>2. x \in Selection /\ Unselected \in Selection /\ x.latest = sel[r].latest /\ x.key = valid
    BY <2>1, Drops DEF Selection
  <2>3. /\ up /\ pc[r] = "fallback" /\ UNCHANGED <<instance, up, saved, latest, valid, reading, writing, clean>>
    BY <1>3, <1>5 DEF SelectValid
  <2>4. CASE Leaves(r, "idle")
    BY <1>2, <2>2, <2>3, <2>4 DEF Leaves, Places
  <2>5. CASE Replaces(valid, sel[r].latest) /\ Keeps(r, Ahead(r), x)
    <3>1. Ahead(r) \in {"wait", "compare"} /\ valid \in 1 .. Len(saved)
      BY <1>1, <2>5 DEF Ahead, Replaces, Typed
    <3> HIDE DEF x
    <3> QED
      BY <1>2, <2>2, <2>3, <2>5, <3>1 DEF Places
  <2> QED
    BY <1>5, <2>4, <2>5 DEF SelectValid
<1>6. CASE TypedRestore
  <2>1. up /\ UNCHANGED <<instance, up, saved, latest, valid, reading, writing, clean>>
    BY <1>6 DEF TypedRestore
  <2>2. CASE Leaves("typed", "select")
    BY <1>1, <1>2, <2>1, <2>2, Drops DEF Leaves, Places
  <2>3. ASSUME NEW k \in DOMAIN saved,
               Keeps("typed", "compare", [key |-> k, fallback |-> FALSE, latest |-> 0, clean |-> {}])
        PROVE  IInv'
    <3>1. k \in 1 .. Len(saved) /\ k \in Nat
      BY <1>1 DEF Typed
    <3>2. [key |-> k, fallback |-> FALSE, latest |-> 0, clean |-> {}] \in Selection
      BY <3>1 DEF Selection
    <3> QED
      BY <1>1, <1>2, <2>1, <2>3, <3>1, <3>2 DEF Places
  <2> QED
    BY <1>6, <2>2, <2>3 DEF TypedRestore
<1>7. CASE Wait
  <2>1. /\ up /\ pc["login"] = "wait" /\ sel["login"] \in Selection
        /\ UNCHANGED <<instance, up, saved, latest, valid, reading, writing, clean>>
    BY <1>1, <1>3, <1>7 DEF Wait, Typed
  <2>2. CASE Leaves("login", "idle")
    BY <1>1, <1>2, <2>1, <2>2, Drops DEF Leaves, Places
  <2>3. CASE Keeps("login", "compare", sel["login"])
    BY <1>1, <1>2, <2>1, <2>3 DEF Places
  <2> QED
    BY <1>7, <2>2, <2>3 DEF Wait
<1>8. ASSUME NEW r \in Runs, Compare(r)
      PROVE  IInv'
  <2>1. /\ up /\ pc[r] = "compare" /\ sel[r] \in Selection
        /\ UNCHANGED <<instance, up, saved, latest, valid, reading, writing, clean>>
    BY <1>3, <1>8 DEF Compare, Typed
  <2>2. CASE Leaves(r, "idle")
    BY <1>2, <2>1, <2>2, Drops DEF Leaves, Places
  <2>3. CASE ~Skips(r) /\ Keeps(r, "admit", sel[r])
    <3>1. sel[r].fallback /\ sel[r].latest # 0 => saved[sel[r].latest].of # instance
      BY <2>1, <2>3 DEF Skips, SameInstance
    <3> QED
      BY <1>2, <2>1, <2>3, <3>1 DEF Places
  <2> QED
    BY <1>8, <2>2, <2>3 DEF Compare
<1>9. ASSUME NEW r \in Runs, Admit(r) \/ Reopened(r) \/ Dies(r)
      PROVE  IInv'
  <2>1. /\ up /\ pc[r] # "idle"
        /\ UNCHANGED <<instance, up, saved, latest, valid, reading, writing, clean>>
        /\ Leaves(r, "idle") \/ Leaves(r, "reopening")
    BY <1>3, <1>9 DEF Admit, Reopened, Dies
  <2> QED
    BY <1>2, <2>1, Drops DEF Leaves, Places
<1> QED
  BY <1>4, <1>5, <1>6, <1>7, <1>8, <1>9 DEF Advance
-----------------------------------------------------------------------------
\* What the invariant says holds in every state of every behaviour.
THEOREM LoginInvariant == Spec => []IInv
<1>1. IInv /\ [Next]_vars => IInv'
  <2> SUFFICES ASSUME IInv, [Next]_vars PROVE IInv'
    OBVIOUS
  <2>1. CASE UNCHANGED vars
    BY <2>1 DEF vars, machine, store, runs, IInv, Typed, Dated, Down, Selections, Ordered, Checked
  <2> QED
    BY <2>1, SessionStep, SavingStep, RunStep DEF Next
<1> QED
  BY InitIInv, <1>1, PTL DEF Spec

\* autostart.render: with any number of instances, captures and commands, a login restore skips
\* only over a capture the user typed in this instance.
THEOREM TimerNeverPreempts == Spec => LoginNotPreempted
<1>1. IInv /\ Skips("login") =>
        \E k \in DOMAIN saved : saved[k].of = instance /\ saved[k].by = "typed"
  <2> SUFFICES ASSUME IInv, Skips("login")
               PROVE  \E k \in DOMAIN saved : saved[k].of = instance /\ saved[k].by = "typed"
    OBVIOUS
  <2>1. /\ pc["login"] = "compare" /\ sel["login"].key \in 1 .. Len(saved)
        /\ sel["login"].latest \in 0 .. Len(saved)
    BY DEF IInv, Selections, Skips, Runs
  <2>2. Len(saved) \in Nat /\ DOMAIN saved = 1 .. Len(saved)
    BY DEF IInv, Typed
  <2>3. PICK k \in 1 .. Len(saved) : saved[k].of = instance
    BY <2>1, <2>2 DEF Skips, SameInstance
  <2>4. saved[k].by \in Captures
    <3>1. saved[k] \in Capture
      BY <2>3, Numbered DEF IInv
    <3> QED
      BY <3>1 DEF Capture
  <2> QED
    BY <2>1, <2>2, <2>3, <2>4 DEF IInv, Ordered, Captures
<1>2. IInv => [Skips("login") /\ pc'["login"] = "idle" /\ up' =>
         \E k \in DOMAIN saved : saved[k].of = instance /\ saved[k].by = "typed"]_vars
  BY <1>1
<1> QED
  BY LoginInvariant, <1>2, PTL DEF LoginNotPreempted

\* Selection.same_instance: no fallback is reopened in an instance that the latest capture saw,
\* whatever is saved, restarted or typed while the run waits.
THEOREM FallbackNeverResurrects == Spec => NeverResurrects
<1>1. IInv => [\A r \in Runs : Starts(r) /\ sel[r].fallback /\ sel[r].latest # 0 =>
                 saved[sel[r].latest].of # instance]_vars
  BY DEF IInv, Checked, Starts
<1> QED
  BY LoginInvariant, <1>1, PTL DEF NeverResurrects

-----------------------------------------------------------------------------
\* The steps of a save keep the pointers at or past the clean captures, and while the restore
\* service runs only typed captures become clean, which leaves what it selected as it was.
LEMMA SavedClean ==
  ASSUME IInv, Pointed, Chosen, NEW c \in Captures, Save(c) \/ SaveDies(c)
  PROVE  Pointed' /\ Chosen'
<1>1. /\ Len(saved) \in Nat /\ latest \in Nat /\ valid \in Nat /\ clean \subseteq 1 .. Len(saved)
      /\ writing \in [Captures -> Written] /\ UNCHANGED <<pc, sel>>
  BY DEF IInv, Typed, Save, StoreFile, PointLatest, PointValid, SaveDies, runs
<1>2. CASE StoreFile(c)
  <2>1. /\ reading[c] # Nothing /\ saved' = Append(saved, reading[c])
        /\ writing' = [d \in Captures |->
             IF d = c THEN [key |-> Len(saved'), left |-> "latest",
                            alone |-> \A e \in Captures \ {c} : writing[e] = NotWriting]
             ELSE [writing[d] EXCEPT !.alone = FALSE]]
        /\ UNCHANGED <<latest, valid, clean>>
    BY <1>2 DEF StoreFile
  <2>2. /\ Len(saved') = Len(saved) + 1 /\ \A k \in 1 .. Len(saved) : saved'[k] = saved[k]
    <3>1. reading[c] \in Capture
      BY <2>1, Numbered DEF IInv
    <3> QED
      BY <2>1, <3>1, Stored DEF IInv
  <2>3. \A k \in clean : saved'[k] = saved[k] /\ k < Len(saved') /\ k \in Nat
    BY <1>1, <2>2
  <2>4. /\ writing'[c].key = Len(saved') /\ writing'[c].left = "latest"
        /\ writing'[c].alone => \A d \in Captures \ {c} : writing[d] = NotWriting
        /\ \A d \in Captures \ {c} :
             /\ writing'[d].key = writing[d].key /\ writing'[d].alone = FALSE
             /\ writing[d] = NotWriting => writing'[d] = NotWriting
             /\ writing'[d] # NotWriting => writing[d] # NotWriting
    <3>1. [NotWriting EXCEPT !.alone = FALSE] = NotWriting
      BY StillNotWriting
    <3>2. NotWriting \in Written
      BY DEF NotWriting, Written
    <3> QED
      BY <1>1, <2>1, <3>1, <3>2 DEF Written
  <2>5. Pointed'
    <3>1. \A k \in clean' : k <= latest' /\ (saved'[k].kind = "ready" => k <= valid')
      BY <2>1, <2>3 DEF Pointed
    <3>2. ASSUME NEW d \in Captures, writing'[d] # NotWriting
          PROVE  /\ \A k \in clean' : k < writing'[d].key
                 /\ writing'[d].alone => /\ \A e \in Captures \ {d} : writing'[e] = NotWriting
                                        /\ (writing'[d].left = "valid" => latest' = writing'[d].key)
      BY <2>1, <2>3, <2>4, <3>2 DEF Pointed
    <3> QED
      BY <3>1, <3>2 DEF Pointed
  <2>6. Chosen'
    BY <1>1, <2>1, <2>3 DEF Chosen
  <2> QED
    BY <2>5, <2>6
<1>3. CASE SaveDies(c)
  <2>1. /\ UNCHANGED <<saved, latest, valid, clean>> /\ writing' = [writing EXCEPT ![c] = NotWriting]
    BY <1>3 DEF SaveDies, store
  <2>2. \A d \in Captures : writing'[d] \in {writing[d], NotWriting}
    BY <1>1, <2>1
  <2>3. Pointed'
    BY <2>1, <2>2 DEF Pointed
  <2>4. Chosen'
    BY <1>1, <2>1 DEF Chosen
  <2> QED
    BY <2>3, <2>4
<1>4. CASE PointLatest(c) \/ PointValid(c)
  <2> DEFINE key == writing[c].key
  <2>1. /\ writing[c] # NotWriting /\ key \in 1 .. Len(saved) /\ saved[key].by = c
        /\ \A k \in clean : k < key
        /\ writing[c].alone => \A d \in Captures \ {c} : writing[d] = NotWriting
    <3>1. writing[c] # NotWriting
      BY <1>4 DEF PointLatest, PointValid, NotWriting
    <3> QED
      BY <3>1 DEF IInv, Dated, Pointed
  <2>2. saved' = saved
    BY <1>4 DEF PointLatest, PointValid
  <2>3. pc["login"] # "idle" => saved[key].by = "typed"
    BY <2>1 DEF IInv, Ordered, Captures
  <2>4. clean' = clean \/ clean' = clean \cup {key}
    BY <1>4 DEF PointLatest, PointValid, SaveEnds
  <2>5. Chosen'
    BY <1>1, <2>2, <2>3, <2>4 DEF Chosen
  <2>6. CASE PointLatest(c) /\ saved[key].kind = "ready"
    <3>1. /\ latest' = key /\ UNCHANGED <<valid, clean>> /\ writing' = [writing EXCEPT ![c].left = "valid"]
      BY <2>6 DEF PointLatest, Promoted
    <3>2. /\ writing'[c].key = key /\ writing'[c].alone = writing[c].alone
          /\ \A d \in Captures \ {c} : writing'[d] = writing[d]
      BY <1>1, <3>1 DEF Written
    <3>3. ASSUME NEW d \in Captures, writing'[d] # NotWriting
          PROVE  /\ \A k \in clean' : k < writing'[d].key
                 /\ writing'[d].alone => /\ \A e \in Captures \ {d} : writing'[e] = NotWriting
                                        /\ (writing'[d].left = "valid" => latest' = writing'[d].key)
      BY <2>1, <3>1, <3>2, <3>3 DEF Pointed
    <3>4. \A k \in clean : k <= key
      BY <1>1, <2>1
    <3> QED
      BY <2>2, <2>5, <3>1, <3>3, <3>4 DEF Pointed
  <2>7. CASE SaveEnds(c) /\ (PointValid(c) \/ saved[key].kind # "ready")
    <3>1. /\ writing' = [writing EXCEPT ![c] = NotWriting]
          /\ clean' = IF writing[c].alone THEN clean \cup {key} ELSE clean
          /\ \/ latest' = key /\ valid' = valid /\ saved[key].kind # "ready"
             \/ latest' = latest /\ valid' = key /\ writing[c].left = "valid"
      BY <1>4, <2>7 DEF SaveEnds, PointLatest, PointValid
    <3>2. writing'[c] = NotWriting /\ \A d \in Captures \ {c} : writing'[d] = writing[d]
      BY <1>1, <3>1
    <3>3. \A k \in clean : k <= latest' /\ (saved[k].kind = "ready" => k <= valid')
      BY <1>1, <2>1, <3>1 DEF Pointed
    <3>4. writing[c].alone => key <= latest' /\ (saved[key].kind = "ready" => key <= valid')
      BY <1>1, <2>1, <3>1 DEF Pointed
    <3>5. ASSUME NEW d \in Captures, writing'[d] # NotWriting
          PROVE  /\ \A k \in clean' : k < writing'[d].key
                 /\ writing'[d].alone => /\ \A e \in Captures \ {d} : writing'[e] = NotWriting
                                        /\ (writing'[d].left = "valid" => latest' = writing'[d].key)
      <4>1. d # c /\ writing[d] # NotWriting /\ writing'[d] = writing[d] /\ ~writing[c].alone
        BY <2>1, <3>2, <3>5
      <4>2. ~writing[d].alone
        BY <2>1, <4>1 DEF Pointed
      <4> QED
        BY <3>1, <4>1, <4>2 DEF Pointed
    <3>6. \A k \in clean' : k <= latest' /\ (saved'[k].kind = "ready" => k <= valid')
      BY <2>2, <3>1, <3>3, <3>4
    <3> QED
      BY <2>5, <3>5, <3>6 DEF Pointed
  <2> QED
    BY <1>4, <2>6, <2>7 DEF PointLatest, PointValid, Promoted
<1> QED
  BY <1>2, <1>3, <1>4 DEF Save

LEMMA ChosenStep ==
  ASSUME IInv, Pointed, Chosen, [Next]_vars
  PROVE  Pointed' /\ Chosen'
<1>1. /\ Len(saved) \in Nat /\ "login" \in Runs /\ clean \subseteq 1 .. Len(saved)
      /\ sel \in [Runs -> Selection] /\ pc \in [Runs -> Places]
  BY DEF IInv, Typed, Runs
<1>2. ASSUME UNCHANGED <<store, writing, clean>>,
             \/ pc'["login"] \in {"idle", "select", "reopening"}
             \/ /\ pc["login"] \in {"wait", "compare", "admit"}
                /\ sel'["login"] = sel["login"]
             \/ pc'["login"] = pc["login"] /\ sel'["login"] = sel["login"]
      PROVE  Pointed' /\ Chosen'
  <2>1. Pointed'
    BY <1>2 DEF Pointed, store
  <2>2. Chosen'
    BY <1>2 DEF Chosen, store
  <2> QED
    BY <2>1, <2>2
<1>3. CASE NiriStarts \/ Display \/ Lock \/ Enable \/ Disable
  <2>1. UNCHANGED <<store, writing, clean>>
    BY <1>3 DEF NiriStarts, Display, Lock, Enable, Disable
  <2>2. \/ pc'["login"] \in {"idle", "select"}
        \/ pc'["login"] = pc["login"] /\ sel'["login"] = sel["login"]
    BY <1>1, <1>3 DEF NiriStarts, Display, Lock, Enable, Disable, Leaves, Keeps, runs
  <2> QED
    BY <1>2, <2>1, <2>2
<1>4. CASE NiriEnds
  <2>1. /\ UNCHANGED <<saved, latest, valid, clean>> /\ pc'["login"] = "idle"
        /\ writing' = [writing EXCEPT !["timer"] = NotWriting]
    BY <1>1, <1>4 DEF NiriEnds, store
  <2>2. \A d \in Captures : writing'[d] \in {writing[d], NotWriting}
    BY <2>1 DEF IInv, Typed
  <2>3. Pointed'
    BY <2>1, <2>2 DEF Pointed
  <2>4. Chosen'
    BY <2>1 DEF Chosen
  <2> QED
    BY <2>3, <2>4
<1>5. CASE TimerElapses \/ TimerReads \/ ReadingFails \/ TypedReads \/ UNCHANGED vars
  BY <1>2, <1>5 DEF TimerElapses, TimerReads, ReadingFails, TypedReads, Reads, vars, runs
<1>6. CASE \E c \in Captures : Save(c) \/ SaveDies(c)
  BY <1>6, SavedClean
<1>7. CASE SelectLatest("login")
  <2>1. UNCHANGED <<store, writing, clean>> /\ pc["login"] = "select"
    BY <1>7 DEF SelectLatest
  <2>2. CASE Leaves("login", "idle")
    BY <1>1, <1>2, <2>1, <2>2 DEF Leaves, Keeps
  <2>3. CASE ~Leaves("login", "idle")
    <3>1. Keeps("login", IF Unready THEN "fallback" ELSE Ahead("login"),
                [key |-> latest, fallback |-> Unready, latest |-> latest, clean |-> clean])
      BY <1>7, <2>3 DEF SelectLatest
    <3>2. /\ sel'["login"].clean = clean /\ sel'["login"].key = latest
          /\ pc'["login"] \in {"fallback", "wait"}
      BY <1>1, <3>1 DEF Keeps, Ahead
    <3>3. \A k \in clean : k <= latest
      BY DEF Pointed
    <3>4. Chosen'
      BY <2>1, <3>2, <3>3 DEF Chosen, store
    <3>5. Pointed'
      BY <2>1 DEF Pointed, store
    <3> QED
      BY <3>4, <3>5
  <2> QED
    BY <2>2, <2>3
<1>8. CASE SelectValid("login")
  <2>1. UNCHANGED <<store, writing, clean>> /\ pc["login"] = "fallback"
    BY <1>8 DEF SelectValid
  <2>2. CASE Leaves("login", "idle")
    BY <1>1, <1>2, <2>1, <2>2 DEF Leaves, Keeps
  <2>3. CASE Keeps("login", Ahead("login"), [sel["login"] EXCEPT !.key = valid])
    <3>1. sel'["login"].clean = sel["login"].clean /\ sel'["login"].key = valid
      BY <1>1, <2>3 DEF Keeps, Selection
    <3>2. /\ sel["login"].clean \subseteq clean
          /\ \A k \in clean \ sel["login"].clean : saved[k].by = "typed"
      BY <2>1 DEF Chosen
    <3>3. \A k \in clean : saved[k].kind = "ready" => k <= valid
      BY DEF Pointed
    <3>4. Chosen'
      BY <2>1, <3>1, <3>2, <3>3 DEF Chosen, store
    <3>5. Pointed'
      BY <2>1 DEF Pointed, store
    <3> QED
      BY <3>4, <3>5
  <2> QED
    BY <1>8, <2>2, <2>3 DEF SelectValid
<1>9. CASE TypedRestore \/ SelectLatest("typed") \/ SelectValid("typed")
  <2>1. /\ UNCHANGED <<store, writing, clean>>
        /\ sel'["login"] = sel["login"] /\ pc'["login"] = pc["login"]
    BY <1>1, <1>9 DEF TypedRestore, SelectLatest, SelectValid, Leaves, Keeps
  <2> QED
    BY <1>2, <2>1
<1>10. ASSUME NEW q \in Runs, (q = "login" /\ Wait) \/ Compare(q) \/ Admit(q) \/ Reopened(q) \/ Dies(q)
       PROVE  Pointed' /\ Chosen'
  <2>1. UNCHANGED <<store, writing, clean>>
    BY <1>10 DEF Wait, Compare, Admit, Reopened, Dies
  <2>2. \/ pc'["login"] \in {"idle", "reopening"}
        \/ pc["login"] \in {"wait", "compare", "admit"} /\ sel'["login"] = sel["login"]
        \/ pc'["login"] = pc["login"] /\ sel'["login"] = sel["login"]
    BY <1>1, <1>10 DEF Wait, Compare, Admit, Reopened, Dies, Leaves, Keeps
  <2> QED
    BY <1>2, <2>1, <2>2
<1> QED
  BY <1>3, <1>4, <1>5, <1>6, <1>7, <1>8, <1>9, <1>10 DEF Next, Session, Saving, Advance, Runs

\* README "At login", "then reopens your latest capture": however long the service waits, and
\* wherever saves are cut, what it starts to reopen is older than no ready capture that was
\* saved alone and to the end, but those typed since it selected.
THEOREM NewestIsReopened == Spec => LoginReopensNewest
<1>1. Init => Pointed /\ Chosen
  BY DEF Init, Pointed, Chosen, Runs
<1>2. IInv /\ Chosen =>
        [Starts("login") =>
           \A k \in clean : k > sel["login"].key /\ saved[k].kind = "ready" =>
             k \notin sel["login"].clean /\ saved[k].by = "typed"]_vars
  <2> SUFFICES ASSUME IInv, Chosen, pc["login"] = "admit",
                      NEW k \in clean, k > sel["login"].key, saved[k].kind = "ready"
               PROVE  k \notin sel["login"].clean /\ saved[k].by = "typed"
    BY DEF Starts
  <2>1. k \in Nat /\ sel["login"].key \in Nat
    BY DEF IInv, Typed, Selection, Runs
  <2>2. k \notin sel["login"].clean
    BY <2>1 DEF Chosen
  <2> QED
    BY <2>2 DEF Chosen
<1>3. IInv /\ Pointed /\ Chosen /\ [Next]_vars => Pointed' /\ Chosen'
  BY ChosenStep
<1> QED
  BY LoginInvariant, <1>1, <1>2, <1>3, PTL DEF Spec, LoginReopensNewest
=============================================================================
