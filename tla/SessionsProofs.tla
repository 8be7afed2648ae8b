--------------------------- MODULE SessionsProofs ---------------------------
(***************************************************************************)
(* For any number of processes, tabs, sessions and events.                 *)
(***************************************************************************)
EXTENDS Sessions, SequenceTheorems, FiniteSetTheorems, WellFoundedInduction, TLAPS

LEMMA NumberInduction ==
  ASSUME NEW S, 0 \in S, \A n \in Nat : n \in S => n + 1 \in S
  PROVE  Nat \subseteq S
<1> DEFINE R == OpToRel(<, Nat)
           B == Nat \ S
<1>1. \A x, y \in Nat : <<x, y>> \in R <=> x < y
  BY DEF OpToRel
<1>2. IsWellFoundedOn(R, Nat)
  BY NatLessThanWellFounded
<1> HIDE DEF R
<1>3. ASSUME B # {} PROVE FALSE
  <2>1. PICK x \in B : \A y \in B : ~(<<y, x>> \in R)
    BY <1>2, <1>3, WFMin
  <2>2. x # 0 /\ x - 1 \in Nat /\ x - 1 < x
    BY <2>1
  <2>3. x - 1 \in S
    BY <1>1, <2>1, <2>2
  <2> QED
    BY <2>1, <2>2, <2>3
<1> QED
  BY <1>3

\* What holds at 0 and is kept by every step up to N holds up to N.
LEMMA StepByStep ==
  ASSUME NEW N \in Nat, NEW S, 0 \in S, \A n \in 1 .. N : n - 1 \in S => n \in S
  PROVE  \A n \in 0 .. N : n \in S
<1> DEFINE T == {n \in Nat : n <= N => n \in S}
<1>1. 0 \in T
  OBVIOUS
<1>2. ASSUME NEW n \in Nat, n \in T PROVE n + 1 \in T
  <2>1. CASE n + 1 <= N
    <3>1. n + 1 \in 1 .. N /\ (n + 1) - 1 = n /\ n \in S
      BY <1>2, <2>1
    <3> QED
      BY <3>1
  <2> QED
    BY <2>1
<1> HIDE DEF T
<1>3. Nat \subseteq T
  BY <1>1, <1>2, NumberInduction
<1> QED
  BY <1>3 DEF T

\* A function defined from its value before.
Steps(N, X) == [1 .. N -> [X -> X]]
Runs(N, X, base, step, g) ==
  g \in [0 .. N -> X] /\ g[0] = base /\ \A n \in 1 .. N : g[n] = step[n][g[n - 1]]

\* There is one for every base and every step.
LEMMA Recursion ==
  ASSUME NEW N \in Nat, NEW X, NEW base \in X, NEW step \in Steps(N, X)
  PROVE  \E g : Runs(N, X, base, step, g)
<1> DEFINE Up(m, g) == /\ g \in [0 .. m -> X] /\ g[0] = base
                       /\ \A n \in 1 .. m : g[n] = step[n][g[n - 1]]
           S == {m \in 0 .. N : \E g : Up(m, g)}
<1>1. 0 \in S
  <2>1. Up(0, [n \in 0 .. 0 |-> base])
    OBVIOUS
  <2> HIDE DEF Up
  <2>2. 0 \in 0 .. N
    OBVIOUS
  <2> QED
    BY <2>1, <2>2
<1>2. ASSUME NEW m \in 1 .. N, m - 1 \in S PROVE m \in S
  <2>1. PICK g : Up(m - 1, g)
    BY <1>2
  <2> DEFINE h == [n \in 0 .. m |-> IF n = m THEN step[m][g[m - 1]] ELSE g[n]]
  <2>2. g[m - 1] \in X /\ step[m][g[m - 1]] \in X
    BY <2>1 DEF Steps
  <2>3. h \in [0 .. m -> X]
    BY <2>1, <2>2 DEF Steps
  <2>4. h[0] = base
    BY <2>1
  <2>5. \A n \in 1 .. m : h[n] = step[n][h[n - 1]]
    <3> TAKE n \in 1 .. m
    <3>1. h[n - 1] = g[n - 1]
      OBVIOUS
    <3>2. n # m => n \in 1 .. m - 1
      OBVIOUS
    <3> QED
      BY <2>1, <3>1, <3>2
  <2> HIDE DEF h
  <2>6. Up(m, h)
    BY <2>3, <2>4, <2>5
  <2> QED
    BY <2>6
<1>3. N \in S
  <2> HIDE DEF S
  <2>1. \A m \in 1 .. N : m - 1 \in S => m \in S
    BY <1>2
  <2>2. \A m \in 0 .. N : m \in S
    BY <1>1, <2>1, StepByStep
  <2> QED
    BY <2>2
<1>4. PICK g : Up(N, g)
  BY <1>3
<1> QED
  BY <1>4 DEF Runs

\* A sequence and its members.
LEMMA Members ==
  ASSUME NEW Y, NEW s \in Seq(Y)
  PROVE  /\ Len(s) \in Nat /\ DOMAIN s = 1 .. Len(s)
         /\ \A i \in 1 .. Len(s) : s[i] \in Y
         /\ ToSet(s) = {s[i] : i \in 1 .. Len(s)}
  BY DEF ToSet
-----------------------------------------------------------------------------
(* Sequences of numbers and of processes. *)

\* Ascending lists a set, each member once.
LEMMA AscendingLists ==
  ASSUME NEW S
  PROVE  /\ Ascending(S) \in Seq(1 .. MaxPid + MaxStarts)
         /\ ToSet(Ascending(S)) = S \cap 1 .. MaxPid + MaxStarts
         /\ \A i, j \in DOMAIN Ascending(S) : Ascending(S)[i] = Ascending(S)[j] => i = j
<1> DEFINE N == MaxPid + MaxStarts
           X == Seq(1 .. N)
           upto == CHOOSE g : g = [n \in 0 .. N |-> IF n = 0 THEN <<>>
                                                    ELSE IF n \in S THEN Append(g[n - 1], n) ELSE g[n - 1]]
           step == [n \in 1 .. N |-> [x \in X |-> IF n \in S THEN Append(x, n) ELSE x]]
<1>0. N \in Nat
  BY BoundsAssumption
<1> HIDE DEF N
<1>1. \A n \in 1 .. N, x \in X : (IF n \in S THEN Append(x, n) ELSE x) \in X
  BY AppendProperties
<1>2. step \in Steps(N, X) /\ <<>> \in X
  <2>1. <<>> \in X
    OBVIOUS
  <2> HIDE DEF X
  <2> QED
    BY <1>1, <2>1 DEF Steps
<1>3. \E f : f = [n \in 0 .. N |-> IF n = 0 THEN <<>>
                                   ELSE IF n \in S THEN Append(f[n - 1], n) ELSE f[n - 1]]
  <2> DEFINE base == <<>>
  <2> HIDE DEF X, step, base
  <2>1. base \in X
    BY <1>2 DEF base
  <2>2. PICK f : Runs(N, X, base, step, f)
    BY <1>0, <1>2, <2>1, Recursion
  <2>3. f \in [0 .. N -> X] /\ f[0] = base /\ \A n \in 1 .. N : f[n] = step[n][f[n - 1]]
    BY <2>2 DEF Runs
  <2>4. \A n \in 1 .. N : f[n - 1] \in X
    BY <1>0, <2>3
  <2>5. \A n \in 1 .. N, x \in X : step[n][x] = IF n \in S THEN Append(x, n) ELSE x
    BY DEF step
  <2>6. \A n \in 0 .. N : f[n] = IF n = 0 THEN base
                                 ELSE IF n \in S THEN Append(f[n - 1], n) ELSE f[n - 1]
    <3> TAKE n \in 0 .. N
    <3>1. CASE n = 0
      BY <2>3, <3>1
    <3>2. CASE n # 0
      <4>1. n \in 1 .. N /\ f[n - 1] \in X
        BY <1>0, <2>4, <3>2
      <4>2. step[n][f[n - 1]] = IF n \in S THEN Append(f[n - 1], n) ELSE f[n - 1]
        BY <2>5, <4>1
      <4> QED
        BY <2>3, <3>2, <4>1, <4>2
    <3> QED
      BY <3>1, <3>2
  <2>7. f = [n \in 0 .. N |-> f[n]]
    BY <2>3
  <2>8. f = [n \in 0 .. N |-> IF n = 0 THEN base
                              ELSE IF n \in S THEN Append(f[n - 1], n) ELSE f[n - 1]]
    BY <2>6, <2>7
  <2> QED
    BY <2>8 DEF base
<1>4. upto = [n \in 0 .. N |-> IF n = 0 THEN <<>>
                               ELSE IF n \in S THEN Append(upto[n - 1], n) ELSE upto[n - 1]]
  BY <1>3
<1> HIDE DEF upto
<1> DEFINE Lists(n) == /\ upto[n] \in X
                       /\ \A i \in DOMAIN upto[n] : upto[n][i] \in S /\ upto[n][i] <= n
                       /\ \A k \in S : k \in 1 .. n => \E i \in DOMAIN upto[n] : upto[n][i] = k
                       /\ \A i, j \in DOMAIN upto[n] : upto[n][i] = upto[n][j] => i = j
           T == {n \in 0 .. N : Lists(n)}
<1>5. 0 \in T
  BY <1>0, <1>4
<1>6. ASSUME NEW n \in 1 .. N, n - 1 \in T PROVE n \in T
  <2>1. Lists(n - 1) /\ n - 1 \in 0 .. N /\ n \in 0 .. N /\ n # 0
    BY <1>0, <1>6
  <2>0. upto[n] = IF n \in S THEN Append(upto[n - 1], n) ELSE upto[n - 1]
    <3> HIDE DEF T, Lists
    <3> QED
      BY <1>0, <1>4, <2>1
  <2> DEFINE u == upto[n - 1]
             v == upto[n]
  <2>2. /\ u \in X
        /\ \A i \in DOMAIN u : u[i] \in S /\ u[i] <= n - 1
        /\ \A k \in S : k \in 1 .. n - 1 => \E i \in DOMAIN u : u[i] = k
        /\ \A i, j \in DOMAIN u : u[i] = u[j] => i = j
    BY <2>1
  <2>3. v = IF n \in S THEN Append(u, n) ELSE u
    BY <2>0
  <2> HIDE DEF u, v
  <2>4. CASE n \notin S
    <3>1. \A i \in DOMAIN u : u[i] <= n
      BY <1>0, <2>2, Members
    <3>2. \A k \in S : k \in 1 .. n => k \in 1 .. n - 1
      BY <2>4
    <3>3. /\ v \in X
          /\ \A i \in DOMAIN v : v[i] \in S /\ v[i] <= n
          /\ \A k \in S : k \in 1 .. n => \E i \in DOMAIN v : v[i] = k
          /\ \A i, j \in DOMAIN v : v[i] = v[j] => i = j
      BY <2>2, <2>3, <2>4, <3>1, <3>2
    <3> QED
      BY <2>1, <3>3 DEF v
  <2>5. CASE n \in S
    <3>1. v = Append(u, n) /\ u \in X
      BY <2>2, <2>3, <2>5
    <3>0. n \in 1 .. N
      OBVIOUS
    <3>2. v \in X /\ DOMAIN v = 1 .. Len(u) + 1 /\ v[Len(u) + 1] = n
          /\ \A i \in 1 .. Len(u) : v[i] = u[i]
      BY <3>0, <3>1, AppendProperties, Members
    <3>3. DOMAIN u = 1 .. Len(u) /\ Len(u) \in Nat /\ \A i \in 1 .. Len(u) : u[i] \in 1 .. N
      BY <3>1, Members
    <3>4. \A i \in DOMAIN v : v[i] \in S /\ v[i] <= n
      BY <2>2, <2>5, <3>2, <3>3
    <3>5. ASSUME NEW k \in S, k \in 1 .. n PROVE \E i \in DOMAIN v : v[i] = k
      <4>1. k = n \/ k \in 1 .. n - 1
        BY <1>0, <3>0, <3>5
      <4>2. CASE k = n
        BY <3>2, <3>3, <4>2
      <4>3. CASE k \in 1 .. n - 1
        <5>1. PICK i \in DOMAIN u : u[i] = k
          BY <2>2, <4>3
        <5> QED
          BY <3>2, <3>3, <5>1
      <4> QED
        BY <4>1, <4>2, <4>3
    <3>6. \A i, j \in DOMAIN v : v[i] = v[j] => i = j
      <4>1. \A i \in DOMAIN v : i \in 1 .. Len(u) \/ i = Len(u) + 1
        BY <3>2, <3>3
      <4>2. \A i \in 1 .. Len(u) : v[i] # n
        <5> SUFFICES ASSUME NEW i \in 1 .. Len(u) PROVE v[i] # n
          OBVIOUS
        <5>1. u[i] <= n - 1 /\ u[i] \in Int /\ n \in Int
          BY <1>0, <2>2, <3>0, <3>3
        <5>2. u[i] # n
          BY <5>1
        <5> QED
          BY <3>2, <5>2
      <4>3. \A i, j \in 1 .. Len(u) : v[i] = v[j] => i = j
        BY <2>2, <3>2, <3>3
      <4> QED
        BY <3>2, <4>1, <4>2, <4>3
    <3> QED
      BY <2>1, <3>2, <3>4, <3>5, <3>6 DEF v
  <2> QED
    BY <2>4, <2>5
<1>7. N \in T
  <2> HIDE DEF T
  <2>1. \A n \in 1 .. N : n - 1 \in T => n \in T
    BY <1>6
  <2>2. \A n \in 0 .. N : n \in T
    BY <1>0, <1>5, <2>1, StepByStep
  <2> QED
    BY <1>0, <2>2
<1>8. Ascending(S) = upto[N]
  BY DEF Ascending, upto, N
<1> QED
  BY <1>0, <1>7, <1>8 DEF ToSet, N

\* Children are processes of the table.
LEMMA ChildrenTyped ==
  ASSUME NEW parents, DOMAIN parents \subseteq Pids, NEW p
  PROVE  /\ ChildrenIn(p, parents) \in Seq(DOMAIN parents)
         /\ ToSet(ChildrenIn(p, parents)) = {c \in DOMAIN parents : parents[c] = p}
         /\ \A i, j \in DOMAIN ChildrenIn(p, parents) :
              ChildrenIn(p, parents)[i] = ChildrenIn(p, parents)[j] => i = j
<1> DEFINE S == {c \in DOMAIN parents : parents[c] = p}
           a == Ascending(S)
<1>1. /\ a \in Seq(1 .. MaxPid + MaxStarts)
      /\ ToSet(a) = S \cap 1 .. MaxPid + MaxStarts
      /\ \A i, j \in DOMAIN a : a[i] = a[j] => i = j
  BY AscendingLists
<1>2. S \subseteq DOMAIN parents /\ S \subseteq 1 .. MaxPid + MaxStarts
  BY BoundsAssumption DEF Pids
<1> HIDE DEF S, a
<1>3. ToSet(a) = S
  BY <1>1, <1>2
<1>4. a \in Seq(DOMAIN parents)
  <2> DEFINE Y == 1 .. MaxPid + MaxStarts
  <2>0. a \in Seq(Y)
    BY <1>1
  <2> HIDE DEF Y
  <2>1. \A i \in 1 .. Len(a) : a[i] \in ToSet(a)
    BY <2>0, Members
  <2>2. Len(a) \in Nat /\ a = [i \in 1 .. Len(a) |-> a[i]]
    BY <2>0
  <2>3. \A i \in 1 .. Len(a) : a[i] \in DOMAIN parents
    BY <1>2, <1>3, <2>1
  <2> QED
    BY <2>2, <2>3
<1> QED
  BY <1>1, <1>3, <1>4 DEF ChildrenIn, S, a

\* The processes below a shell are processes of the table.
LEMMA DescendTyped ==
  ASSUME NEW parents, DOMAIN parents \subseteq Pids, NEW shell \in DOMAIN parents
  PROVE  Descend(shell, parents) \in Seq(DOMAIN parents)
<1> DEFINE D == DOMAIN parents
           X == [queue : Seq(D), seen : Seq(D)]
           onward(w) == CASE w.queue = <<>> -> w
                          [] w.queue # <<>> /\ Head(w.queue) \in ToSet(w.seen) ->
                               [w EXCEPT !.queue = Tail(@)]
                          [] OTHER -> [queue |-> Tail(w.queue) \o ChildrenIn(Head(w.queue), parents),
                                       seen  |-> Append(w.seen, Head(w.queue))]
           step == [n \in 1 .. MaxPid |-> [w \in X |-> onward(w)]]
           first == [queue |-> <<shell>>, seen |-> <<>>]
           walk == CHOOSE g : g = [n \in 0 .. MaxPid |-> IF n = 0 THEN first ELSE onward(g[n - 1])]
<1>0. MaxPid \in Nat
  BY BoundsAssumption
<1>1. first \in X
  OBVIOUS
<1> HIDE DEF D
<1>2. ASSUME NEW w \in X PROVE onward(w) \in X
  <2>1. CASE w.queue = <<>>
    BY <2>1
  <2>2. CASE w.queue # <<>>
    <3>1. Head(w.queue) \in D /\ Tail(w.queue) \in Seq(D)
      BY <2>2
    <3>2. ChildrenIn(Head(w.queue), parents) \in Seq(D)
      BY ChildrenTyped DEF D
    <3>3. Tail(w.queue) \o ChildrenIn(Head(w.queue), parents) \in Seq(D)
      BY <3>1, <3>2
    <3>4. Append(w.seen, Head(w.queue)) \in Seq(D)
      BY <3>1, AppendProperties
    <3> QED
      BY <2>2, <3>1, <3>3, <3>4
  <2> QED
    BY <2>1, <2>2
<1> HIDE DEF X, first, onward
<1>3. step \in Steps(MaxPid, X)
  BY <1>2 DEF Steps
<1>4. PICK f : Runs(MaxPid, X, first, step, f)
  <2> HIDE DEF step
  <2> QED
    BY <1>0, <1>1, <1>3, Recursion
<1>5. f \in [0 .. MaxPid -> X] /\ f[0] = first /\ \A n \in 1 .. MaxPid : f[n] = step[n][f[n - 1]]
  BY <1>4 DEF Runs
<1>6. \A n \in 0 .. MaxPid : f[n] = IF n = 0 THEN first ELSE onward(f[n - 1])
  <2> TAKE n \in 0 .. MaxPid
  <2>1. CASE n # 0
    <3>1. n \in 1 .. MaxPid /\ f[n - 1] \in X
      BY <1>0, <1>5, <2>1
    <3>2. step[n][f[n - 1]] = onward(f[n - 1])
      BY <3>1
    <3> QED
      BY <1>5, <2>1, <3>1, <3>2
  <2> QED
    BY <1>5, <2>1
<1>7. f = [n \in 0 .. MaxPid |-> f[n]]
  BY <1>5
<1>8. f = [n \in 0 .. MaxPid |-> IF n = 0 THEN first ELSE onward(f[n - 1])]
  BY <1>6, <1>7
<1>9. walk = [n \in 0 .. MaxPid |-> IF n = 0 THEN first ELSE onward(walk[n - 1])]
  BY <1>8
<1> DEFINE T == {n \in 0 .. MaxPid : walk[n] \in X}
<1>10. \A n \in 0 .. MaxPid : walk[n] = IF n = 0 THEN first ELSE onward(walk[n - 1])
  <2> HIDE DEF walk
  <2> QED
    BY <1>9
<1> HIDE DEF walk
<1>11. 0 \in T
  BY <1>0, <1>1, <1>10
<1>12. \A n \in 1 .. MaxPid : n - 1 \in T => n \in T
  BY <1>0, <1>2, <1>10
<1>13. walk[MaxPid] \in X
  <2> HIDE DEF T
  <2>1. \A n \in 0 .. MaxPid : n \in T
    BY <1>0, <1>11, <1>12, StepByStep
  <2> QED
    BY <1>0, <2>1 DEF T
<1>14. Descend(shell, parents) = walk[MaxPid].seen
  BY DEF Descend, walk, onward, first
<1> QED
  BY <1>13, <1>14 DEF X, D
-----------------------------------------------------------------------------
(* Processes, tabs, hooks and records. *)

IsMap(f, D, R) == DOMAIN f \subseteq D /\ f \in [DOMAIN f -> R]

Programs == {c[1] : c \in Commands}
Words == {c[2] : c \in Commands}
Process == [born : Nat, parent : Int, comm : Programs, word : Words, argued : BOOLEAN,
            group : Pids, session : Sessions \cup {None}]
Terminal == [window : Nat, front : Pids]
Record == [born : Nat, session : Sessions \cup {Fresh}, writer : Nat]
HookSteps == {"start", "found", "inside", "pinned"}
Hook == [pid : Pids, session : Sessions, step : HookSteps, pin : Nat]

RecordsTyped(records) ==
  /\ records = [r \in ToSet(Readers) |-> records[r]]
  /\ \A r \in ToSet(Readers) : IsMap(records[r], Pids, Record)

WorldTyped ==
  /\ starts \in Nat /\ starts <= MaxStarts
  /\ IsMap(proc, Pids, Process) /\ IsMap(tab, Pids, Terminal) /\ IsMap(hook, Nat, Hook)
  /\ RecordsTyped(record)

\* Nothing names a start that has not been, and no two processes have the same.
Dated ==
  /\ \A p \in DOMAIN proc : proc[p].born <= starts
  /\ \A p, q \in DOMAIN proc : proc[p].born = proc[q].born => p = q
  /\ \A h \in DOMAIN hook : h <= starts /\ hook[h].pin <= starts
  /\ \A r \in ToSet(Readers) : \A p \in DOMAIN record[r] : record[r][p].born <= starts
  /\ \A t \in DOMAIN tab : tab[t].window \in 1 .. starts

\* The tabs are the processes right below the terminal.
Rooted == \A p \in Pids : p \in DOMAIN tab <=> p \in DOMAIN proc /\ proc[p].parent = Ghostty

\* The agent that waits for a hook is on the session that the hook declares.
Waits ==
  \A h \in DOMAIN hook : \A p \in DOMAIN proc :
    proc[p].born = h =>
      p = hook[h].pid /\ proc[p].comm = "codex" /\ proc[p].session = hook[h].session

\* A record that a process has written names the session it is on; only an agent with a hook
\* has a declaration of its own.
Told ==
  /\ \A r \in {"registry", "nodecode"} : \A p \in DOMAIN proc \cap DOMAIN record[r] :
       record[r][p].born = proc[p].born =>
         proc[p].comm = Kind(r) /\ record[r][p].session = proc[p].session
  /\ \A p \in DOMAIN proc \cap DOMAIN record.declared :
       LET d == record.declared[p]
       IN  d.born = proc[p].born /\ d.writer = proc[p].born /\ d.session # Fresh =>
             proc[p].comm = "codex"

WorldInv == WorldTyped /\ Dated /\ Rooted /\ Waits /\ Told /\ DeclarationFollowsAgent

LEMMA WithMap ==
  ASSUME NEW D, NEW R, NEW f, IsMap(f, D, R), NEW x \in D, NEW y \in R
  PROVE  /\ IsMap(With(f, x, y), D, R)
         /\ DOMAIN With(f, x, y) = DOMAIN f \cup {x} /\ With(f, x, y)[x] = y
         /\ \A z \in DOMAIN f : z # x => With(f, x, y)[z] = f[z]
  BY DEF IsMap, With

LEMMA WithoutMap ==
  ASSUME NEW D, NEW R, NEW f, IsMap(f, D, R), NEW x
  PROVE  IsMap([z \in DOMAIN f \ {x} |-> f[z]], D, R)
  BY DEF IsMap

LEMMA ReadersAre == ToSet(Readers) = {"registry", "nodecode", "declared"}
  BY DEF Readers, ToSet

\* A record that is written replaces the one under its pid, and nothing else.
LEMMA WrittenIs ==
  ASSUME WorldTyped, NEW r \in ToSet(Readers), NEW p \in Pids, NEW b \in Nat,
         NEW s, s \in Sessions \/ s = Fresh, NEW w \in Nat
  PROVE  LET d == Written(r, p, b, s, w)
         IN  /\ RecordsTyped(d)
             /\ \A q \in ToSet(Readers) : q # r => d[q] = record[q]
             /\ DOMAIN d[r] = DOMAIN record[r] \cup {p}
             /\ d[r][p].born = b /\ d[r][p].session = s /\ d[r][p].writer = w
             /\ \A q \in DOMAIN record[r] : q # p => d[r][q] = record[r][q]
<1> DEFINE e == [born |-> b, session |-> s, writer |-> w]
           d == Written(r, p, b, s, w)
<1>1. e \in Record /\ e.born = b /\ e.session = s /\ e.writer = w
  BY DEF Record
<1>2. d = [record EXCEPT ![r] = With(record[r], p, e)]
  BY DEF Written
<1> HIDE DEF e
<1>3. d[r] = With(record[r], p, e) /\ \A q \in ToSet(Readers) \ {r} : d[q] = record[q]
  BY <1>2 DEF WorldTyped, RecordsTyped
<1>4. /\ IsMap(d[r], Pids, Record) /\ DOMAIN d[r] = DOMAIN record[r] \cup {p} /\ d[r][p] = e
      /\ \A q \in DOMAIN record[r] : q # p => d[r][q] = record[r][q]
  <2> DEFINE f == record[r]
             g == With(f, p, e)
  <2>1. IsMap(f, Pids, Record)
    BY DEF WorldTyped, RecordsTyped
  <2> HIDE DEF f
  <2>2. /\ IsMap(g, Pids, Record) /\ DOMAIN g = DOMAIN f \cup {p} /\ g[p] = e
        /\ \A q \in DOMAIN f : q # p => g[q] = f[q]
    BY <1>1, <2>1, WithMap
  <2> HIDE DEF g
  <2>3. d[r] = g
    BY <1>3 DEF f, g
  <2> QED
    BY <2>2, <2>3 DEF f
<1>5. d = [q \in ToSet(Readers) |-> d[q]]
  BY <1>2 DEF WorldTyped, RecordsTyped
<1> HIDE DEF d
<1>6. RecordsTyped(d)
  <2>1. \A q \in ToSet(Readers) : IsMap(d[q], Pids, Record)
    BY <1>3, <1>4 DEF WorldTyped, RecordsTyped
  <2> QED
    BY <1>5, <2>1 DEF RecordsTyped
<1> QED
  BY <1>1, <1>3, <1>4, <1>6 DEF d

\* What runs in a tab is in the table.
LEMMA TreeInside ==
  ASSUME NEW table, DOMAIN table \subseteq Pids, NEW shell \in DOMAIN table
  PROVE  /\ Tree(shell, table) \in Seq(DOMAIN table)
         /\ ToSet(Tree(shell, table)) \subseteq DOMAIN table
<1>1. DOMAIN Parents(table) = DOMAIN table
  BY DEF Parents
<1>2. Tree(shell, table) \in Seq(DOMAIN table)
  BY <1>1, DescendTyped DEF Tree
<1> QED
  BY <1>2, Members

LEMMA CommandsTyped ==
  ASSUME NEW c \in Commands
  PROVE  c[1] \in Programs /\ c[2] \in Words /\ c[3] \in BOOLEAN
<1> DEFINE no == FALSE
           yes == TRUE
<1>1. c \in {<<"bash", "bash", no>>, <<"bash", "bash", yes>>, <<"vim", "vim", yes>>,
             <<"claude", "claude", yes>>, <<"codex", "codex", yes>>, <<"aider", "python3", yes>>,
             <<"nodecode", "nodecode", no>>}
  BY Zenon DEF Commands
<1>2. {no, yes} = BOOLEAN
  OBVIOUS
<1> HIDE DEF no, yes
<1>3. c[3] \in BOOLEAN
  BY <1>1, <1>2
<1> QED
  BY <1>3 DEF Programs, Words

\* What does not change the start, the program or the session of a process that stays, and
\* writes nothing, keeps what is known of hooks and records.
LEMMA Quieter ==
  ASSUME WorldInv, UNCHANGED <<hook, unheard, starts>>,
         DOMAIN proc' \subseteq DOMAIN proc,
         \A p \in DOMAIN proc' : /\ proc'[p].born = proc[p].born /\ proc'[p].comm = proc[p].comm
                                 /\ proc'[p].session = proc[p].session,
         \A r \in ToSet(Readers) :
           DOMAIN record'[r] \subseteq DOMAIN record[r]
             /\ \A p \in DOMAIN record'[r] : record'[r][p] = record[r][p],
         \A t \in DOMAIN tab' : tab'[t].window \in 1 .. starts
  PROVE  Dated' /\ Waits' /\ Told' /\ DeclarationFollowsAgent'
<1>1. Dated'
  BY DEF WorldInv, Dated
<1>2. Waits'
  BY DEF WorldInv, Waits
<1>3. Told'
  BY ReadersAre DEF WorldInv, Told
<1>4. DeclarationFollowsAgent'
  BY ReadersAre DEF WorldInv, DeclarationFollowsAgent, Unsettled
<1> QED
  BY <1>1, <1>2, <1>3, <1>4

LEMMA StartsKeeps ==
  ASSUME WorldInv, NEW p \in Pids, NEW parent \in {Ghostty} \cup Pids, NEW c \in Commands,
         NEW group \in Pids, Starts(p, parent, c, group)
  PROVE  /\ IsMap(proc', Pids, Process) /\ starts' = starts + 1 /\ starts' <= MaxStarts
         /\ p \notin DOMAIN proc /\ DOMAIN proc' = DOMAIN proc \cup {p}
         /\ \A q \in DOMAIN proc : proc'[q] = proc[q]
         /\ proc'[p].born = starts + 1 /\ proc'[p].parent = parent /\ proc'[p].session = None
<1> USE BoundsAssumption
<1>1. p \notin DOMAIN proc /\ starts < MaxStarts /\ starts' = starts + 1
      /\ proc' = With(proc, p, NewProcess(p, parent, c, group))
  BY DEF Starts
<1> DEFINE n == NewProcess(p, parent, c, group)
<1>2. n \in Process /\ n.born = starts + 1 /\ n.parent = parent /\ n.session = None
  <2>1. c[1] \in Programs /\ c[2] \in Words /\ c[3] \in BOOLEAN
    BY CommandsTyped
  <2>2. parent \in Int
    BY DEF Ghostty, Pids
  <2>3. starts + 1 \in Nat
    BY DEF WorldInv, WorldTyped
  <2> QED
    BY <2>1, <2>2, <2>3 DEF NewProcess, Process
<1>3. IsMap(proc, Pids, Process) /\ proc' = With(proc, p, n)
  BY <1>1 DEF WorldInv, WorldTyped
<1> HIDE DEF n
<1>4. /\ IsMap(proc', Pids, Process)
      /\ DOMAIN proc' = DOMAIN proc \cup {p} /\ proc'[p] = n
      /\ \A q \in DOMAIN proc : q # p => proc'[q] = proc[q]
  <2> DEFINE w == With(proc, p, n)
  <2>1. n \in Process /\ IsMap(proc, Pids, Process)
    BY <1>2, <1>3
  <2>2. /\ IsMap(w, Pids, Process)
        /\ DOMAIN w = DOMAIN proc \cup {p} /\ w[p] = n
        /\ \A q \in DOMAIN proc : q # p => w[q] = proc[q]
    BY <2>1 DEF With, IsMap
  <2> HIDE DEF w
  <2> QED
    BY <1>3, <2>2 DEF w
<1>6. starts' <= MaxStarts
  BY <1>1 DEF WorldInv, WorldTyped
<1> QED
  BY <1>1, <1>2, <1>4, <1>6

\* No hook and no record knows of a process that starts.
LEMMA StartsFollows ==
  ASSUME WorldInv, NEW p \in Pids, NEW parent \in {Ghostty} \cup Pids, NEW c \in Commands,
         NEW group \in Pids, Starts(p, parent, c, group), UNCHANGED <<record, hook, unheard>>,
         \A t \in DOMAIN tab' : tab'[t].window \in 1 .. starts'
  PROVE  Dated' /\ Waits' /\ Told' /\ DeclarationFollowsAgent'
<1>1. /\ starts' = starts + 1 /\ starts \in Nat /\ p \notin DOMAIN proc
      /\ DOMAIN proc' = DOMAIN proc \cup {p} /\ \A q \in DOMAIN proc : proc'[q] = proc[q]
      /\ proc'[p].born = starts + 1 /\ proc'[p].session = None
      /\ hook' = hook /\ record' = record /\ unheard' = unheard
  BY StartsKeeps DEF WorldInv, WorldTyped
<1>2. /\ \A h \in DOMAIN hook : h <= starts /\ h \in Nat /\ hook[h].pin <= starts /\ hook[h].pin \in Nat
      /\ \A r \in ToSet(Readers) : \A q \in DOMAIN record[r] :
           record[r][q].born <= starts /\ record[r][q].born \in Nat
      /\ \A q \in DOMAIN proc : proc[q].born <= starts /\ proc[q].born \in Nat
  BY DEF WorldInv, WorldTyped, RecordsTyped, Dated, IsMap, Hook, Record, Process
<1>3. Dated'
  <2>1. \A q, r \in DOMAIN proc' : proc'[q].born = proc'[r].born => q = r
    BY <1>1, <1>2 DEF WorldInv, Dated
  <2> QED
    BY <1>1, <1>2, <2>1 DEF Dated
<1>5. Waits'
  BY <1>1, <1>2 DEF WorldInv, Waits
<1>4. {"registry", "nodecode", "declared"} \subseteq ToSet(Readers)
  BY ReadersAre
<1>6. Told'
  BY <1>1, <1>2, <1>4 DEF WorldInv, Told
<1>7. DeclarationFollowsAgent'
  BY <1>1, <1>2, <1>4 DEF WorldInv, DeclarationFollowsAgent, Unsettled
<1> QED
  BY <1>3, <1>5, <1>6, <1>7

LEMMA OpenTabKeeps ==
  ASSUME WorldInv, NEW p \in Pids, OpenTab(p)
  PROVE  WorldInv'
<1>1. PICK c \in TabCommands, w \in Windows \cup {starts + 1} :
        /\ Starts(p, Ghostty, c, p)
        /\ tab' = With(tab, p, [window |-> w, front |-> p])
        /\ UNCHANGED <<record, hook, unheard>>
  BY DEF OpenTab
<1>2. c \in Commands
  BY DEF TabCommands, Commands
<1>3. /\ IsMap(proc', Pids, Process) /\ starts' = starts + 1 /\ starts' <= MaxStarts
      /\ p \notin DOMAIN proc /\ DOMAIN proc' = DOMAIN proc \cup {p}
      /\ \A q \in DOMAIN proc : proc'[q] = proc[q]
      /\ proc'[p].parent = Ghostty
  BY <1>1, <1>2, StartsKeeps
<1>5. starts \in Nat /\ w \in 1 .. starts + 1 /\ \A t \in DOMAIN tab : tab[t].window \in 1 .. starts
  BY DEF WorldInv, WorldTyped, Dated, Windows
<1> DEFINE e == [window |-> w, front |-> p]
<1>6. e \in Terminal /\ e.window = w /\ tab' = With(tab, p, e) /\ IsMap(tab, Pids, Terminal)
  BY <1>1, <1>5 DEF Terminal, WorldInv, WorldTyped
<1> HIDE DEF e
<1>7. /\ IsMap(tab', Pids, Terminal) /\ DOMAIN tab' = DOMAIN tab \cup {p} /\ tab'[p] = e
      /\ \A t \in DOMAIN tab : t # p => tab'[t] = tab[t]
  BY <1>6, WithMap
<1>8. WorldTyped'
  BY <1>1, <1>3, <1>5, <1>7 DEF WorldInv, WorldTyped
<1>9. \A t \in DOMAIN tab' : tab'[t].window \in 1 .. starts'
  BY <1>3, <1>5, <1>6, <1>7
<1>4. Dated' /\ Waits' /\ Told' /\ DeclarationFollowsAgent'
  BY <1>1, <1>2, <1>9, StartsFollows
<1>10. Rooted'
  BY <1>3, <1>7 DEF WorldInv, Rooted
<1> QED
  BY <1>4, <1>8, <1>10 DEF WorldInv

LEMMA ForkKeeps ==
  ASSUME WorldInv, NEW q \in DOMAIN proc, NEW p \in Pids, Fork(q, p)
  PROVE  WorldInv'
<1>1. PICK c \in Commands, g \in {p, proc[q].group} :
        /\ Starts(p, q, c, g)
        /\ \/ UNCHANGED tab
           \/ /\ q \in DOMAIN tab /\ g = p
              /\ tab' = [tab EXCEPT ![q].front = p]
        /\ UNCHANGED <<record, hook, unheard>>
  BY DEF Fork
<1>2. q \in Pids /\ g \in Pids
  BY DEF WorldInv, WorldTyped, IsMap, Process
<1>3. /\ IsMap(proc', Pids, Process) /\ starts' = starts + 1 /\ starts' <= MaxStarts
      /\ p \notin DOMAIN proc /\ DOMAIN proc' = DOMAIN proc \cup {p}
      /\ \A r \in DOMAIN proc : proc'[r] = proc[r]
      /\ proc'[p].parent = q
  BY <1>1, <1>2, StartsKeeps
<1>5. /\ IsMap(tab', Pids, Terminal) /\ DOMAIN tab' = DOMAIN tab
      /\ \A t \in DOMAIN tab : tab'[t].window = tab[t].window
  BY <1>1 DEF WorldInv, WorldTyped, IsMap, Terminal
<1>6. starts \in Nat /\ \A t \in DOMAIN tab : tab[t].window \in 1 .. starts
  BY DEF WorldInv, WorldTyped, Dated
<1>7. WorldTyped'
  BY <1>1, <1>3, <1>5, <1>6 DEF WorldInv, WorldTyped
<1>8. \A t \in DOMAIN tab' : tab'[t].window \in 1 .. starts'
  BY <1>3, <1>5, <1>6
<1>4. Dated' /\ Waits' /\ Told' /\ DeclarationFollowsAgent'
  BY <1>1, <1>2, <1>8, StartsFollows
<1>9. Rooted'
  <2>1. p \notin DOMAIN tab /\ q # Ghostty
    BY <1>2, <1>3 DEF WorldInv, Rooted, Pids, Ghostty
  <2> QED
    BY <1>3, <1>5, <2>1 DEF WorldInv, Rooted
<1> QED
  BY <1>4, <1>7, <1>9 DEF WorldInv

\* A change of one process that keeps its pid, its start, its parent and its job: what execs has
\* announced nothing.
LEMMA ExecKeeps ==
  ASSUME WorldInv, NEW p \in DOMAIN proc, Exec(p)
  PROVE  WorldInv'
<1>1. PICK c \in Commands :
        /\ proc[p].comm \in Shells
        /\ proc' = [proc EXCEPT ![p].comm = c[1], ![p].word = c[2], ![p].argued = c[3],
                                ![p].session = None]
        /\ UNCHANGED <<tab, record, hook, unheard, starts>>
  BY DEF Exec
<1>2. c[1] \in Programs /\ c[2] \in Words /\ c[3] \in BOOLEAN
  BY CommandsTyped
<1>3. IsMap(proc, Pids, Process)
  BY DEF WorldInv, WorldTyped
<1>4. /\ DOMAIN proc' = DOMAIN proc /\ IsMap(proc', Pids, Process)
      /\ \A q \in DOMAIN proc : /\ proc'[q].born = proc[q].born /\ proc'[q].parent = proc[q].parent
                                /\ q # p => proc'[q] = proc[q]
  <2> DEFINE e == [proc[p] EXCEPT !.comm = c[1], !.word = c[2], !.argued = c[3], !.session = None]
  <2>1. proc[p] \in Process
    BY <1>3 DEF IsMap
  <2>2. e \in Process /\ e.born = proc[p].born /\ e.parent = proc[p].parent
    BY <1>2, <2>1 DEF Process
  <2>3. proc' = [proc EXCEPT ![p] = e]
    BY <1>1, <1>3, <2>1 DEF IsMap, Process
  <2> HIDE DEF e
  <2> QED
    BY <1>3, <2>2, <2>3 DEF IsMap
<1>5. proc[p].comm \notin {"claude", "codex", "nodecode"}
  BY <1>1 DEF Shells
<1>6. WorldTyped' /\ Dated' /\ Rooted'
  BY <1>1, <1>4 DEF WorldInv, WorldTyped, Dated, Rooted
<1>7. Waits'
  BY <1>1, <1>4, <1>5 DEF WorldInv, Waits
<1>8. Told'
  BY <1>1, <1>4, <1>5 DEF WorldInv, Told, Kind
<1>9. DeclarationFollowsAgent'
  BY <1>1, <1>4, <1>5 DEF WorldInv, Told, DeclarationFollowsAgent, Unsettled
<1> QED
  BY <1>6, <1>7, <1>8, <1>9 DEF WorldInv

LEMMA SwitchJobKeeps ==
  ASSUME WorldInv, NEW t \in DOMAIN tab, SwitchJob(t)
  PROVE  WorldInv'
<1>1. PICK p \in ToSet(Tree(t, proc)) :
        /\ tab' = [tab EXCEPT ![t].front = proc[p].group]
        /\ UNCHANGED <<proc, record, hook, unheard, starts>>
  BY DEF SwitchJob
<1>2. p \in DOMAIN proc
  BY TreeInside DEF WorldInv, WorldTyped, Rooted, IsMap
<1>3. /\ IsMap(tab', Pids, Terminal) /\ DOMAIN tab' = DOMAIN tab
      /\ \A u \in DOMAIN tab : tab'[u].window = tab[u].window
  BY <1>1, <1>2 DEF WorldInv, WorldTyped, IsMap, Process, Terminal
<1>4. WorldTyped' /\ Rooted'
  BY <1>1, <1>3 DEF WorldInv, WorldTyped, Rooted
<1>5. \A u \in DOMAIN tab' : tab'[u].window \in 1 .. starts
  BY <1>3 DEF WorldInv, Dated
<1>6. Dated' /\ Waits' /\ Told' /\ DeclarationFollowsAgent'
  BY <1>1, <1>5, Quieter
<1> QED
  BY <1>4, <1>6 DEF WorldInv

\* A process ends; those it started are orphaned and its tab is gone.
LEMMA EndKeeps ==
  ASSUME WorldInv, NEW p \in DOMAIN proc, End(p)
  PROVE  WorldInv'
<1>1. /\ proc' = [q \in DOMAIN proc \ {p} |->
                    IF proc[q].parent = p THEN [proc[q] EXCEPT !.parent = Orphaned] ELSE proc[q]]
      /\ tab' = [t \in DOMAIN tab \ {p} |->
                   IF tab[t].front = p THEN [tab[t] EXCEPT !.front = t] ELSE tab[t]]
      /\ UNCHANGED <<hook, unheard, starts>>
  BY DEF End
<1>2. IsMap(proc, Pids, Process) /\ IsMap(tab, Pids, Terminal) /\ p \in Pids
  BY DEF WorldInv, WorldTyped, IsMap
<1>3. /\ DOMAIN proc' = DOMAIN proc \ {p} /\ IsMap(proc', Pids, Process)
      /\ \A q \in DOMAIN proc' :
           /\ proc'[q].born = proc[q].born /\ proc'[q].comm = proc[q].comm
           /\ proc'[q].session = proc[q].session
           /\ proc'[q].parent = Ghostty <=> proc[q].parent = Ghostty
  <2>1. p # Ghostty /\ Orphaned # Ghostty /\ Orphaned \in Int
    BY <1>2 DEF Pids, Ghostty, Orphaned
  <2> DEFINE e(q) == IF proc[q].parent = p THEN [proc[q] EXCEPT !.parent = Orphaned] ELSE proc[q]
  <2>2. \A q \in DOMAIN proc :
          /\ e(q) \in Process
          /\ e(q).born = proc[q].born /\ e(q).comm = proc[q].comm
          /\ e(q).session = proc[q].session
          /\ e(q).parent = Ghostty <=> proc[q].parent = Ghostty
    BY <1>2, <2>1 DEF IsMap, Process
  <2>3. proc' = [q \in DOMAIN proc \ {p} |-> e(q)]
    BY <1>1
  <2> HIDE DEF e
  <2> QED
    BY <1>2, <2>2, <2>3 DEF IsMap
<1>4. /\ DOMAIN tab' = DOMAIN tab \ {p} /\ IsMap(tab', Pids, Terminal)
      /\ \A t \in DOMAIN tab' : tab'[t].window = tab[t].window
  BY <1>1, <1>2 DEF IsMap, Terminal
<1>5. /\ RecordsTyped(record')
      /\ \A r \in ToSet(Readers) :
           DOMAIN record'[r] \subseteq DOMAIN record[r]
             /\ \A q \in DOMAIN record'[r] : record'[r][q] = record[r][q]
  <2>1. CASE UNCHANGED record
    BY <2>1 DEF WorldInv, WorldTyped
  <2>2. CASE record' = [r \in DOMAIN record |->
                          IF r = "declared" THEN record[r]
                          ELSE [q \in DOMAIN record[r] \ {p} |-> record[r][q]]]
    <3>1. DOMAIN record = ToSet(Readers) /\ "declared" \in DOMAIN record
      BY ReadersAre DEF WorldInv, WorldTyped, RecordsTyped
    <3>2. \A r \in ToSet(Readers) : IsMap([q \in DOMAIN record[r] \ {p} |-> record[r][q]], Pids, Record)
      BY WithoutMap DEF WorldInv, WorldTyped, RecordsTyped
    <3> QED
      BY <2>2, <3>1, <3>2 DEF WorldInv, WorldTyped, RecordsTyped
  <2> QED
    BY <2>1, <2>2 DEF End
<1>6. WorldTyped'
  BY <1>1, <1>3, <1>4, <1>5 DEF WorldInv, WorldTyped
<1>7. \A t \in DOMAIN tab' : tab'[t].window \in 1 .. starts
  BY <1>4 DEF WorldInv, Dated
<1>8. Rooted'
  BY <1>3, <1>4 DEF WorldInv, Rooted
<1>9. Dated' /\ Waits' /\ Told' /\ DeclarationFollowsAgent'
  BY <1>1, <1>3, <1>5, <1>7, Quieter
<1> QED
  BY <1>6, <1>8, <1>9 DEF WorldInv

\* An agent writes its record, or waits for the hook that will.
LEMMA AnnounceKeeps ==
  ASSUME WorldInv, NEW p \in DOMAIN proc, NEW s \in Sessions, Announce(p, s)
  PROVE  WorldInv'
<1> DEFINE born == proc[p].born
<1>1. /\ born \notin DOMAIN hook
      /\ proc' = [proc EXCEPT ![p].session = s]
      /\ UNCHANGED <<tab, unheard, starts>>
  BY DEF Announce
<1>2. IsMap(proc, Pids, Process) /\ p \in Pids /\ born \in Nat /\ born <= starts
  BY DEF WorldInv, WorldTyped, IsMap, Process, Dated
<1>3. /\ DOMAIN proc' = DOMAIN proc /\ IsMap(proc', Pids, Process)
      /\ proc'[p].session = s
      /\ \A q \in DOMAIN proc : /\ proc'[q].born = proc[q].born /\ proc'[q].parent = proc[q].parent
                                /\ proc'[q].comm = proc[q].comm
                                /\ q # p => proc'[q] = proc[q]
  BY <1>1, <1>2 DEF IsMap, Process
<1>7. \A t \in DOMAIN tab' : tab'[t].window \in 1 .. starts
  BY <1>1 DEF WorldInv, Dated
<1>6. \A q \in DOMAIN proc : q # p => proc[q].born # born
  BY DEF WorldInv, Dated
<1>4. ASSUME NEW r \in {"registry", "nodecode"}, proc[p].comm = Kind(r),
             record' = Written(r, p, born, s, born), UNCHANGED hook
      PROVE  WorldInv'
  <2>1. r \in ToSet(Readers) /\ "declared" \in ToSet(Readers) /\ r # "declared" /\ WorldTyped
        /\ {"registry", "nodecode"} \subseteq ToSet(Readers)
    BY ReadersAre DEF WorldInv
  <2>2. /\ RecordsTyped(record')
        /\ \A q \in ToSet(Readers) : q # r => record'[q] = record[q]
        /\ DOMAIN record'[r] = DOMAIN record[r] \cup {p}
        /\ record'[r][p].born = born /\ record'[r][p].session = s
        /\ \A q \in DOMAIN record[r] : q # p => record'[r][q] = record[r][q]
    <3> HIDE DEF born
    <3> QED
      BY <1>2, <1>4, <2>1, WrittenIs
  <2>3. WorldTyped' /\ Rooted'
    BY <1>1, <1>3, <1>4, <2>2 DEF WorldInv, WorldTyped, Rooted
  <2>4. Dated'
    BY <1>1, <1>2, <1>3, <1>4, <2>2 DEF WorldInv, Dated
  <2>5. Waits'
    BY <1>1, <1>3, <1>4 DEF WorldInv, Waits
  <2>6. Told'
    <3>1. ASSUME NEW k \in {"registry", "nodecode"}, NEW q \in DOMAIN proc \cap DOMAIN record'[k],
                 record'[k][q].born = proc[q].born
          PROVE  proc[q].comm = Kind(k) /\ record'[k][q].session = proc'[q].session
      <4>1. CASE q = p /\ k = r
        BY <1>3, <1>4, <2>2, <4>1
      <4>2. CASE q # p
        BY <1>3, <2>1, <2>2, <3>1, <4>2 DEF WorldInv, Told
      <4>3. CASE q = p /\ k # r
        <5>1. p \in DOMAIN record[k] /\ record[k][p].born = proc[p].born
          BY <2>1, <2>2, <3>1, <4>3
        <5>2. proc[p].comm = Kind(k)
          BY <5>1 DEF WorldInv, Told
        <5> QED
          BY <1>4, <4>3, <5>2 DEF Kind
      <4> QED
        BY <4>1, <4>2, <4>3
    <3>2. \A q \in DOMAIN proc' \cap DOMAIN record'.declared :
            LET d == record'.declared[q]
            IN  d.born = proc'[q].born /\ d.writer = proc'[q].born /\ d.session # Fresh =>
                  proc'[q].comm = "codex"
      BY <1>3, <2>1, <2>2 DEF WorldInv, Told
    <3> QED
      BY <1>3, <3>1, <3>2 DEF Told
  <2>7. DeclarationFollowsAgent'
    <3>1. proc[p].comm # "codex"
      BY <1>4 DEF Kind
    <3> QED
      BY <1>1, <1>3, <1>4, <2>1, <2>2, <3>1 DEF WorldInv, Told, DeclarationFollowsAgent, Unsettled
  <2> QED
    BY <2>3, <2>4, <2>5, <2>6, <2>7 DEF WorldInv
<1>5. CASE /\ proc[p].comm = "codex"
           /\ hook' = With(hook, born, NewHook(p, s))
           /\ UNCHANGED record
  <2> DEFINE e == NewHook(p, s)
  <2>1. /\ e \in Hook /\ e.pid = p /\ e.session = s /\ e.pin = 0
        /\ hook' = With(hook, born, e) /\ IsMap(hook, Nat, Hook)
    BY <1>2, <1>5 DEF Hook, HookSteps, NewHook, WorldInv, WorldTyped
  <2> HIDE DEF e
  <2>2. /\ IsMap(hook', Nat, Hook) /\ DOMAIN hook' = DOMAIN hook \cup {born} /\ hook'[born] = e
        /\ \A h \in DOMAIN hook : h # born => hook'[h] = hook[h]
    <3> DEFINE w == With(hook, born, e)
    <3>1. born \in Nat /\ e \in Hook /\ IsMap(hook, Nat, Hook)
      BY <1>2, <2>1
    <3> HIDE DEF born
    <3>2. /\ IsMap(w, Nat, Hook) /\ DOMAIN w = DOMAIN hook \cup {born} /\ w[born] = e
          /\ \A h \in DOMAIN hook : h # born => w[h] = hook[h]
      BY <3>1 DEF With, IsMap
    <3> HIDE DEF w
    <3>3. hook' = w
      BY <2>1 DEF w
    <3> QED
      BY <3>2, <3>3
  <2>3. WorldTyped' /\ Rooted'
    BY <1>1, <1>3, <1>5, <2>2 DEF WorldInv, WorldTyped, Rooted
  <2>4. Dated'
    <3>1. \A h \in DOMAIN hook' : h <= starts /\ hook'[h].pin <= starts
      <4>1. starts \in Nat
        BY DEF WorldInv, WorldTyped
      <4> QED
        BY <1>2, <2>1, <2>2, <4>1 DEF WorldInv, Dated
    <3> QED
      BY <1>1, <1>3, <1>5, <1>7, <3>1 DEF WorldInv, Dated
  <2>5. Waits'
    <3> SUFFICES ASSUME NEW h \in DOMAIN hook', NEW q \in DOMAIN proc, proc[q].born = h
                 PROVE  q = hook'[h].pid /\ proc'[q].comm = "codex"
                          /\ proc'[q].session = hook'[h].session
      BY <1>3 DEF Waits
    <3>1. CASE h = born
      BY <1>3, <1>5, <1>6, <2>1, <2>2, <3>1
    <3>2. CASE h # born
      BY <1>3, <2>2, <3>2 DEF WorldInv, Waits
    <3> QED
      BY <3>1, <3>2
  <2>6. Told'
    <3>1. \A r \in {"registry", "nodecode"} : Kind(r) # "codex"
      BY DEF Kind
    <3> QED
      BY <1>1, <1>3, <1>5, <3>1 DEF WorldInv, Told
  <2>7. DeclarationFollowsAgent'
    BY <1>1, <1>3, <1>5, <2>2 DEF WorldInv, DeclarationFollowsAgent, Unsettled
  <2> QED
    BY <2>3, <2>4, <2>5, <2>6, <2>7 DEF WorldInv
<1>8. \/ proc[p].comm = Kind("registry") /\ record' = Written("registry", p, born, s, born) /\ UNCHANGED hook
      \/ proc[p].comm = Kind("nodecode") /\ record' = Written("nodecode", p, born, s, born) /\ UNCHANGED hook
      \/ /\ proc[p].comm = "codex"
         /\ hook' = With(hook, born, NewHook(p, s))
         /\ UNCHANGED record
  BY DEF Announce, Kind
<1> QED
  BY <1>4, <1>5, <1>8

\* What a declaration under a pid, pinned to a start that was, keeps.
LEMMA DeclaredKeeps ==
  ASSUME WorldInv, NEW p \in Pids, NEW b \in Nat, b <= starts, NEW s \in Sessions \cup {Fresh},
         NEW w \in Nat, record' = Declared(p, b, s, w), UNCHANGED <<proc, tab, starts>>
  PROVE  /\ RecordsTyped(record')
         /\ \A r \in ToSet(Readers) : \A q \in DOMAIN record'[r] : record'[r][q].born <= starts
         /\ \A r \in {"registry", "nodecode"} : record'[r] = record[r]
         /\ DOMAIN record'.declared = DOMAIN record.declared \cup {p}
         /\ record'.declared[p].born = b /\ record'.declared[p].session = s
         /\ record'.declared[p].writer = w
         /\ \A q \in DOMAIN record.declared : q # p => record'.declared[q] = record.declared[q]
<1>1. "declared" \in ToSet(Readers) /\ WorldTyped /\ {"registry", "nodecode"} \subseteq ToSet(Readers)
  BY ReadersAre DEF WorldInv
<1>2. record' = Written("declared", p, b, s, w)
  BY DEF Declared
<1>3. /\ RecordsTyped(record')
      /\ \A q \in ToSet(Readers) : q # "declared" => record'[q] = record[q]
      /\ DOMAIN record'.declared = DOMAIN record.declared \cup {p}
      /\ record'.declared[p].born = b /\ record'.declared[p].session = s
      /\ record'.declared[p].writer = w
      /\ \A q \in DOMAIN record.declared : q # p => record'.declared[q] = record.declared[q]
  BY <1>1, <1>2, WrittenIs
<1>4. \A r \in ToSet(Readers) : \A q \in DOMAIN record'[r] : record'[r][q].born <= starts
  BY <1>1, <1>3 DEF WorldInv, Dated
<1> QED
  BY <1>1, <1>3, <1>4

\* A hook goes on: it names what it named, and pins a start that was.
LEMMA GoesOnKeeps ==
  ASSUME WorldInv, NEW h, NEW from, NEW to \in HookSteps, NEW pin \in Nat, pin <= starts,
         HookGoesOn(h, from, to, pin)
  PROVE  WorldInv'
<1>1. /\ h \in DOMAIN hook /\ hook' = [hook EXCEPT ![h].step = to, ![h].pin = pin]
      /\ UNCHANGED <<proc, tab, record, unheard, starts>>
  BY DEF HookGoesOn
<1>2. /\ IsMap(hook', Nat, Hook) /\ DOMAIN hook' = DOMAIN hook
      /\ \A g \in DOMAIN hook : /\ hook'[g].pid = hook[g].pid /\ hook'[g].session = hook[g].session
                               /\ hook'[g].pin \in {hook[g].pin, pin}
  <2> DEFINE e == [hook[h] EXCEPT !.step = to, !.pin = pin]
  <2>1. IsMap(hook, Nat, Hook) /\ hook[h] \in Hook
    BY <1>1 DEF WorldInv, WorldTyped, IsMap
  <2>2. e \in Hook /\ e.pid = hook[h].pid /\ e.session = hook[h].session /\ e.pin = pin
    BY <2>1 DEF Hook
  <2>3. hook' = [hook EXCEPT ![h] = e]
    BY <1>1, <2>1 DEF IsMap, Hook
  <2> HIDE DEF e
  <2> QED
    BY <1>1, <2>1, <2>2, <2>3 DEF IsMap
<1>3. WorldTyped' /\ Rooted'
  BY <1>1, <1>2 DEF WorldInv, WorldTyped, Rooted
<1>4. Dated'
  BY <1>1, <1>2 DEF WorldInv, Dated
<1>5. Waits' /\ Told' /\ DeclarationFollowsAgent'
  BY <1>1, <1>2 DEF WorldInv, Waits, Told, DeclarationFollowsAgent, Unsettled
<1> QED
  BY <1>3, <1>4, <1>5 DEF WorldInv

\* A hook is through: whatever process it pinned, its own agent, if that lives, is the one that
\* waited for it.
LEMMA HookDeclaresKeeps ==
  ASSUME WorldInv, NEW h, HookDeclares(h)
  PROVE  WorldInv'
<1> DEFINE p == hook[h].pid
           s == hook[h].session
           pin == hook[h].pin
<1>1. /\ h \in DOMAIN hook /\ hook' = [g \in DOMAIN hook \ {h} |-> hook[g]]
      /\ record' = Declared(p, pin, s, h) /\ unheard' = unheard \ {h}
      /\ UNCHANGED <<proc, tab, starts>>
  BY DEF HookDeclares, HookEnds
<1>2. p \in Pids /\ s \in Sessions \cup {Fresh} /\ pin \in Nat /\ h \in Nat /\ pin <= starts
  BY <1>1 DEF WorldInv, WorldTyped, IsMap, Hook, Dated
<1>3. /\ IsMap(hook', Nat, Hook) /\ DOMAIN hook' = DOMAIN hook \ {h}
      /\ \A g \in DOMAIN hook' : hook'[g] = hook[g]
  BY <1>1, WithoutMap DEF WorldInv, WorldTyped
<1>4. /\ RecordsTyped(record')
      /\ \A r \in ToSet(Readers) : \A q \in DOMAIN record'[r] : record'[r][q].born <= starts
      /\ \A r \in {"registry", "nodecode"} : record'[r] = record[r]
      /\ DOMAIN record'.declared = DOMAIN record.declared \cup {p}
      /\ record'.declared[p].born = pin /\ record'.declared[p].session = s
      /\ record'.declared[p].writer = h
      /\ \A q \in DOMAIN record.declared : q # p => record'.declared[q] = record.declared[q]
  <2> HIDE DEF p, s, pin
  <2> QED
    BY <1>1, <1>2, DeclaredKeeps
<1>5. WorldTyped' /\ Rooted'
  BY <1>1, <1>3, <1>4 DEF WorldInv, WorldTyped, Rooted
<1>6. Dated'
  BY <1>1, <1>3, <1>4 DEF WorldInv, Dated
<1>7. Waits'
  BY <1>1, <1>3 DEF WorldInv, Waits
<1>8. \A q \in DOMAIN proc : proc[q].born = h => q = p /\ proc[q].comm = "codex" /\ proc[q].session = s
  BY <1>1 DEF WorldInv, Waits
<1>9. Told'
  <2>1. \A r \in {"registry", "nodecode"} : \A q \in DOMAIN proc' \cap DOMAIN record'[r] :
          record'[r][q].born = proc'[q].born =>
            proc'[q].comm = Kind(r) /\ record'[r][q].session = proc'[q].session
    BY <1>1, <1>4 DEF WorldInv, Told
  <2> HIDE DEF p, s, pin
  <2>2. \A q \in DOMAIN proc' \cap DOMAIN record'.declared :
          LET d == record'.declared[q]
          IN  d.born = proc'[q].born /\ d.writer = proc'[q].born /\ d.session # Fresh =>
                proc'[q].comm = "codex"
    <3> SUFFICES ASSUME NEW q \in DOMAIN proc \cap DOMAIN record'.declared,
                        record'.declared[q].born = proc[q].born,
                        record'.declared[q].writer = proc[q].born,
                        record'.declared[q].session # Fresh
                 PROVE  proc'[q].comm = "codex"
      BY <1>1
    <3>1. CASE q = p
      BY <1>1, <1>4, <1>8, <3>1
    <3>2. CASE q # p
      BY <1>1, <1>4, <3>2 DEF WorldInv, Told
    <3> QED
      BY <3>1, <3>2
  <2> QED
    BY <2>1, <2>2 DEF Told
<1>10. DeclarationFollowsAgent'
  BY <1>1, <1>3, <1>4, <1>8 DEF WorldInv, DeclarationFollowsAgent, Unsettled
<1> QED
  BY <1>5, <1>6, <1>7, <1>9, <1>10 DEF WorldInv

LEMMA HookRunsKeeps ==
  ASSUME WorldInv, NEW h, HookRuns(h)
  PROVE  WorldInv'
<1>1. 0 \in Nat /\ 0 <= starts /\ \A to \in {"found", "inside", "pinned"} : to \in HookSteps
  BY DEF WorldInv, WorldTyped, HookSteps
<1>2. CASE HookFinds(h)
  BY <1>1, <1>2, GoesOnKeeps DEF HookFinds
<1>3. CASE HookLooks(h)
  BY <1>1, <1>3, GoesOnKeeps DEF HookLooks
<1>4. CASE HookPins(h)
  <2>1. hook[h].pid \in DOMAIN proc /\ HookGoesOn(h, "inside", "pinned", proc[hook[h].pid].born)
    BY <1>4 DEF HookPins
  <2>2. proc[hook[h].pid].born \in Nat /\ proc[hook[h].pid].born <= starts
    BY <2>1 DEF WorldInv, WorldTyped, IsMap, Process, Dated
  <2> QED
    BY <1>1, <2>1, <2>2, GoesOnKeeps
<1>5. CASE HookFails(h)
  <2>1. /\ h \in DOMAIN hook /\ hook' = [g \in DOMAIN hook \ {h} |-> hook[g]]
        /\ unheard' = unheard \cup {h} /\ UNCHANGED <<proc, tab, record, starts>>
    BY <1>5 DEF HookFails, HookEnds
  <2>2. /\ IsMap(hook', Nat, Hook) /\ DOMAIN hook' = DOMAIN hook \ {h}
        /\ \A g \in DOMAIN hook' : hook'[g] = hook[g]
    BY <2>1, WithoutMap DEF WorldInv, WorldTyped
  <2> QED
    BY <2>1, <2>2 DEF WorldInv, WorldTyped, Dated, Rooted, Waits, Told, DeclarationFollowsAgent, Unsettled
<1> QED
  BY <1>2, <1>3, <1>4, <1>5, HookDeclaresKeeps DEF HookRuns

LEMMA DeclareKeeps ==
  ASSUME WorldInv, NEW p \in DOMAIN proc, Declare(p)
  PROVE  WorldInv'
<1> DEFINE born == proc[p].born
<1>1. record' = Declared(p, born, Fresh, born) /\ UNCHANGED <<proc, tab, hook, unheard, starts>>
  BY DEF Declare
<1>2. p \in Pids /\ born \in Nat /\ born <= starts
  BY DEF WorldInv, WorldTyped, IsMap, Process, Dated
<1>3. /\ RecordsTyped(record')
      /\ \A r \in ToSet(Readers) : \A q \in DOMAIN record'[r] : record'[r][q].born <= starts
      /\ \A r \in {"registry", "nodecode"} : record'[r] = record[r]
      /\ DOMAIN record'.declared = DOMAIN record.declared \cup {p}
      /\ record'.declared[p].session = Fresh
      /\ \A q \in DOMAIN record.declared : q # p => record'.declared[q] = record.declared[q]
  <2> HIDE DEF born
  <2> QED
    BY <1>1, <1>2, DeclaredKeeps
<1>4. WorldTyped' /\ Dated' /\ Rooted'
  BY <1>1, <1>3 DEF WorldInv, WorldTyped, Dated, Rooted
<1>5. Waits' /\ Told' /\ DeclarationFollowsAgent'
  BY <1>1, <1>3 DEF WorldInv, Waits, Told, DeclarationFollowsAgent, Unsettled
<1> QED
  BY <1>4, <1>5 DEF WorldInv

LEMMA ClearKeeps ==
  ASSUME WorldInv, NEW p, Clear(p)
  PROVE  WorldInv'
<1> DEFINE less == [q \in DOMAIN record.declared \ {p} |-> record.declared[q]]
<1>1. record' = [record EXCEPT !.declared = less] /\ UNCHANGED <<proc, tab, hook, unheard, starts>>
  BY DEF Clear
<1>2. "declared" \in ToSet(Readers) /\ IsMap(record.declared, Pids, Record)
  BY ReadersAre DEF WorldInv, WorldTyped, RecordsTyped
<1>3. /\ IsMap(less, Pids, Record) /\ DOMAIN less = DOMAIN record.declared \ {p}
      /\ \A q \in DOMAIN less : less[q] = record.declared[q]
  BY <1>2, WithoutMap
<1> HIDE DEF less
<1>4. /\ record'.declared = less
      /\ \A q \in ToSet(Readers) : q # "declared" => record'[q] = record[q]
  BY <1>1, <1>2 DEF WorldInv, WorldTyped, RecordsTyped
<1>5. WorldTyped' /\ Rooted'
  BY <1>1, <1>3, <1>4 DEF WorldInv, WorldTyped, RecordsTyped, Rooted
<1>6. \A r \in ToSet(Readers) :
        DOMAIN record'[r] \subseteq DOMAIN record[r]
          /\ \A q \in DOMAIN record'[r] : record'[r][q] = record[r][q]
  BY <1>3, <1>4
<1>7. \A t \in DOMAIN tab' : tab'[t].window \in 1 .. starts
  BY <1>1 DEF WorldInv, Dated
<1>8. Dated' /\ Waits' /\ Told' /\ DeclarationFollowsAgent'
  BY <1>1, <1>6, <1>7, Quieter
<1> QED
  BY <1>5, <1>8 DEF WorldInv

LEMMA SpecWorld == Spec => []WorldInv
<1>1. Init => WorldInv
  <2> SUFFICES ASSUME Init PROVE WorldInv
    OBVIOUS
  <2>1. \A D, R : IsMap(<<>>, D, R) /\ DOMAIN <<>> = {}
    BY DEF IsMap
  <2>2. ToSet(Readers) = {"registry", "nodecode", "declared"}
    BY ReadersAre
  <2> QED
    BY <2>1, <2>2, BoundsAssumption
       DEF Init, WorldInv, WorldTyped, RecordsTyped, Dated, Rooted, Waits, Told, DeclarationFollowsAgent
<1>2. WorldInv /\ [Next]_vars => WorldInv'
  <2> SUFFICES ASSUME WorldInv, [Next]_vars PROVE WorldInv'
    OBVIOUS
  <2>1. CASE UNCHANGED <<proc, tab, record, hook, unheard, starts>>
    BY <2>1 DEF WorldInv, WorldTyped, Dated, Rooted, Waits, Told, DeclarationFollowsAgent, Unsettled
  <2>2. Capture => UNCHANGED <<proc, tab, record, hook, unheard, starts>>
    BY DEF Capture, Begin, Scan, ReadWindowsAgain, ReadRecords, ReadJob, ChooseLeaf, ReadCommand,
           Save, Reads
  <2>3. World => WorldInv'
    BY OpenTabKeeps, ForkKeeps, ExecKeeps, SwitchJobKeeps, EndKeeps, AnnounceKeeps, HookRunsKeeps,
       DeclareKeeps, ClearKeeps DEF World
  <2>4. CASE UNCHANGED vars
    BY <2>1, <2>4 DEF vars
  <2> QED
    BY <2>1, <2>2, <2>3, <2>4 DEF Next
<1> QED
  BY <1>1, <1>2, PTL DEF Spec

\* launch_sessions.hook_declaration: the declaration that names a process and that its own hook
\* wrote names the session it is on, whatever hooks of earlier processes write under its pid.
THEOREM SpecFollows == Spec => [](WorldTyped /\ DeclarationFollowsAgent)
<1>1. WorldInv => WorldTyped /\ DeclarationFollowsAgent
  BY DEF WorldInv
<1> QED
  BY <1>1, SpecWorld, PTL
-----------------------------------------------------------------------------
(* Session records: what a tab is found to be. *)

\* The least number of a set.
LEMMA Least ==
  ASSUME NEW n \in Nat, NEW I \in SUBSET (1 .. n), I # {}
  PROVE  Min(I) \in I /\ \A i \in I : Min(I) <= i
<1> DEFINE R == OpToRel(<, Nat)
<1>1. \A x, y \in Nat : <<x, y>> \in R <=> x < y
  BY DEF OpToRel
<1>2. IsWellFoundedOn(R, Nat)
  BY NatLessThanWellFounded
<1> HIDE DEF R
<1>3. I \subseteq Nat
  OBVIOUS
<1>4. PICK x \in I : \A y \in I : ~(<<y, x>> \in R)
  BY <1>2, <1>3, WFMin
<1>5. \A y \in I : x =< y
  <2> TAKE y \in I
  <2>1. x \in Nat /\ y \in Nat
    BY <1>3
  <2>2. ~(y < x)
    BY <1>1, <1>4, <2>1
  <2> QED
    BY <2>1, <2>2
<1> QED
  BY <1>5 DEF Min

\* The records name the session for a process that the inventory saw in the tab.
LEMMA AnnouncedInTree ==
  ASSUME NEW inv, NEW D, NEW tree \in Seq(D), NEW t, AnnouncedBy(tree, inv) # 0
  PROVE  \E p \in ToSet(tree), r \in ToSet(Readers) :
           /\ Names(r, p, inv[p].born)
           /\ Announced(t, tree, inv)
                = Session(t, Kind(r), record[r][p].session, None, <<p, record[r][p].born>>)
<1> DEFINE I == {i \in 1 .. Len(tree) :
                   \E j \in DOMAIN Readers : Names(Readers[j], tree[i], inv[tree[i]].born)}
           a == AnnouncedBy(tree, inv)
           p == tree[a]
           J == {j \in 1 .. Len(Readers) : Names(Readers[j], p, inv[p].born)}
           b == SelectInSeq(Readers, LAMBDA x : Names(x, p, inv[p].born))
<1>1. a = IF I # {} THEN Min(I) ELSE 0
  BY DEF AnnouncedBy, SelectInSeq
<1>2. Len(tree) \in Nat /\ ToSet(tree) = {tree[i] : i \in 1 .. Len(tree)}
  BY Members
<1>3. a \in I
  <2>1. I \in SUBSET (1 .. Len(tree)) /\ I # {}
    BY <1>1
  <2> HIDE DEF I
  <2> QED
    BY <1>1, <1>2, <2>1, Least
<1>4. p \in ToSet(tree) /\ \E j \in DOMAIN Readers : Names(Readers[j], p, inv[p].born)
  BY <1>2, <1>3
<1>5. b = IF J # {} THEN Min(J) ELSE 0
  BY DEF SelectInSeq
<1>6. Announced(t, tree, inv) =
        Session(t, Kind(Readers[b]), record[Readers[b]][p].session, None,
                <<p, record[Readers[b]][p].born>>)
  BY DEF Announced
<1> HIDE DEF a, p, b
<1>7. DOMAIN Readers = 1 .. Len(Readers) /\ Len(Readers) \in Nat
  BY DEF Readers
<1>8. b \in J
  <2>1. J \in SUBSET (1 .. Len(Readers)) /\ J # {}
    BY <1>4, <1>7
  <2> HIDE DEF J
  <2> QED
    BY <1>5, <1>7, <2>1, Least
<1>9. Readers[b] \in ToSet(Readers) /\ Names(Readers[b], p, inv[p].born)
  BY <1>7, <1>8 DEF ToSet
<1> QED
  BY <1>4, <1>6, <1>9
-----------------------------------------------------------------------------
(* The capture. *)

Known == [born : Nat, parent : Int, comm : Programs]
Tops(inv) == {p \in DOMAIN inv : inv[p].parent = Ghostty}
Finding(inv) ==
  [tab : Tops(inv), kind : {"claude", "nodecode", "declared", "unknown", "shell", "command"},
   session : Sessions \cup {Fresh, None}, runs : Words \cup {None}, by : Nat \X Nat]

CapTyped ==
  /\ DOMAIN cap = DOMAIN NoCapture
  /\ cap.pc \in {"idle", "scan", "records", "job", "leaf", "command", "saved"}
  /\ cap.next \in Nat
  /\ cap.first \subseteq 1 .. MaxStarts /\ cap.final \subseteq 1 .. MaxStarts
  /\ IsMap(cap.inv, Pids, Known)
  /\ cap.todo \in Seq(Tops(cap.inv)) /\ cap.found \in Seq(Finding(cap.inv))
  /\ cap.pc \in {"idle", "scan", "saved"} => cap.todo = <<>> /\ cap.found = <<>>
  /\ cap.pc \in {"job", "leaf", "command"} => cap.todo # <<>>
  /\ cap.pc = "leaf" => cap.job.leader \in {0} \cup DOMAIN cap.inv
  /\ cap.pc = "command" => cap.leaf \in DOMAIN cap.inv

\* A session that is found is read from the record of a process that the inventory saw in the tab.
ReadAs(s, inv) ==
  s.kind \in {"claude", "nodecode", "declared"} =>
    \E p \in ToSet(Tree(s.tab, inv)), r \in ToSet(Readers) :
      /\ Names(r, p, inv[p].born) /\ s.kind = Kind(r)
      /\ s.session = record[r][p].session /\ s.by = <<p, record[r][p].born>>

\* What a step of the processes leaves of the capture, and of each reading.
Undisturbed ==
  /\ DOMAIN cap' = DOMAIN cap
  /\ cap'.pc = cap.pc /\ cap'.next = cap.next /\ cap'.first = cap.first /\ cap'.final = cap.final
  /\ cap'.inv = cap.inv /\ cap'.todo = cap.todo /\ cap'.found = cap.found
  /\ cap'.job = cap.job /\ cap'.leaf = cap.leaf /\ cap'.slots = cap.slots
  /\ cap'.coherent = cap.coherent /\ cap'.agents = cap.agents

LEMMA EventUndisturbed ==
  ASSUME CapTyped, NEW ended, Event(ended)
  PROVE  Undisturbed /\ cap'.calm = FALSE /\ cap'.stayed = cap.stayed \ ended
<1>1. /\ {"pc", "first", "inv", "next", "final", "todo", "found", "job", "leaf", "slots",
          "coherent", "calm", "stayed", "agents"} = DOMAIN cap
      /\ cap' = [cap EXCEPT !.calm = FALSE, !.stayed = cap.stayed \ ended]
  BY DEF Event, CapTyped, NoCapture
<1> QED
  BY <1>1 DEF Undisturbed

LEMMA WorldUndisturbed ==
  ASSUME CapTyped, World
  PROVE  Undisturbed /\ cap'.calm = FALSE
<1>1. CASE \E ended : Event(ended)
  BY <1>1, EventUndisturbed
<1>2. CASE cap' = [cap EXCEPT !.calm = FALSE]
  <2>1. {"pc", "first", "inv", "next", "final", "todo", "found", "job", "leaf", "slots",
         "coherent", "calm", "stayed", "agents"} = DOMAIN cap
    BY DEF CapTyped, NoCapture
  <2> QED
    BY <1>2, <2>1 DEF Undisturbed
<1> QED
  BY <1>1, <1>2 DEF World, OpenTab, Fork, Exec, SwitchJob, End, Announce, Declare, Clear, HookRuns,
                    HookFinds, HookLooks, HookPins, HookDeclares, HookFails, HookGoesOn, HookEnds

\* What a finding leaves of the capture.
LEMMA FoundEffect ==
  ASSUME CapTyped, NEW s, cap' = Found(s)
  PROVE  /\ DOMAIN cap' = DOMAIN cap
         /\ cap'.pc = "records" /\ cap'.todo = Tail(cap.todo) /\ cap'.found = Append(cap.found, s)
         /\ cap'.next = cap.next /\ cap'.first = cap.first /\ cap'.final = cap.final
         /\ cap'.inv = cap.inv /\ cap'.calm = cap.calm /\ cap'.stayed = cap.stayed
         /\ cap'.agents = cap.agents
<1>1. {"pc", "first", "inv", "next", "final", "todo", "found", "job", "leaf", "slots",
       "coherent", "calm", "stayed", "agents"} = DOMAIN cap
  BY DEF CapTyped, NoCapture
<1> QED
  BY <1>1 DEF Found

\* What a step of a tab finds is a finding of that tab.
LEMMA RecordsFind ==
  ASSUME WorldTyped, CapTyped, ReadRecords
  PROVE  \/ \E s \in Finding(cap.inv) :
              /\ cap' = Found(s) /\ s.tab = Head(cap.todo)
              /\ s.kind \notin {"shell", "command"} /\ ReadAs(s, cap.inv)
         \/ cap' = [cap EXCEPT !.pc = "job"]
<1> DEFINE t == Head(cap.todo)
           tree == Tree(t, cap.inv)
           inv == cap.inv
<1>1. t \in Tops(inv) /\ t \in DOMAIN inv /\ inv = cap.inv
  BY DEF ReadRecords, CapTyped, Tops
<1>2. tree \in Seq(DOMAIN inv) /\ ToSet(tree) \subseteq DOMAIN inv /\ DOMAIN inv \subseteq Pids
  BY <1>1, TreeInside DEF CapTyped, IsMap
<1>3. CASE AnnouncedBy(tree, inv) # 0
  <2>1. PICK p \in ToSet(tree), r \in ToSet(Readers) :
          /\ Names(r, p, inv[p].born)
          /\ Announced(t, tree, inv)
               = Session(t, Kind(r), record[r][p].session, None, <<p, record[r][p].born>>)
    BY <1>2, <1>3, AnnouncedInTree
  <2> DEFINE s == Announced(t, tree, inv)
  <2>2. /\ p \in DOMAIN record[r] /\ (r = "registry" \/ record[r][p].born = inv[p].born)
        /\ record[r][p] \in Record /\ p \in Pids /\ p \in Nat
    BY <1>2, <2>1 DEF Names, WorldTyped, RecordsTyped, IsMap, Pids
  <2>3. record[r][p].session \in Sessions \cup {Fresh} /\ record[r][p].born \in Nat
    BY <2>2 DEF Record
  <2>4. /\ s.tab = t /\ s.kind = Kind(r) /\ s.by = <<p, record[r][p].born>>
        /\ s = [tab |-> t, kind |-> Kind(r), session |-> record[r][p].session, runs |-> None,
                by |-> <<p, record[r][p].born>>]
    BY <2>1 DEF Session
  <2>5. Kind(r) \in {"claude", "nodecode", "declared"}
    BY <2>1, ReadersAre DEF Kind
  <2>6. cap' = Found(s)
    BY <1>3 DEF ReadRecords
  <2> HIDE DEF s
  <2>7. s \in Finding(inv)
    BY <1>1, <2>2, <2>3, <2>4, <2>5 DEF Finding
  <2>8. ReadAs(s, inv)
    BY <2>1, <2>4 DEF ReadAs
  <2> QED
    BY <2>4, <2>5, <2>6, <2>7, <2>8
<1>4. CASE cap' = Found(Unknown(t))
  <2>1. Unknown(t) = [tab |-> t, kind |-> "unknown", session |-> None, runs |-> None, by |-> <<0, 0>>]
    BY DEF Unknown, Session
  <2>2. Unknown(t) \in Finding(inv) /\ Unknown(t).tab = t /\ Unknown(t).kind = "unknown"
    BY <1>1, <2>1 DEF Finding
  <2> QED
    BY <1>1, <1>4, <2>2 DEF ReadAs
<1> QED
  BY <1>3, <1>4 DEF ReadRecords

LEMMA LeafInside ==
  ASSUME CapTyped, cap.pc = "leaf",
         Leaf(cap.job, Tree(Head(cap.todo), cap.inv), cap.inv) # 0
  PROVE  Leaf(cap.job, Tree(Head(cap.todo), cap.inv), cap.inv) \in DOMAIN cap.inv
<1> DEFINE t == Head(cap.todo)
           tree == Tree(t, cap.inv)
           inv == cap.inv
           job == cap.job
           I == {i \in 1 .. Len(tree) : /\ tree[i] \in job.pool
                                        /\ \A c \in job.pool : inv[c].parent # tree[i]
                                        /\ inv[tree[i]].comm \notin Shells}
           leaf == Leaf(job, tree, inv)
           first == IF I # {} THEN Min(I) ELSE 0
<1>1. t \in DOMAIN inv /\ job.leader \in {0} \cup DOMAIN inv
  BY DEF CapTyped, Tops
<1>2. tree \in Seq(DOMAIN inv)
  BY <1>1, TreeInside DEF CapTyped, IsMap
<1>3. leaf = IF job.leader # 0 /\ ~InteractiveShell(job.leader, inv) THEN job.leader
             ELSE IF first = 0 THEN 0 ELSE tree[first]
  BY DEF Leaf, SelectInSeq
<1>4. first # 0 => first \in 1 .. Len(tree)
  <2>1. I \in SUBSET (1 .. Len(tree)) /\ Len(tree) \in Nat
    BY <1>2
  <2> HIDE DEF I
  <2> QED
    BY <2>1, Least
<1>5. leaf # 0
  OBVIOUS
<1> HIDE DEF first, leaf, tree
<1>6. leaf \in DOMAIN inv
  BY <1>1, <1>2, <1>3, <1>4, <1>5
<1> QED
  BY <1>6 DEF leaf, tree

LEMMA FoundFinds ==
  ASSUME CapTyped, cap.pc \in {"records", "job", "leaf", "command"}, cap.todo # <<>>,
         NEW s \in Finding(cap.inv), cap' = Found(s)
  PROVE  CapTyped'
<1>1. /\ DOMAIN cap' = DOMAIN cap
      /\ cap'.pc = "records" /\ cap'.todo = Tail(cap.todo) /\ cap'.found = Append(cap.found, s)
      /\ cap'.next = cap.next /\ cap'.first = cap.first /\ cap'.final = cap.final
      /\ cap'.inv = cap.inv
  BY FoundEffect DEF CapTyped
<1> DEFINE F == Finding(cap.inv)
           T == Tops(cap.inv)
<1>2. /\ cap.found \in Seq(F) /\ cap.todo \in Seq(T) /\ s \in F
      /\ F = Finding(cap'.inv) /\ T = Tops(cap'.inv)
  BY <1>1 DEF CapTyped
<1> HIDE DEF F, T
<1>3. cap'.todo \in Seq(T)
  <2> DEFINE todo == cap.todo
  <2>1. todo \in Seq(T) /\ todo # <<>> /\ cap'.todo = Tail(todo)
    BY <1>1, <1>2
  <2> HIDE DEF todo
  <2>2. Tail(todo) \in Seq(T)
    BY <2>1
  <2> QED
    BY <2>1, <2>2
<1>4. /\ cap'.found \in Seq(F) /\ DOMAIN cap.found = 1 .. Len(cap.found)
      /\ DOMAIN cap'.found = 1 .. Len(cap.found) + 1 /\ cap'.found[Len(cap.found) + 1] = s
      /\ \A i \in 1 .. Len(cap.found) : cap'.found[i] = cap.found[i]
  <2> DEFINE f == cap.found
             g == Append(f, s)
  <2>1. f \in Seq(F) /\ s \in F /\ cap'.found = g
    BY <1>1, <1>2
  <2> HIDE DEF f
  <2>2. /\ g \in Seq(F) /\ DOMAIN f = 1 .. Len(f)
        /\ DOMAIN g = 1 .. Len(f) + 1 /\ g[Len(f) + 1] = s
        /\ \A i \in 1 .. Len(f) : g[i] = f[i]
    BY <2>1, AppendProperties, Members
  <2> HIDE DEF g
  <2> QED
    BY <2>1, <2>2 DEF f
<1>5. CapTyped'
  BY <1>1, <1>2, <1>3, <1>4 DEF CapTyped
<1> QED
  BY <1>5

\* Steps of the capture that find nothing.
LEMMA FieldsAre ==
  ASSUME CapTyped
  PROVE  {"pc", "first", "inv", "next", "final", "todo", "found", "job", "leaf", "slots",
          "coherent", "calm", "stayed", "agents"} = DOMAIN cap
  BY DEF CapTyped, NoCapture

LEMMA WindowsAre ==
  ASSUME WorldInv
  PROVE  Windows \subseteq 1 .. MaxStarts
  BY BoundsAssumption DEF Windows, WorldInv, WorldTyped, Dated

LEMMA BeginFinds ==
  ASSUME WorldInv, CapTyped, Begin
  PROVE  CapTyped'
<1>1. /\ DOMAIN cap' = DOMAIN cap /\ cap'.pc = "scan" /\ cap'.first = Windows
      /\ cap'.next = cap.next /\ cap'.final = cap.final /\ cap'.inv = cap.inv
      /\ cap'.todo = cap.todo /\ cap'.found = cap.found
  BY FieldsAre DEF Begin, CapTyped
<1> QED
  BY <1>1, WindowsAre DEF CapTyped, Begin

\* One entry of the process table.
Entry(p) == [born |-> proc[p].born, parent |-> proc[p].parent, comm |-> proc[p].comm]

LEMMA ScanEffect ==
  ASSUME WorldTyped, CapTyped, Scan
  PROVE  /\ DOMAIN cap' = DOMAIN cap /\ cap'.pc = "scan" /\ cap'.first = cap.first
         /\ cap'.next = cap.next + 1 /\ cap'.final = cap.final
         /\ cap'.todo = cap.todo /\ cap'.found = cap.found
         /\ cap'.calm = cap.calm /\ cap'.stayed = cap.stayed
         /\ IsMap(cap'.inv, Pids, Known)
         /\ \A p \in DOMAIN cap.inv : p # cap.next => p \in DOMAIN cap'.inv /\ cap'.inv[p] = cap.inv[p]
         /\ \A p \in DOMAIN cap'.inv : p # cap.next => p \in DOMAIN cap.inv
         /\ cap.next \in DOMAIN proc =>
              cap.next \in DOMAIN cap'.inv /\ cap'.inv[cap.next] = Entry(cap.next)
         /\ cap.next \notin DOMAIN proc => cap'.inv = cap.inv
<1> DEFINE e == Entry(cap.next)
           more == With(cap.inv, cap.next, e)
<1>1. /\ DOMAIN cap' = DOMAIN cap /\ cap'.pc = "scan" /\ cap'.first = cap.first
      /\ cap'.next = cap.next + 1 /\ cap'.final = cap.final
      /\ cap'.todo = cap.todo /\ cap'.found = cap.found
      /\ cap'.calm = cap.calm /\ cap'.stayed = cap.stayed
      /\ cap'.inv = IF cap.next \notin DOMAIN proc THEN cap.inv ELSE more
      /\ cap.next \in Pids /\ IsMap(cap.inv, Pids, Known)
  BY FieldsAre DEF Scan, Entry, CapTyped
<1> HIDE DEF more
<1>2. CASE cap.next \notin DOMAIN proc
  <2>1. cap'.inv = cap.inv
    BY <1>1, <1>2
  <2>2. IsMap(cap'.inv, Pids, Known)
    BY <1>1, <2>1
  <2> QED
    BY <1>1, <1>2, <2>1, <2>2
<1>3. CASE cap.next \in DOMAIN proc
  <2>1. proc[cap.next] \in Process
    BY <1>3 DEF WorldTyped, IsMap
  <2>2. e \in Known
    BY <2>1 DEF Entry, Process, Known
  <2> HIDE DEF e
  <2> DEFINE inv == cap.inv
             n == cap.next
             w == With(inv, n, e)
  <2>3. IsMap(inv, Pids, Known) /\ n \in Pids
    BY <1>1
  <2>4. cap'.inv = w
    BY <1>1, <1>3 DEF more
  <2> HIDE DEF inv, n
  <2>5. /\ IsMap(w, Pids, Known) /\ DOMAIN w = DOMAIN inv \cup {n} /\ w[n] = e
        /\ \A z \in DOMAIN inv : z # n => w[z] = inv[z]
    <3> DEFINE K == Known
               P == Pids
    <3>1. IsMap(inv, P, K) /\ n \in P /\ e \in K
      BY <2>2, <2>3
    <3> HIDE DEF P, K
    <3>2. /\ IsMap(w, P, K) /\ DOMAIN w = DOMAIN inv \cup {n} /\ w[n] = e
          /\ \A z \in DOMAIN inv : z # n => w[z] = inv[z]
      BY <3>1 DEF IsMap, With
    <3> QED
      BY <3>2 DEF P, K
  <2> HIDE DEF w
  <2>6. /\ IsMap(cap'.inv, Pids, Known)
        /\ \A p \in DOMAIN cap.inv : p # cap.next => p \in DOMAIN cap'.inv /\ cap'.inv[p] = cap.inv[p]
        /\ \A p \in DOMAIN cap'.inv : p # cap.next => p \in DOMAIN cap.inv
        /\ cap.next \in DOMAIN cap'.inv /\ cap'.inv[cap.next] = e
    BY <2>4, <2>5 DEF inv, n
  <2> QED
    BY <1>1, <1>3, <2>6 DEF e
<1> QED
  BY <1>2, <1>3

LEMMA ScanFinds ==
  ASSUME WorldTyped, CapTyped, Scan
  PROVE  CapTyped'
<1>1. /\ DOMAIN cap' = DOMAIN cap /\ cap'.pc = "scan" /\ cap'.first = cap.first
      /\ cap'.next = cap.next + 1 /\ cap'.final = cap.final
      /\ cap'.todo = cap.todo /\ cap'.found = cap.found
      /\ IsMap(cap'.inv, Pids, Known)
  BY ScanEffect DEF CapTyped
<1>2. cap.todo = <<>> /\ cap.found = <<>>
  BY DEF Scan, CapTyped
<1>3. \A X : <<>> \in Seq(X)
  OBVIOUS
<1>4. cap'.todo \in Seq(Tops(cap'.inv)) /\ cap'.found \in Seq(Finding(cap'.inv))
  BY <1>1, <1>2, <1>3
<1> QED
  BY <1>1, <1>2, <1>4 DEF CapTyped

\* The tabs that the inventory saw, each once.
LEMMA TopsListed ==
  ASSUME NEW inv, DOMAIN inv \subseteq Pids
  PROVE  LET tops == Children(Ghostty, inv)
         IN  /\ tops \in Seq(Tops(inv)) /\ ToSet(tops) = Tops(inv)
             /\ \A i, j \in DOMAIN tops : tops[i] = tops[j] => i = j
<1> DEFINE D == DOMAIN inv
           tops == Children(Ghostty, inv)
           parents == Parents(inv)
<1>1. DOMAIN parents = D /\ {c \in DOMAIN parents : parents[c] = Ghostty} = Tops(inv)
  BY DEF Parents, Tops
<1>2. tops = ChildrenIn(Ghostty, parents)
  BY DEF Children
<1> HIDE DEF parents, tops, D
<1>3. /\ tops \in Seq(DOMAIN parents)
      /\ ToSet(tops) = {c \in DOMAIN parents : parents[c] = Ghostty}
      /\ \A i, j \in DOMAIN tops : tops[i] = tops[j] => i = j
  BY <1>1, <1>2, ChildrenTyped DEF D
<1>4. tops \in Seq(Tops(inv))
  <2> DEFINE T == Tops(inv)
  <2>1. ToSet(tops) = T
    BY <1>1, <1>3
  <2> HIDE DEF T
  <2>2. \A i \in 1 .. Len(tops) : tops[i] \in T
    BY <1>3, <2>1, Members
  <2>3. Len(tops) \in Nat /\ tops = [i \in 1 .. Len(tops) |-> tops[i]]
    BY <1>3
  <2>4. tops \in Seq(T)
    BY <2>2, <2>3
  <2> QED
    BY <2>4 DEF T
<1> QED
  BY <1>1, <1>3, <1>4 DEF tops

LEMMA WindowsFinds ==
  ASSUME WorldInv, CapTyped, ReadWindowsAgain
  PROVE  CapTyped'
<1>1. /\ DOMAIN cap' = DOMAIN cap /\ cap'.pc = "records" /\ cap'.first = cap.first
      /\ cap'.next = 1 /\ cap'.final = Windows /\ cap'.inv = cap.inv
      /\ cap'.todo = (IF Windows = {} THEN <<>> ELSE Children(Ghostty, cap.inv))
      /\ cap'.found = cap.found /\ cap'.calm = cap.calm /\ cap'.stayed = cap.stayed
  BY FieldsAre DEF ReadWindowsAgain, CapTyped
<1>2. cap.found = <<>>
  BY DEF ReadWindowsAgain, CapTyped
<1>3. Children(Ghostty, cap.inv) \in Seq(Tops(cap.inv))
  BY TopsListed DEF CapTyped, IsMap
<1>4. cap'.todo \in Seq(Tops(cap'.inv))
  <2> DEFINE T == Tops(cap.inv)
             tops == Children(Ghostty, cap.inv)
  <2>1. /\ tops \in Seq(T) /\ T = Tops(cap'.inv)
        /\ cap'.todo = <<>> \/ cap'.todo = tops
    BY <1>1, <1>3
  <2> HIDE DEF T, tops
  <2>2. <<>> \in Seq(T)
    OBVIOUS
  <2>3. cap'.todo \in Seq(T)
    BY <2>1, <2>2
  <2> QED
    BY <2>1, <2>3
<1> QED
  BY <1>1, <1>4, WindowsAre DEF CapTyped

LEMMA JobFinds ==
  ASSUME CapTyped, ReadJob
  PROVE  CapTyped'
<1> DEFINE t == Head(cap.todo)
           tree == Tree(t, cap.inv)
           job == ForegroundJob(t, tree, cap.inv)
<1>1. /\ DOMAIN cap' = DOMAIN cap /\ cap'.pc = "leaf" /\ cap'.first = cap.first
      /\ cap'.next = cap.next /\ cap'.final = cap.final /\ cap'.inv = cap.inv
      /\ cap'.todo = cap.todo /\ cap'.found = cap.found /\ cap'.job = job
  BY FieldsAre DEF ReadJob, CapTyped
<1>2. t \in DOMAIN cap.inv /\ cap.todo # <<>>
  BY DEF ReadJob, CapTyped, Tops
<1>3. ToSet(tree) \subseteq DOMAIN cap.inv
  BY <1>2, TreeInside DEF CapTyped, IsMap
<1> HIDE DEF tree
<1>4. job.leader \in {0} \cup DOMAIN cap.inv
  BY <1>3 DEF ForegroundJob
<1> HIDE DEF job
<1> QED
  BY <1>1, <1>2, <1>4 DEF CapTyped

LEMMA LeafFinds ==
  ASSUME CapTyped, ChooseLeaf
  PROVE  CapTyped'
<1> DEFINE t == Head(cap.todo)
           leaf == Leaf(cap.job, Tree(t, cap.inv), cap.inv)
           s == Session(t, "shell", None, None, <<0, 0>>)
<1>1. t \in Tops(cap.inv) /\ cap.todo # <<>> /\ cap.pc = "leaf"
  BY DEF ChooseLeaf, CapTyped
<1>2. CASE leaf = 0
  <2>1. s \in Finding(cap.inv)
    BY <1>1 DEF Session, Finding
  <2>2. cap' = Found(s)
    BY <1>2 DEF ChooseLeaf
  <2> HIDE DEF s
  <2> QED
    BY <1>1, <2>1, <2>2, FoundFinds
<1>3. CASE leaf # 0
  <2>1. leaf \in DOMAIN cap.inv
    BY <1>1, <1>3, LeafInside DEF CapTyped
  <2>2. cap' = [cap EXCEPT !.pc = "command", !.leaf = leaf]
    BY <1>3 DEF ChooseLeaf
  <2> HIDE DEF leaf
  <2>3. /\ DOMAIN cap' = DOMAIN cap /\ cap'.pc = "command" /\ cap'.first = cap.first
        /\ cap'.next = cap.next /\ cap'.final = cap.final /\ cap'.inv = cap.inv
        /\ cap'.todo = cap.todo /\ cap'.found = cap.found /\ cap'.leaf = leaf
    BY <2>2, FieldsAre DEF CapTyped
  <2> QED
    BY <1>1, <2>1, <2>3 DEF CapTyped
<1> QED
  BY <1>2, <1>3

\* What a command line read under the leaf's pid makes of the tab.
CommandOf(p) ==
  IF p \in DOMAIN proc
  THEN Session(Head(cap.todo), "command", None, proc[p].word, <<p, proc[p].born>>)
  ELSE Session(Head(cap.todo), "command", None, None, <<p, cap.inv[p].born>>)

LEMMA CommandIs ==
  ASSUME WorldTyped, CapTyped, ReadCommand
  PROVE  /\ cap' = Found(CommandOf(cap.leaf)) /\ CommandOf(cap.leaf) \in Finding(cap.inv)
         /\ CommandOf(cap.leaf).tab = Head(cap.todo)
<1>1. Head(cap.todo) \in Tops(cap.inv) /\ cap.todo # <<>> /\ cap.pc = "command"
  BY DEF ReadCommand, CapTyped
<1>2. cap' = Found(CommandOf(cap.leaf))
  BY DEF ReadCommand, CommandOf
<1>3. CASE cap.leaf \in DOMAIN proc
  <2> DEFINE runs == proc[cap.leaf].word
             by == <<cap.leaf, proc[cap.leaf].born>>
  <2>1. runs \in Words /\ by \in Nat \X Nat
    BY <1>3 DEF WorldTyped, IsMap, Process, Pids
  <2>2. CommandOf(cap.leaf) = Session(Head(cap.todo), "command", None, runs, by)
    BY <1>3 DEF CommandOf
  <2> HIDE DEF runs, by
  <2> QED
    BY <1>1, <1>2, <2>1, <2>2 DEF Session, Finding
<1>4. CASE cap.leaf \notin DOMAIN proc
  <2> DEFINE by == <<cap.leaf, cap.inv[cap.leaf].born>>
  <2>1. by \in Nat \X Nat
    BY <1>1 DEF CapTyped, IsMap, Known, Pids
  <2>2. CommandOf(cap.leaf) = Session(Head(cap.todo), "command", None, None, by)
    BY <1>4 DEF CommandOf
  <2> HIDE DEF by
  <2> QED
    BY <1>1, <1>2, <2>1, <2>2 DEF Session, Finding
<1> QED
  BY <1>3, <1>4

LEMMA CommandFinds ==
  ASSUME WorldTyped, CapTyped, ReadCommand
  PROVE  CapTyped'
<1>1. cap.todo # <<>> /\ cap.pc = "command"
  BY DEF ReadCommand, CapTyped
<1> QED
  BY <1>1, CommandIs, FoundFinds

LEMMA RecordsFinds ==
  ASSUME WorldTyped, CapTyped, ReadRecords
  PROVE  CapTyped'
<1>1. cap.pc = "records" /\ cap.todo # <<>>
  BY DEF ReadRecords
<1>2. CASE \E s \in Finding(cap.inv) : cap' = Found(s)
  BY <1>1, <1>2, FoundFinds
<1>3. CASE cap' = [cap EXCEPT !.pc = "job"]
  <2>1. /\ DOMAIN cap' = DOMAIN cap /\ cap'.pc = "job" /\ cap'.first = cap.first
        /\ cap'.next = cap.next /\ cap'.final = cap.final /\ cap'.inv = cap.inv
        /\ cap'.todo = cap.todo /\ cap'.found = cap.found
    BY <1>3, FieldsAre DEF CapTyped
  <2> QED
    BY <1>1, <2>1 DEF CapTyped
<1> QED
  BY <1>2, <1>3, RecordsFind DEF CapTyped

LEMMA SaveFinds ==
  ASSUME CapTyped, Save
  PROVE  CapTyped'
<1>1. PICK titles \in [cap.final -> Sessions \cup {None}] :
        cap' = [NoCapture EXCEPT
                 !.pc = "saved", !.calm = cap.calm, !.stayed = cap.stayed, !.agents = cap.agents,
                 !.coherent = cap.first = cap.final,
                 !.slots = SavedSlots(cap.first, cap.final, cap.found, titles)]
  BY DEF Save
<1>2. /\ DOMAIN cap' = DOMAIN NoCapture /\ cap'.pc = "saved" /\ cap'.next = 1
      /\ cap'.first = {} /\ cap'.final = {} /\ cap'.inv = <<>> /\ cap'.todo = <<>> /\ cap'.found = <<>>
  BY <1>1 DEF NoCapture
<1>3. IsMap(<<>>, Pids, Known) /\ \A X : <<>> \in Seq(X)
  BY DEF IsMap
<1> QED
  BY <1>2, <1>3 DEF CapTyped

LEMMA WorldFinds ==
  ASSUME CapTyped, World
  PROVE  CapTyped'
<1>1. Undisturbed
  BY WorldUndisturbed DEF CapTyped
<1> QED
  BY <1>1 DEF CapTyped, Undisturbed

LEMMA SpecCapTyped == Spec => []CapTyped
<1>1. Init => CapTyped
  <2> SUFFICES ASSUME Init PROVE CapTyped
    OBVIOUS
  <2>1. IsMap(<<>>, Pids, Known) /\ \A X : <<>> \in Seq(X)
    BY DEF IsMap
  <2>2. /\ DOMAIN cap = DOMAIN NoCapture /\ cap.pc = "idle" /\ cap.next = 1
        /\ cap.first = {} /\ cap.final = {} /\ cap.inv = <<>> /\ cap.todo = <<>> /\ cap.found = <<>>
    BY DEF Init, NoCapture
  <2> QED
    BY <2>1, <2>2 DEF CapTyped
<1>2. WorldInv /\ CapTyped /\ [Next]_vars => CapTyped'
  <2> SUFFICES ASSUME WorldInv, CapTyped, [Next]_vars PROVE CapTyped'
    OBVIOUS
  <2>1. WorldTyped
    BY DEF WorldInv
  <2>2. CASE Capture
    BY <2>1, <2>2, BeginFinds, ScanFinds, WindowsFinds, RecordsFinds, JobFinds, LeafFinds,
       CommandFinds, SaveFinds DEF Capture
  <2>3. CASE World
    BY <2>3, WorldFinds
  <2>4. CASE UNCHANGED vars
    BY <2>4 DEF vars, CapTyped
  <2> QED
    BY <2>2, <2>3, <2>4 DEF Next
<1> QED
  BY <1>1, <1>2, SpecWorld, PTL DEF Spec
-----------------------------------------------------------------------------
(* Members of sequences and maps, and how many. *)

NoneOf(P, s) == \A i \in DOMAIN s : s[i] \notin P
OneOf(P, s) == \E i \in DOMAIN s : s[i] \in P /\ \A j \in DOMAIN s : s[j] \in P => j = i

LEMMA ConcatOf ==
  ASSUME NEW Y, NEW s \in Seq(Y), NEW u \in Seq(Y), NEW P
  PROVE  /\ NoneOf(P, s) /\ NoneOf(P, u) => NoneOf(P, s \o u)
         /\ OneOf(P, s) /\ NoneOf(P, u) => OneOf(P, s \o u)
         /\ NoneOf(P, s) /\ OneOf(P, u) => OneOf(P, s \o u)
<1> DEFINE c == s \o u
<1>1. /\ DOMAIN s = 1 .. Len(s) /\ DOMAIN u = 1 .. Len(u) /\ Len(s) \in Nat /\ Len(u) \in Nat
      /\ DOMAIN c = 1 .. Len(s) + Len(u)
      /\ \A i \in 1 .. Len(s) : c[i] = s[i]
      /\ \A i \in DOMAIN c : i > Len(s) => c[i] = u[i - Len(s)]
  BY ConcatProperties
<1>2. \A i \in 1 .. Len(u) : i + Len(s) \in DOMAIN c /\ c[i + Len(s)] = u[i]
  BY <1>1
<1>3. \A i \in DOMAIN c : i \in 1 .. Len(s) \/ (i - Len(s) \in 1 .. Len(u) /\ i > Len(s))
  BY <1>1
<1> HIDE DEF c
<1>4. NoneOf(P, s) /\ NoneOf(P, u) => NoneOf(P, c)
  BY <1>1, <1>3 DEF NoneOf
<1>5. ASSUME OneOf(P, s), NoneOf(P, u) PROVE OneOf(P, c)
  <2>1. PICK i \in DOMAIN s : s[i] \in P /\ \A j \in DOMAIN s : s[j] \in P => j = i
    BY <1>5 DEF OneOf
  <2>2. i \in DOMAIN c /\ c[i] \in P
    BY <1>1, <2>1
  <2>3. \A j \in DOMAIN c : c[j] \in P => j = i
    BY <1>1, <1>3, <1>5, <2>1 DEF NoneOf
  <2> QED
    BY <2>2, <2>3 DEF OneOf
<1>6. ASSUME NoneOf(P, s), OneOf(P, u) PROVE OneOf(P, c)
  <2>1. PICK i \in DOMAIN u : u[i] \in P /\ \A j \in DOMAIN u : u[j] \in P => j = i
    BY <1>6 DEF OneOf
  <2>2. i + Len(s) \in DOMAIN c /\ c[i + Len(s)] \in P
    BY <1>1, <1>2, <2>1
  <2>3. ASSUME NEW j \in DOMAIN c, c[j] \in P PROVE j = i + Len(s)
    <3>1. j \notin 1 .. Len(s)
      BY <1>1, <1>6, <2>3 DEF NoneOf
    <3>2. j - Len(s) \in DOMAIN u /\ u[j - Len(s)] \in P /\ j \in Int
      BY <1>1, <1>3, <2>3, <3>1
    <3>3. j - Len(s) = i
      BY <2>1, <3>2
    <3> QED
      BY <1>1, <2>1, <3>2, <3>3
  <2> QED
    BY <2>2, <2>3 DEF OneOf
<1> QED
  BY <1>4, <1>5, <1>6 DEF c

\* A member removed.
LEMMA RemovedOf ==
  ASSUME NEW Y, NEW s \in Seq(Y), NEW i \in 1 .. Len(s), NEW r,
         r = RemoveAt(s, i) \/ (i = 1 /\ r = Tail(s))
  PROVE  /\ r \in Seq(Y)
         /\ \A P : /\ NoneOf(P, s) => NoneOf(P, r)
                   /\ OneOf(P, s) /\ s[i] \in P => NoneOf(P, r)
                   /\ OneOf(P, s) /\ s[i] \notin P => OneOf(P, r)
<1>1. /\ DOMAIN s = 1 .. Len(s) /\ Len(s) \in Nat /\ i \in Nat
      /\ \A k \in 1 .. Len(s) : s[k] \in Y
  BY Members
<1>2. /\ r \in Seq(Y) /\ DOMAIN r = 1 .. Len(s) - 1
      /\ \A k \in 1 .. Len(s) - 1 : r[k] = IF k < i THEN s[k] ELSE s[k + 1]
  <2>1. CASE r = RemoveAt(s, i)
    <3> DEFINE a == SubSeq(s, 1, i - 1)
               b == SubSeq(s, i + 1, Len(s))
    <3>1. /\ a \in Seq(Y) /\ Len(a) = i - 1
          /\ \A k \in 1 .. i - 1 : a[k] = s[k]
      <4>1. 1 \in Int /\ i - 1 \in Int /\ \A k \in 1 .. i - 1 : s[k] \in Y
        BY <1>1
      <4>2. /\ a \in Seq(Y) /\ Len(a) = IF 1 <= i - 1 THEN (i - 1) - 1 + 1 ELSE 0
            /\ \A k \in 1 .. (i - 1) - 1 + 1 : a[k] = s[1 + k - 1]
        BY <4>1, SubSeqProperties
      <4> HIDE DEF a
      <4>3. Len(a) = i - 1 /\ (i - 1) - 1 + 1 = i - 1
        <5>1. Len(a) = IF 1 <= i - 1 THEN (i - 1) - 1 + 1 ELSE 0
          BY <4>2
        <5>2. i \in Nat /\ i >= 1
          BY <1>1
        <5> QED
          BY <5>1, <5>2
      <4>4. \A k \in 1 .. i - 1 : 1 + k - 1 = k
        BY <1>1
      <4> QED
        BY <4>2, <4>3, <4>4
    <3>2. /\ b \in Seq(Y) /\ Len(b) = Len(s) - i
          /\ \A k \in 1 .. Len(s) - i : b[k] = s[k + i]
      <4>1. i + 1 \in Int /\ Len(s) \in Int /\ \A k \in i + 1 .. Len(s) : s[k] \in Y
        BY <1>1
      <4>2. /\ b \in Seq(Y) /\ Len(b) = IF i + 1 <= Len(s) THEN Len(s) - (i + 1) + 1 ELSE 0
            /\ \A k \in 1 .. Len(s) - (i + 1) + 1 : b[k] = s[(i + 1) + k - 1]
        BY <4>1, SubSeqProperties
      <4> HIDE DEF b
      <4>3. Len(b) = Len(s) - i /\ Len(s) - (i + 1) + 1 = Len(s) - i
        <5>1. Len(b) = IF i + 1 <= Len(s) THEN Len(s) - (i + 1) + 1 ELSE 0
          BY <4>2
        <5>2. i \in Nat /\ i <= Len(s) /\ Len(s) \in Nat
          BY <1>1
        <5> QED
          BY <5>1, <5>2
      <4>4. \A k \in 1 .. Len(s) - i : (i + 1) + k - 1 = k + i /\ s[(i + 1) + k - 1] = s[k + i]
        BY <1>1
      <4> QED
        BY <4>2, <4>3, <4>4
    <3>3. r = a \o b
      BY <2>1 DEF RemoveAt
    <3> HIDE DEF a, b
    <3>4. /\ r \in Seq(Y) /\ DOMAIN r = 1 .. Len(a) + Len(b)
          /\ \A k \in 1 .. Len(a) + Len(b) : r[k] = IF k <= Len(a) THEN a[k] ELSE b[k - Len(a)]
      <4>1. a \in Seq(Y) /\ b \in Seq(Y)
        BY <3>1, <3>2
      <4>2. /\ a \o b \in Seq(Y) /\ Len(a \o b) = Len(a) + Len(b)
            /\ \A k \in 1 .. Len(a) + Len(b) : (a \o b)[k] = IF k <= Len(a) THEN a[k] ELSE b[k - Len(a)]
        BY <4>1, ConcatProperties
      <4>3. r \in Seq(Y) /\ Len(r) = Len(a) + Len(b)
        BY <3>3, <4>2
      <4> QED
        BY <3>3, <4>2, <4>3
    <3>5. Len(a) + Len(b) = Len(s) - 1
      BY <1>1, <3>1, <3>2
    <3>6. \A k \in 1 .. Len(s) - 1 : r[k] = IF k < i THEN s[k] ELSE s[k + 1]
      <4> TAKE k \in 1 .. Len(s) - 1
      <4>1. r[k] = IF k <= i - 1 THEN a[k] ELSE b[k - (i - 1)]
        BY <3>1, <3>3, <3>4, <3>5
      <4>2. CASE k < i
        BY <1>1, <3>1, <4>1, <4>2
      <4>3. CASE ~(k < i)
        <5>1. k - (i - 1) \in 1 .. Len(s) - i /\ (k - (i - 1)) + i = k + 1
          BY <1>1, <4>3
        <5> QED
          BY <1>1, <3>2, <4>1, <4>3, <5>1
      <4> QED
        BY <4>2, <4>3
    <3> QED
      BY <3>3, <3>4, <3>5, <3>6
  <2>2. CASE i = 1 /\ r = Tail(s)
    BY <1>1, <2>2
  <2> QED
    BY <2>1, <2>2
<1>3. ASSUME NEW k \in DOMAIN r
      PROVE  /\ k < i => k \in DOMAIN s \ {i} /\ r[k] = s[k]
             /\ ~(k < i) => k + 1 \in DOMAIN s \ {i} /\ r[k] = s[k + 1]
  BY <1>1, <1>2
<1>4. ASSUME NEW P, NoneOf(P, s) PROVE NoneOf(P, r)
  BY <1>3, <1>4 DEF NoneOf
<1>5. ASSUME NEW P, OneOf(P, s), s[i] \in P PROVE NoneOf(P, r)
  <2>1. \A j \in DOMAIN s \ {i} : s[j] \notin P
    BY <1>1, <1>5 DEF OneOf
  <2> QED
    BY <1>3, <2>1 DEF NoneOf
<1>6. ASSUME NEW P, OneOf(P, s), s[i] \notin P PROVE OneOf(P, r)
  <2>1. PICK j \in DOMAIN s : s[j] \in P /\ \A h \in DOMAIN s : s[h] \in P => h = j
    BY <1>6 DEF OneOf
  <2> DEFINE k == IF j < i THEN j ELSE j - 1
  <2>0. j # i /\ j \in Nat
    BY <1>1, <1>6, <2>1
  <2>2. k \in DOMAIN r /\ r[k] = s[j]
    <3>1. CASE j < i
      <4>1. k = j /\ j \in 1 .. Len(s) - 1
        BY <1>1, <2>1, <3>1
      <4> QED
        BY <1>2, <3>1, <4>1
    <3>2. CASE ~(j < i)
      <4>1. k = j - 1 /\ j - 1 \in 1 .. Len(s) - 1 /\ ~(j - 1 < i) /\ (j - 1) + 1 = j
        BY <1>1, <2>0, <2>1, <3>2
      <4> QED
        BY <1>2, <4>1
    <3> QED
      BY <3>1, <3>2
  <2>3. ASSUME NEW h \in DOMAIN r, r[h] \in P PROVE h = k
    <3>1. h \in Nat
      BY <1>2
    <3>2. CASE h < i
      <4>1. h = j
        BY <1>3, <2>1, <2>3, <3>2
      <4> QED
        BY <3>2, <4>1
    <3>3. CASE ~(h < i)
      <4>1. h + 1 = j
        BY <1>3, <2>1, <2>3, <3>3
      <4> QED
        BY <1>1, <3>1, <3>3, <4>1
    <3> QED
      BY <3>2, <3>3
  <2> HIDE DEF k
  <2> QED
    BY <2>1, <2>2, <2>3 DEF OneOf
<1> QED
  BY <1>2, <1>4, <1>5, <1>6

\* A member given to a key that had none.
LEMMA GivenOf ==
  ASSUME NEW D, NEW R, NEW f, IsMap(f, D, R), NEW x \in D, x \notin DOMAIN f, NEW y \in R, NEW P
  PROVE  /\ NoneOf(P, f) /\ y \notin P => NoneOf(P, With(f, x, y))
         /\ NoneOf(P, f) /\ y \in P => OneOf(P, With(f, x, y))
         /\ OneOf(P, f) /\ y \notin P => OneOf(P, With(f, x, y))
<1> DEFINE g == With(f, x, y)
<1>1. DOMAIN g = DOMAIN f \cup {x} /\ g[x] = y /\ \A z \in DOMAIN f : g[z] = f[z]
  BY WithMap
<1> HIDE DEF g
<1>2. NoneOf(P, f) /\ y \notin P => NoneOf(P, g)
  BY <1>1 DEF NoneOf
<1>3. NoneOf(P, f) /\ y \in P => OneOf(P, g)
  BY <1>1 DEF NoneOf, OneOf
<1>4. OneOf(P, f) /\ y \notin P => OneOf(P, g)
  BY <1>1 DEF OneOf
<1> QED
  BY <1>2, <1>3, <1>4 DEF g
\* A sequence of sequences, one after the other.
LEMMA FlattenRuns ==
  ASSUME NEW Y, NEW seqs \in Seq(Seq(Y))
  PROVE  \E g : /\ \A n \in 0 .. Len(seqs) : g[n] \in Seq(Y)
                /\ g[0] = <<>> /\ \A n \in 1 .. Len(seqs) : g[n] = g[n - 1] \o seqs[n]
                /\ FlattenSeq(seqs) = g[Len(seqs)]
<1> DEFINE N == Len(seqs)
           X == Seq(Y)
           step == [n \in 1 .. N |-> [x \in X |-> x \o seqs[n]]]
           base == <<>>
           flatten == CHOOSE f : f = [i \in 1 .. N |-> IF i = 1 THEN seqs[i] ELSE f[i - 1] \o seqs[i]]
<1>1. N \in Nat /\ seqs \in Seq(X) /\ \A n \in 1 .. N : seqs[n] \in X
  OBVIOUS
<1>2. base \in X
  OBVIOUS
<1>3. \A x, y \in X : x \o y \in X
  BY ConcatProperties
<1>4. \A x \in X : base \o x = x
  BY ConcatEmptySeq
<1>5. FlattenSeq(seqs) = IF N = 0 THEN seqs ELSE flatten[N]
  BY DEF FlattenSeq
<1>6. N = 0 => seqs = base
  OBVIOUS
<1> HIDE DEF N, X, base
<1>7. step \in Steps(N, X)
  BY <1>1, <1>3 DEF Steps
<1>8. \A n \in 1 .. N, x \in X : step[n][x] = x \o seqs[n]
  OBVIOUS
<1> HIDE DEF step
<1>9. PICK g : Runs(N, X, base, step, g)
  BY <1>1, <1>2, <1>7, Recursion
<1>10. /\ g \in [0 .. N -> X] /\ g[0] = base
       /\ \A n \in 1 .. N : g[n - 1] \in X /\ g[n] = g[n - 1] \o seqs[n]
  <2>1. g \in [0 .. N -> X] /\ g[0] = base /\ \A n \in 1 .. N : g[n] = step[n][g[n - 1]]
    BY <1>9 DEF Runs
  <2>2. \A n \in 1 .. N : g[n - 1] \in X
    BY <1>1, <2>1
  <2> QED
    BY <1>8, <2>1, <2>2
<1>14. 1 \in 1 .. N => g[1] = base \o seqs[1]
  <2>1. 1 \in 1 .. N => g[1] = g[1 - 1] \o seqs[1]
    BY <1>10
  <2>2. 1 - 1 = 0
    OBVIOUS
  <2> QED
    BY <1>10, <2>1, <2>2
<1>11. ASSUME N # 0 PROVE flatten[N] = g[N]
  <2> DEFINE f == [i \in 1 .. N |-> g[i]]
  <2>1. \A i \in 1 .. N : f[i] = IF i = 1 THEN seqs[i] ELSE f[i - 1] \o seqs[i]
    <3> TAKE i \in 1 .. N
    <3>1. CASE i = 1
      <4>1. f[1] = g[1] /\ seqs[1] \in X
        BY <1>1, <3>1
      <4> QED
        BY <1>4, <1>14, <3>1, <4>1
    <3>2. CASE i # 1
      <4>1. i - 1 \in 1 .. N
        BY <1>1, <3>2
      <4> QED
        BY <1>10, <3>2, <4>1
    <3> QED
      BY <3>1, <3>2
  <2>2. f = [i \in 1 .. N |-> f[i]]
    OBVIOUS
  <2> HIDE DEF f
  <2>3. f = [i \in 1 .. N |-> IF i = 1 THEN seqs[i] ELSE f[i - 1] \o seqs[i]]
    BY <2>1, <2>2
  <2>4. flatten = [i \in 1 .. N |-> IF i = 1 THEN seqs[i] ELSE flatten[i - 1] \o seqs[i]]
    BY <2>3
  <2> HIDE DEF flatten
  <2> DEFINE S == {n \in 0 .. N : n # 0 => flatten[n] = g[n]}
  <2>5. \A n \in 1 .. N : flatten[n] = IF n = 1 THEN seqs[n] ELSE flatten[n - 1] \o seqs[n]
    BY <2>4
  <2>6. 0 \in S
    BY <1>1
  <2>7. ASSUME NEW n \in 1 .. N, n - 1 \in S PROVE n \in S
    <3>0. n \in 0 .. N
      OBVIOUS
    <3>1. CASE n = 1
      <4>1. flatten[1] = seqs[1] /\ g[1] = base \o seqs[1] /\ seqs[1] \in X
        BY <1>1, <1>14, <2>5, <3>1
      <4> QED
        BY <1>4, <3>0, <3>1, <4>1
    <3>2. CASE n # 1
      <4>1. flatten[n - 1] = g[n - 1]
        BY <1>1, <2>7, <3>2
      <4>2. flatten[n] = flatten[n - 1] \o seqs[n] /\ g[n] = g[n - 1] \o seqs[n]
        BY <1>10, <2>5, <3>2
      <4> QED
        BY <3>0, <4>1, <4>2
    <3> QED
      BY <3>1, <3>2
  <2>8. N \in S
    <3> HIDE DEF S
    <3>1. \A n \in 1 .. N : n - 1 \in S => n \in S
      BY <2>7
    <3>2. \A n \in 0 .. N : n \in S
      BY <1>1, <2>6, <3>1, StepByStep
    <3> QED
      BY <1>1, <3>2
  <2> QED
    BY <1>11, <2>8
<1>12. FlattenSeq(seqs) = g[N]
  BY <1>5, <1>6, <1>10, <1>11
<1>13. \A n \in 0 .. N : g[n] \in X
  BY <1>10
<1> QED
  BY <1>10, <1>12, <1>13 DEF N, X, base

\* A flattened sequence holds what its rows hold; what one row alone holds it holds once.
NoneButRow(P, seqs, m) == \A n \in 1 .. Len(seqs) : n # m => NoneOf(P, seqs[n])

LEMMA FlattenOf ==
  ASSUME NEW Y, NEW seqs \in Seq(Seq(Y))
  PROVE  /\ FlattenSeq(seqs) \in Seq(Y)
         /\ \A P : (\E m \in 1 .. Len(seqs) : OneOf(P, seqs[m]) /\ NoneButRow(P, seqs, m))
                   => OneOf(P, FlattenSeq(seqs))
<1> DEFINE N == Len(seqs)
           X == Seq(Y)
<1>1. N \in Nat /\ \A n \in 1 .. N : seqs[n] \in X
  OBVIOUS
<1>2. PICK g : /\ \A n \in 0 .. N : g[n] \in X
               /\ g[0] = <<>> /\ \A n \in 1 .. N : g[n] = g[n - 1] \o seqs[n]
               /\ FlattenSeq(seqs) = g[N]
  BY FlattenRuns
<1>3. ASSUME NEW P, NEW m \in 1 .. N, OneOf(P, seqs[m]),
             \A n \in 1 .. N : n # m => NoneOf(P, seqs[n])
      PROVE  OneOf(P, g[N])
  <2> DEFINE S == {n \in 0 .. N : IF n < m THEN NoneOf(P, g[n]) ELSE OneOf(P, g[n])}
  <2>1. 0 \in S
    <3>1. NoneOf(P, g[0]) /\ 0 < m /\ 0 \in 0 .. N
      BY <1>1, <1>2 DEF NoneOf
    <3> QED
      BY <3>1
  <2>2. ASSUME NEW n \in 1 .. N, n - 1 \in S PROVE n \in S
    <3> DEFINE a == g[n - 1]
               b == seqs[n]
    <3>1. n \in 0 .. N /\ n - 1 \in 0 .. N /\ a \in X /\ b \in X /\ g[n] = a \o b
      <4>1. n \in 0 .. N /\ n - 1 \in 0 .. N
        BY <1>1
      <4> HIDE DEF X
      <4>2. a \in X /\ b \in X
        BY <1>1, <1>2, <4>1
      <4>3. g[n] = a \o b
        BY <1>2
      <4> QED
        BY <4>1, <4>2, <4>3
    <3>2. IF n - 1 < m THEN NoneOf(P, a) ELSE OneOf(P, a)
      BY <2>2
    <3>3. IF n = m THEN OneOf(P, b) ELSE NoneOf(P, b)
      BY <1>3
    <3> HIDE DEF a, b
    <3>4. /\ NoneOf(P, a) /\ NoneOf(P, b) => NoneOf(P, a \o b)
          /\ OneOf(P, a) /\ NoneOf(P, b) => OneOf(P, a \o b)
          /\ NoneOf(P, a) /\ OneOf(P, b) => OneOf(P, a \o b)
      BY <3>1, ConcatOf
    <3>5. IF n < m THEN NoneOf(P, g[n]) ELSE OneOf(P, g[n])
      BY <1>1, <3>1, <3>2, <3>3, <3>4
    <3> QED
      BY <3>1, <3>5
  <2>3. N \in S
    <3> HIDE DEF S
    <3>1. \A n \in 1 .. N : n - 1 \in S => n \in S
      BY <2>2
    <3>2. \A n \in 0 .. N : n \in S
      BY <1>1, <2>1, <3>1, StepByStep
    <3> QED
      BY <1>1, <3>2
  <2> QED
    BY <1>1, <2>3
<1>4. FlattenSeq(seqs) \in X
  BY <1>1, <1>2
<1> QED
  BY <1>2, <1>3, <1>4 DEF NoneButRow
-----------------------------------------------------------------------------
(* The recipes of the windows. *)

Maps(D, R) == UNION {[E -> R] : E \in SUBSET D}
Assignments(W, F) == [given : Maps(W, F), rest : Seq(F)]

\* One session of P is given to a window, or left over.
Held(P, acc) ==
  \/ OneOf(P, acc.given) /\ NoneOf(P, acc.rest)
  \/ NoneOf(P, acc.given) /\ OneOf(P, acc.rest)

LEMMA MapsAre ==
  ASSUME NEW D, NEW R, NEW f
  PROVE  f \in Maps(D, R) <=> IsMap(f, D, R)
  BY DEF Maps, IsMap

LEMMA NothingGiven ==
  ASSUME NEW W, NEW F, NEW sessions \in Seq(F)
  PROVE  LET acc == [given |-> <<>>, rest |-> sessions]
         IN  acc \in Assignments(W, F) /\ \A P : OneOf(P, sessions) => Held(P, acc)
<1> DEFINE acc == [given |-> <<>>, rest |-> sessions]
<1>1. DOMAIN <<>> = {} /\ acc.given = <<>> /\ acc.rest = sessions
  OBVIOUS
<1>2. IsMap(<<>>, W, F)
  BY DEF IsMap
<1>3. acc \in Assignments(W, F)
  BY <1>2, MapsAre DEF Assignments
<1>4. \A P : NoneOf(P, <<>>)
  BY <1>1 DEF NoneOf
<1> HIDE DEF acc
<1>5. \A P : OneOf(P, sessions) => Held(P, acc)
  BY <1>1, <1>4 DEF Held
<1> QED
  BY <1>3, <1>5 DEF acc

\* A session moves from the rest to a window.
Moved(acc, w, i, r) == [given |-> With(acc.given, w, acc.rest[i]), rest |-> r]

LEMMA MoveHeld ==
  ASSUME NEW W, NEW F, NEW acc \in Assignments(W, F), NEW w \in W, NEW i \in 1 .. Len(acc.rest),
         NEW r, r = RemoveAt(acc.rest, i) \/ (i = 1 /\ r = Tail(acc.rest))
  PROVE  /\ Moved(acc, w, i, r) \in Assignments(W, F)
         /\ DOMAIN Moved(acc, w, i, r).given = DOMAIN acc.given \cup {w}
         /\ w \notin DOMAIN acc.given => \A P : Held(P, acc) => Held(P, Moved(acc, w, i, r))
<1> DEFINE new == Moved(acc, w, i, r)
           f == acc.given
           s == acc.rest
           y == s[i]
           g == With(f, w, y)
<1>6. new = [given |-> g, rest |-> r] /\ new.given = g /\ new.rest = r
  BY DEF Moved
<1> HIDE DEF new
<1>1. f \in Maps(W, F) /\ s \in Seq(F) /\ y \in F /\ i \in 1 .. Len(s)
      /\ (r = RemoveAt(s, i) \/ (i = 1 /\ r = Tail(s)))
  BY DEF Assignments
<1>2. IsMap(f, W, F)
  BY <1>1, MapsAre
<1> HIDE DEF f, s
<1>3. /\ r \in Seq(F)
      /\ \A P : /\ NoneOf(P, s) => NoneOf(P, r)
                /\ OneOf(P, s) /\ s[i] \in P => NoneOf(P, r)
                /\ OneOf(P, s) /\ s[i] \notin P => OneOf(P, r)
  BY <1>1, RemovedOf
<1>0. y = s[i]
  OBVIOUS
<1> HIDE DEF y
<1>4. IsMap(g, W, F) /\ DOMAIN g = DOMAIN f \cup {w}
  <2>1. y \in F
    BY <1>1
  <2> QED
    BY <1>2, <2>1 DEF IsMap, With
<1>5. ASSUME w \notin DOMAIN f, NEW P
      PROVE  /\ NoneOf(P, f) /\ y \notin P => NoneOf(P, g)
             /\ NoneOf(P, f) /\ y \in P => OneOf(P, g)
             /\ OneOf(P, f) /\ y \notin P => OneOf(P, g)
  BY <1>1, <1>2, <1>5, GivenOf
<1> HIDE DEF g
<1>7. g \in Maps(W, F)
  BY <1>4, MapsAre
<1>8. new \in Assignments(W, F)
  BY <1>3, <1>6, <1>7 DEF Assignments
<1>9. ASSUME w \notin DOMAIN f, NEW P, Held(P, acc) PROVE Held(P, new)
  <2>0. \A j \in 1 .. Len(s) : j \in DOMAIN s
    BY <1>1
  <2>1. CASE OneOf(P, f) /\ NoneOf(P, s)
    <3>1. y \notin P
      BY <1>0, <1>1, <2>0, <2>1 DEF NoneOf
    <3> QED
      BY <1>3, <1>5, <1>6, <1>9, <2>1, <3>1 DEF Held
  <2>2. CASE NoneOf(P, f) /\ OneOf(P, s)
    BY <1>0, <1>3, <1>5, <1>6, <1>9, <2>2 DEF Held
  <2> QED
    BY <1>9, <2>1, <2>2 DEF Held, f, s
<1> QED
  BY <1>4, <1>6, <1>8, <1>9 DEF f, new

LEMMA TitlesGive ==
  ASSUME NEW W, NEW windows \in Seq(W), NEW F, NEW sessions \in Seq(F), NEW titles,
         \A j, k \in DOMAIN windows : windows[j] = windows[k] => j = k
  PROVE  LET acc == GiveByTitle(windows, sessions, titles)
         IN  acc \in Assignments(W, F) /\ \A P : OneOf(P, sessions) => Held(P, acc)
<1> DEFINE N == Len(windows)
           X == Assignments(W, F)
           base == [given |-> <<>>, rest |-> sessions]
           pick(n, acc) == SelectInSeq(acc.rest, LAMBDA s : MatchesTitle(s, titles[windows[n]]))
           onward(n, acc) == IF pick(n, acc) = 0 THEN acc
                             ELSE [given |-> With(acc.given, windows[n], acc.rest[pick(n, acc)]),
                                   rest  |-> Taken(acc.rest, pick(n, acc))]
           step == [n \in 1 .. N |-> [x \in X |-> onward(n, x)]]
           give == CHOOSE f : f = [n \in 0 .. N |-> IF n = 0 THEN base ELSE onward(n, f[n - 1])]
<1>1. /\ N \in Nat /\ DOMAIN windows = 1 .. N /\ \A n \in 1 .. N : windows[n] \in W
  OBVIOUS
<1>2. base \in X /\ \A P : OneOf(P, sessions) => Held(P, base)
  BY NothingGiven
<1>3. base.given = <<>> /\ DOMAIN base.given = {}
  OBVIOUS
<1>4. ASSUME NEW n \in 1 .. N, NEW acc \in X
      PROVE  pick(n, acc) # 0 => pick(n, acc) \in 1 .. Len(acc.rest)
  <2> DEFINE I == {i \in 1 .. Len(acc.rest) : MatchesTitle(acc.rest[i], titles[windows[n]])}
             L == Len(acc.rest)
  <2>1. pick(n, acc) = IF I # {} THEN Min(I) ELSE 0
    BY DEF SelectInSeq
  <2>2. L \in Nat /\ I \in SUBSET (1 .. L)
    BY DEF Assignments
  <2> HIDE DEF I, L
  <2>3. pick(n, acc) # 0 => pick(n, acc) \in 1 .. L
    BY <2>1, <2>2, Least
  <2> QED
    BY <2>3 DEF L
<1> HIDE DEF pick
<1>5. ASSUME NEW n \in 1 .. N, NEW acc \in X
      PROVE  /\ onward(n, acc) \in X
             /\ DOMAIN onward(n, acc).given \subseteq DOMAIN acc.given \cup {windows[n]}
             /\ windows[n] \notin DOMAIN acc.given =>
                  \A P : Held(P, acc) => Held(P, onward(n, acc))
  <2> DEFINE i == pick(n, acc)
             w == windows[n]
             r == Taken(acc.rest, i)
             new == [given |-> With(acc.given, w, acc.rest[i]), rest |-> r]
  <2>1. CASE i = 0
    BY <2>1
  <2>2. CASE i # 0
    <3>1. i \in 1 .. Len(acc.rest) /\ w \in W /\ r = RemoveAt(acc.rest, i)
      BY <1>1, <1>4, <2>2 DEF Taken
    <3>2. onward(n, acc) = new
      BY <2>2
    <3>4. new = Moved(acc, w, i, r)
      BY DEF Moved
    <3> HIDE DEF i, w, r, new
    <3>3. /\ new \in Assignments(W, F)
          /\ DOMAIN new.given = DOMAIN acc.given \cup {w}
          /\ w \notin DOMAIN acc.given => \A P : Held(P, acc) => Held(P, new)
      BY <3>1, <3>4, MoveHeld
    <3> HIDE DEF onward
    <3> QED
      BY <3>2, <3>3 DEF w
  <2> QED
    BY <2>1, <2>2
<1>14. GiveByTitle(windows, sessions, titles) = give[N]
  BY DEF GiveByTitle, pick
<1> HIDE DEF N, X, base, onward
<1>6. step \in Steps(N, X)
  BY <1>5 DEF Steps
<1>7. \A n \in 1 .. N, x \in X : step[n][x] = onward(n, x)
  OBVIOUS
<1> HIDE DEF step
<1>8. PICK f : Runs(N, X, base, step, f)
  BY <1>1, <1>2, <1>6, Recursion
<1>9. f \in [0 .. N -> X] /\ \A n \in 0 .. N : f[n] = IF n = 0 THEN base ELSE onward(n, f[n - 1])
  <2>1. f \in [0 .. N -> X] /\ f[0] = base /\ \A n \in 1 .. N : f[n] = step[n][f[n - 1]]
    BY <1>8 DEF Runs
  <2>2. \A n \in 1 .. N : f[n - 1] \in X
    BY <1>1, <2>1
  <2>3. \A n \in 1 .. N : f[n] = onward(n, f[n - 1])
    BY <1>7, <2>1, <2>2
  <2>4. \A n \in 0 .. N : n # 0 => n \in 1 .. N
    BY <1>1
  <2> QED
    BY <2>1, <2>3, <2>4
<1>10. f = [n \in 0 .. N |-> IF n = 0 THEN base ELSE onward(n, f[n - 1])]
  <2>1. f = [n \in 0 .. N |-> f[n]]
    BY <1>9
  <2> QED
    BY <1>9, <2>1
<1>11. give = [n \in 0 .. N |-> IF n = 0 THEN base ELSE onward(n, give[n - 1])]
  BY <1>10
<1> HIDE DEF give
<1> DEFINE Given(n) == /\ give[n] \in X
                       /\ DOMAIN give[n].given \subseteq {windows[k] : k \in 1 .. n}
                       /\ \A P : OneOf(P, sessions) => Held(P, give[n])
           T == {n \in 0 .. N : Given(n)}
<1>12. \A n \in 0 .. N : give[n] = IF n = 0 THEN base ELSE onward(n, give[n - 1])
  BY <1>11
<1>15. 0 \in T
  <2>1. 0 \in 0 .. N /\ give[0] = base
    BY <1>1, <1>12
  <2> QED
    BY <1>2, <1>3, <2>1
<1>16. ASSUME NEW n \in 1 .. N, n - 1 \in T PROVE n \in T
  <2> DEFINE a == give[n - 1]
             w == windows[n]
  <2>1. n \in 0 .. N /\ n # 0
    BY <1>1
  <2>2. give[n] = onward(n, a)
    BY <1>12, <2>1
  <2>3. /\ a \in X /\ DOMAIN a.given \subseteq {windows[k] : k \in 1 .. n - 1}
        /\ \A P : OneOf(P, sessions) => Held(P, a)
    BY <1>16
  <2> HIDE DEF a
  <2>4. w \notin DOMAIN a.given
    <3>1. \A k \in 1 .. n - 1 : k \in 1 .. N /\ k # n
      BY <1>1
    <3>2. \A k \in 1 .. n - 1 : windows[k] # w
      BY <1>1, <3>1
    <3> QED
      BY <2>3, <3>2
  <2>5. /\ onward(n, a) \in X /\ DOMAIN onward(n, a).given \subseteq DOMAIN a.given \cup {w}
        /\ \A P : Held(P, a) => Held(P, onward(n, a))
    BY <1>5, <2>3, <2>4
  <2>6. DOMAIN onward(n, a).given \subseteq {windows[k] : k \in 1 .. n}
    <3>1. \A k \in 1 .. n - 1 : k \in 1 .. n
      BY <1>1
    <3>2. n \in 1 .. n
      BY <1>1
    <3> QED
      BY <2>3, <2>5, <3>1, <3>2
  <2> QED
    BY <2>1, <2>2, <2>3, <2>5, <2>6
<1>17. N \in T
  <2> HIDE DEF T
  <2>1. \A n \in 1 .. N : n - 1 \in T => n \in T
    BY <1>16
  <2>2. \A n \in 0 .. N : n \in T
    BY <1>1, <1>15, <2>1, StepByStep
  <2> QED
    BY <1>1, <2>2
<1> QED
  BY <1>14, <1>17 DEF X
LEMMA OrderGives ==
  ASSUME NEW W, NEW windows \in Seq(W), NEW F, NEW titled \in Assignments(W, F)
  PROVE  LET acc == GiveInOrder(windows, titled)
         IN  acc \in Assignments(W, F) /\ \A P : Held(P, titled) => Held(P, acc)
<1> DEFINE N == Len(windows)
           X == Assignments(W, F)
           onward(n, acc) == IF windows[n] \in DOMAIN acc.given \/ acc.rest = <<>> THEN acc
                             ELSE [given |-> With(acc.given, windows[n], Head(acc.rest)),
                                   rest  |-> Tail(acc.rest)]
           step == [n \in 1 .. N |-> [x \in X |-> onward(n, x)]]
           give == CHOOSE f : f = [n \in 0 .. N |-> IF n = 0 THEN titled ELSE onward(n, f[n - 1])]
<1>1. N \in Nat /\ \A n \in 1 .. N : windows[n] \in W
  OBVIOUS
<1>2. ASSUME NEW n \in 1 .. N, NEW acc \in X
      PROVE  /\ onward(n, acc) \in X
             /\ \A P : Held(P, acc) => Held(P, onward(n, acc))
  <2> DEFINE w == windows[n]
             r == Tail(acc.rest)
             moved == Moved(acc, w, 1, r)
  <2>1. CASE w \in DOMAIN acc.given \/ acc.rest = <<>>
    BY <2>1
  <2>2. CASE ~(w \in DOMAIN acc.given \/ acc.rest = <<>>)
    <3>1. acc.rest \in Seq(F) /\ acc.rest # <<>>
      BY <2>2 DEF Assignments
    <3>2. 1 \in 1 .. Len(acc.rest) /\ Head(acc.rest) = acc.rest[1] /\ w \in W
      BY <1>1, <3>1
    <3>3. onward(n, acc) = moved
      BY <2>2, <3>2 DEF Moved
    <3> HIDE DEF w, onward
    <3>4. /\ moved \in Assignments(W, F)
          /\ w \notin DOMAIN acc.given => \A P : Held(P, acc) => Held(P, moved)
      <4> HIDE DEF r
      <4>1. r = Tail(acc.rest)
        BY DEF r
      <4> QED
        BY <3>2, <4>1, MoveHeld
    <3> HIDE DEF moved
    <3> QED
      BY <2>2, <3>3, <3>4
  <2> QED
    BY <2>1, <2>2
<1>3. GiveInOrder(windows, titled) = give[N]
  BY DEF GiveInOrder
<1> HIDE DEF N, X, onward
<1>4. step \in Steps(N, X)
  BY <1>2 DEF Steps
<1>5. \A n \in 1 .. N, x \in X : step[n][x] = onward(n, x)
  OBVIOUS
<1>6. titled \in X
  BY DEF X
<1> HIDE DEF step
<1>7. PICK f : Runs(N, X, titled, step, f)
  BY <1>1, <1>4, <1>6, Recursion
<1>8. f \in [0 .. N -> X] /\ \A n \in 0 .. N : f[n] = IF n = 0 THEN titled ELSE onward(n, f[n - 1])
  <2>1. f \in [0 .. N -> X] /\ f[0] = titled /\ \A n \in 1 .. N : f[n] = step[n][f[n - 1]]
    BY <1>7 DEF Runs
  <2>2. \A n \in 1 .. N : f[n - 1] \in X
    BY <1>1, <2>1
  <2>3. \A n \in 1 .. N : f[n] = onward(n, f[n - 1])
    BY <1>5, <2>1, <2>2
  <2>4. \A n \in 0 .. N : n # 0 => n \in 1 .. N
    BY <1>1
  <2> QED
    BY <2>1, <2>3, <2>4
<1>9. f = [n \in 0 .. N |-> IF n = 0 THEN titled ELSE onward(n, f[n - 1])]
  <2>1. f = [n \in 0 .. N |-> f[n]]
    BY <1>8
  <2> QED
    BY <1>8, <2>1
<1>10. give = [n \in 0 .. N |-> IF n = 0 THEN titled ELSE onward(n, give[n - 1])]
  BY <1>9
<1> HIDE DEF give
<1> DEFINE Given(n) == give[n] \in X /\ \A P : Held(P, titled) => Held(P, give[n])
           T == {n \in 0 .. N : Given(n)}
<1>11. \A n \in 0 .. N : give[n] = IF n = 0 THEN titled ELSE onward(n, give[n - 1])
  BY <1>10
<1>12. 0 \in T
  <2>1. 0 \in 0 .. N /\ give[0] = titled
    BY <1>1, <1>11
  <2> QED
    BY <1>6, <2>1
<1>13. ASSUME NEW n \in 1 .. N, n - 1 \in T PROVE n \in T
  <2>1. n \in 0 .. N /\ n # 0
    BY <1>1
  <2>2. give[n] = onward(n, give[n - 1])
    BY <1>11, <2>1
  <2>3. give[n - 1] \in X /\ \A P : Held(P, titled) => Held(P, give[n - 1])
    BY <1>13
  <2>4. onward(n, give[n - 1]) \in X /\ \A P : Held(P, give[n - 1]) => Held(P, onward(n, give[n - 1]))
    BY <1>2, <2>3
  <2> QED
    BY <2>1, <2>2, <2>3, <2>4
<1>14. N \in T
  <2> HIDE DEF T
  <2>1. \A n \in 1 .. N : n - 1 \in T => n \in T
    BY <1>13
  <2>2. \A n \in 0 .. N : n \in T
    BY <1>1, <1>12, <2>1, StepByStep
  <2> QED
    BY <1>1, <2>2
<1> QED
  BY <1>3, <1>14 DEF X

\* No assignment loses or doubles a session.
LEMMA AssignedHolds ==
  ASSUME NEW W, NEW windows \in Seq(W), NEW F, NEW sessions \in Seq(F), NEW titles,
         \A j, k \in DOMAIN windows : windows[j] = windows[k] => j = k
  PROVE  LET acc == Assigned(windows, sessions, titles)
         IN  acc \in Assignments(W, F) /\ \A P : OneOf(P, sessions) => Held(P, acc)
<1> DEFINE some == Len(windows) > 1 \/ Len(sessions) > 1
           none == [given |-> <<>>, rest |-> sessions]
           by == GiveByTitle(windows, sessions, titles)
           titled == IF some THEN by ELSE none
           acc == GiveInOrder(windows, titled)
<1>1. Assigned(windows, sessions, titles) = acc
  BY DEF Assigned
<1>2. by \in Assignments(W, F) /\ \A P : OneOf(P, sessions) => Held(P, by)
  BY TitlesGive
<1>3. none \in Assignments(W, F) /\ \A P : OneOf(P, sessions) => Held(P, none)
  BY NothingGiven
<1>4. titled = by \/ titled = none
  OBVIOUS
<1> HIDE DEF by, none, titled
<1>5. titled \in Assignments(W, F) /\ \A P : OneOf(P, sessions) => Held(P, titled)
  BY <1>2, <1>3, <1>4
<1>6. acc \in Assignments(W, F) /\ \A P : Held(P, titled) => Held(P, acc)
  BY <1>5, OrderGives
<1> HIDE DEF acc
<1> QED
  BY <1>1, <1>5, <1>6

Slots(F) == {NoRecipe, BareShell} \cup {TerminalRecipe(s) : s \in F}

LEMMA RecipeTab ==
  /\ NoRecipe.tab = 0 /\ BareShell.tab = 0
  /\ \A s : TerminalRecipe(s).tab = s.tab
<1>1. NoRecipe.tab = 0 /\ BareShell.tab = 0 /\ "tab" \in DOMAIN NoRecipe
  BY DEF NoRecipe, BareShell, Slot
<1>2. ASSUME NEW s PROVE TerminalRecipe(s).tab = s.tab
  <2>1. CASE s.kind = "unknown"
    BY <1>1, <2>1 DEF TerminalRecipe
  <2>2. CASE s.kind # "unknown" /\ s.kind \in {"shell", "command"}
    BY <2>2 DEF TerminalRecipe, Slot
  <2>3. CASE s.kind # "unknown" /\ s.kind \notin {"shell", "command"}
    BY <2>3 DEF TerminalRecipe, Slot
  <2> QED
    BY <2>1, <2>2, <2>3
<1> QED
  BY <1>1, <1>2

\* Every saved window comes from a session that was found, or says there is none; and with
\* one reading of the windows, which is not empty, what is found once is saved once.
LEMMA SavedSlotsAre ==
  ASSUME NEW first, NEW final, NEW F, NEW sessions \in Seq(F), NEW titles
  PROVE  LET slots == SavedSlots(first, final, sessions, titles)
         IN  /\ slots \in Seq(Slots(F))
             /\ \A t : /\ t # 0 /\ first = final /\ final \cap 1 .. MaxPid + MaxStarts # {}
                       /\ OneOf({s \in F : s.tab = t}, sessions)
                       => OneOf({s \in Slots(F) : s.tab = t}, slots)
<1> DEFINE R == 1 .. MaxPid + MaxStarts
           Y == Slots(F)
           windows == Ascending(final)
           saved == Ascending(first)
           acc == Assigned(windows, sessions, titles)
           of(w) == IF w \notin final THEN NoRecipe
                    ELSE IF w \in DOMAIN acc.given THEN TerminalRecipe(acc.given[w]) ELSE BareShell
           spare == [i \in DOMAIN acc.rest |-> TerminalRecipe(acc.rest[i])]
           extras(w) == IF windows # <<>> /\ w = Head(windows) THEN spare ELSE <<>>
           row(i) == <<of(saved[i])>> \o extras(saved[i])
           rows == [i \in DOMAIN saved |-> row(i)]
<1>1. /\ windows \in Seq(R) /\ ToSet(windows) = final \cap R
      /\ \A j, k \in DOMAIN windows : windows[j] = windows[k] => j = k
  BY AscendingLists
<1>2. /\ saved \in Seq(R) /\ DOMAIN saved = 1 .. Len(saved) /\ Len(saved) \in Nat
      /\ \A j, k \in DOMAIN saved : saved[j] = saved[k] => j = k
  BY AscendingLists
<1>3. SavedSlots(first, final, sessions, titles) = FlattenSeq(rows)
  BY DEF SavedSlots
<1>4. first = final => saved = windows
  OBVIOUS
<1> DEFINE W == final \cap R
<1> HIDE DEF R, windows, saved
<1>0. windows \in Seq(W)
  <2> HIDE DEF W
  <2>1. \A i \in 1 .. Len(windows) : windows[i] \in W
    BY <1>1, Members DEF W
  <2>2. Len(windows) \in Nat /\ windows = [i \in 1 .. Len(windows) |-> windows[i]]
    BY <1>1
  <2> QED
    BY <2>1, <2>2
<1> HIDE DEF W
<1>5. acc \in Assignments(W, F) /\ \A P : OneOf(P, sessions) => Held(P, acc)
  BY <1>0, <1>1, AssignedHolds
<1> HIDE DEF acc
<1>6. /\ IsMap(acc.given, W, F) /\ acc.rest \in Seq(F)
      /\ \A w \in DOMAIN acc.given : acc.given[w] \in F
      /\ \A i \in DOMAIN acc.rest : acc.rest[i] \in F
      /\ DOMAIN acc.rest = 1 .. Len(acc.rest) /\ Len(acc.rest) \in Nat
  <2>1. acc.given \in Maps(W, F) /\ acc.rest \in Seq(F)
    BY <1>5 DEF Assignments
  <2>2. IsMap(acc.given, W, F)
    BY <2>1, MapsAre
  <2>3. \A w \in DOMAIN acc.given : acc.given[w] \in F
    BY <2>2 DEF IsMap
  <2> QED
    BY <2>1, <2>2, <2>3
<1>7. \A w : of(w) \in Y
  BY <1>6 DEF Slots
<1>8. spare \in Seq(Y) /\ DOMAIN spare = DOMAIN acc.rest
  <2>1. \A i \in DOMAIN acc.rest : TerminalRecipe(acc.rest[i]) \in Y
    BY <1>6 DEF Slots
  <2> HIDE DEF Y
  <2> QED
    BY <1>6, <2>1
<1>9. \A i \in DOMAIN acc.rest : spare[i] = TerminalRecipe(acc.rest[i])
  OBVIOUS
<1> HIDE DEF Y, of, spare
<1>10. \A w : extras(w) \in Seq(Y)
  BY <1>8
<1>11. ASSUME NEW i \in DOMAIN saved
       PROVE  row(i) \in Seq(Y) /\ <<of(saved[i])>> \in Seq(Y)
  <2>1. <<of(saved[i])>> \in Seq(Y)
    BY <1>7
  <2> HIDE DEF extras
  <2>2. extras(saved[i]) \in Seq(Y)
    BY <1>10
  <2> QED
    BY <2>1, <2>2, ConcatProperties
<1> HIDE DEF row
<1>12. rows \in Seq(Seq(Y)) /\ Len(rows) = Len(saved) /\ \A i \in 1 .. Len(saved) : rows[i] = row(i)
  BY <1>2, <1>11
<1> HIDE DEF rows
<1>13. FlattenSeq(rows) \in Seq(Y)
  BY <1>12, FlattenOf
<1>14. ASSUME NEW t, t # 0, first = final, final \cap R # {}, OneOf({s \in F : s.tab = t}, sessions)
       PROVE  OneOf({s \in Y : s.tab = t}, FlattenSeq(rows))
  <2> DEFINE P == {s \in F : s.tab = t}
             Q == {s \in Y : s.tab = t}
  <2>1. Held(P, acc) /\ saved = windows
    BY <1>4, <1>5, <1>14
  <2>2. \A s \in F : s \in P <=> TerminalRecipe(s) \in Q
    BY RecipeTab DEF Y, Slots
  <2>3. NoRecipe \notin Q /\ BareShell \notin Q
    BY <1>14, RecipeTab
  <2> HIDE DEF P, Q
  <2>4. \A w \in final : of(w) \in Q <=> w \in DOMAIN acc.given /\ acc.given[w] \in P
    BY <1>6, <2>2, <2>3 DEF of
  <2>5. \A i \in DOMAIN saved : saved[i] \in final /\ saved[i] \in R
    BY <1>1, <1>2, <2>1 DEF ToSet
  <2>6. \A i \in DOMAIN saved :
          <<of(saved[i])>> \in Seq(Y) /\ extras(saved[i]) \in Seq(Y)
          /\ row(i) = <<of(saved[i])>> \o extras(saved[i])
    BY <1>10, <1>11 DEF row
  <2>7. ASSUME NEW y PROVE (y \in Q => OneOf(Q, <<y>>)) /\ (y \notin Q => NoneOf(Q, <<y>>))
    <3>1. DOMAIN <<y>> = {1} /\ <<y>>[1] = y
      OBVIOUS
    <3> QED
      BY <3>1 DEF OneOf, NoneOf
  <2> DEFINE Only(m) == \A i \in 1 .. Len(saved) : i # m => NoneOf(Q, row(i))
  <2>9. ASSUME NEW m \in 1 .. Len(saved), OneOf(Q, row(m)), Only(m)
        PROVE  OneOf(Q, FlattenSeq(rows))
    <3>1. m \in 1 .. Len(rows) /\ OneOf(Q, rows[m])
      BY <1>12, <2>9
    <3>2. NoneButRow(Q, rows, m)
      BY <1>12, <2>9 DEF NoneButRow
    <3>3. rows \in Seq(Seq(Y))
      BY <1>12
    <3> QED
      BY <3>1, <3>2, <3>3, FlattenOf
  <2>8. CASE OneOf(P, acc.given) /\ NoneOf(P, acc.rest)
    <3>1. PICK w \in DOMAIN acc.given :
            acc.given[w] \in P /\ \A v \in DOMAIN acc.given : acc.given[v] \in P => v = w
      BY <2>8 DEF OneOf
    <3>2. NoneOf(Q, spare)
      BY <1>6, <1>8, <1>9, <2>2, <2>8 DEF NoneOf
    <3>3. \A v : NoneOf(Q, extras(v))
      <4>1. NoneOf(Q, <<>>)
        BY DEF NoneOf
      <4> QED
        BY <3>2, <4>1
    <3>4. w \in final \cap R
      BY <1>6, <3>1 DEF IsMap, W
    <3>5. PICK m \in 1 .. Len(saved) : saved[m] = w
      BY <1>1, <1>2, <2>1, <3>4, Members
    <3>6. OneOf(Q, row(m))
      <4> DEFINE a == <<of(saved[m])>>
                 b == extras(saved[m])
      <4>1. a \in Seq(Y) /\ b \in Seq(Y) /\ row(m) = a \o b
        BY <1>2, <2>6
      <4>2. OneOf(Q, a) /\ NoneOf(Q, b)
        BY <2>4, <2>7, <3>1, <3>3, <3>4, <3>5
      <4> HIDE DEF a, b
      <4>3. OneOf(Q, a \o b)
        BY <4>1, <4>2, ConcatOf
      <4> QED
        BY <4>1, <4>3
    <3>7. ASSUME NEW i \in 1 .. Len(saved), i # m PROVE NoneOf(Q, row(i))
      <4> DEFINE a == <<of(saved[i])>>
                 b == extras(saved[i])
      <4>1. a \in Seq(Y) /\ b \in Seq(Y) /\ row(i) = a \o b
        BY <1>2, <2>6
      <4>2. saved[i] # w
        BY <1>2, <3>5, <3>7
      <4>3. NoneOf(Q, a) /\ NoneOf(Q, b)
        BY <1>2, <2>4, <2>5, <2>7, <3>1, <3>3, <4>2
      <4> HIDE DEF a, b
      <4>4. NoneOf(Q, a \o b)
        BY <4>1, <4>3, ConcatOf
      <4> QED
        BY <4>1, <4>4
    <3>8. Only(m)
      BY <3>7
    <3> HIDE DEF Only
    <3> QED
      BY <2>9, <3>6, <3>8 DEF Q
  <2>10. CASE NoneOf(P, acc.given) /\ OneOf(P, acc.rest)
    <3>1. OneOf(Q, spare)
      <4>1. PICK i \in DOMAIN acc.rest :
              acc.rest[i] \in P /\ \A j \in DOMAIN acc.rest : acc.rest[j] \in P => j = i
        BY <2>10 DEF OneOf
      <4>2. i \in DOMAIN spare /\ spare[i] \in Q
        BY <1>6, <1>8, <1>9, <2>2, <4>1
      <4>3. \A j \in DOMAIN spare : spare[j] \in Q => j = i
        BY <1>6, <1>8, <1>9, <2>2, <4>1
      <4> QED
        BY <4>2, <4>3 DEF OneOf
    <3>2. \A w \in final : of(w) \notin Q
      BY <2>4, <2>10 DEF NoneOf
    <3>3. 1 \in 1 .. Len(saved) /\ Head(windows) = saved[1] /\ windows # <<>>
      <4>1. PICK w : w \in ToSet(windows)
        BY <1>1, <1>14
      <4>2. Len(windows) # 0 /\ Len(windows) \in Nat
        BY <1>1, <4>1, Members
      <4> QED
        BY <1>1, <2>1, <4>2
    <3>4. OneOf(Q, row(1))
      <4> DEFINE a == <<of(saved[1])>>
                 b == extras(saved[1])
      <4>1. a \in Seq(Y) /\ b \in Seq(Y) /\ row(1) = a \o b
        BY <1>2, <2>6, <3>3
      <4>2. b = spare
        BY <3>3
      <4>3. NoneOf(Q, a)
        BY <1>2, <2>5, <2>7, <3>2, <3>3
      <4> HIDE DEF a, b
      <4>4. OneOf(Q, a \o b)
        BY <3>1, <4>1, <4>2, <4>3, ConcatOf
      <4> QED
        BY <4>1, <4>4
    <3>5. ASSUME NEW i \in 1 .. Len(saved), i # 1 PROVE NoneOf(Q, row(i))
      <4> DEFINE a == <<of(saved[i])>>
                 b == extras(saved[i])
      <4>1. a \in Seq(Y) /\ b \in Seq(Y) /\ row(i) = a \o b
        BY <1>2, <2>6
      <4>2. saved[i] # Head(windows)
        BY <1>2, <3>3, <3>5
      <4>3. b = <<>> /\ NoneOf(Q, <<>>)
        BY <4>2 DEF NoneOf
      <4>4. NoneOf(Q, a)
        BY <1>2, <2>5, <2>7, <3>2
      <4> HIDE DEF a, b
      <4>5. NoneOf(Q, a \o b)
        BY <4>1, <4>3, <4>4, ConcatOf
      <4> QED
        BY <4>1, <4>5
    <3>6. Only(1)
      BY <3>5
    <3> HIDE DEF Only
    <3> QED
      BY <2>9, <3>3, <3>4, <3>6 DEF Q
  <2> QED
    BY <2>1, <2>8, <2>10 DEF Held, Q
<1> QED
  BY <1>3, <1>13, <1>14 DEF Y, R
-----------------------------------------------------------------------------
(* What is saved of the windows, typed. *)

AnyFinding ==
  [tab : Pids, kind : {"claude", "nodecode", "declared", "unknown", "shell", "command"},
   session : Sessions \cup {Fresh, None}, runs : Words \cup {None}, by : Nat \X Nat]

SlotsTyped == cap.slots \in Seq(Slots(AnyFinding))

LEMMA SaveSlots ==
  ASSUME CapTyped, Save
  PROVE  SlotsTyped'
<1>1. PICK titles \in [cap.final -> Sessions \cup {None}] :
        cap' = [NoCapture EXCEPT
                 !.pc = "saved", !.calm = cap.calm, !.stayed = cap.stayed, !.agents = cap.agents,
                 !.coherent = cap.first = cap.final,
                 !.slots = SavedSlots(cap.first, cap.final, cap.found, titles)]
  BY DEF Save
<1> DEFINE slots == SavedSlots(cap.first, cap.final, cap.found, titles)
           found == cap.found
           F == Finding(cap.inv)
<1>2. cap'.slots = slots
  BY <1>1 DEF NoCapture
<1>3. found \in Seq(F) /\ F \subseteq AnyFinding
  BY DEF CapTyped, IsMap, Finding, Tops, AnyFinding
<1> HIDE DEF found, F
<1>4. found \in Seq(AnyFinding)
  BY <1>3
<1>5. slots \in Seq(Slots(AnyFinding))
  BY <1>4, SavedSlotsAre DEF found
<1> HIDE DEF slots
<1> QED
  BY <1>2, <1>5 DEF SlotsTyped

LEMMA SpecSlots == Spec => []SlotsTyped
<1>1. Init => SlotsTyped
  BY DEF Init, NoCapture, SlotsTyped
<1>2. CapTyped /\ SlotsTyped /\ [Next]_vars => SlotsTyped'
  <2> SUFFICES ASSUME CapTyped, SlotsTyped, [Next]_vars PROVE SlotsTyped'
    OBVIOUS
  <2>1. CASE Save
    BY <2>1, SaveSlots
  <2>2. CASE World
    BY <2>2, WorldUndisturbed DEF Undisturbed, SlotsTyped
  <2>3. CASE Begin \/ Scan \/ ReadWindowsAgain \/ ReadRecords \/ ReadJob \/ ChooseLeaf \/ ReadCommand
    <3>1. cap'.slots = cap.slots
      BY <2>3, FieldsAre DEF Begin, Scan, ReadWindowsAgain, ReadRecords, ReadJob, ChooseLeaf,
         ReadCommand, Found
    <3> QED
      BY <3>1 DEF SlotsTyped
  <2>4. CASE UNCHANGED vars
    BY <2>4 DEF vars, SlotsTyped
  <2> QED
    BY <2>1, <2>2, <2>3, <2>4 DEF Next, Capture
<1> QED
  BY <1>1, <1>2, SpecCapTyped, PTL DEF Spec

-----------------------------------------------------------------------------
(* The agents that run when the capture begins. *)

\* A finding is not the command line of one of these agents.
Sparing(agents) == {s \in AnyFinding : s.kind = "command" /\ s.runs # None => s.by \notin agents}

TreeNow == Tree(Head(cap.todo), cap.inv)

\* An agent that runs when the capture begins is one as long as it lives, and is one in the
\* inventory; and a tab whose command is read has none.
AgentsKnown ==
  \A p \in Pids, b \in Nat : <<p, b>> \in cap.agents =>
    /\ b <= starts
    /\ p \in DOMAIN proc /\ proc[p].born = b =>
         /\ proc[p].comm \in Agents
         /\ p \in DOMAIN cap.inv => cap.inv[p].comm \in Agents

Spares ==
  /\ cap.pc = "idle" => DOMAIN cap.inv = {}
  /\ cap.pc # "idle" => AgentsKnown
  /\ cap.pc \in {"job", "leaf", "command"} => ~AgentIn(TreeNow, cap.inv)
  /\ cap.pc = "leaf" => cap.job.leader \in {0} \cup ToSet(TreeNow)
  /\ cap.pc = "command" => cap.leaf \in ToSet(TreeNow)
  /\ cap.found \in Seq(Sparing(cap.agents))
  /\ cap.pc = "saved" => cap.slots \in Seq(Slots(Sparing(cap.agents)))

\* A process lives on as the program it was, unless it was a shell; or it is new.
LEMMA WorldGoesOn ==
  ASSUME WorldInv, World
  PROVE  /\ starts \in Nat /\ starts' \in Nat /\ starts <= starts'
         /\ \A p \in DOMAIN proc' :
              \/ /\ p \in DOMAIN proc /\ proc'[p].born = proc[p].born
                 /\ proc'[p].comm = proc[p].comm \/ proc[p].comm \in Shells
              \/ proc'[p].born > starts
<1>1. starts \in Nat /\ \A p \in DOMAIN proc : proc[p] \in Process
  BY DEF WorldInv, WorldTyped, IsMap
<1>2. ASSUME NEW p \in Pids, NEW parent \in {Ghostty} \cup Pids, NEW c \in Commands,
             NEW group \in Pids, Starts(p, parent, c, group)
      PROVE  /\ starts <= starts' /\ starts' \in Nat
             /\ \A q \in DOMAIN proc' : \/ q \in DOMAIN proc /\ proc'[q] = proc[q]
                                        \/ proc'[q].born > starts
  <2>1. /\ starts' = starts + 1 /\ DOMAIN proc' = DOMAIN proc \cup {p}
        /\ \A q \in DOMAIN proc : proc'[q] = proc[q]
        /\ proc'[p].born = starts + 1
    BY <1>2, StartsKeeps
  <2> QED
    BY <1>1, <2>1
<1>3. CASE \E p \in Pids : OpenTab(p)
  <2>1. PICK p \in Pids, c \in TabCommands : Starts(p, Ghostty, c, p)
    BY <1>3 DEF OpenTab
  <2>2. c \in Commands
    BY DEF TabCommands, Commands
  <2> QED
    BY <1>1, <1>2, <2>1, <2>2
<1>4. CASE \E q \in DOMAIN proc, p \in Pids : Fork(q, p)
  <2>0. PICK q \in DOMAIN proc, p \in Pids : Fork(q, p)
    BY <1>4
  <2>1. PICK c \in Commands, g \in {p, proc[q].group} :
          Starts(p, q, c, g)
    BY <2>0 DEF Fork
  <2>2. q \in Pids /\ g \in Pids
    BY <1>1, <2>1 DEF WorldInv, WorldTyped, IsMap, Process
  <2> QED
    BY <1>1, <1>2, <2>1, <2>2
<1>5. CASE \E p \in DOMAIN proc : Exec(p)
  <2>1. PICK p \in DOMAIN proc, c \in Commands :
          /\ proc[p].comm \in Shells /\ starts' = starts
          /\ proc' = [proc EXCEPT ![p].comm = c[1], ![p].word = c[2], ![p].argued = c[3],
                                  ![p].session = None]
    BY <1>5 DEF Exec
  <2>2. /\ DOMAIN proc' = DOMAIN proc
        /\ \A q \in DOMAIN proc : proc'[q].born = proc[q].born /\ (q # p => proc'[q] = proc[q])
    BY <1>1, <2>1 DEF Process
  <2> QED
    BY <1>1, <2>1, <2>2
<1>6. CASE \E p \in DOMAIN proc, s \in Sessions : Announce(p, s)
  <2>1. PICK p \in DOMAIN proc, s \in Sessions :
          starts' = starts /\ proc' = [proc EXCEPT ![p].session = s]
    BY <1>6 DEF Announce
  <2>2. /\ DOMAIN proc' = DOMAIN proc
        /\ \A q \in DOMAIN proc : proc'[q].born = proc[q].born /\ proc'[q].comm = proc[q].comm
    BY <1>1, <2>1 DEF Process
  <2> QED
    BY <1>1, <2>1, <2>2
<1>7. CASE \E p \in DOMAIN proc : End(p)
  <2>1. PICK p \in DOMAIN proc :
          /\ starts' = starts
          /\ proc' = [q \in DOMAIN proc \ {p} |->
                        IF proc[q].parent = p THEN [proc[q] EXCEPT !.parent = Orphaned] ELSE proc[q]]
    BY <1>7 DEF End
  <2>2. /\ DOMAIN proc' \subseteq DOMAIN proc
        /\ \A q \in DOMAIN proc' : proc'[q].born = proc[q].born /\ proc'[q].comm = proc[q].comm
    BY <1>1, <2>1 DEF Process
  <2> QED
    BY <1>1, <2>1, <2>2
<1>8. CASE proc' = proc /\ starts' = starts
  BY <1>1, <1>8
<1> QED
  BY <1>3, <1>4, <1>5, <1>6, <1>7, <1>8
     DEF World, SwitchJob, Declare, Clear, HookRuns, HookFinds, HookLooks, HookPins, HookDeclares,
         HookFails, HookGoesOn, HookEnds

LEMMA WorldSpares ==
  ASSUME WorldInv, CapTyped, Spares, World
  PROVE  Spares'
<1>1. Undisturbed
  BY WorldUndisturbed
<1>2. cap.pc # "idle" => AgentsKnown'
  <2> SUFFICES ASSUME AgentsKnown, NEW p \in Pids, NEW b \in Nat, <<p, b>> \in cap.agents
               PROVE  /\ b <= starts'
                      /\ p \in DOMAIN proc' /\ proc'[p].born = b =>
                           /\ proc'[p].comm \in Agents
                           /\ p \in DOMAIN cap.inv => cap.inv[p].comm \in Agents
    BY <1>1 DEF AgentsKnown, Undisturbed, Spares
  <2>1. /\ b <= starts
        /\ p \in DOMAIN proc /\ proc[p].born = b =>
             /\ proc[p].comm \in Agents
             /\ p \in DOMAIN cap.inv => cap.inv[p].comm \in Agents
    BY DEF AgentsKnown
  <2>2. /\ starts \in Nat /\ starts <= starts' /\ starts' \in Nat
        /\ p \in DOMAIN proc' =>
             \/ /\ p \in DOMAIN proc /\ proc'[p].born = proc[p].born
                /\ proc'[p].comm = proc[p].comm \/ proc[p].comm \in Shells
             \/ proc'[p].born > starts
    BY WorldGoesOn
  <2>3. Shells \cap Agents = {}
    BY DEF Shells, Agents
  <2> QED
    BY <2>1, <2>2, <2>3
<1> QED
  BY <1>1, <1>2 DEF Spares, Undisturbed, TreeNow, AgentIn


LEMMA BeginSpares ==
  ASSUME WorldInv, CapTyped, Spares, Begin
  PROVE  Spares'
<1>1. /\ cap'.pc = "scan" /\ cap'.inv = cap.inv /\ cap'.found = cap.found
      /\ cap'.agents = RunningAgents /\ DOMAIN cap.inv = {}
      /\ proc' = proc /\ starts' = starts
  BY FieldsAre DEF Begin, Reads, Spares
<1>2. cap.found = <<>>
  BY DEF Begin, CapTyped
<1>3. \A X : <<>> \in Seq(X)
  OBVIOUS
<1>4. ASSUME NEW p \in Pids, NEW b \in Nat, <<p, b>> \in RunningAgents
      PROVE  p \in DOMAIN proc /\ proc[p].born = b /\ proc[p].comm \in Agents /\ b <= starts
  BY <1>4 DEF RunningAgents, WorldInv, Dated
<1>5. AgentsKnown'
  BY <1>1, <1>4 DEF AgentsKnown
<1> QED
  BY <1>1, <1>2, <1>3, <1>5 DEF Spares

LEMMA ScanSpares ==
  ASSUME WorldInv, CapTyped, Spares, Scan
  PROVE  Spares'
<1>1. /\ cap'.pc = "scan" /\ cap'.found = cap.found
      /\ \A p \in DOMAIN cap'.inv : p # cap.next => p \in DOMAIN cap.inv
      /\ \A p \in DOMAIN cap.inv : p # cap.next => p \in DOMAIN cap'.inv /\ cap'.inv[p] = cap.inv[p]
      /\ cap.next \in DOMAIN proc =>
           cap.next \in DOMAIN cap'.inv /\ cap'.inv[cap.next] = Entry(cap.next)
      /\ cap.next \notin DOMAIN proc => cap'.inv = cap.inv
  BY ScanEffect DEF WorldInv
<1>2. cap'.agents = cap.agents /\ proc' = proc /\ starts' = starts /\ cap.pc = "scan"
  BY FieldsAre DEF Scan, Reads
<1>3. ASSUME NEW p \in Pids, NEW b \in Nat, <<p, b>> \in cap.agents
      PROVE  /\ b <= starts
             /\ p \in DOMAIN proc /\ proc[p].born = b =>
                  /\ proc[p].comm \in Agents
                  /\ p \in DOMAIN cap'.inv => cap'.inv[p].comm \in Agents
  <2>1. /\ b <= starts
        /\ p \in DOMAIN proc /\ proc[p].born = b =>
             /\ proc[p].comm \in Agents
             /\ p \in DOMAIN cap.inv => cap.inv[p].comm \in Agents
    BY <1>2, <1>3 DEF Spares, AgentsKnown
  <2>2. CASE p # cap.next
    BY <1>1, <2>1, <2>2
  <2>3. CASE p = cap.next
    BY <1>1, <2>1, <2>3 DEF Entry
  <2> QED
    BY <2>2, <2>3
<1>4. AgentsKnown'
  BY <1>2, <1>3 DEF AgentsKnown
<1> QED
  BY <1>1, <1>2, <1>4 DEF Spares

LEMMA WindowsSpares ==
  ASSUME CapTyped, Spares, ReadWindowsAgain
  PROVE  Spares'
<1>1. /\ cap'.pc = "records" /\ cap'.inv = cap.inv /\ cap'.found = cap.found
      /\ cap'.agents = cap.agents /\ proc' = proc /\ starts' = starts /\ cap.pc = "scan"
  BY FieldsAre DEF ReadWindowsAgain, Reads
<1> QED
  BY <1>1 DEF Spares, AgentsKnown

\* What is found of a tab is the command line of none of them.
LEMMA FoundSpares ==
  ASSUME CapTyped, Spares, cap.pc # "idle", NEW s \in Sparing(cap.agents), cap' = Found(s),
         UNCHANGED <<proc, starts>>
  PROVE  Spares'
<1>1. /\ cap'.pc = "records" /\ cap'.inv = cap.inv /\ cap'.found = Append(cap.found, s)
      /\ cap'.agents = cap.agents /\ proc' = proc /\ starts' = starts
  BY FoundEffect
<1>2. cap'.found \in Seq(Sparing(cap.agents))
  <2> DEFINE F == Sparing(cap.agents)
             f == cap.found
  <2>1. f \in Seq(F) /\ s \in F
    BY DEF Spares
  <2> HIDE DEF F, f
  <2>2. Append(f, s) \in Seq(F)
    BY <2>1
  <2> QED
    BY <1>1, <2>2 DEF F, f
<1> QED
  BY <1>1, <1>2 DEF Spares, AgentsKnown

LEMMA FindingAny ==
  ASSUME CapTyped
  PROVE  Finding(cap.inv) \subseteq AnyFinding
  BY DEF CapTyped, IsMap, Finding, Tops, AnyFinding

LEMMA RecordsSpares ==
  ASSUME WorldInv, CapTyped, Spares, ReadRecords
  PROVE  Spares'
<1>1. cap.pc = "records" /\ proc' = proc /\ starts' = starts
  BY DEF ReadRecords, Reads
<1>2. CASE \E s \in Finding(cap.inv) : cap' = Found(s) /\ s.kind \notin {"shell", "command"}
  <2>1. PICK s \in Finding(cap.inv) : cap' = Found(s) /\ s.kind \notin {"shell", "command"}
    BY <1>2
  <2>2. s \in Sparing(cap.agents)
    BY <2>1, FindingAny DEF Sparing
  <2> QED
    BY <1>1, <2>1, <2>2, FoundSpares
<1>3. CASE ~ \E s \in Finding(cap.inv) : cap' = Found(s) /\ s.kind \notin {"shell", "command"}
  <2>1. cap' = [cap EXCEPT !.pc = "job"]
    BY <1>3, RecordsFind DEF WorldInv
  <2>2. /\ cap'.pc = "job" /\ cap'.inv = cap.inv /\ cap'.found = cap.found /\ cap'.todo = cap.todo
        /\ cap'.agents = cap.agents
    BY <2>1, FieldsAre
  <2>3. ~AgentIn(TreeNow, cap.inv)
    <3>1. SUFFICES ASSUME AgentIn(TreeNow, cap.inv) PROVE FALSE
      OBVIOUS
    <3> DEFINE s == IF AnnouncedBy(TreeNow, cap.inv) # 0 THEN Announced(Head(cap.todo), TreeNow, cap.inv)
                    ELSE Unknown(Head(cap.todo))
    <3>2. cap' = Found(s)
      BY <3>1 DEF ReadRecords, TreeNow
    <3> HIDE DEF s
    <3>3. cap'.pc = "records"
      BY <3>2, FoundEffect
    <3> QED
      BY <2>2, <3>3
  <2> QED
    BY <1>1, <2>2, <2>3 DEF Spares, AgentsKnown, TreeNow, AgentIn
<1> QED
  BY <1>2, <1>3

LEMMA JobSpares ==
  ASSUME CapTyped, Spares, ReadJob
  PROVE  Spares'
<1> DEFINE job == ForegroundJob(Head(cap.todo), TreeNow, cap.inv)
<1>1. /\ cap'.pc = "leaf" /\ cap'.inv = cap.inv /\ cap'.found = cap.found /\ cap'.todo = cap.todo
      /\ cap'.agents = cap.agents /\ cap'.job = job /\ proc' = proc /\ starts' = starts
      /\ cap.pc = "job"
  BY FieldsAre DEF ReadJob, Reads, TreeNow
<1>2. job.leader \in {0} \cup ToSet(TreeNow)
  BY DEF ForegroundJob
<1> HIDE DEF job
<1> QED
  BY <1>1, <1>2 DEF Spares, AgentsKnown, TreeNow, AgentIn

\* The leaf of a tab is a process of its tree.
LEMMA LeafInTree ==
  ASSUME CapTyped, cap.pc = "leaf", cap.job.leader \in {0} \cup ToSet(TreeNow),
         Leaf(cap.job, TreeNow, cap.inv) # 0
  PROVE  Leaf(cap.job, TreeNow, cap.inv) \in ToSet(TreeNow)
<1> DEFINE tree == TreeNow
           inv == cap.inv
           job == cap.job
           I == {i \in 1 .. Len(tree) : /\ tree[i] \in job.pool
                                        /\ \A c \in job.pool : inv[c].parent # tree[i]
                                        /\ inv[tree[i]].comm \notin Shells}
           leaf == Leaf(job, tree, inv)
           first == IF I # {} THEN Min(I) ELSE 0
<1>1. Head(cap.todo) \in DOMAIN inv /\ DOMAIN inv \subseteq Pids
  BY DEF CapTyped, Tops, IsMap
<1>2. tree \in Seq(DOMAIN inv)
  BY <1>1, TreeInside DEF CapTyped, IsMap, TreeNow
<1>3. leaf = IF job.leader # 0 /\ ~InteractiveShell(job.leader, inv) THEN job.leader
             ELSE IF first = 0 THEN 0 ELSE tree[first]
  BY DEF Leaf, SelectInSeq
<1>4. first # 0 => first \in 1 .. Len(tree)
  <2>1. I \in SUBSET (1 .. Len(tree)) /\ Len(tree) \in Nat
    BY <1>2
  <2> HIDE DEF I
  <2> QED
    BY <2>1, Least
<1>5. leaf # 0
  OBVIOUS
<1> HIDE DEF first, leaf, tree
<1>6. \A i \in 1 .. Len(tree) : tree[i] \in ToSet(tree)
  BY <1>2, Members
<1>7. leaf \in ToSet(tree)
  BY <1>3, <1>4, <1>5, <1>6 DEF tree
<1> QED
  BY <1>7 DEF leaf, tree

LEMMA LeafSpares ==
  ASSUME CapTyped, Spares, ChooseLeaf
  PROVE  Spares'
<1> DEFINE leaf == Leaf(cap.job, TreeNow, cap.inv)
           s == Session(Head(cap.todo), "shell", None, None, <<0, 0>>)
<1>1. cap.pc = "leaf" /\ proc' = proc /\ starts' = starts /\ Head(cap.todo) \in Tops(cap.inv)
  BY DEF ChooseLeaf, Reads, CapTyped
<1>2. CASE leaf = 0
  <2>1. s \in Finding(cap.inv) /\ s.kind = "shell"
    BY <1>1 DEF Session, Finding
  <2>2. cap' = Found(s)
    BY <1>2 DEF ChooseLeaf, TreeNow
  <2> HIDE DEF s
  <2>3. s \in Sparing(cap.agents)
    BY <2>1, FindingAny DEF Sparing
  <2> QED
    BY <1>1, <2>2, <2>3, FoundSpares
<1>3. CASE leaf # 0
  <2>1. leaf \in ToSet(TreeNow)
    BY <1>1, <1>3, LeafInTree DEF Spares
  <2>2. cap' = [cap EXCEPT !.pc = "command", !.leaf = leaf]
    BY <1>3 DEF ChooseLeaf, TreeNow
  <2> HIDE DEF leaf
  <2>3. /\ cap'.pc = "command" /\ cap'.inv = cap.inv /\ cap'.found = cap.found
        /\ cap'.todo = cap.todo /\ cap'.agents = cap.agents /\ cap'.leaf = leaf
    BY <2>2, FieldsAre
  <2> QED
    BY <1>1, <2>1, <2>3 DEF Spares, AgentsKnown, TreeNow, AgentIn
<1> QED
  BY <1>2, <1>3

LEMMA CommandSpares ==
  ASSUME WorldInv, CapTyped, Spares, ReadCommand
  PROVE  Spares'
<1> DEFINE p == cap.leaf
           s == CommandOf(p)
<1>1. /\ cap.pc = "command" /\ proc' = proc /\ starts' = starts /\ cap' = Found(s)
      /\ s \in AnyFinding
  BY CommandIs, FindingAny DEF ReadCommand, Reads, WorldInv
<1>2. p \in DOMAIN cap.inv /\ p \in Pids /\ p \in ToSet(TreeNow) /\ ~AgentIn(TreeNow, cap.inv)
  BY <1>1 DEF CapTyped, IsMap, Spares
<1>3. s \in Sparing(cap.agents)
  <2>1. CASE p \in DOMAIN proc
    <3>1. s.by = <<p, proc[p].born>> /\ proc[p].born \in Nat
      BY <2>1 DEF CommandOf, Session, WorldInv, WorldTyped, IsMap, Process
    <3>2. s.by \notin cap.agents
      <4>1. SUFFICES ASSUME s.by \in cap.agents PROVE FALSE
        OBVIOUS
      <4>2. cap.inv[p].comm \in Agents
        BY <1>1, <1>2, <2>1, <3>1, <4>1 DEF Spares, AgentsKnown
      <4> QED
        BY <1>2, <4>2 DEF AgentIn
    <3> HIDE DEF s
    <3> QED
      BY <1>1, <3>2 DEF Sparing
  <2>2. CASE p \notin DOMAIN proc
    <3>1. s.runs = None
      BY <2>2 DEF CommandOf, Session
    <3> HIDE DEF s
    <3> QED
      BY <1>1, <3>1 DEF Sparing
  <2> QED
    BY <2>1, <2>2
<1> HIDE DEF s
<1> QED
  BY <1>1, <1>3, FoundSpares

LEMMA SaveSpares ==
  ASSUME CapTyped, Spares, Save
  PROVE  Spares'
<1>1. PICK titles \in [cap.final -> Sessions \cup {None}] :
        cap' = [NoCapture EXCEPT
                 !.pc = "saved", !.calm = cap.calm, !.stayed = cap.stayed, !.agents = cap.agents,
                 !.coherent = cap.first = cap.final,
                 !.slots = SavedSlots(cap.first, cap.final, cap.found, titles)]
  BY DEF Save
<1> DEFINE slots == SavedSlots(cap.first, cap.final, cap.found, titles)
           found == cap.found
           F == Sparing(cap.agents)
<1>2. /\ cap'.slots = slots /\ cap'.pc = "saved" /\ cap'.inv = <<>> /\ cap'.found = <<>>
      /\ cap'.agents = cap.agents
  BY <1>1 DEF NoCapture
<1>3. cap.pc = "records" /\ proc' = proc /\ starts' = starts
  BY DEF Save, Reads
<1>4. found \in Seq(F) /\ \A X : <<>> \in Seq(X)
  BY DEF Spares
<1> HIDE DEF found, F
<1>5. slots \in Seq(Slots(F))
  BY <1>4, SavedSlotsAre DEF found
<1> HIDE DEF slots
<1>6. cap'.slots \in Seq(Slots(Sparing(cap'.agents))) /\ cap'.found \in Seq(Sparing(cap'.agents))
  BY <1>2, <1>4, <1>5 DEF F
<1>7. AgentsKnown'
  <2>1. AgentsKnown /\ \A p : p \notin DOMAIN cap'.inv
    BY <1>2, <1>3 DEF Spares
  <2> QED
    BY <1>2, <1>3, <2>1 DEF AgentsKnown
<1> QED
  BY <1>2, <1>6, <1>7 DEF Spares

\* launch.terminal_sessions: an agent that runs when the capture begins is never saved as a
\* command, whatever the processes do while it reads.
THEOREM SpecSparesAgents == Spec => []RunningAgentsNotReplayed
<1>1. Init => Spares
  <2> SUFFICES ASSUME Init PROVE Spares
    OBVIOUS
  <2>1. cap.pc = "idle" /\ cap.inv = <<>> /\ cap.found = <<>>
    BY DEF Init, NoCapture
  <2>2. \A X : <<>> \in Seq(X)
    OBVIOUS
  <2> QED
    BY <2>1, <2>2 DEF Spares
<1>2. WorldInv /\ CapTyped /\ Spares /\ [Next]_vars => Spares'
  <2> SUFFICES ASSUME WorldInv, CapTyped, Spares, [Next]_vars PROVE Spares'
    OBVIOUS
  <2>1. CASE Capture
    BY <2>1, BeginSpares, ScanSpares, WindowsSpares, RecordsSpares, JobSpares, LeafSpares,
       CommandSpares, SaveSpares DEF Capture
  <2>2. CASE World
    BY <2>2, WorldSpares
  <2>3. CASE UNCHANGED vars
    BY <2>3 DEF vars, Spares, AgentsKnown, TreeNow, AgentIn
  <2> QED
    BY <2>1, <2>2, <2>3 DEF Next
<1>3. Spares => RunningAgentsNotReplayed
  <2> SUFFICES ASSUME Spares, cap.pc = "saved", NEW s \in ToSet(cap.slots),
                      s.kind = "command", s.runs # None
               PROVE  s.by \notin cap.agents
    BY DEF RunningAgentsNotReplayed
  <2> DEFINE Y == Slots(Sparing(cap.agents))
             slots == cap.slots
  <2>1. slots \in Seq(Y) /\ s \in ToSet(slots)
    BY DEF Spares
  <2> HIDE DEF Y, slots
  <2>2. s \in Y
    BY <2>1, Members
  <2>3. s # NoRecipe /\ s # BareShell
    BY DEF NoRecipe, BareShell, Slot
  <2>4. PICK f \in Sparing(cap.agents) : s = TerminalRecipe(f)
    BY <2>2, <2>3 DEF Y, Slots
  <2>5. f.kind = "command" /\ s.runs = f.runs /\ s.by = f.by
    <3>1. CASE f.kind \in {"shell", "command"}
      BY <2>4, <3>1 DEF TerminalRecipe, Slot
    <3>2. CASE f.kind \notin {"shell", "command"}
      BY <2>4, <3>2 DEF TerminalRecipe, NoRecipe, Slot
    <3> QED
      BY <3>1, <3>2
  <2> QED
    BY <2>4, <2>5 DEF Sparing
<1> QED
  BY <1>1, <1>2, <1>3, SpecWorld, SpecCapTyped, PTL DEF Spec
-----------------------------------------------------------------------------
(* The tabs that live through the capture. *)

Finders(t) == {s \in AnyFinding : s.tab = t}
Savers(t) == {s \in Slots(AnyFinding) : s.tab = t}

\* A tab is still to be read, or has been found, once.
OnceSeen(t) ==
  \/ OneOf({t}, cap.todo) /\ NoneOf(Finders(t), cap.found)
  \/ NoneOf({t}, cap.todo) /\ OneOf(Finders(t), cap.found)

Lives ==
  /\ cap.stayed \subseteq DOMAIN tab
  /\ cap.pc = "idle" => cap.next = 1
  /\ cap.pc = "scan" => \A t \in cap.stayed : t < cap.next => t \in Tops(cap.inv)
  /\ cap.pc \in {"records", "job", "leaf", "command"} =>
       \A t \in cap.stayed : OnceSeen(t) /\ cap.final # {}
  /\ cap.pc = "saved" /\ cap.coherent => \A t \in cap.stayed : OneOf(Savers(t), cap.slots)

LEMMA AppendOf ==
  ASSUME NEW Y, NEW s \in Seq(Y), NEW y \in Y, NEW P
  PROVE  /\ NoneOf(P, s) /\ y \notin P => NoneOf(P, Append(s, y))
         /\ NoneOf(P, s) /\ y \in P => OneOf(P, Append(s, y))
         /\ OneOf(P, s) /\ y \notin P => OneOf(P, Append(s, y))
<1> DEFINE a == Append(s, y)
<1>1. /\ DOMAIN s = 1 .. Len(s) /\ Len(s) \in Nat /\ DOMAIN a = 1 .. Len(s) + 1
      /\ a[Len(s) + 1] = y /\ \A i \in 1 .. Len(s) : a[i] = s[i]
  BY AppendProperties, Members
<1>2. \A i \in DOMAIN a : i \in DOMAIN s \/ i = Len(s) + 1
  BY <1>1
<1>3. \A i \in DOMAIN s : i \in DOMAIN a /\ i # Len(s) + 1
  BY <1>1
<1> HIDE DEF a
<1>4. NoneOf(P, s) /\ y \notin P => NoneOf(P, a)
  BY <1>1, <1>2, <1>3 DEF NoneOf
<1>5. NoneOf(P, s) /\ y \in P => OneOf(P, a)
  <2>1. Len(s) + 1 \in DOMAIN a
    BY <1>1
  <2> QED
    BY <1>1, <1>2, <1>3, <2>1 DEF NoneOf, OneOf
<1>6. OneOf(P, s) /\ y \notin P => OneOf(P, a)
  <2> SUFFICES ASSUME OneOf(P, s), y \notin P PROVE OneOf(P, a)
    OBVIOUS
  <2>1. PICK i \in DOMAIN s : s[i] \in P /\ \A j \in DOMAIN s : s[j] \in P => j = i
    BY DEF OneOf
  <2>2. i \in DOMAIN a /\ a[i] \in P
    BY <1>1, <1>3, <2>1
  <2>3. \A j \in DOMAIN a : a[j] \in P => j = i
    BY <1>1, <1>2, <2>1
  <2> QED
    BY <2>2, <2>3 DEF OneOf
<1> QED
  BY <1>4, <1>5, <1>6 DEF a

\* What a process does, the tabs that stayed are tabs.
LEMMA WorldStays ==
  ASSUME CapTyped, World, cap.stayed \subseteq DOMAIN tab
  PROVE  cap'.stayed \subseteq cap.stayed /\ cap'.stayed \subseteq DOMAIN tab'
<1>1. ASSUME NEW p \in Pids, OpenTab(p)
      PROVE  cap'.stayed \subseteq cap.stayed /\ cap'.stayed \subseteq DOMAIN tab'
  <2>1. cap'.stayed = cap.stayed \ {}
    BY <1>1, EventUndisturbed DEF OpenTab
  <2>2. DOMAIN tab \subseteq DOMAIN tab'
    BY <1>1 DEF OpenTab, With
  <2> QED
    BY <2>1, <2>2
<1>2. ASSUME NEW p, HookRuns(p)
      PROVE  cap'.stayed \subseteq cap.stayed /\ cap'.stayed \subseteq DOMAIN tab'
  BY <1>2, FieldsAre DEF HookRuns, HookFinds, HookLooks, HookPins, HookDeclares, HookFails,
                         HookGoesOn, HookEnds
<1>3. ASSUME NEW p, End(p)
      PROVE  cap'.stayed \subseteq cap.stayed /\ cap'.stayed \subseteq DOMAIN tab'
  <2>1. cap'.stayed = cap.stayed \ {p}
    BY <1>3, EventUndisturbed DEF End
  <2>2. DOMAIN tab' = DOMAIN tab \ {p}
    BY <1>3 DEF End
  <2> QED
    BY <2>1, <2>2
<1>4. ASSUME Event({}), DOMAIN tab' = DOMAIN tab
      PROVE  cap'.stayed \subseteq cap.stayed /\ cap'.stayed \subseteq DOMAIN tab'
  <2>1. cap'.stayed = cap.stayed \ {}
    BY <1>4, EventUndisturbed
  <2> QED
    BY <1>4, <2>1
<1>5. ASSUME NEW p, NEW q, Fork(q, p) PROVE Event({}) /\ DOMAIN tab' = DOMAIN tab
  BY <1>5 DEF Fork
<1>6. ASSUME NEW p, Exec(p) PROVE Event({}) /\ DOMAIN tab' = DOMAIN tab
  BY <1>6 DEF Exec
<1>7. ASSUME NEW t, SwitchJob(t) PROVE Event({}) /\ DOMAIN tab' = DOMAIN tab
  BY <1>7 DEF SwitchJob
<1>8. ASSUME NEW p, NEW s, Announce(p, s) PROVE Event({}) /\ DOMAIN tab' = DOMAIN tab
  BY <1>8 DEF Announce
<1>9. ASSUME NEW p, Declare(p) \/ Clear(p) PROVE Event({}) /\ DOMAIN tab' = DOMAIN tab
  BY <1>9 DEF Declare, Clear
<1> QED
  BY <1>1, <1>2, <1>3, <1>4, <1>5, <1>6, <1>7, <1>8, <1>9 DEF World

LEMMA WorldLives ==
  ASSUME CapTyped, Lives, World, cap.pc # "saved"
  PROVE  Lives'
<1>1. Undisturbed /\ cap'.stayed \subseteq cap.stayed /\ cap'.stayed \subseteq DOMAIN tab'
  BY WorldUndisturbed, WorldStays DEF Lives
<1> QED
  BY <1>1 DEF Lives, Undisturbed, OnceSeen

\* A finding of the tab that is read.
LEMMA FoundLives ==
  ASSUME CapTyped, Lives, cap.pc \in {"records", "job", "leaf", "command"}, cap.todo # <<>>,
         NEW s \in Finding(cap.inv), s.tab = Head(cap.todo), cap' = Found(s), UNCHANGED tab
  PROVE  Lives'
<1>1. /\ cap'.pc = "records" /\ cap'.todo = Tail(cap.todo) /\ cap'.found = Append(cap.found, s)
      /\ cap'.final = cap.final /\ cap'.stayed = cap.stayed
  BY FoundEffect
<1> DEFINE T == Tops(cap.inv)
           todo == cap.todo
           found == cap.found
           r == Tail(todo)
           a == Append(found, s)
<1>2. /\ todo \in Seq(T) /\ found \in Seq(Finding(cap.inv)) /\ todo # <<>>
      /\ s \in AnyFinding /\ Finding(cap.inv) \subseteq AnyFinding /\ s.tab = Head(todo)
  BY DEF CapTyped, IsMap, Finding, Tops, AnyFinding
<1>3. cap'.todo = r /\ cap'.found = a
  BY <1>1
<1>4. ASSUME NEW t \in cap.stayed PROVE OnceSeen(t)'
  <2>1. OnceSeen(t)
    BY DEF Lives
  <2>2. \/ OneOf({t}, todo) /\ NoneOf(Finders(t), found)
        \/ NoneOf({t}, todo) /\ OneOf(Finders(t), found)
    BY <2>1 DEF OnceSeen
  <2>3. s \in Finders(t) <=> Head(todo) = t
    BY <1>2 DEF Finders
  <2> HIDE DEF T, todo, found
  <2>4. found \in Seq(AnyFinding)
    BY <1>2
  <2>5. /\ NoneOf({t}, todo) => NoneOf({t}, r)
        /\ OneOf({t}, todo) /\ todo[1] \in {t} => NoneOf({t}, r)
        /\ OneOf({t}, todo) /\ todo[1] \notin {t} => OneOf({t}, r)
    <3>1. 1 \in 1 .. Len(todo)
      BY <1>2
    <3>2. r = Tail(todo)
      OBVIOUS
    <3> HIDE DEF r
    <3> QED
      BY <1>2, <3>1, <3>2, RemovedOf
  <2>6. todo[1] = Head(todo) /\ 1 \in DOMAIN todo
    BY <1>2
  <2>7. NoneOf({t}, todo) => Head(todo) # t
    BY <2>6 DEF NoneOf
  <2>8. /\ NoneOf(Finders(t), found) /\ s \notin Finders(t) => NoneOf(Finders(t), a)
        /\ NoneOf(Finders(t), found) /\ s \in Finders(t) => OneOf(Finders(t), a)
        /\ OneOf(Finders(t), found) /\ s \notin Finders(t) => OneOf(Finders(t), a)
    BY <1>2, <2>4, AppendOf
  <2> HIDE DEF r, a
  <2>9. \/ OneOf({t}, r) /\ NoneOf(Finders(t), a)
        \/ NoneOf({t}, r) /\ OneOf(Finders(t), a)
    BY <2>2, <2>3, <2>5, <2>6, <2>7, <2>8
  <2> QED
    BY <1>3, <2>9 DEF OnceSeen, Finders
<1> QED
  BY <1>1, <1>4 DEF Lives

LEMMA ScanLives ==
  ASSUME WorldInv, CapTyped, Lives, Scan
  PROVE  Lives'
<1>1. /\ cap'.pc = "scan" /\ cap'.next = cap.next + 1 /\ cap'.stayed = cap.stayed
      /\ \A p \in DOMAIN cap.inv : p # cap.next => p \in DOMAIN cap'.inv /\ cap'.inv[p] = cap.inv[p]
      /\ cap.next \in DOMAIN proc =>
           cap.next \in DOMAIN cap'.inv /\ cap'.inv[cap.next] = Entry(cap.next)
  BY ScanEffect DEF WorldInv
<1>2. /\ cap.stayed \subseteq DOMAIN tab /\ UNCHANGED tab /\ cap.pc = "scan" /\ cap.next \in Nat
      /\ DOMAIN tab \subseteq Pids
  BY DEF Lives, Scan, Reads, CapTyped, WorldInv, WorldTyped, IsMap
<1>3. ASSUME NEW t \in cap.stayed, t < cap.next + 1 PROVE t \in Tops(cap'.inv)
  <2>1. t \in Nat
    BY <1>2 DEF Pids
  <2>2. CASE t = cap.next
    <3>1. t \in DOMAIN proc /\ proc[t].parent = Ghostty
      BY <1>2 DEF WorldInv, Rooted
    <3> QED
      BY <1>1, <2>2, <3>1 DEF Tops, Entry
  <2>3. CASE t # cap.next
    <3>1. t \in Tops(cap.inv)
      BY <1>2, <1>3, <2>1, <2>3 DEF Lives
    <3> QED
      BY <1>1, <2>3, <3>1 DEF Tops
  <2> QED
    BY <2>2, <2>3
<1> QED
  BY <1>1, <1>2, <1>3 DEF Lives

LEMMA WindowsLives ==
  ASSUME WorldInv, CapTyped, Lives, ReadWindowsAgain
  PROVE  Lives'
<1>1. /\ cap'.pc = "records" /\ cap'.final = Windows /\ cap'.stayed = cap.stayed
      /\ cap'.todo = (IF Windows = {} THEN <<>> ELSE Children(Ghostty, cap.inv))
      /\ cap'.found = cap.found /\ cap.found = <<>>
  BY FieldsAre DEF ReadWindowsAgain, CapTyped
<1>2. /\ cap.stayed \subseteq DOMAIN tab /\ UNCHANGED tab /\ cap.pc = "scan" /\ cap.next > MaxPid
      /\ cap.next \in Nat /\ DOMAIN tab \subseteq Pids
  BY DEF Lives, ReadWindowsAgain, Reads, CapTyped, WorldInv, WorldTyped, IsMap
<1> DEFINE tops == Children(Ghostty, cap.inv)
<1>3. /\ tops \in Seq(Tops(cap.inv)) /\ ToSet(tops) = Tops(cap.inv)
      /\ \A i, j \in DOMAIN tops : tops[i] = tops[j] => i = j
  BY TopsListed DEF CapTyped, IsMap
<1>4. ASSUME NEW t \in cap.stayed PROVE OnceSeen(t)' /\ Windows # {}
  <2>1. t \in Pids /\ t < cap.next
    BY <1>2, BoundsAssumption DEF Pids
  <2>2. t \in Tops(cap.inv)
    BY <1>2, <2>1 DEF Lives
  <2>3. Windows # {}
    BY <1>2 DEF Windows
  <2>4. cap'.todo = tops
    BY <1>1, <2>3
  <2> HIDE DEF tops
  <2>5. OneOf({t}, tops)
    <3>1. PICK i \in DOMAIN tops : tops[i] = t
      BY <1>3, <2>2, Members DEF ToSet
    <3> QED
      BY <1>3, <3>1 DEF OneOf
  <2>6. NoneOf(Finders(t), <<>>)
    BY DEF NoneOf
  <2> QED
    BY <1>1, <2>3, <2>4, <2>5, <2>6 DEF OnceSeen, Finders
<1> QED
  BY <1>1, <1>2, <1>4 DEF Lives

LEMMA SaveLives ==
  ASSUME WorldTyped, CapTyped, Lives, Save
  PROVE  Lives'
<1>1. PICK titles \in [cap.final -> Sessions \cup {None}] :
        cap' = [NoCapture EXCEPT
                 !.pc = "saved", !.calm = cap.calm, !.stayed = cap.stayed, !.agents = cap.agents,
                 !.coherent = cap.first = cap.final,
                 !.slots = SavedSlots(cap.first, cap.final, cap.found, titles)]
  BY DEF Save
<1> DEFINE slots == SavedSlots(cap.first, cap.final, cap.found, titles)
           found == cap.found
<1>2. /\ cap'.pc = "saved" /\ cap'.stayed = cap.stayed /\ cap'.slots = slots
      /\ cap'.coherent = (cap.first = cap.final)
  BY <1>1 DEF NoCapture
<1>3. /\ cap.pc = "records" /\ cap.todo = <<>> /\ UNCHANGED tab
      /\ cap.final \subseteq 1 .. MaxStarts /\ cap.stayed \subseteq DOMAIN tab
  BY DEF Save, Reads, CapTyped, Lives
<1>4. found \in Seq(AnyFinding)
  <2> DEFINE F == Finding(cap.inv)
  <2>1. found \in Seq(F) /\ F \subseteq AnyFinding
    BY DEF CapTyped, IsMap, Finding, Tops, AnyFinding
  <2> HIDE DEF found, F
  <2> QED
    BY <2>1
<1>5. ASSUME NEW t \in cap.stayed, cap.first = cap.final, t # 0 PROVE OneOf(Savers(t), slots)
  <2>1. OnceSeen(t) /\ cap.final # {}
    BY <1>3 DEF Lives
  <2>2. OneOf(Finders(t), found)
    BY <1>3, <2>1 DEF OnceSeen, OneOf
  <2>3. cap.final \cap 1 .. MaxPid + MaxStarts # {}
    BY <1>3, <2>1, BoundsAssumption
  <2> HIDE DEF found
  <2>4. OneOf({s \in AnyFinding : s.tab = t}, found)
    BY <2>2 DEF Finders
  <2>5. OneOf({s \in Slots(AnyFinding) : s.tab = t}, slots)
    BY <1>4, <1>5, <2>3, <2>4, SavedSlotsAre, ZenonT(40) DEF found
  <2> HIDE DEF slots
  <2> QED
    BY <2>5 DEF Savers
<1>6. \A t \in cap.stayed : t # 0
  BY <1>3 DEF WorldTyped, IsMap, Pids
<1> HIDE DEF slots
<1>7. cap.first = cap.final => \A t \in cap.stayed : OneOf(Savers(t), slots)
  BY <1>5, <1>6
<1>8. cap'.coherent => \A t \in cap.stayed : OneOf(Savers(t), slots)
  BY <1>2, <1>7
<1> QED
  BY <1>2, <1>3, <1>8 DEF Lives, Savers

LEMMA BeginLives ==
  ASSUME WorldInv, CapTyped, Lives, Begin
  PROVE  Lives'
<1>1. /\ cap'.pc = "scan" /\ cap'.next = cap.next /\ cap'.stayed = DOMAIN tab
      /\ cap.next = 1 /\ UNCHANGED tab
  BY FieldsAre DEF Begin, Reads, Lives
<1>2. \A t \in DOMAIN tab : ~(t < 1)
  BY DEF WorldInv, WorldTyped, IsMap, Pids
<1> QED
  BY <1>1, <1>2 DEF Lives

\* The tab that is read is found, or its reading goes on.
LEMMA LeafFind ==
  ASSUME CapTyped, ChooseLeaf
  PROVE  LET t == Head(cap.todo)
             s == Session(t, "shell", None, None, <<0, 0>>)
             leaf == Leaf(cap.job, Tree(t, cap.inv), cap.inv)
         IN  \/ leaf = 0 /\ s \in Finding(cap.inv) /\ s.tab = t /\ cap' = Found(s)
             \/ leaf # 0 /\ cap' = [cap EXCEPT !.pc = "command", !.leaf = leaf]
<1>1. Head(cap.todo) \in Tops(cap.inv)
  BY DEF ChooseLeaf, CapTyped
<1> QED
  BY <1>1 DEF ChooseLeaf, Session, Finding

\* A reading that goes on.
LEMMA GoesOnLives ==
  ASSUME Lives, cap.pc \in {"records", "job", "leaf"}, cap'.pc \in {"job", "leaf", "command"},
         cap'.stayed = cap.stayed, cap'.todo = cap.todo, cap'.found = cap.found,
         cap'.final = cap.final, UNCHANGED tab
  PROVE  Lives'
BY DEF Lives, OnceSeen

LEMMA RecordsLives ==
  ASSUME WorldTyped, CapTyped, Lives, ReadRecords
  PROVE  Lives'
<1>1. cap.pc = "records" /\ cap.todo # <<>> /\ UNCHANGED tab
  BY DEF ReadRecords, Reads
<1>2. CASE \E s \in Finding(cap.inv) : cap' = Found(s) /\ s.tab = Head(cap.todo)
  BY <1>1, <1>2, FoundLives
<1>3. CASE cap' = [cap EXCEPT !.pc = "job"]
  BY <1>1, <1>3, FieldsAre, GoesOnLives
<1> QED
  BY <1>2, <1>3, RecordsFind

LEMMA JobLives ==
  ASSUME CapTyped, Lives, ReadJob
  PROVE  Lives'
<1> DEFINE job == ForegroundJob(Head(cap.todo), Tree(Head(cap.todo), cap.inv), cap.inv)
<1>1. cap.pc = "job" /\ UNCHANGED tab /\ cap' = [cap EXCEPT !.pc = "leaf", !.job = job]
  BY DEF ReadJob, Reads
<1> HIDE DEF job
<1> QED
  BY <1>1, FieldsAre, GoesOnLives

LEMMA LeafLives ==
  ASSUME CapTyped, Lives, ChooseLeaf
  PROVE  Lives'
<1> DEFINE t == Head(cap.todo)
           leaf == Leaf(cap.job, Tree(t, cap.inv), cap.inv)
           s == Session(t, "shell", None, None, <<0, 0>>)
<1>1. cap.pc = "leaf" /\ cap.todo # <<>> /\ UNCHANGED tab
  BY DEF ChooseLeaf, Reads, CapTyped
<1>2. \/ s \in Finding(cap.inv) /\ s.tab = Head(cap.todo) /\ cap' = Found(s)
      \/ cap' = [cap EXCEPT !.pc = "command", !.leaf = leaf]
  BY LeafFind
<1> HIDE DEF leaf, s
<1>3. CASE s \in Finding(cap.inv) /\ s.tab = Head(cap.todo) /\ cap' = Found(s)
  BY <1>1, <1>3, FoundLives
<1>4. CASE cap' = [cap EXCEPT !.pc = "command", !.leaf = leaf]
  BY <1>1, <1>4, FieldsAre, GoesOnLives
<1> QED
  BY <1>2, <1>3, <1>4

LEMMA CommandLives ==
  ASSUME WorldTyped, CapTyped, Lives, ReadCommand
  PROVE  Lives'
<1>1. cap.pc = "command" /\ cap.todo # <<>> /\ UNCHANGED tab
  BY DEF ReadCommand, Reads, CapTyped
<1> QED
  BY <1>1, CommandIs, FoundLives

LEMMA OneHolder ==
  ASSUME NEW t, SlotsTyped, OneOf(Savers(t), cap.slots)
  PROVE  Cardinality(SlotsOf(t)) = 1
<1> DEFINE Y == Slots(AnyFinding)
           slots == cap.slots
<1>1. PICK i \in DOMAIN slots : /\ slots[i] \in Savers(t)
                                /\ \A j \in DOMAIN slots : slots[j] \in Savers(t) => j = i
  BY DEF OneOf
<1>2. slots \in Seq(Y)
  BY DEF SlotsTyped
<1> HIDE DEF Y
<1>3. \A j \in DOMAIN slots : slots[j] \in Y
  BY <1>2, Members
<1>4. \A j \in DOMAIN slots : slots[j] \in Savers(t) <=> slots[j].tab = t
  BY <1>3 DEF Savers, Y
<1>5. SlotsOf(t) = {i}
  BY <1>1, <1>4 DEF SlotsOf
<1> QED
  BY <1>5, FS_Singleton

\* probe.capture and launch.window_recipes: a capture whose two readings agree keeps every
\* tab that lived through it, in exactly one place.
THEOREM SpecKeepsEveryTab == Spec => []KeepsEveryTab
<1>1. Init => Lives
  BY DEF Init, NoCapture, Lives
<1>2. WorldInv /\ CapTyped /\ Lives /\ [Next]_vars => Lives'
  <2> SUFFICES ASSUME WorldInv, CapTyped, Lives, [Next]_vars PROVE Lives'
    OBVIOUS
  <2>1. WorldTyped
    BY DEF WorldInv
  <2>2. CASE Capture
    BY <2>1, <2>2, BeginLives, ScanLives, WindowsLives, RecordsLives, JobLives, LeafLives,
       CommandLives, SaveLives DEF Capture
  <2>3. CASE cap.pc # "saved" /\ World
    BY <2>3, WorldLives
  <2>4. CASE UNCHANGED vars
    BY <2>4 DEF vars, Lives, OnceSeen
  <2> QED
    BY <2>2, <2>3, <2>4 DEF Next
<1>3. Lives /\ SlotsTyped => KeepsEveryTab
  BY OneHolder DEF Lives, KeepsEveryTab
<1> QED
  BY <1>1, <1>2, <1>3, SpecWorld, SpecCapTyped, SpecSlots, PTL DEF Spec
-----------------------------------------------------------------------------
(* A capture that nothing disturbs. *)

FrontIn(t, table, tabs) == {p \in ToSet(Tree(t, table)) : table[p].group = tabs[t].front}
InFront(t) == FrontIn(t, proc, tab)

\* What the recipe or the finding of a tab says of its job is so.
SoundIn(s, table, tabs) ==
  s.tab # 0 =>
    LET front == FrontIn(s.tab, table, tabs)
    IN  /\ s.kind = "command" /\ front # {} => s.by[1] \in front
        /\ s.kind = "shell" =>
             ~\E p \in front : p = tabs[s.tab].front
                                /\ (table[p].comm \in Shells => table[p].argued)

\* So is the session that it names, but for what the records cannot tell.
PresentIn(s, table, records, hooks, failed) ==
  s.kind \notin {"unknown", "shell", "command"} =>
    LET p == s.by[1]
    IN  /\ p \in ToSet(Tree(s.tab, table))
        /\ \/ s.session \in {table[p].session, Fresh}
           \/ p \in DOMAIN records.registry /\ records.registry[p].born # table[p].born
           \/ /\ p \in DOMAIN records.declared
              /\ records.declared[p].born = table[p].born
              /\ records.declared[p].writer # table[p].born
           \/ table[p].born \in DOMAIN hooks \cup failed

Sound(s) == SoundIn(s, proc, tab) /\ PresentIn(s, proc, record, hook, unheard)

Unmoved == UNCHANGED <<proc, tab, record, hook, unheard>>

\* The inventory is the process table, up to a pid or as a whole.
SameUpTo(inv, n) ==
  /\ \A p \in DOMAIN inv : p < n /\ p \in DOMAIN proc /\ inv[p] = Entry(p)
  /\ \A p \in DOMAIN proc : p < n => p \in DOMAIN inv

Same(inv) == DOMAIN inv = DOMAIN proc /\ \A p \in DOMAIN inv : inv[p] = Entry(p)

Reading == cap.pc \in {"records", "job", "leaf", "command"}

JobOf(t, inv) == ForegroundJob(t, Tree(t, inv), inv)

Still ==
  /\ cap.pc = "idle" => cap.inv = <<>> /\ cap.next = 1
  /\ cap.calm =>
       /\ cap.pc # "idle"
       /\ cap.pc = "scan" => SameUpTo(cap.inv, cap.next)
       /\ Reading => Same(cap.inv) /\ \A i \in DOMAIN cap.found : Sound(cap.found[i])
       /\ cap.pc = "leaf" => cap.job = JobOf(Head(cap.todo), cap.inv)
       /\ cap.pc = "command" =>
            (InFront(Head(cap.todo)) # {} => cap.leaf \in InFront(Head(cap.todo)))
       /\ cap.pc = "saved" => \A i \in DOMAIN cap.slots : Sound(cap.slots[i])

LEMMA SameTrees ==
  ASSUME NEW inv, Same(inv)
  PROVE  \A t : Tree(t, inv) = Tree(t, proc)
<1>1. Parents(inv) = Parents(proc)
  BY DEF Same, Entry, Parents
<1> QED
  BY <1>1 DEF Tree

\* With the table as it was read, the job is what the terminal shows.
LEMMA JobIsFront ==
  ASSUME NEW inv, Same(inv), DOMAIN inv \subseteq Pids, NEW t \in DOMAIN inv
  PROVE  /\ Tree(t, inv) \in Seq(DOMAIN inv)
         /\ InFront(t) \subseteq DOMAIN inv
         /\ InFront(t) # {} =>
              /\ JobOf(t, inv).pool = InFront(t)
              /\ JobOf(t, inv).leader = IF tab[t].front \in InFront(t) THEN tab[t].front ELSE 0
<1> DEFINE tree == Tree(t, inv)
           job == IF Readable(t, inv)
                  THEN {p \in ToSet(tree) : Readable(p, inv) /\ proc[p].group = tab[t].front}
                  ELSE {}
<1>1. tree \in Seq(DOMAIN inv) /\ ToSet(tree) \subseteq DOMAIN inv
  BY TreeInside
<1>2. InFront(t) = {p \in ToSet(tree) : proc[p].group = tab[t].front}
  BY SameTrees DEF InFront, FrontIn
<1>3. \A p \in DOMAIN inv : Readable(p, inv)
  BY DEF Same, Entry, Readable
<1>4. JobOf(t, inv) = IF job = {} THEN [leader |-> 0, pool |-> ToSet(tree)]
                      ELSE [leader |-> IF tab[t].front \in job THEN tab[t].front ELSE 0, pool |-> job]
  BY DEF JobOf, ForegroundJob
<1> HIDE DEF tree
<1>5. job = InFront(t)
  BY <1>1, <1>2, <1>3
<1> HIDE DEF job
<1>6. InFront(t) # {} => JobOf(t, inv) = [leader |-> IF tab[t].front \in InFront(t) THEN tab[t].front ELSE 0,
                                       pool |-> InFront(t)]
  BY <1>4, <1>5
<1> QED
  BY <1>1, <1>2, <1>6 DEF tree

\* The leaf is in the job, and a job that its leader's program runs has one.
LEMMA LeafOfJob ==
  ASSUME NEW inv, NEW tree \in Seq(DOMAIN inv), NEW job
  PROVE  LET leaf == Leaf(job, tree, inv)
         IN  /\ leaf # 0 => leaf = job.leader \/ leaf \in job.pool
             /\ job.leader # 0 /\ ~InteractiveShell(job.leader, inv) => leaf = job.leader
<1> DEFINE I == {i \in 1 .. Len(tree) : /\ tree[i] \in job.pool
                                        /\ \A c \in job.pool : inv[c].parent # tree[i]
                                        /\ inv[tree[i]].comm \notin Shells}
           leaf == Leaf(job, tree, inv)
           first == IF I # {} THEN Min(I) ELSE 0
<1>1. leaf = IF job.leader # 0 /\ ~InteractiveShell(job.leader, inv) THEN job.leader
             ELSE IF first = 0 THEN 0 ELSE tree[first]
  BY DEF Leaf, SelectInSeq
<1>2. first # 0 => first \in I
  <2>1. I \in SUBSET (1 .. Len(tree)) /\ Len(tree) \in Nat
    OBVIOUS
  <2> HIDE DEF I
  <2> QED
    BY <2>1, Least
<1>3. first # 0 => tree[first] \in job.pool
  BY <1>2
<1> HIDE DEF first, leaf
<1>4. /\ leaf # 0 => leaf = job.leader \/ leaf \in job.pool
      /\ job.leader # 0 /\ ~InteractiveShell(job.leader, inv) => leaf = job.leader
  BY <1>1, <1>3
<1> QED
  BY <1>4 DEF leaf

LEMMA LeafSound ==
  ASSUME NEW inv, Same(inv), DOMAIN inv \subseteq Pids, NEW t \in DOMAIN inv
  PROVE  LET leaf == Leaf(JobOf(t, inv), Tree(t, inv), inv)
         IN  /\ leaf = 0 => Sound(Session(t, "shell", None, None, <<0, 0>>))
             /\ leaf # 0 => (InFront(t) # {} => leaf \in InFront(t))
<1> DEFINE tree == Tree(t, inv)
           job == JobOf(t, inv)
           leaf == Leaf(job, tree, inv)
           s == Session(t, "shell", None, None, <<0, 0>>)
<1>1. /\ tree \in Seq(DOMAIN inv) /\ InFront(t) \subseteq DOMAIN inv
      /\ InFront(t) # {} =>
           /\ job.pool = InFront(t)
           /\ job.leader = IF tab[t].front \in InFront(t) THEN tab[t].front ELSE 0
  BY JobIsFront
<1> HIDE DEF tree, job
<1>2. /\ leaf # 0 => leaf = job.leader \/ leaf \in job.pool
      /\ job.leader # 0 /\ ~InteractiveShell(job.leader, inv) => leaf = job.leader
  BY <1>1, LeafOfJob
<1> HIDE DEF leaf
<1>3. leaf # 0 /\ InFront(t) # {} => leaf \in InFront(t)
  BY <1>1, <1>2
<1>4. leaf = 0 => Sound(s)
  <2> SUFFICES ASSUME leaf = 0, NEW p \in InFront(t), p = tab[t].front,
                      proc[p].comm \in Shells => proc[p].argued
               PROVE  FALSE
    BY DEF Sound, SoundIn, PresentIn, InFront, Session
  <2>1. p \in DOMAIN inv /\ p # 0 /\ job.leader = p
    BY <1>1 DEF Pids
  <2>2. InteractiveShell(p, inv)
    BY <1>2, <2>1
  <2> QED
    BY <2>1, <2>2 DEF InteractiveShell, Same, Entry
<1> QED
  BY <1>3, <1>4 DEF leaf, job, tree
LEMMA WorldStill ==
  ASSUME CapTyped, Still, World
  PROVE  Still'
BY WorldUndisturbed DEF Still, Undisturbed

LEMMA BeginStill ==
  ASSUME WorldTyped, CapTyped, Still, Begin
  PROVE  Still'
<1>1. cap'.pc = "scan" /\ cap'.inv = <<>> /\ cap'.next = 1 /\ UNCHANGED proc
  BY FieldsAre DEF Begin, Reads, Still
<1>2. \A p \in DOMAIN proc : ~(p < 1)
  BY DEF WorldTyped, IsMap, Pids
<1>3. SameUpTo(cap.inv, cap.next)'
  BY <1>1, <1>2 DEF SameUpTo
<1> QED
  BY <1>1, <1>3 DEF Still, Reading

LEMMA ScanStill ==
  ASSUME WorldTyped, CapTyped, Still, Scan
  PROVE  Still'
<1>1. /\ cap'.pc = "scan" /\ cap'.next = cap.next + 1 /\ cap'.calm = cap.calm
      /\ \A p \in DOMAIN cap.inv : p # cap.next => p \in DOMAIN cap'.inv /\ cap'.inv[p] = cap.inv[p]
      /\ \A p \in DOMAIN cap'.inv : p # cap.next => p \in DOMAIN cap.inv
      /\ cap.next \in DOMAIN proc =>
           cap.next \in DOMAIN cap'.inv /\ cap'.inv[cap.next] = Entry(cap.next)
      /\ cap.next \notin DOMAIN proc => cap'.inv = cap.inv
  BY ScanEffect
<1>2. /\ UNCHANGED proc /\ cap.pc = "scan" /\ cap.next \in Nat /\ DOMAIN proc \subseteq Nat
      /\ DOMAIN cap.inv \subseteq Nat
  BY DEF Scan, Reads, CapTyped, WorldTyped, IsMap, Pids
<1>3. cap.calm => SameUpTo(cap'.inv, cap'.next)
  <2> SUFFICES ASSUME cap.calm PROVE SameUpTo(cap'.inv, cap.next + 1)
    BY <1>1
  <2>1. SameUpTo(cap.inv, cap.next)
    BY <1>2 DEF Still
  <2>2. ASSUME NEW p \in DOMAIN cap'.inv
        PROVE  p < cap.next + 1 /\ p \in DOMAIN proc /\ cap'.inv[p] = Entry(p)
    <3>1. CASE p = cap.next
      BY <1>1, <1>2, <2>1, <2>2, <3>1 DEF SameUpTo
    <3>2. CASE p # cap.next
      BY <1>1, <1>2, <2>1, <2>2, <3>2 DEF SameUpTo
    <3> QED
      BY <3>1, <3>2
  <2>3. ASSUME NEW p \in DOMAIN proc, p < cap.next + 1
        PROVE  p \in DOMAIN cap'.inv
    BY <1>1, <1>2, <2>1, <2>3 DEF SameUpTo
  <2> QED
    BY <2>2, <2>3 DEF SameUpTo
<1>4. cap'.calm => SameUpTo(cap.inv, cap.next)'
  BY <1>1, <1>2, <1>3 DEF SameUpTo, Entry
<1> QED
  BY <1>1, <1>4 DEF Still, Reading

LEMMA WindowsStill ==
  ASSUME WorldTyped, CapTyped, Still, ReadWindowsAgain
  PROVE  Still'
<1>1. /\ cap'.pc = "records" /\ cap'.calm = cap.calm /\ cap'.inv = cap.inv /\ cap'.found = <<>>
      /\ cap.pc = "scan" /\ UNCHANGED proc
  BY FieldsAre DEF ReadWindowsAgain, Reads, CapTyped
<1>2. \A p \in DOMAIN proc : p < cap.next
  BY BoundsAssumption DEF ReadWindowsAgain, CapTyped, WorldTyped, IsMap, Pids
<1>3. cap.calm => Same(cap.inv)
  BY <1>1, <1>2 DEF Still, SameUpTo, Same
<1>4. cap'.calm => Same(cap.inv)'
  BY <1>1, <1>3 DEF Same, Entry
<1> QED
  BY <1>1, <1>4 DEF Still, Reading

\* The reading of a tab goes on with the same table.
LEMMA FoundStill ==
  ASSUME CapTyped, Still, Reading, Unmoved,
         NEW s \in Finding(cap.inv), cap.calm => Sound(s), cap' = Found(s)
  PROVE  Still'
<1>1. /\ cap'.pc = "records" /\ cap'.found = Append(cap.found, s) /\ cap'.inv = cap.inv
      /\ cap'.calm = cap.calm
  BY FoundEffect
<1>2. /\ DOMAIN cap'.found = 1 .. Len(cap.found) + 1 /\ DOMAIN cap.found = 1 .. Len(cap.found)
      /\ cap'.found[Len(cap.found) + 1] = s
      /\ \A i \in 1 .. Len(cap.found) : cap'.found[i] = cap.found[i]
  <2> DEFINE F == Finding(cap.inv)
             f == cap.found
             g == Append(f, s)
  <2>1. f \in Seq(F) /\ s \in F /\ cap'.found = g
    BY <1>1 DEF CapTyped
  <2> HIDE DEF f, F
  <2>2. /\ DOMAIN g = 1 .. Len(f) + 1 /\ DOMAIN f = 1 .. Len(f)
        /\ g[Len(f) + 1] = s /\ \A i \in 1 .. Len(f) : g[i] = f[i]
    BY <2>1, AppendProperties, Members
  <2> HIDE DEF g
  <2> QED
    BY <2>1, <2>2 DEF f
<1>3. cap.calm => \A i \in DOMAIN cap'.found : Sound(cap'.found[i])
  <2> SUFFICES ASSUME cap.calm, NEW i \in DOMAIN cap'.found PROVE Sound(cap'.found[i])
    OBVIOUS
  <2>1. CASE i \in DOMAIN cap.found
    <3>1. Sound(cap.found[i])
      BY <2>1 DEF Still
    <3> QED
      BY <1>2, <2>1, <3>1
  <2>2. CASE i = Len(cap.found) + 1
    BY <1>2, <2>2
  <2> QED
    BY <1>2, <2>1, <2>2
<1>4. cap'.calm => (\A i \in DOMAIN cap.found : Sound(cap.found[i]))'
  BY <1>1, <1>3 DEF Unmoved, Sound, InFront
<1>5. cap'.calm => Same(cap.inv)'
  BY <1>1 DEF Unmoved, Still, Same, Entry
<1> QED
  BY <1>1, <1>4, <1>5 DEF Still, Reading

\* What is read of a record is the session of a process in the tab.
LEMMA ReadSound ==
  ASSUME WorldInv, NEW inv, Same(inv), DOMAIN inv \subseteq Pids, NEW s \in Finding(inv),
         s.kind \notin {"shell", "command"}, ReadAs(s, inv)
  PROVE  Sound(s)
<1>1. SoundIn(s, proc, tab) /\ s.kind \in {"claude", "nodecode", "declared", "unknown"}
  BY DEF SoundIn, Finding
<1>2. CASE s.kind = "unknown"
  BY <1>1, <1>2 DEF Sound, PresentIn
<1>3. CASE s.kind \in {"claude", "nodecode", "declared"}
  <2>1. PICK p \in ToSet(Tree(s.tab, inv)), r \in ToSet(Readers) :
          /\ Names(r, p, inv[p].born) /\ s.kind = Kind(r)
          /\ s.session = record[r][p].session /\ s.by = <<p, record[r][p].born>>
    BY <1>3 DEF ReadAs
  <2>2. p \in ToSet(Tree(s.tab, proc)) /\ s.by[1] = p
    BY <2>1, SameTrees
  <2>3. p \in DOMAIN proc /\ inv[p].born = proc[p].born
    <3>1. s.tab \in DOMAIN inv
      BY DEF Finding, Tops
    <3>2. p \in DOMAIN inv
      BY <2>1, <3>1, TreeInside
    <3> QED
      BY <3>2 DEF Same, Entry
  <2> DEFINE Said == s.session \in {proc[p].session, Fresh}
             Old == p \in DOMAIN record.registry /\ record.registry[p].born # proc[p].born
             Odd == /\ p \in DOMAIN record.declared
                    /\ record.declared[p].born = proc[p].born
                    /\ record.declared[p].writer # proc[p].born
             Open == proc[p].born \in DOMAIN hook \cup unheard
  <2>4. p \in DOMAIN record[r] /\ (r = "registry" \/ record[r][p].born = proc[p].born)
    BY <2>1, <2>3 DEF Names
  <2>5. ASSUME r \in {"registry", "nodecode"} PROVE Said \/ Old
    <3>1. CASE record[r][p].born = proc[p].born
      <4>1. record[r][p].session = proc[p].session
        BY <2>3, <2>4, <2>5, <3>1 DEF WorldInv, Told
      <4> QED
        BY <2>1, <4>1
    <3>2. CASE record[r][p].born # proc[p].born
      BY <2>4, <3>2
    <3> QED
      BY <3>1, <3>2
  <2>6. ASSUME r = "declared" PROVE Said \/ Odd \/ Open
    <3>1. p \in DOMAIN record.declared /\ record.declared[p].born = proc[p].born
      BY <2>4, <2>6
    <3>2. CASE record.declared[p].writer = proc[p].born /\ record.declared[p].session # Fresh
      <4>1. record.declared[p].session = proc[p].session \/ Open
        BY <2>3, <3>1, <3>2 DEF WorldInv, DeclarationFollowsAgent, Unsettled
      <4> QED
        BY <2>1, <2>6, <4>1
    <3> QED
      BY <2>1, <2>6, <3>1, <3>2
  <2>7. Said \/ Old \/ Odd \/ Open
    BY <2>5, <2>6, ReadersAre
  <2> QED
    BY <1>1, <2>2, <2>7 DEF Sound, PresentIn
<1> QED
  BY <1>1, <1>2, <1>3

LEMMA RecordsStill ==
  ASSUME WorldInv, CapTyped, Still, ReadRecords
  PROVE  Still'
<1>1. Reading /\ cap.pc = "records" /\ Unmoved
  BY DEF ReadRecords, Reads, Reading, Unmoved
<1>2. ASSUME NEW s \in Finding(cap.inv), cap' = Found(s), s.kind \notin {"shell", "command"},
             ReadAs(s, cap.inv)
      PROVE  Still'
  <2>1. DOMAIN cap.inv \subseteq Pids
    BY DEF CapTyped, IsMap
  <2>2. cap.calm => Sound(s)
    BY <1>1, <1>2, <2>1, ReadSound DEF Still
  <2> QED
    BY <1>1, <1>2, <2>2, FoundStill
<1>3. CASE cap' = [cap EXCEPT !.pc = "job"]
  <2>1. /\ cap'.pc = "job" /\ cap'.inv = cap.inv /\ cap'.found = cap.found /\ cap'.calm = cap.calm
    BY <1>3, FieldsAre
  <2> QED
    BY <1>1, <2>1 DEF Unmoved, Still, Reading, Same, Entry, Sound, InFront
<1> QED
  BY <1>2, <1>3, RecordsFind DEF WorldInv

LEMMA SameJob ==
  ASSUME UNCHANGED <<proc, tab>>, cap'.inv = cap.inv, cap'.todo = cap.todo
  PROVE  JobOf(Head(cap.todo), cap.inv)' = JobOf(Head(cap.todo), cap.inv)
<1> DEFINE t == Head(cap.todo)
           inv == cap.inv
           tree == Tree(t, inv)
<1>1. /\ proc' = proc /\ tab' = tab /\ t' = t /\ inv' = inv
  OBVIOUS
<1>2. tree' = tree
  BY <1>1 DEF Tree
<1> HIDE DEF t, inv, tree
<1>3. ForegroundJob(t, tree, inv)' = ForegroundJob(t, tree, inv)
  BY <1>1, <1>2 DEF ForegroundJob, Readable
<1> QED
  BY <1>3 DEF JobOf, t, inv, tree

LEMMA JobStill ==
  ASSUME CapTyped, Still, ReadJob
  PROVE  Still'
<1>1. /\ Reading /\ cap.pc = "job" /\ Unmoved
      /\ cap' = [cap EXCEPT !.pc = "leaf", !.job = JobOf(Head(cap.todo), cap.inv)]
  BY DEF ReadJob, Reads, Reading, JobOf, Unmoved
<1> DEFINE job == JobOf(Head(cap.todo), cap.inv)
<1>3. /\ cap'.pc = "leaf" /\ cap'.inv = cap.inv /\ cap'.found = cap.found /\ cap'.calm = cap.calm
      /\ cap'.todo = cap.todo /\ cap'.job = job
  <2> HIDE DEF job
  <2> QED
    BY <1>1, FieldsAre DEF job
<1>4. JobOf(Head(cap.todo), cap.inv)' = JobOf(Head(cap.todo), cap.inv)
  BY <1>1, <1>3, SameJob DEF Unmoved
<1> QED
  BY <1>1, <1>3, <1>4 DEF Unmoved, Still, Reading, Same, Entry, Sound, InFront

LEMMA LeafStill ==
  ASSUME CapTyped, Still, ChooseLeaf
  PROVE  Still'
<1> DEFINE t == Head(cap.todo)
           leaf == Leaf(cap.job, Tree(t, cap.inv), cap.inv)
           s == Session(t, "shell", None, None, <<0, 0>>)
<1>1. /\ Reading /\ cap.pc = "leaf" /\ cap.todo # <<>> /\ Unmoved
      /\ t \in DOMAIN cap.inv /\ DOMAIN cap.inv \subseteq Pids
  BY DEF ChooseLeaf, Reads, Reading, CapTyped, Tops, IsMap, Unmoved
<1>2. \/ leaf = 0 /\ s \in Finding(cap.inv) /\ cap' = Found(s)
      \/ leaf # 0 /\ cap' = [cap EXCEPT !.pc = "command", !.leaf = leaf]
  BY LeafFind
<1>3. cap.calm => /\ leaf = 0 => Sound(s)
                  /\ leaf # 0 => (InFront(t) # {} => leaf \in InFront(t))
  <2> SUFFICES ASSUME cap.calm
               PROVE  /\ leaf = 0 => Sound(s)
                      /\ leaf # 0 => (InFront(t) # {} => leaf \in InFront(t))
    OBVIOUS
  <2>1. Same(cap.inv) /\ cap.job = JobOf(t, cap.inv)
    BY <1>1 DEF Still
  <2> QED
    BY <1>1, <2>1, LeafSound
<1> HIDE DEF leaf, s
<1>4. CASE leaf = 0
  BY <1>1, <1>2, <1>3, <1>4, FoundStill
<1>5. CASE leaf # 0
  <2>1. /\ cap'.pc = "command" /\ cap'.inv = cap.inv /\ cap'.found = cap.found
        /\ cap'.calm = cap.calm /\ cap'.todo = cap.todo /\ cap'.leaf = leaf
    BY <1>2, <1>5, FieldsAre
  <2>2. cap.calm => (InFront(t) # {} => leaf \in InFront(t))
    BY <1>3, <1>5
  <2> QED
    BY <1>1, <2>1, <2>2 DEF Unmoved, Still, Reading, Same, Entry, Sound, InFront
<1> QED
  BY <1>4, <1>5

LEMMA CommandStill ==
  ASSUME WorldTyped, CapTyped, Still, ReadCommand
  PROVE  Still'
<1> DEFINE s == CommandOf(cap.leaf)
<1>1. Reading /\ cap.pc = "command" /\ Unmoved
  BY DEF ReadCommand, Reads, Reading, Unmoved
<1>2. s \in Finding(cap.inv) /\ cap' = Found(s) /\ s.tab = Head(cap.todo)
  BY CommandIs
<1>3. s.kind = "command" /\ s.by[1] = cap.leaf
  BY DEF CommandOf, Session
<1> HIDE DEF s
<1>4. cap.calm => Sound(s)
  BY <1>1, <1>2, <1>3 DEF Sound, SoundIn, PresentIn, InFront, Still
<1> QED
  BY <1>1, <1>2, <1>4, FoundStill

LEMMA RecipeSound ==
  ASSUME NEW s, Sound(s)
  PROVE  Sound(TerminalRecipe(s))
<1>1. TerminalRecipe(s).tab = s.tab
  BY RecipeTab
<1>2. CASE s.kind = "unknown"
  <2>1. TerminalRecipe(s).kind = "unknown"
    BY <1>2 DEF TerminalRecipe, NoRecipe, Slot
  <2> QED
    BY <2>1 DEF Sound, SoundIn, PresentIn
<1>3. CASE s.kind # "unknown" /\ s.kind \in {"shell", "command"}
  <2>1. TerminalRecipe(s).kind = s.kind /\ TerminalRecipe(s).by = s.by
    BY <1>3 DEF TerminalRecipe, Slot
  <2> QED
    BY <1>1, <1>3, <2>1 DEF Sound, SoundIn, PresentIn
<1>4. CASE s.kind # "unknown" /\ s.kind \notin {"shell", "command"}
  <2>1. /\ TerminalRecipe(s).kind = "session" /\ TerminalRecipe(s).by = s.by
        /\ TerminalRecipe(s).session = s.session
    BY <1>4 DEF TerminalRecipe, Slot
  <2> QED
    BY <1>1, <1>4, <2>1 DEF Sound, SoundIn, PresentIn
<1> QED
  BY <1>2, <1>3, <1>4

LEMMA SaveStill ==
  ASSUME CapTyped, Still, Save
  PROVE  Still'
<1>1. PICK titles \in [cap.final -> Sessions \cup {None}] :
        cap' = [NoCapture EXCEPT
                 !.pc = "saved", !.calm = cap.calm, !.stayed = cap.stayed, !.agents = cap.agents,
                 !.coherent = cap.first = cap.final,
                 !.slots = SavedSlots(cap.first, cap.final, cap.found, titles)]
  BY DEF Save
<1> DEFINE slots == SavedSlots(cap.first, cap.final, cap.found, titles)
           found == cap.found
           F == {s \in Finding(cap.inv) : Sound(s)}
<1>2. cap'.pc = "saved" /\ cap'.calm = cap.calm /\ cap'.slots = slots
  BY <1>1 DEF NoCapture
<1>3. Reading /\ Unmoved
  BY DEF Save, Reads, Reading, Unmoved
<1>4. ASSUME cap.calm PROVE \A i \in DOMAIN slots : Sound(slots[i])
  <2>1. found \in Seq(F)
    <3> DEFINE G == Finding(cap.inv)
    <3>1. found \in Seq(G) /\ \A i \in DOMAIN found : Sound(found[i])
      BY <1>3, <1>4 DEF CapTyped, Still
    <3>2. F = {s \in G : Sound(s)}
      OBVIOUS
    <3> HIDE DEF found, G, F
    <3>3. \A i \in 1 .. Len(found) : found[i] \in F
      BY <3>1, <3>2, Members
    <3>4. Len(found) \in Nat /\ found = [i \in 1 .. Len(found) |-> found[i]]
      BY <3>1
    <3> QED
      BY <3>3, <3>4
  <2>2. \A s \in F : Sound(s)
    OBVIOUS
  <2> HIDE DEF F
  <2>3. slots \in Seq(Slots(F))
    BY <2>1, SavedSlotsAre DEF found
  <2>4. Sound(NoRecipe) /\ Sound(BareShell)
    BY RecipeTab DEF Sound, SoundIn, PresentIn, NoRecipe, BareShell, Slot
  <2>5. \A s \in Slots(F) : Sound(s)
    BY <2>2, <2>4, RecipeSound DEF Slots
  <2> DEFINE Y == Slots(F)
  <2> HIDE DEF slots, Y
  <2>6. \A i \in DOMAIN slots : slots[i] \in Y
    BY <2>3, Members DEF Y
  <2> QED
    BY <2>5, <2>6 DEF Y
<1> HIDE DEF slots
<1>5. cap'.calm => (\A i \in DOMAIN cap.slots : Sound(cap.slots[i]))'
  BY <1>2, <1>3, <1>4 DEF Unmoved, Sound, InFront
<1> QED
  BY <1>2, <1>5 DEF Still, Reading

LEMMA SpecStill == Spec => []Still
<1>1. Init => Still
  BY DEF Init, NoCapture, Still
<1>2. WorldInv /\ CapTyped /\ Still /\ [Next]_vars => Still'
  <2> SUFFICES ASSUME WorldInv, CapTyped, Still, [Next]_vars PROVE Still'
    OBVIOUS
  <2>1. WorldTyped
    BY DEF WorldInv
  <2>2. CASE Capture
    BY <2>1, <2>2, BeginStill, ScanStill, WindowsStill, RecordsStill, JobStill, LeafStill,
       CommandStill, SaveStill DEF Capture
  <2>3. CASE World
    BY <2>3, WorldStill
  <2>4. CASE UNCHANGED vars
    BY <2>4, SameJob DEF vars, Still, Reading, Same, SameUpTo, Entry, Sound, InFront
  <2> QED
    BY <2>2, <2>3, <2>4 DEF Next
<1> QED
  BY <1>1, <1>2, SpecWorld, SpecCapTyped, PTL DEF Spec

\* launch.terminal_sessions: when nothing happens during the capture, a tab is saved as what
\* its terminal shows.
THEOREM SpecSavesForeground == Spec => []SavesForegroundJob
<1>1. Still => SavesForegroundJob
  <2> SUFFICES ASSUME Still, cap.pc = "saved", cap.calm, NEW s \in ToSet(cap.slots)
               PROVE  SoundIn(s, proc, tab)
    BY DEF SavesForegroundJob, SoundIn, FrontIn
  <2>1. PICK i \in DOMAIN cap.slots : s = cap.slots[i]
    BY DEF ToSet
  <2> QED
    BY <2>1 DEF Still, Sound
<1> QED
  BY <1>1, SpecStill, PTL

\* launch.terminal_sessions: when nothing happens during the capture, a session that it saves is
\* the one a process of the tab is on, or a launch the operator declared; but for a Claude or Pi
\* record that an earlier process left under the pid, for a declaration that an earlier process's
\* hook pinned to this one, and while its own hook is not through, or has failed.
THEOREM SpecSavesPresent == Spec => []SavesPresentSession
<1>1. Still => SavesPresentSession
  <2> SUFFICES ASSUME Still, cap.pc = "saved", cap.calm, NEW s \in ToSet(cap.slots),
                      s.kind = "session"
               PROVE  /\ InTree(s.by[1], s.tab, proc)
                      /\ \/ s.session \in {proc[s.by[1]].session, Fresh}
                         \/ Stale(s.by[1]) \/ Misplaced(s.by[1]) \/ Unsettled(s.by[1])
    BY DEF SavesPresentSession
  <2>1. PICK i \in DOMAIN cap.slots : s = cap.slots[i]
    BY DEF ToSet
  <2>2. PresentIn(s, proc, record, hook, unheard)
    BY <2>1 DEF Still, Sound
  <2> QED
    BY <2>2 DEF PresentIn, InTree, Stale, Misplaced, Unsettled
<1> QED
  BY <1>1, SpecStill, PTL
=============================================================================
