-------------------------- MODULE DisciplineProofs --------------------------
(***************************************************************************)
(* The discipline of the pages is enough: for any pages that keep it and   *)
(* any number of handlers that run at the same time, no mark of work in    *)
(* progress is left behind and nothing is sent twice.                      *)
(***************************************************************************)
EXTENDS SumProofs, SequenceTheorems, Discipline
LOCAL INSTANCE SequencesExt

---------------------------------------------------------------------------
(* Assignments.                                                            *)

(* The state r is u after the assignment e, apart from what the markers    *)
(* stand for.                                                              *)
Assigned(u, e, r) ==
  /\ DOMAIN r = DOMAIN u
  /\ \A g \in DOMAIN u :
       /\ g \notin DOMAIN e => r[g] = u[g]
       /\ g \in DOMAIN e /\ e[g] \notin {Arg, Answer, Patched} => r[g] = e[g]

(* What Set computes for one field.                                        *)
SetValue(x, arg, ans, old) ==
  CASE x = Arg -> arg [] x = Answer -> ans [] x = Patched -> old [] OTHER -> x

LEMMA SetAssigned ==
  ASSUME NEW u, NEW e, NEW arg, NEW ans, NEW old
  PROVE  Assigned(u, e, Set(u, e, arg, ans, old))
<1> DEFINE r == Set(u, e, arg, ans, old)
<1>1. DOMAIN r = DOMAIN u
  BY Zenon DEF Set
<1>2. ASSUME NEW g \in DOMAIN u, g \notin DOMAIN e  PROVE r[g] = u[g]
  BY <1>2, Zenon DEF Set
<1>3. ASSUME NEW g \in DOMAIN u, g \in DOMAIN e, e[g] \notin {Arg, Answer, Patched}
      PROVE  r[g] = e[g]
  <2>1. r[g] = SetValue(e[g], arg, ans, old[g])
    BY <1>3, Zenon DEF Set, SetValue
  <2>2. SetValue(e[g], arg, ans, old[g]) = e[g]
    BY <1>3, Zenon DEF SetValue
  <2> QED
    BY <2>1, <2>2, Zenon
<1> QED
  BY <1>1, <1>2, <1>3, Zenon DEF Assigned

LEMMA AssignAssigned ==
  ASSUME NEW u, NEW e, NEW arg
  PROVE  /\ Assigned(u, e, Assign(u, e, arg))
         /\ \A g \in DOMAIN u \cap DOMAIN e : e[g] = Arg => Assign(u, e, arg)[g] = arg
<1>1. Assigned(u, e, Assign(u, e, arg))
  BY SetAssigned, Zenon DEF Assign
<1>2. ASSUME NEW g \in DOMAIN u \cap DOMAIN e, e[g] = Arg  PROVE Assign(u, e, arg)[g] = arg
  <2>1. Assign(u, e, arg)[g] = SetValue(e[g], arg, None, u[g])
    BY Zenon DEF Assign, Set, SetValue
  <2>2. SetValue(Arg, arg, None, u[g]) = arg
    BY MarkersAreNoValues, Zenon DEF SetValue
  <2> QED
    BY <1>2, <2>1, <2>2, Zenon
<1> QED
  BY <1>1, <1>2, Zenon

(* No assignment takes a page back that was left.                          *)
Departs(e) == "goto" \in DOMAIN e => e["goto"] \notin {None, Arg, Answer, Patched}

(* Field f is not marked, or the page is left.                             *)
Off(u, f) == u[f] = FALSE \/ u["goto"] # None

LEMMA OffKept ==
  ASSUME NEW u, NEW e, NEW r, NEW f \in DOMAIN u, Assigned(u, e, r),
         "goto" \in DOMAIN u, Departs(e), ~Marks(e, f), Off(u, f)
  PROVE  Off(r, f)
BY MarkersAreNoValues DEF Assigned, Departs, Marks, Off

LEMMA OffSet ==
  ASSUME NEW u, NEW e, NEW r, NEW f \in DOMAIN u, Assigned(u, e, r),
         "goto" \in DOMAIN u, Departs(e), Unmarks(e, f)
  PROVE  Off(r, f)
BY MarkersAreNoValues DEF Assigned, Departs, Unmarks, Off

---------------------------------------------------------------------------
(* The tasks.                                                              *)

(* The tasks us are some of the tasks ts.                                  *)
SomeOf(ts, us) ==
  \E m \in [DOMAIN us -> DOMAIN ts] :
    /\ \A j \in DOMAIN us : us[j] = ts[m[j]]
    /\ \A j, k \in DOMAIN us : m[j] = m[k] => j = k

LEMMA EmptyList == Listed(<<>>) /\ DOMAIN <<>> = {}
BY DEF Listed

LEMMA SomeOfItself == ASSUME NEW ts  PROVE SomeOf(ts, ts)
<1> DEFINE m == [j \in DOMAIN ts |-> j]
<1>1. m \in [DOMAIN ts -> DOMAIN ts] /\ \A j \in DOMAIN ts : m[j] = j
  OBVIOUS
<1> QED
  BY <1>1, Zenon DEF SomeOf

LEMMA AppendTask ==
  ASSUME NEW ts, NEW t, Listed(ts)
  PROVE  /\ Listed(Append(ts, t))
         /\ DOMAIN ts = 1..Len(ts)
         /\ DOMAIN Append(ts, t) = 1..(Len(ts) + 1)
         /\ \A i \in DOMAIN ts : i \in DOMAIN Append(ts, t) /\ Append(ts, t)[i] = ts[i]
         /\ Append(ts, t)[Len(ts) + 1] = t
<1> DEFINE R == {ts[i] : i \in 1..Len(ts)} \cup {t}
<1>1. ts \in Seq(R) /\ t \in R /\ DOMAIN ts = 1..Len(ts) /\ Len(ts) \in Nat
  BY DEF Listed
<1> HIDE DEF R
<1> DEFINE us == Append(ts, t)
<1>2. /\ us \in Seq(R) /\ Len(us) = Len(ts) + 1
      /\ \A i \in 1..Len(ts) : us[i] = ts[i]
      /\ us[Len(ts) + 1] = t
  BY <1>1, AppendProperties
<1> HIDE DEF us
<1>3. DOMAIN us = 1..(Len(ts) + 1) /\ Listed(us)
  BY <1>1, <1>2 DEF Listed
<1> QED
  BY <1>1, <1>2, <1>3 DEF us

LEMMA RemoveTask ==
  ASSUME NEW ts, Listed(ts), NEW i \in DOMAIN ts
  PROVE  /\ Listed(RemoveAt(ts, i))
         /\ SomeOf(ts, RemoveAt(ts, i))
         /\ \A j \in DOMAIN ts \ {i} : \E k \in DOMAIN RemoveAt(ts, i) : RemoveAt(ts, i)[k] = ts[j]
         /\ \E m \in [DOMAIN RemoveAt(ts, i) -> DOMAIN ts \ {i}] :
              /\ \A j \in DOMAIN RemoveAt(ts, i) : RemoveAt(ts, i)[j] = ts[m[j]]
              /\ \A j, k \in DOMAIN RemoveAt(ts, i) : m[j] = m[k] => j = k
<1> DEFINE R == {ts[j] : j \in 1..Len(ts)}
<1> DEFINE us == RemoveAt(ts, i)
<1>0. DOMAIN ts = 1..Len(ts) /\ Len(ts) \in Nat /\ ts \in Seq(R)
  BY DEF Listed
<1> HIDE DEF R
<1> DEFINE before == SubSeq(ts, 1, i - 1)
<1> DEFINE after == SubSeq(ts, i + 1, Len(ts))
<1>1. us = before \o after
  BY DEF RemoveAt
<1>2. /\ before \in Seq(R) /\ Len(before) = i - 1
      /\ \A j \in 1..(i - 1) : before[j] = ts[j]
  BY <1>0, SubSeqProperties
<1>3. /\ after \in Seq(R) /\ Len(after) = Len(ts) - i
      /\ \A j \in 1..(Len(ts) - i) : after[j] = ts[i + j]
  BY <1>0, SubSeqProperties
<1> HIDE DEF before, after
<1>4. /\ us \in Seq(R) /\ Len(us) = Len(ts) - 1 /\ DOMAIN us = 1..(Len(ts) - 1)
      /\ \A j \in DOMAIN us : us[j] = IF j < i THEN ts[j] ELSE ts[j + 1]
  <2>1. /\ us \in Seq(R) /\ Len(us) = (i - 1) + (Len(ts) - i)
        /\ \A j \in 1..((i - 1) + (Len(ts) - i)) :
             us[j] = IF j <= i - 1 THEN before[j] ELSE after[j - (i - 1)]
    <3> HIDE DEF us
    <3>1. before \o after \in Seq(R)
      BY <1>2, <1>3, ConcatProperties
    <3> QED
      BY <1>1, <1>2, <1>3, ConcatProperties
  <2>2. (i - 1) + (Len(ts) - i) = Len(ts) - 1
    BY <1>0
  <2>3. DOMAIN us = 1..(Len(ts) - 1)
    BY <2>1, <2>2
  <2>4. ASSUME NEW j \in 1..(Len(ts) - 1)  PROVE us[j] = IF j < i THEN ts[j] ELSE ts[j + 1]
    <3>1. CASE j < i
      BY <1>0, <1>2, <2>1, <2>2, <3>1
    <3>2. CASE ~(j < i)
      <4>1. j - (i - 1) \in 1..(Len(ts) - i) /\ i + (j - (i - 1)) = j + 1 /\ ~(j <= i - 1)
        BY <1>0, <3>2
      <4> QED
        BY <1>3, <2>1, <2>2, <3>2, <4>1
    <3> QED
      BY <3>1, <3>2
  <2> QED
    BY <2>1, <2>2, <2>3, <2>4
<1> HIDE DEF us
<1>5. Listed(us)
  BY <1>0, <1>4 DEF Listed
<1> DEFINE m == [j \in DOMAIN us |-> IF j < i THEN j ELSE j + 1]
<1>6. /\ m \in [DOMAIN us -> DOMAIN ts \ {i}]
      /\ \A j \in DOMAIN us : us[j] = ts[m[j]]
      /\ \A j, k \in DOMAIN us : m[j] = m[k] => j = k
  BY <1>0, <1>4
<1>7. ASSUME NEW j \in DOMAIN ts \ {i}  PROVE \E k \in DOMAIN us : us[k] = ts[j]
  <2>1. CASE j < i
    BY <1>0, <1>4, <2>1
  <2>2. CASE j > i
    <3>1. j - 1 \in DOMAIN us /\ us[j - 1] = ts[j]
      BY <1>0, <1>4, <2>2
    <3> QED
      BY <3>1
  <2> QED
    BY <1>0, <2>1, <2>2
<1>8. SomeOf(ts, us)
  <2>1. m \in [DOMAIN us -> DOMAIN ts]
    BY <1>6
  <2> QED
    BY <1>6, <2>1 DEF SomeOf
<1> QED
  BY <1>5, <1>6, <1>7, <1>8 DEF us

(* What stays when handler h starts, and the recursion of Remaining.       *)
Stays(here, h, t) == ~(t.h \in {h} \cup here.handlers[h].cancels /\ Dropped(here, t))

KeptSoFar(here, ts, h, n, x) ==
  IF n = 0 THEN <<>> ELSE IF Stays(here, h, ts[n]) THEN Append(x, ts[n]) ELSE x
IsKept(here, ts, h, N, g) == g = [n \in 0..N |-> KeptSoFar(here, ts, h, n, g[n - 1])]

LEMMA RemainingIsKept ==
  ASSUME NEW here, NEW ts, NEW h, Len(ts) \in Nat
  PROVE  \E g : IsKept(here, ts, h, Len(ts), g) /\ Remaining(here, ts, h) = g[Len(ts)]
<1> DEFINE Solved == {N \in Nat : \E g : IsKept(here, ts, h, N, g)}
<1>1. 0 \in Solved
  <2> DEFINE g == [n \in 0..0 |-> <<>>]
  <2>1. \A n \in 0..0 : n = 0
    OBVIOUS
  <2>2. IsKept(here, ts, h, 0, g)
    BY <2>1 DEF IsKept, KeptSoFar
  <2> QED
    BY <2>2
<1>2. ASSUME NEW N \in Solved  PROVE N + 1 \in Solved
  <2>1. PICK g : IsKept(here, ts, h, N, g)
    OBVIOUS
  <2>2. \A n \in 0..N : g[n] = KeptSoFar(here, ts, h, n, g[n - 1])
    BY <2>1 DEF IsKept
  <2> DEFINE k == [n \in 0..(N + 1) |->
                     IF n <= N THEN g[n] ELSE KeptSoFar(here, ts, h, n, g[n - 1])]
  <2>3. ASSUME NEW n \in 0..(N + 1)  PROVE k[n] = KeptSoFar(here, ts, h, n, k[n - 1])
    <3>1. k[n] = KeptSoFar(here, ts, h, n, g[n - 1])
      BY <2>2
    <3>2. CASE n = 0
      BY <3>1, <3>2 DEF KeptSoFar
    <3>3. CASE n # 0
      <4>1. n - 1 \in 0..(N + 1) /\ n - 1 <= N
        BY <3>3
      <4>2. k[n - 1] = g[n - 1]
        BY <4>1
      <4> QED
        BY <3>1, <4>2
    <3> QED
      BY <3>2, <3>3
  <2>4. k = [n \in 0..(N + 1) |-> k[n]]
    OBVIOUS
  <2> HIDE DEF k
  <2>5. IsKept(here, ts, h, N + 1, k)
    BY <2>3, <2>4 DEF IsKept
  <2> QED
    BY <2>5
<1>3. Solved = Nat
  <2>1. Solved \in SUBSET Nat
    OBVIOUS
  <2> HIDE DEF Solved
  <2> QED
    BY <1>1, <1>2, <2>1, AllNumbers
<1> DEFINE g == CHOOSE kept : IsKept(here, ts, h, Len(ts), kept)
<1>4. Remaining(here, ts, h) = g[Len(ts)]
  BY Zenon DEF Remaining, IsKept, KeptSoFar, Stays
<1>5. IsKept(here, ts, h, Len(ts), g)
  <2>1. \E kept : IsKept(here, ts, h, Len(ts), kept)
    BY <1>3
  <2> QED
    BY <2>1, Zenon
<1> QED
  BY <1>4, <1>5, Zenon

(* What remains are some of the tasks, with every one that stays.          *)
LEMMA RemainingTasks ==
  ASSUME NEW here, NEW ts, Listed(ts), NEW h
  PROVE  /\ Listed(Remaining(here, ts, h))
         /\ SomeOf(ts, Remaining(here, ts, h))
         /\ \A i \in DOMAIN ts : Stays(here, h, ts[i]) =>
              \E j \in DOMAIN Remaining(here, ts, h) : Remaining(here, ts, h)[j] = ts[i]
<1> DEFINE N == Len(ts)
<1>0. N \in Nat /\ DOMAIN ts = 1..N
  BY DEF Listed
<1>1. PICK g : IsKept(here, ts, h, N, g) /\ Remaining(here, ts, h) = g[N]
  BY <1>0, RemainingIsKept
<1>2. \A n \in 0..N : g[n] = KeptSoFar(here, ts, h, n, g[n - 1])
  BY <1>1 DEF IsKept
<1> DEFINE Right(n, us) ==
      /\ Listed(us)
      /\ \E m \in [DOMAIN us -> 1..n] :
           /\ \A j \in DOMAIN us : us[j] = ts[m[j]]
           /\ \A j, k \in DOMAIN us : m[j] = m[k] => j = k
      /\ \A i \in 1..n : Stays(here, h, ts[i]) => \E j \in DOMAIN us : us[j] = ts[i]
<1> DEFINE T == {n \in Nat : n <= N => Right(n, g[n])}
<1>3. 0 \in T
  <2>1. g[0] = <<>>
    BY <1>0, <1>2 DEF KeptSoFar
  <2> DEFINE m == [j \in {} |-> 0]
  <2>2. m \in [DOMAIN <<>> -> 1..0]
    OBVIOUS
  <2>3. 1..0 = {}
    OBVIOUS
  <2>4. Right(0, <<>>)
    BY <2>2, <2>3, EmptyList
  <2> HIDE DEF Right
  <2> QED
    BY <2>1, <2>4
<1>4. ASSUME NEW n \in T  PROVE n + 1 \in T
  <2> SUFFICES ASSUME n + 1 <= N  PROVE Right(n + 1, g[n + 1])
    OBVIOUS
  <2>0. n \in Nat /\ n + 1 \in 0..N /\ n + 1 # 0 /\ (n + 1) - 1 = n
    BY <1>0
  <2>1. Right(n, g[n])
    BY <1>0, <2>0
  <2>2. g[n + 1] = IF Stays(here, h, ts[n + 1]) THEN Append(g[n], ts[n + 1]) ELSE g[n]
    BY <1>2, <2>0 DEF KeptSoFar
  <2> DEFINE us == g[n]
  <2>3. PICK m \in [DOMAIN us -> 1..n] :
           /\ \A j \in DOMAIN us : us[j] = ts[m[j]]
           /\ \A j, k \in DOMAIN us : m[j] = m[k] => j = k
    BY <2>1
  <2>4. CASE ~Stays(here, h, ts[n + 1])
    <3>1. g[n + 1] = us
      BY <2>2, <2>4
    <3>2. m \in [DOMAIN us -> 1..(n + 1)]
      BY <2>0
    <3>3. \A i \in 1..(n + 1) : i \in 1..n \/ i = n + 1
      BY <2>0
    <3>4. Right(n + 1, us)
      BY <2>1, <2>3, <2>4, <3>2, <3>3
    <3> HIDE DEF Right, us
    <3> QED
      BY <3>1, <3>4
  <2>5. CASE Stays(here, h, ts[n + 1])
    <3> DEFINE t == ts[n + 1]
    <3> DEFINE vs == Append(us, t)
    <3>1. g[n + 1] = vs
      BY <2>2, <2>5
    <3>2. Listed(us)
      BY <2>1
    <3> HIDE DEF us, t
    <3>3. /\ Listed(vs)
          /\ DOMAIN us = 1..Len(us) /\ Len(us) \in Nat
          /\ DOMAIN vs = 1..(Len(us) + 1)
          /\ \A i \in DOMAIN us : i \in DOMAIN vs /\ vs[i] = us[i]
          /\ vs[Len(us) + 1] = t
      <4>1. Len(us) \in Nat
        BY <3>2 DEF Listed
      <4> QED
        BY <3>2, <4>1, AppendTask
    <3> HIDE DEF vs
    <3> DEFINE l == [j \in DOMAIN vs |-> IF j \in DOMAIN us THEN m[j] ELSE n + 1]
    <3>4. l \in [DOMAIN vs -> 1..(n + 1)]
      <4>1. \A j \in DOMAIN us : m[j] \in 1..n
        BY <2>3
      <4> QED
        BY <2>0, <4>1
    <3>5. \A j \in DOMAIN vs : vs[j] = ts[l[j]]
      BY <2>3, <3>3 DEF t
    <3>6. ASSUME NEW j \in DOMAIN vs, NEW k \in DOMAIN vs, l[j] = l[k]  PROVE j = k
      <4>1. \A i \in DOMAIN us : m[i] \in 1..n /\ m[i] # n + 1
        BY <2>0, <2>3
      <4>2. \A i \in DOMAIN vs : i \in DOMAIN us \/ i = Len(us) + 1
        BY <3>3
      <4> QED
        BY <2>3, <3>6, <4>1, <4>2
    <3>7. ASSUME NEW i \in 1..(n + 1), Stays(here, h, ts[i])  PROVE \E j \in DOMAIN vs : vs[j] = ts[i]
      <4>1. CASE i = n + 1
        <5>1. Len(us) + 1 \in DOMAIN vs
          BY <3>3
        <5> QED
          BY <3>3, <4>1, <5>1 DEF t
      <4>2. CASE i # n + 1
        <5>1. i \in 1..n
          BY <2>0, <4>2
        <5>2. PICK j \in DOMAIN us : us[j] = ts[i]
          BY <2>1, <3>7, <5>1 DEF us
        <5> QED
          BY <3>3, <5>2
      <4> QED
        BY <4>1, <4>2
    <3> HIDE DEF l
    <3>8. Right(n + 1, vs)
      BY <3>3, <3>4, <3>5, <3>6, <3>7
    <3> HIDE DEF Right
    <3> QED
      BY <3>1, <3>8
  <2> QED
    BY <2>4, <2>5
<1>5. Right(N, g[N])
  <2>1. T \in SUBSET Nat
    OBVIOUS
  <2> HIDE DEF T
  <2>2. T = Nat
    BY <1>3, <1>4, <2>1, AllNumbers
  <2>3. N \in T
    BY <1>0, <2>2
  <2> QED
    BY <1>0, <2>3 DEF T
<1> HIDE DEF N
<1> QED
  BY <1>0, <1>1, <1>5 DEF SomeOf

---------------------------------------------------------------------------
(* Starting a handler.                                                     *)

NewTask(h, arg, q) ==
  [h |-> h, arg |-> arg, at |-> 1, fresh |-> TRUE, new |-> TRUE, gone |-> FALSE, q |-> q]

(* Handler h, described by d, makes a of acc: it returns early, ends at    *)
(* once, or waits.                                                         *)
ReturnsEarly(here, d, acc, h, arg, v, a) ==
  \E i \in Unmet(d.needs, v) :
    a = [ui |-> Assign(acc.ui, d.needs[i].otherwise, arg), tasks |-> Remaining(here, acc.tasks, h)]
EndsAtOnce(here, d, acc, h, arg, v, a) ==
  /\ Unmet(d.needs, v) = {} /\ d.steps = <<>>
  /\ a = [ui    |-> Assign(Copied(acc.ui, d.copies), d.start, arg),
          tasks |-> Remaining(here, acc.tasks, h)]
Waits(here, d, acc, h, arg, v, a) ==
  /\ Unmet(d.needs, v) = {} /\ d.steps # <<>>
  /\ \E q : a = [ui    |-> Assign(Assign(Copied(acc.ui, d.copies), d.start, arg), d.steps[1].begin, arg),
                 tasks |-> Append(Remaining(here, acc.tasks, h), NewTask(h, arg, q))]

LEMMA SomeUnmet ==
  ASSUME NEW needs, Listed(needs), NEW v, Unmet(needs, v) # {}
  PROVE  \E i \in Unmet(needs, v) : Otherwise(needs, v) = needs[i].otherwise
<1>1. Unmet(needs, v) \in SUBSET Nat
  BY DEF Unmet, Listed
<1>2. \E n \in Unmet(needs, v) : \A m \in Unmet(needs, v) : n <= m
  BY <1>1, LeastNumber
<1> DEFINE least == CHOOSE n \in Unmet(needs, v) : \A m \in Unmet(needs, v) : n <= m
<1>3. least \in Unmet(needs, v)
  BY <1>2
<1>4. Otherwise(needs, v) = needs[least].otherwise
  BY DEF Otherwise, Min
<1> QED
  BY <1>3, <1>4

LEMMA BeginCases ==
  ASSUME NEW here, NEW acc, NEW h, NEW arg, NEW v, Listed(here.handlers[h].needs)
  PROVE  LET d == here.handlers[h]
             a == Begin(here, acc, h, arg, v)
         IN \/ ReturnsEarly(here, d, acc, h, arg, v, a)
            \/ EndsAtOnce(here, d, acc, h, arg, v, a)
            \/ Waits(here, d, acc, h, arg, v, a)
<1> DEFINE d == here.handlers[h]
<1> DEFINE a == Begin(here, acc, h, arg, v)
<1>1. CASE Unmet(d.needs, v) # {}
  <2>1. a = [ui |-> Assign(acc.ui, Otherwise(d.needs, v), arg), tasks |-> Remaining(here, acc.tasks, h)]
    BY <1>1, Zenon DEF Begin
  <2>2. PICK i \in Unmet(d.needs, v) : Otherwise(d.needs, v) = d.needs[i].otherwise
    BY <1>1, SomeUnmet
  <2>3. ReturnsEarly(here, d, acc, h, arg, v, a)
    BY <2>1, <2>2, Zenon DEF ReturnsEarly
  <2> QED
    BY <2>3
<1>2. CASE Unmet(d.needs, v) = {} /\ d.steps = <<>>
  <2>1. a = [ui |-> Assign(Copied(acc.ui, d.copies), d.start, arg), tasks |-> Remaining(here, acc.tasks, h)]
    BY <1>2, Zenon DEF Begin
  <2>2. EndsAtOnce(here, d, acc, h, arg, v, a)
    BY <1>2, <2>1, Zenon DEF EndsAtOnce
  <2> QED
    BY <2>2
<1>3. CASE Unmet(d.needs, v) = {} /\ d.steps # <<>>
  <2> DEFINE q == [f \in d.reads |-> IF Picked(d, f) THEN arg ELSE v[f]]
  <2>1. a = [ui    |-> Assign(Assign(Copied(acc.ui, d.copies), d.start, arg), d.steps[1].begin, arg),
             tasks |-> Append(Remaining(here, acc.tasks, h), NewTask(h, arg, q))]
    BY <1>3, Zenon DEF Begin, NewTask
  <2> HIDE DEF q
  <2>2. Waits(here, d, acc, h, arg, v, a)
    BY <1>3, <2>1, Zenon DEF Waits
  <2> QED
    BY <2>2
<1> QED
  BY <1>1, <1>2, <1>3

LEMMA CopiedKeeps ==
  ASSUME NEW u, NEW c
  PROVE  DOMAIN Copied(u, c) = DOMAIN u /\ \A g \in DOMAIN u \ DOMAIN c : Copied(u, c)[g] = u[g]
BY DEF Copied

(* A field that nothing of d's start assigns stays.                        *)
LEMMA BeginLeaves ==
  ASSUME NEW here, NEW acc, NEW h, NEW arg, NEW v, Listed(here.handlers[h].needs),
         NEW g \in DOMAIN acc.ui, g \notin DOMAIN here.handlers[h].copies,
         \A e \in StartAssignments(here.handlers[h]) : g \notin DOMAIN e
  PROVE  Begin(here, acc, h, arg, v).ui[g] = acc.ui[g]
<1> DEFINE d == here.handlers[h]
<1> DEFINE a == Begin(here, acc, h, arg, v)
<1> DEFINE u1 == Copied(acc.ui, d.copies)
<1> DEFINE u2 == Assign(u1, d.start, arg)
<1>1. CASE ReturnsEarly(here, d, acc, h, arg, v, a)
  <2>1. PICK i \in DOMAIN d.needs : a.ui = Assign(acc.ui, d.needs[i].otherwise, arg)
    BY <1>1 DEF ReturnsEarly, Unmet
  <2>2. g \notin DOMAIN d.needs[i].otherwise
    BY DEF StartAssignments
  <2>3. Assigned(acc.ui, d.needs[i].otherwise, a.ui)
    BY <2>1, AssignAssigned
  <2> QED
    BY <2>2, <2>3 DEF Assigned
<1>2. u2[g] = acc.ui[g] /\ DOMAIN u2 = DOMAIN acc.ui
  <2>1. DOMAIN u1 = DOMAIN acc.ui /\ u1[g] = acc.ui[g]
    BY CopiedKeeps
  <2>2. g \notin DOMAIN d.start
    BY DEF StartAssignments
  <2>3. Assigned(u1, d.start, u2)
    BY AssignAssigned
  <2> HIDE DEF u1, u2
  <2> QED
    BY <2>1, <2>2, <2>3 DEF Assigned
<1>3. CASE EndsAtOnce(here, d, acc, h, arg, v, a)
  <2>1. a.ui = u2
    BY <1>3 DEF EndsAtOnce
  <2> QED
    BY <1>2, <2>1
<1>4. CASE Waits(here, d, acc, h, arg, v, a)
  <2>1. a.ui = Assign(u2, d.steps[1].begin, arg)
    BY <1>4 DEF Waits
  <2>2. g \notin DOMAIN d.steps[1].begin
    BY <1>4 DEF StartAssignments, Waits
  <2>3. Assigned(u2, d.steps[1].begin, a.ui)
    BY <2>1, AssignAssigned
  <2> HIDE DEF u2
  <2> QED
    BY <1>2, <2>2, <2>3 DEF Assigned
<1> HIDE DEF u1, u2
<1> QED
  BY <1>1, <1>3, <1>4, BeginCases

LEMMA FirstStep ==
  ASSUME NEW s, Listed(s), s # <<>>
  PROVE  1 \in DOMAIN s /\ Len(s) >= 1
<1>1. DOMAIN s = 1..Len(s) /\ Len(s) \in Nat
  BY DEF Listed
<1>2. CASE Len(s) = 0
  <2>1. DOMAIN s = {} /\ DOMAIN <<>> = {}
    BY <1>1, <1>2
  <2>2. s = [i \in {} |-> s[i]]
    BY <1>2 DEF Listed
  <2>3. <<>> = [i \in {} |-> s[i]]
    OBVIOUS
  <2> QED
    BY <2>2, <2>3
<1> QED
  BY <1>1, <1>2

(* A task as it can be.                                                    *)
TaskFine(here, t) ==
  /\ DOMAIN t = {"h", "arg", "at", "fresh", "new", "gone", "q"}
  /\ t.h \in DOMAIN here.handlers /\ t.at \in DOMAIN here.handlers[t.h].steps
  /\ t.new \in BOOLEAN /\ t.gone \in BOOLEAN
  /\ t.gone => here.handlers[t.h].part # None

(* The state and the tasks so far; D are the fields of the page.           *)
Fine(here, D, acc) ==
  /\ DOMAIN acc.ui = D
  /\ Listed(acc.tasks)
  /\ \A i \in DOMAIN acc.tasks : TaskFine(here, acc.tasks[i])

LEMMA NewTaskFine ==
  ASSUME NEW here, NEW h \in DOMAIN here.handlers, NEW arg, NEW q,
         1 \in DOMAIN here.handlers[h].steps
  PROVE  LET t == NewTask(h, arg, q) IN
         TaskFine(here, t) /\ t.h = h /\ t.at = 1 /\ t.new = TRUE /\ t.gone = FALSE
BY DEF NewTask, TaskFine

(* What the tasks are after a handler was started.                         *)
LEMMA BeginTasks ==
  ASSUME NEW here, NEW D, NEW acc, Fine(here, D, acc), NEW h \in DOMAIN here.handlers, NEW arg, NEW v,
         Listed(here.handlers[h].needs), Listed(here.handlers[h].steps)
  PROVE  LET d == here.handlers[h]
             a == Begin(here, acc, h, arg, v)
             kept == Remaining(here, acc.tasks, h)
         IN /\ Fine(here, D, a)
            /\ Fine(here, D, [ui |-> acc.ui, tasks |-> kept])
            /\ \/ a.tasks = kept
               \/ \E q : a.tasks = Append(kept, NewTask(h, arg, q))
            /\ a.tasks # kept => Waits(here, d, acc, h, arg, v, a)
<1> DEFINE d == here.handlers[h]
<1> DEFINE a == Begin(here, acc, h, arg, v)
<1> DEFINE kept == Remaining(here, acc.tasks, h)
<1>1. Listed(acc.tasks) /\ DOMAIN acc.ui = D
  BY DEF Fine
<1>2. Listed(kept) /\ SomeOf(acc.tasks, kept)
  BY <1>1, RemainingTasks
<1>3. \A j \in DOMAIN kept : TaskFine(here, kept[j])
  <2>1. PICK m \in [DOMAIN kept -> DOMAIN acc.tasks] : \A j \in DOMAIN kept : kept[j] = acc.tasks[m[j]]
    BY <1>2 DEF SomeOf
  <2> HIDE DEF kept
  <2>2. \A j \in DOMAIN kept : m[j] \in DOMAIN acc.tasks
    BY <2>1
  <2> QED
    BY <2>1, <2>2 DEF Fine
<1> DEFINE u1 == Copied(acc.ui, d.copies)
<1> DEFINE u2 == Assign(u1, d.start, arg)
<1>4. DOMAIN u1 = D /\ DOMAIN u2 = D
  <2>1. DOMAIN u1 = D
    BY <1>1, CopiedKeeps
  <2>2. Assigned(u1, d.start, u2)
    BY AssignAssigned
  <2> QED
    BY <2>1, <2>2 DEF Assigned
<1> HIDE DEF kept, u1
<1>5. CASE ReturnsEarly(here, d, acc, h, arg, v, a)
  <2>1. PICK i : a = [ui |-> Assign(acc.ui, d.needs[i].otherwise, arg), tasks |-> kept]
    BY <1>5, Zenon DEF ReturnsEarly, kept
  <2>2. DOMAIN a.ui = D /\ a.tasks = kept
    <3>1. Assigned(acc.ui, d.needs[i].otherwise, Assign(acc.ui, d.needs[i].otherwise, arg))
      BY AssignAssigned
    <3> QED
      BY <1>1, <2>1, <3>1 DEF Assigned
  <2> HIDE DEF a
  <2> QED
    BY <1>1, <1>2, <1>3, <2>2 DEF Fine, a, kept
<1>6. CASE EndsAtOnce(here, d, acc, h, arg, v, a)
  <2>1. DOMAIN a.ui = D /\ a.tasks = kept
    BY <1>4, <1>6 DEF EndsAtOnce, kept, u1
  <2> HIDE DEF a
  <2> QED
    BY <1>1, <1>2, <1>3, <2>1 DEF Fine, a, kept
<1>7. CASE Waits(here, d, acc, h, arg, v, a)
  <2>1. PICK q : a = [ui |-> Assign(u2, d.steps[1].begin, arg), tasks |-> Append(kept, NewTask(h, arg, q))]
    BY <1>7 DEF Waits, kept, u1
  <2> DEFINE t == NewTask(h, arg, q)
  <2>2. DOMAIN a.ui = D /\ a.tasks = Append(kept, t)
    <3>1. Assigned(u2, d.steps[1].begin, Assign(u2, d.steps[1].begin, arg))
      BY AssignAssigned
    <3> QED
      BY <1>4, <2>1, <3>1 DEF Assigned
  <2>3. TaskFine(here, t)
    <3>1. 1 \in DOMAIN d.steps
      BY <1>7, FirstStep DEF Waits
    <3> QED
      BY <3>1, NewTaskFine
  <2> HIDE DEF t, a
  <2>4. Listed(a.tasks) /\ \A j \in DOMAIN a.tasks : TaskFine(here, a.tasks[j])
    <3>1. Len(kept) \in Nat
      BY <1>2 DEF Listed
    <3>2. \A j \in DOMAIN a.tasks : j \in DOMAIN kept \/ j = Len(kept) + 1
      BY <1>2, <2>2, <3>1, AppendTask
    <3> QED
      BY <1>2, <1>3, <2>2, <2>3, <3>2, AppendTask
  <2> QED
    BY <1>1, <1>2, <1>3, <1>7, <2>2, <2>4 DEF Fine, a, kept, t
<1> QED
  BY <1>5, <1>6, <1>7, BeginCases

---------------------------------------------------------------------------
(* Marks of work in progress.  Who owes a mark carries it: when its field  *)
(* is marked and the page is not left, some task carries it (b: one that   *)
(* was started in this step).                                              *)
Carries(here, t, f) ==
  LET d == here.handlers[t.h]
  IN Owes(d, t.at, f) /\ (t.gone => f \notin DOMAIN here.parts[d.part])
Marked(here, acc, f, b) ==
  Off(acc.ui, f) \/ \E i \in DOMAIN acc.tasks : Carries(here, acc.tasks[i], f) /\ (b => acc.tasks[i].new)

(* What the rules say of a handler.                                        *)
LEMMA HandlerRules ==
  ASSUME NEW here, KeepsRules(here), NEW h \in DOMAIN here.handlers
  PROVE  LET d == here.handlers[h] IN
         /\ Listed(d.needs) /\ Listed(d.steps)
         /\ \A k \in DOMAIN d.steps : Listed(d.steps[k].needs)
         /\ "goto" \notin DOMAIN d.copies
         /\ \A k \in DOMAIN d.steps : "goto" \notin DOMAIN d.steps[k].copies
         /\ \A e \in Assignments(d) : Departs(e) /\ e \in PageAssignments(here)
         /\ d.part # None => d.part \in DOMAIN here.parts
<1>1. WellFormed(here) /\ Navigates(here)
  BY DEF KeepsRules, WellFormed
<1>2. \A e \in Assignments(here.handlers[h]) : e \in PageAssignments(here)
  BY DEF PageAssignments
<1>3. \A e \in PageAssignments(here) : Departs(e)
  BY <1>1 DEF Navigates, Departs
<1>4. "goto" \notin CopiesInto(here.handlers[h])
  BY <1>1 DEF Navigates
<1> QED
  BY <1>1, <1>2, <1>3, <1>4 DEF WellFormed, CopiesInto

LEMMA InAssignments ==
  ASSUME NEW d
  PROVE  /\ {d.start, d.fail, d.final} \subseteq Assignments(d)
         /\ \A i \in DOMAIN d.needs : d.needs[i].otherwise \in Assignments(d)
         /\ \A k \in DOMAIN d.steps :
              /\ {d.steps[k].begin, d.steps[k].fail} \subseteq Assignments(d)
              /\ d.steps[k].then \subseteq Assignments(d)
              /\ \A i \in DOMAIN d.steps[k].needs : d.steps[k].needs[i].otherwise \in Assignments(d)
<1>1. \A k \in DOMAIN d.steps : StepAssignments(d.steps[k]) \subseteq Assignments(d)
  BY DEF Assignments
<1>2. \A s : /\ {s.begin, s.fail} \subseteq StepAssignments(s) /\ s.then \subseteq StepAssignments(s)
             /\ \A i \in DOMAIN s.needs : s.needs[i].otherwise \in StepAssignments(s)
  BY DEF StepAssignments
<1>3. /\ {d.start, d.fail, d.final} \subseteq Assignments(d)
      /\ \A i \in DOMAIN d.needs : d.needs[i].otherwise \in Assignments(d)
  BY DEF Assignments
<1> QED
  BY <1>1, <1>2, <1>3

LEMMA FieldsOf ==
  ASSUME NEW here, KeepsRules(here), NEW w \in here.states
  PROVE  /\ "goto" \in DOMAIN w
         /\ \A f \in here.busy : f \in DOMAIN w
         /\ \A p \in DOMAIN here.parts : p \in DOMAIN w
BY DEF KeepsRules, WellFormed, Navigates, ReleasesMark, HasField

(* Whose run is dropped by h is taken over by h.                           *)
LEMMA DroppedIsTakenOver ==
  ASSUME NEW here, KeepsRules(here), NEW f \in here.busy, NEW h \in DOMAIN here.handlers,
         NEW t, TaskFine(here, t), Carries(here, t, f), ~Stays(here, h, t)
  PROVE  TakesOver(here.handlers[h], f)
<1>1. DropsOwed(here, h, f)
  BY DEF KeepsRules, ReleasesMark
<1>2. t.h \in ({h} \cup here.handlers[h].cancels) \cap DOMAIN here.handlers
  BY DEF Stays, TaskFine
<1>3. here.handlers[t.h].latest # "none"
  BY DEF Stays, Dropped, DescriptionOf
<1>4. t.at \in DOMAIN here.handlers[t.h].steps /\ Owes(here.handlers[t.h], t.at, f)
  BY DEF TaskFine, Carries
<1> QED
  BY <1>1, <1>2, <1>3, <1>4 DEF DropsOwed

LEMMA OffCopied ==
  ASSUME NEW u, NEW c, NEW f \in DOMAIN u \ DOMAIN c, "goto" \in DOMAIN u \ DOMAIN c, Off(u, f)
  PROVE  Off(Copied(u, c), f)
BY CopiedKeeps DEF Off

LEMMA BeginMarks ==
  ASSUME NEW here, KeepsRules(here), NEW w \in here.states, NEW acc, Fine(here, DOMAIN w, acc),
         NEW h \in DOMAIN here.handlers, NEW arg, NEW v, NEW f \in here.busy, NEW b \in BOOLEAN
  PROVE  /\ Marked(here, acc, f, b) /\ ~HasRun(here, h, f) => Marked(here, Begin(here, acc, h, arg, v), f, b)
         /\ TakesOver(here.handlers[h], f) => Marked(here, Begin(here, acc, h, arg, v), f, b)
<1> DEFINE d == here.handlers[h]
<1> DEFINE a == Begin(here, acc, h, arg, v)
<1> DEFINE kept == Remaining(here, acc.tasks, h)
<1> DEFINE u1 == Copied(acc.ui, d.copies)
<1> DEFINE u2 == Assign(u1, d.start, arg)
<1>1. DOMAIN acc.ui = DOMAIN w /\ f \in DOMAIN w /\ "goto" \in DOMAIN w
  BY FieldsOf DEF Fine
<1>2. MarksOwed(here, h, f)
  BY DEF KeepsRules, ReleasesMark
<1>3. /\ \A e \in Assignments(d) : Departs(e)
      /\ "goto" \notin DOMAIN d.copies /\ f \notin DOMAIN d.copies
  BY <1>2, HandlerRules DEF MarksOwed, CopiesInto
(* The tasks that carry f and stay.                                        *)
<1>4. ASSUME Marked(here, acc, f, b), ~Off(acc.ui, f), ~TakesOver(d, f)
      PROVE  \E j \in DOMAIN kept : Carries(here, kept[j], f) /\ (b => kept[j].new)
  <2>1. PICK i \in DOMAIN acc.tasks : Carries(here, acc.tasks[i], f) /\ (b => acc.tasks[i].new)
    BY <1>4 DEF Marked
  <2>2. Stays(here, h, acc.tasks[i])
    BY <1>4, <2>1, DroppedIsTakenOver DEF Fine
  <2>3. PICK j \in DOMAIN kept : kept[j] = acc.tasks[i]
    BY <2>2, RemainingTasks DEF Fine
  <2> QED
    BY <2>1, <2>3
<1>5. Off(acc.ui, f) /\ ~Marks(d.start, f) => Off(u2, f)
  <2> SUFFICES ASSUME Off(acc.ui, f), ~Marks(d.start, f)  PROVE Off(u2, f)
    OBVIOUS
  <2>1. Off(u1, f) /\ DOMAIN u1 = DOMAIN w
    BY <1>1, <1>3, OffCopied, CopiedKeeps
  <2>2. Assigned(u1, d.start, u2) /\ Departs(d.start)
    BY <1>3, AssignAssigned, InAssignments
  <2> HIDE DEF u1, u2
  <2> QED
    BY <1>1, <2>1, <2>2, OffKept
<1>6. DOMAIN u2 = DOMAIN w
  <2>1. DOMAIN u1 = DOMAIN w
    BY <1>1, CopiedKeeps
  <2>2. Assigned(u1, d.start, u2)
    BY AssignAssigned
  <2> QED
    BY <2>1, <2>2 DEF Assigned
<1>7. ~HasRun(here, h, f) /\ ~Owes(d, 1, f) => ~StartMarks(d, f)
  BY <1>2 DEF MarksOwed
<1>8. CASE ReturnsEarly(here, d, acc, h, arg, v, a)
  <2>1. PICK i \in DOMAIN d.needs : a = [ui |-> Assign(acc.ui, d.needs[i].otherwise, arg), tasks |-> kept]
    BY <1>8 DEF ReturnsEarly, Unmet
  <2> DEFINE o == d.needs[i].otherwise
  <2>2. Assigned(acc.ui, o, a.ui) /\ a.tasks = kept
    BY <2>1, AssignAssigned
  <2>3. Departs(o) /\ ~Marks(o, f)
    BY <1>2, <1>3, InAssignments DEF MarksOwed, NeverMarks
  <2>4. TakesOver(d, f) => Unmarks(o, f)
    BY DEF TakesOver, AlwaysUnmarks
  <2> HIDE DEF a, kept, o
  <2>5. TakesOver(d, f) => Off(a.ui, f)
    BY <1>1, <2>2, <2>3, <2>4, OffSet
  <2>6. Off(acc.ui, f) => Off(a.ui, f)
    BY <1>1, <2>2, <2>3, OffKept
  <2> QED
    BY <1>4, <2>2, <2>5, <2>6 DEF Marked, a
<1>9. CASE EndsAtOnce(here, d, acc, h, arg, v, a)
  <2>1. a.ui = u2 /\ a.tasks = kept
    BY <1>9 DEF EndsAtOnce
  <2>2. ~Owes(d, 1, f)
    BY <1>9 DEF EndsAtOnce, Owes
  <2>3. ~TakesOver(d, f)
    BY <2>2 DEF TakesOver
  <2>4. ~HasRun(here, h, f) => ~Marks(d.start, f)
    BY <1>7, <2>2 DEF StartMarks
  <2> HIDE DEF a, kept, u2
  <2> QED
    BY <1>4, <1>5, <2>1, <2>3, <2>4 DEF Marked, a
<1>10. CASE Waits(here, d, acc, h, arg, v, a)
  <2>1. PICK q : a = [ui |-> Assign(u2, d.steps[1].begin, arg), tasks |-> Append(kept, NewTask(h, arg, q))]
    BY <1>10 DEF Waits
  <2> DEFINE t == NewTask(h, arg, q)
  <2>2. Assigned(u2, d.steps[1].begin, a.ui) /\ a.tasks = Append(kept, t)
    BY <2>1, AssignAssigned
  <2>3. 1 \in DOMAIN d.steps /\ Departs(d.steps[1].begin)
    <3>1. 1 \in DOMAIN d.steps
      BY <1>10, HandlerRules, FirstStep DEF Waits
    <3> QED
      BY <1>3, <3>1, InAssignments
  <2>4. t.h = h /\ t.at = 1 /\ t.new = TRUE /\ t.gone = FALSE
    BY DEF NewTask
  <2>5. Listed(kept) /\ Len(kept) \in Nat
    BY RemainingTasks, ZenonT(40) DEF Fine, Listed
  <2> HIDE DEF a, kept, u2, t
  <2>6. /\ \A j \in DOMAIN kept : j \in DOMAIN a.tasks /\ a.tasks[j] = kept[j]
        /\ Len(kept) + 1 \in DOMAIN a.tasks /\ a.tasks[Len(kept) + 1] = t
    BY <2>2, <2>5, AppendTask
  <2>7. CASE Owes(d, 1, f)
    <3>1. Carries(here, t, f) /\ t.new
      BY <2>4, <2>7 DEF Carries
    <3> QED
      BY <2>6, <3>1 DEF Marked, a
  <2>8. CASE ~Owes(d, 1, f)
    <3>1. ~TakesOver(d, f)
      BY <2>8 DEF TakesOver
    <3> SUFFICES ASSUME Marked(here, acc, f, b), ~HasRun(here, h, f)  PROVE Marked(here, a, f, b)
      BY <3>1 DEF a
    <3>2. ~Marks(d.start, f) /\ ~Marks(d.steps[1].begin, f)
      BY <1>7, <1>10, <2>8 DEF StartMarks, Waits
    <3>3. CASE Off(acc.ui, f)
      <4>1. Off(u2, f)
        BY <1>5, <3>2, <3>3
      <4>2. Off(a.ui, f)
        BY <1>1, <1>6, <2>2, <2>3, <3>2, <4>1, OffKept
      <4> QED
        BY <4>2 DEF Marked
    <3>4. CASE ~Off(acc.ui, f)
      <4>1. PICK j \in DOMAIN kept : Carries(here, kept[j], f) /\ (b => kept[j].new)
        BY <1>4, <3>1, <3>4
      <4> QED
        BY <2>6, <4>1 DEF Marked
    <3> QED
      BY <3>3, <3>4
  <2> QED
    BY <2>7, <2>8
<1> QED
  BY <1>8, <1>9, <1>10, HandlerRules, BeginCases

---------------------------------------------------------------------------
(* Effects, one after the other.                                           *)

AfterEffect(here, due, v, acc, n, x) ==
  IF n = 0 THEN acc
  ELSE IF n \in due THEN Begin(here, x, here.effects[n].run, None, v) ELSE x
IsAfter(here, due, v, acc, N, g) ==
  g = [n \in 0..N |-> AfterEffect(here, due, v, acc, n, g[n - 1])]

LEMMA EffectsRun ==
  ASSUME NEW here, NEW due, NEW v, NEW acc, Len(here.effects) \in Nat
  PROVE  \E g : /\ IsAfter(here, due, v, acc, Len(here.effects), g)
                /\ RunEffects(here, due, v, acc) = g[Len(here.effects)]
<1> DEFINE Solved == {N \in Nat : \E g : IsAfter(here, due, v, acc, N, g)}
<1>1. 0 \in Solved
  <2> DEFINE g == [n \in 0..0 |-> acc]
  <2>1. \A n \in 0..0 : n = 0
    OBVIOUS
  <2>2. IsAfter(here, due, v, acc, 0, g)
    BY <2>1 DEF IsAfter, AfterEffect
  <2> QED
    BY <2>2
<1>2. ASSUME NEW N \in Solved  PROVE N + 1 \in Solved
  <2>1. PICK g : IsAfter(here, due, v, acc, N, g)
    OBVIOUS
  <2>2. \A n \in 0..N : g[n] = AfterEffect(here, due, v, acc, n, g[n - 1])
    BY <2>1 DEF IsAfter
  <2> DEFINE k == [n \in 0..(N + 1) |->
                     IF n <= N THEN g[n] ELSE AfterEffect(here, due, v, acc, n, g[n - 1])]
  <2>3. ASSUME NEW n \in 0..(N + 1)  PROVE k[n] = AfterEffect(here, due, v, acc, n, k[n - 1])
    <3>1. k[n] = AfterEffect(here, due, v, acc, n, g[n - 1])
      BY <2>2
    <3>2. CASE n = 0
      BY <3>1, <3>2 DEF AfterEffect
    <3>3. CASE n # 0
      <4>1. n - 1 \in 0..(N + 1) /\ n - 1 <= N
        BY <3>3
      <4>2. k[n - 1] = g[n - 1]
        BY <4>1
      <4> QED
        BY <3>1, <4>2
    <3> QED
      BY <3>2, <3>3
  <2>4. k = [n \in 0..(N + 1) |-> k[n]]
    OBVIOUS
  <2> HIDE DEF k
  <2>5. IsAfter(here, due, v, acc, N + 1, k)
    BY <2>3, <2>4 DEF IsAfter
  <2> QED
    BY <2>5
<1>3. Solved = Nat
  <2>1. Solved \in SUBSET Nat
    OBVIOUS
  <2> HIDE DEF Solved
  <2> QED
    BY <1>1, <1>2, <2>1, AllNumbers
<1> DEFINE g == CHOOSE after : IsAfter(here, due, v, acc, Len(here.effects), after)
<1>4. RunEffects(here, due, v, acc) = g[Len(here.effects)]
  BY Zenon DEF RunEffects, IsAfter, AfterEffect
<1>5. IsAfter(here, due, v, acc, Len(here.effects), g)
  <2>1. \E after : IsAfter(here, due, v, acc, Len(here.effects), after)
    BY <1>3
  <2> QED
    BY <2>1, Zenon
<1> QED
  BY <1>4, <1>5, Zenon

(* What holds before the effects and is kept by each that is due holds     *)
(* after them: G are the accs of which it holds, among those reached, R.   *)
LEMMA EffectsKeep ==
  ASSUME NEW here, NEW due, NEW v, NEW acc, Listed(here.effects)
  PROVE  \E R : /\ acc \in R
                /\ \A G \in SUBSET R :
                     /\ acc \in G
                     /\ \A x \in G, n \in due \cap DOMAIN here.effects :
                          Begin(here, x, here.effects[n].run, None, v) \in R =>
                            Begin(here, x, here.effects[n].run, None, v) \in G
                     => RunEffects(here, due, v, acc) \in G
<1> DEFINE N == Len(here.effects)
<1>0. N \in Nat /\ DOMAIN here.effects = 1..N
  BY DEF Listed
<1>1. PICK g : IsAfter(here, due, v, acc, N, g) /\ RunEffects(here, due, v, acc) = g[N]
  BY <1>0, EffectsRun
<1>2. \A n \in 0..N : g[n] = AfterEffect(here, due, v, acc, n, g[n - 1])
  BY <1>1 DEF IsAfter
<1> DEFINE R == {g[n] : n \in 0..N}
<1>3. acc \in R
  BY <1>0, <1>2 DEF AfterEffect
<1>4. ASSUME NEW G \in SUBSET R, acc \in G,
             \A x \in G, n \in due \cap DOMAIN here.effects :
               Begin(here, x, here.effects[n].run, None, v) \in R =>
                 Begin(here, x, here.effects[n].run, None, v) \in G
      PROVE  g[N] \in G
  <2> DEFINE T == {n \in Nat : n <= N => g[n] \in G}
  <2>1. 0 \in T
    BY <1>0, <1>2, <1>4 DEF AfterEffect
  <2>2. ASSUME NEW n \in T  PROVE n + 1 \in T
    <3> SUFFICES ASSUME n + 1 <= N  PROVE g[n + 1] \in G
      OBVIOUS
    <3>1. n + 1 \in 0..N /\ n + 1 # 0 /\ (n + 1) - 1 = n /\ n + 1 \in DOMAIN here.effects
      BY <1>0
    <3>2. g[n] \in G /\ g[n + 1] \in R
      BY <1>0, <3>1
    <3>3. g[n + 1] = IF n + 1 \in due THEN Begin(here, g[n], here.effects[n + 1].run, None, v) ELSE g[n]
      BY <1>2, <3>1 DEF AfterEffect
    <3> HIDE DEF R
    <3> QED
      BY <1>4, <3>1, <3>2, <3>3
  <2>3. T \in SUBSET Nat
    OBVIOUS
  <2> HIDE DEF T
  <2>4. N \in T
    BY <1>0, <2>1, <2>2, <2>3, AllNumbers
  <2> QED
    BY <1>0, <2>4 DEF T
<1> HIDE DEF R, N
<1> QED
  BY <1>1, <1>3, <1>4

LEMMA EffectRules ==
  ASSUME NEW here, KeepsRules(here)
  PROVE  /\ Listed(here.effects)
         /\ \A n \in DOMAIN here.effects :
              /\ here.effects[n].run \in DOMAIN here.handlers
              /\ here.effects[n].run \in ByEffect(here)
              /\ here.effects[n].run \in Automatic(here)
         /\ \A e \in PageAssignments(here) : "runs" \in DOMAIN e =>
              e.runs \in Automatic(here) /\ e.runs \in ByHandler(here) /\ e.runs \in DOMAIN here.handlers
<1>1. \A n \in DOMAIN here.effects : here.effects[n].run \in ByEffect(here)
  BY DEF ByEffect
<1>2. \A e \in PageAssignments(here) : "runs" \in DOMAIN e => e.runs \in ByHandler(here)
  BY DEF ByHandler
<1> QED
  BY <1>1, <1>2 DEF KeepsRules, WellFormed, Automatic

(* The effects keep who carries a mark; one that is due and takes a mark   *)
(* over carries it.                                                        *)
LEMMA EffectsMarks ==
  ASSUME NEW here, KeepsRules(here), NEW w \in here.states, NEW acc, Fine(here, DOMAIN w, acc),
         NEW due, NEW v
  PROVE  LET a == RunEffects(here, due, v, acc) IN
         /\ Fine(here, DOMAIN w, a)
         /\ \A f \in here.busy, b \in BOOLEAN :
              /\ Marked(here, acc, f, b) => Marked(here, a, f, b)
              /\ \A n \in due \cap DOMAIN here.effects :
                   TakesOver(here.handlers[here.effects[n].run], f) => Marked(here, a, f, b)
<1> DEFINE N == Len(here.effects)
<1>0. N \in Nat /\ DOMAIN here.effects = 1..N
  BY EffectRules DEF Listed
<1>1. PICK g : IsAfter(here, due, v, acc, N, g) /\ RunEffects(here, due, v, acc) = g[N]
  BY <1>0, EffectsRun
<1>2. \A n \in 0..N : g[n] = AfterEffect(here, due, v, acc, n, g[n - 1])
  BY <1>1 DEF IsAfter
<1> DEFINE Right(k, x) ==
      /\ Fine(here, DOMAIN w, x)
      /\ \A f \in here.busy, b \in BOOLEAN :
           /\ Marked(here, acc, f, b) => Marked(here, x, f, b)
           /\ \A n \in due \cap 1..k :
                TakesOver(here.handlers[here.effects[n].run], f) => Marked(here, x, f, b)
<1> DEFINE T == {k \in Nat : k <= N => Right(k, g[k])}
<1>3. 0 \in T
  <2>1. g[0] = acc
    BY <1>0, <1>2 DEF AfterEffect
  <2>2. 1..0 = {}
    OBVIOUS
  <2> QED
    BY <2>1, <2>2
<1>4. ASSUME NEW k \in T  PROVE k + 1 \in T
  <2> SUFFICES ASSUME k + 1 <= N  PROVE Right(k + 1, g[k + 1])
    OBVIOUS
  <2>1. k + 1 \in 0..N /\ k + 1 # 0 /\ (k + 1) - 1 = k /\ k + 1 \in DOMAIN here.effects /\ k \in Nat
    BY <1>0
  <2>2. Right(k, g[k])
    BY <1>0, <2>1
  <2> DEFINE h == here.effects[k + 1].run
  <2> DEFINE x == g[k]
  <2> DEFINE y == g[k + 1]
  <2>3. y = IF k + 1 \in due THEN Begin(here, x, h, None, v) ELSE x
    BY <1>2, <2>1 DEF AfterEffect
  <2>4. \A n \in 1..(k + 1) : n \in 1..k \/ n = k + 1
    BY <2>1
  <2>5. CASE k + 1 \notin due
    <3>1. y = x
      BY <2>3, <2>5
    <3>2. Right(k + 1, x)
      BY <2>2, <2>4, <2>5
    <3> HIDE DEF Right, x, y
    <3> QED
      BY <3>1, <3>2 DEF y
  <2>6. CASE k + 1 \in due
    <3>1. y = Begin(here, x, h, None, v)
      BY <2>3, <2>6
    <3>2. h \in DOMAIN here.handlers /\ h \in Automatic(here)
      BY <2>1, EffectRules
    <3>3. Fine(here, DOMAIN w, x)
      BY <2>2
    <3> HIDE DEF x, y, h
    <3>4. Fine(here, DOMAIN w, y)
      BY <3>1, <3>2, <3>3, HandlerRules, BeginTasks
    <3>5. ASSUME NEW f \in here.busy, NEW b \in BOOLEAN
          PROVE  /\ Marked(here, x, f, b) => Marked(here, y, f, b)
                 /\ TakesOver(here.handlers[h], f) => Marked(here, y, f, b)
      <4>1. ~HasRun(here, h, f)
        BY <3>2 DEF HasRun
      <4> QED
        BY <3>1, <3>2, <3>3, <4>1, BeginMarks
    <3>6. ASSUME NEW f \in here.busy, NEW b \in BOOLEAN
          PROVE  /\ Marked(here, acc, f, b) => Marked(here, y, f, b)
                 /\ \A n \in due \cap 1..(k + 1) :
                      TakesOver(here.handlers[here.effects[n].run], f) => Marked(here, y, f, b)
      <4>1. \A n \in due \cap 1..k : TakesOver(here.handlers[here.effects[n].run], f) => Marked(here, x, f, b)
        BY <2>2 DEF x
      <4>2. Marked(here, acc, f, b) => Marked(here, x, f, b)
        BY <2>2 DEF x
      <4> QED
        BY <2>4, <3>5, <4>1, <4>2 DEF h
    <3> QED
      BY <3>4, <3>6 DEF y
  <2> QED
    BY <2>5, <2>6
<1>5. Right(N, g[N])
  <2>1. T \in SUBSET Nat
    OBVIOUS
  <2> HIDE DEF T
  <2>2. N \in T
    BY <1>0, <1>3, <1>4, <2>1, AllNumbers
  <2> QED
    BY <1>0, <2>2 DEF T
<1> HIDE DEF N
<1> QED
  BY <1>0, <1>1, <1>5

(* The same for one rendering and for all that follow a change.            *)
LEMMA RenderedMarks ==
  ASSUME NEW here, KeepsRules(here), NEW w \in here.states, NEW u, NEW acc, Fine(here, DOMAIN w, acc)
  PROVE  LET a == Rendered(here, u, acc) IN
         /\ Fine(here, DOMAIN w, a)
         /\ \A f \in here.busy, b \in BOOLEAN :
              /\ Marked(here, acc, f, b) => Marked(here, a, f, b)
              /\ \A n \in DOMAIN here.effects : \A g \in here.effects[n].deps :
                   /\ u[g] # acc.ui[g]
                   /\ TakesOver(here.handlers[here.effects[n].run], f)
                   => Marked(here, a, f, b)
<1> DEFINE Due(x, y) == {n \in DOMAIN here.effects : \E f \in here.effects[n].deps : x[f] # y[f]}
<1> DEFINE x == RunEffects(here, Due(u, acc.ui), acc.ui, acc)
<1> DEFINE y == RunEffects(here, Due(acc.ui, x.ui), x.ui, x)
<1> DEFINE z == RunEffects(here, Due(x.ui, y.ui), y.ui, y)
<1>1. Rendered(here, u, acc) = z
  BY Zenon DEF Rendered, Render
<1>2. /\ Fine(here, DOMAIN w, x)
      /\ \A f \in here.busy, b \in BOOLEAN :
           /\ Marked(here, acc, f, b) => Marked(here, x, f, b)
           /\ \A n \in Due(u, acc.ui) \cap DOMAIN here.effects :
                TakesOver(here.handlers[here.effects[n].run], f) => Marked(here, x, f, b)
  BY EffectsMarks, Zenon
<1>3. \A n \in DOMAIN here.effects : \A g \in here.effects[n].deps :
        u[g] # acc.ui[g] => n \in Due(u, acc.ui) \cap DOMAIN here.effects
  OBVIOUS
<1> HIDE DEF x
<1>4. /\ Fine(here, DOMAIN w, y)
      /\ \A f \in here.busy, b \in BOOLEAN : Marked(here, x, f, b) => Marked(here, y, f, b)
  BY <1>2, EffectsMarks, Zenon
<1> HIDE DEF y
<1>5. /\ Fine(here, DOMAIN w, z)
      /\ \A f \in here.busy, b \in BOOLEAN : Marked(here, y, f, b) => Marked(here, z, f, b)
  BY <1>4, EffectsMarks, Zenon
<1> HIDE DEF z, Due
<1> QED
  BY <1>1, <1>2, <1>3, <1>4, <1>5

(* What is kept by the effects of a rendering.  They have dependencies;    *)
(* when the page is mounted, the others run as well.                       *)
KeptBy(here, G, R, n) ==
  \A x \in G : \A v : Begin(here, x, here.effects[n].run, None, v) \in R =>
                        Begin(here, x, here.effects[n].run, None, v) \in G

LEMMA RenderedKeep ==
  ASSUME NEW here, NEW u, NEW acc, Listed(here.effects)
  PROVE  \E R : /\ acc \in R
                /\ \A G \in SUBSET R :
                     /\ acc \in G
                     /\ \A n \in DOMAIN here.effects : here.effects[n].deps # {} => KeptBy(here, G, R, n)
                     => Rendered(here, u, acc) \in G
<1> DEFINE Due(x, y) == {n \in DOMAIN here.effects : \E f \in here.effects[n].deps : x[f] # y[f]}
<1> DEFINE x == RunEffects(here, Due(u, acc.ui), acc.ui, acc)
<1> DEFINE y == RunEffects(here, Due(acc.ui, x.ui), x.ui, x)
<1> DEFINE z == RunEffects(here, Due(x.ui, y.ui), y.ui, y)
<1>1. Rendered(here, u, acc) = z
  BY Zenon DEF Rendered, Render
<1>2. \A p, q : \A n \in Due(p, q) : n \in DOMAIN here.effects /\ here.effects[n].deps # {}
  OBVIOUS
<1> DEFINE Closed(R, G, s, r) ==
      (s \in G /\ \A n \in DOMAIN here.effects : here.effects[n].deps # {} => KeptBy(here, G, R, n))
      => r \in G
<1>3. ASSUME NEW s, NEW p, NEW q, NEW v
      PROVE  \E R : s \in R /\ \A G \in SUBSET R : Closed(R, G, s, RunEffects(here, Due(p, q), v, s))
  <2>1. PICK R : /\ s \in R
                 /\ \A G \in SUBSET R :
                     /\ s \in G
                     /\ \A c \in G, n \in Due(p, q) \cap DOMAIN here.effects :
                          Begin(here, c, here.effects[n].run, None, v) \in R =>
                            Begin(here, c, here.effects[n].run, None, v) \in G
                     => RunEffects(here, Due(p, q), v, s) \in G
    BY EffectsKeep
  <2>2. ASSUME NEW G \in SUBSET R, s \in G,
               \A n \in DOMAIN here.effects : here.effects[n].deps # {} => KeptBy(here, G, R, n)
        PROVE  RunEffects(here, Due(p, q), v, s) \in G
    <3>1. \A n \in Due(p, q) \cap DOMAIN here.effects : KeptBy(here, G, R, n)
      BY <1>2, <2>2
    <3> HIDE DEF Due
    <3> QED
      BY <2>1, <2>2, <3>1 DEF KeptBy
  <2> QED
    BY <2>1, <2>2
<1> HIDE DEF Due, Closed
<1>4. PICK R1 : acc \in R1 /\ \A G \in SUBSET R1 : Closed(R1, G, acc, x)
  BY <1>3
<1> HIDE DEF x
<1>5. PICK R2 : x \in R2 /\ \A G \in SUBSET R2 : Closed(R2, G, x, y)
  BY <1>3
<1> HIDE DEF y
<1>6. PICK R3 : y \in R3 /\ \A G \in SUBSET R3 : Closed(R3, G, y, z)
  BY <1>3
<1> HIDE DEF z
<1> USE DEF Closed
<1> DEFINE R == R1 \cup R2 \cup R3
<1>7. ASSUME NEW G \in SUBSET R, acc \in G,
             \A n \in DOMAIN here.effects : here.effects[n].deps # {} => KeptBy(here, G, R, n)
      PROVE  z \in G
  <2>1. ASSUME NEW S \in {R1, R2, R3}
        PROVE  \A n \in DOMAIN here.effects : here.effects[n].deps # {} => KeptBy(here, G \cap S, S, n)
    <3>1. S \subseteq R
      OBVIOUS
    <3> HIDE DEF R
    <3>2. \A n : KeptBy(here, G, R, n) => KeptBy(here, G \cap S, S, n)
      BY <3>1 DEF KeptBy
    <3> QED
      BY <1>7, <3>2
  <2>2. x \in G
    <3>1. acc \in G \cap R1 /\ G \cap R1 \in SUBSET R1
      BY <1>4, <1>7
    <3> QED
      BY <1>4, <2>1, <3>1
  <2>3. y \in G
    <3>1. x \in G \cap R2 /\ G \cap R2 \in SUBSET R2
      BY <1>5, <2>2
    <3> QED
      BY <1>5, <2>1, <3>1
  <2>4. z \in G
    <3>1. y \in G \cap R3 /\ G \cap R3 \in SUBSET R3
      BY <1>6, <2>3
    <3> QED
      BY <1>6, <2>1, <3>1
  <2> QED
    BY <2>4
<1>8. acc \in R
  BY <1>4
<1> HIDE DEF R
<1> QED
  BY <1>1, <1>7, <1>8

---------------------------------------------------------------------------
(* Parts: only the user mounts one that holds a mark.                      *)

OpensPart(d, p) == \E e \in Assignments(d) : Mounts(e, p)
Down(u, p, x) == u[p] \in {x, None}

LEMMA AssignDown ==
  ASSUME NEW u, NEW e, NEW r, NEW p \in DOMAIN u, Assigned(u, e, r), ~Mounts(e, p), NEW x, Down(u, p, x)
  PROVE  Down(r, p, x)
BY MarkersAreNoValues DEF Assigned, Mounts, Down

LEMMA NeverOpens ==
  ASSUME NEW here, NEW p, MountedByUser(here, p), NEW h \in DOMAIN here.handlers,
         h \in Automatic(here) \/ here.handlers[h].steps # <<>>
  PROVE  ~OpensPart(here.handlers[h], p)
BY DEF MountedByUser, OpensPart

LEMMA BeginDown ==
  ASSUME NEW here, KeepsRules(here), NEW w \in here.states, NEW acc, Fine(here, DOMAIN w, acc),
         NEW h \in DOMAIN here.handlers, NEW arg, NEW v, NEW p \in DOMAIN here.parts,
         MountedByUser(here, p), ~OpensPart(here.handlers[h], p), NEW x, Down(acc.ui, p, x)
  PROVE  Down(Begin(here, acc, h, arg, v).ui, p, x)
<1> DEFINE d == here.handlers[h]
<1> DEFINE a == Begin(here, acc, h, arg, v)
<1> DEFINE u1 == Copied(acc.ui, d.copies)
<1> DEFINE u2 == Assign(u1, d.start, arg)
<1>1. p \in DOMAIN acc.ui
  BY FieldsOf DEF Fine
<1>2. Listed(d.needs) /\ Listed(d.steps) /\ p \notin DOMAIN d.copies
  BY HandlerRules DEF MountedByUser, CopiesInto
<1>3. \A e \in Assignments(d) : ~Mounts(e, p)
  BY DEF OpensPart
<1>4. p \in DOMAIN u2 /\ Down(u2, p, x)
  <2>1. p \in DOMAIN u1 /\ Down(u1, p, x)
    BY <1>1, <1>2, CopiedKeeps DEF Down
  <2>2. Assigned(u1, d.start, u2) /\ ~Mounts(d.start, p)
    BY <1>3, AssignAssigned, InAssignments
  <2> HIDE DEF u1, u2
  <2> QED
    BY <2>1, <2>2, AssignDown DEF Assigned
<1>5. CASE ReturnsEarly(here, d, acc, h, arg, v, a)
  <2>1. PICK i \in DOMAIN d.needs : a.ui = Assign(acc.ui, d.needs[i].otherwise, arg)
    BY <1>5 DEF ReturnsEarly, Unmet
  <2>2. Assigned(acc.ui, d.needs[i].otherwise, a.ui) /\ ~Mounts(d.needs[i].otherwise, p)
    BY <1>3, <2>1, AssignAssigned, InAssignments
  <2> HIDE DEF a
  <2>3. Down(a.ui, p, x)
    BY <1>1, <2>2, AssignDown
  <2> QED
    BY <2>3 DEF a
<1>6. CASE EndsAtOnce(here, d, acc, h, arg, v, a)
  <2>1. a.ui = u2
    BY <1>6 DEF EndsAtOnce
  <2> QED
    BY <1>4, <2>1
<1>7. CASE Waits(here, d, acc, h, arg, v, a)
  <2>1. a.ui = Assign(u2, d.steps[1].begin, arg)
    BY <1>7 DEF Waits
  <2>2. 1 \in DOMAIN d.steps
    BY <1>2, <1>7, FirstStep DEF Waits
  <2>3. Assigned(u2, d.steps[1].begin, a.ui) /\ ~Mounts(d.steps[1].begin, p)
    BY <1>3, <2>1, <2>2, AssignAssigned, InAssignments
  <2> HIDE DEF a, u2
  <2>4. Down(a.ui, p, x)
    BY <1>4, <2>3, AssignDown
  <2> QED
    BY <2>4 DEF a
<1> QED
  BY <1>2, <1>5, <1>6, <1>7, BeginCases

LEMMA RenderedDown ==
  ASSUME NEW here, KeepsRules(here), NEW w \in here.states, NEW u, NEW acc, Fine(here, DOMAIN w, acc),
         NEW p \in DOMAIN here.parts, MountedByUser(here, p), NEW x, Down(acc.ui, p, x)
  PROVE  Down(Rendered(here, u, acc).ui, p, x)
<1>1. Listed(here.effects)
  BY EffectRules
<1>2. PICK R : /\ acc \in R
               /\ \A G \in SUBSET R :
                     /\ acc \in G
                     /\ \A n \in DOMAIN here.effects : here.effects[n].deps # {} => KeptBy(here, G, R, n)
                     => Rendered(here, u, acc) \in G
  BY <1>1, RenderedKeep
<1> DEFINE G == {y \in R : Fine(here, DOMAIN w, y) /\ Down(y.ui, p, x)}
<1>3. ASSUME NEW n \in DOMAIN here.effects  PROVE KeptBy(here, G, R, n)
  <2> DEFINE h == here.effects[n].run
  <2>1. h \in DOMAIN here.handlers /\ h \in Automatic(here)
    BY EffectRules
  <2>2. ~OpensPart(here.handlers[h], p)
    BY <2>1, NeverOpens
  <2>3. Listed(here.handlers[h].needs) /\ Listed(here.handlers[h].steps)
    BY <2>1, HandlerRules
  <2> HIDE DEF h
  <2>4. ASSUME NEW y \in G, NEW v, Begin(here, y, h, None, v) \in R  PROVE Begin(here, y, h, None, v) \in G
    <3>1. Fine(here, DOMAIN w, Begin(here, y, h, None, v))
      BY <2>1, <2>3, BeginTasks
    <3>2. Down(Begin(here, y, h, None, v).ui, p, x)
      BY <2>1, <2>2, BeginDown
    <3> QED
      BY <2>4, <3>1, <3>2
  <2> QED
    BY <2>4 DEF KeptBy, h
<1>4. acc \in G /\ G \in SUBSET R
  BY <1>2
<1> HIDE DEF G
<1>5. Rendered(here, u, acc) \in G
  BY <1>2, <1>3, <1>4
<1> QED
  BY <1>5 DEF G

---------------------------------------------------------------------------
(* A handler that an assignment runs, or that the user starts.             *)

LEMMA RunKeeps ==
  ASSUME NEW here, KeepsRules(here), NEW w \in here.states, NEW acc, Fine(here, DOMAIN w, acc),
         NEW e \in PageAssignments(here), NEW arg, NEW v
  PROVE  LET a == Run(here, e, acc, arg, v) IN
         /\ Fine(here, DOMAIN w, a)
         /\ \A f \in here.busy, b \in BOOLEAN : Marked(here, acc, f, b) => Marked(here, a, f, b)
         /\ \A p \in DOMAIN here.parts : \A x :
              MountedByUser(here, p) /\ Down(acc.ui, p, x) => Down(a.ui, p, x)
<1>1. CASE "runs" \notin DOMAIN e
  BY <1>1 DEF Run
<1>2. CASE "runs" \in DOMAIN e
  <2>1. Run(here, e, acc, arg, v) = Begin(here, acc, e.runs, arg, v)
    BY <1>2 DEF Run
  <2> DEFINE h == e.runs
  <2>2. h \in DOMAIN here.handlers /\ h \in Automatic(here)
    BY <1>2, EffectRules
  <2>3. Listed(here.handlers[h].needs) /\ Listed(here.handlers[h].steps)
    BY <2>2, HandlerRules
  <2> HIDE DEF h
  <2> DEFINE a == Begin(here, acc, h, arg, v)
  <2>4. Fine(here, DOMAIN w, a)
    BY <2>2, <2>3, BeginTasks
  <2>5. ASSUME NEW f \in here.busy, NEW b \in BOOLEAN, Marked(here, acc, f, b)  PROVE Marked(here, a, f, b)
    <3>1. ~HasRun(here, h, f)
      BY <2>2 DEF HasRun
    <3> QED
      BY <2>2, <2>5, <3>1, BeginMarks
  <2>6. ASSUME NEW p \in DOMAIN here.parts, NEW x, MountedByUser(here, p), Down(acc.ui, p, x)
        PROVE  Down(a.ui, p, x)
    <3>1. ~OpensPart(here.handlers[h], p)
      BY <2>2, <2>6, NeverOpens
    <3> QED
      BY <2>2, <2>6, <3>1, BeginDown
  <2> HIDE DEF a
  <2> QED
    BY <2>1, <2>4, <2>5, <2>6 DEF a, h
<1> QED
  BY <1>1, <1>2

LEMMA LaunchKeeps ==
  ASSUME NEW here, KeepsRules(here), NEW w \in here.states, NEW acc, Fine(here, DOMAIN w, acc),
         NEW h \in DOMAIN here.handlers, NEW arg
  PROVE  LET a == Launch(here, acc, h, arg) IN
         /\ Fine(here, DOMAIN w, a)
         /\ \A f \in here.busy, b \in BOOLEAN :
              Marked(here, acc, f, b) /\ ~HasRun(here, h, f) => Marked(here, a, f, b)
         /\ \A p \in DOMAIN here.parts : \A x :
              MountedByUser(here, p) /\ ~OpensPart(here.handlers[h], p) /\ Down(acc.ui, p, x) => Down(a.ui, p, x)
<1> DEFINE d == here.handlers[h]
<1> DEFINE begun == Begin(here, acc, h, arg, acc.ui)
<1>1. Listed(d.needs) /\ Listed(d.steps) /\ d.start \in PageAssignments(here)
  BY HandlerRules, InAssignments
<1>2. Fine(here, DOMAIN w, begun)
  BY <1>1, BeginTasks
<1>3. \A f \in here.busy, b \in BOOLEAN :
        Marked(here, acc, f, b) /\ ~HasRun(here, h, f) => Marked(here, begun, f, b)
  BY BeginMarks
<1>4. \A p \in DOMAIN here.parts : \A x :
        MountedByUser(here, p) /\ ~OpensPart(d, p) /\ Down(acc.ui, p, x) => Down(begun.ui, p, x)
  BY BeginDown
<1>5. Launch(here, acc, h, arg) = IF Unmet(d.needs, acc.ui) # {} THEN begun
                                  ELSE Run(here, d.start, begun, arg, acc.ui)
  BY Zenon DEF Launch
<1> HIDE DEF begun, d
<1>6. CASE Unmet(d.needs, acc.ui) # {}
  BY <1>2, <1>3, <1>4, <1>5, <1>6 DEF d
<1>7. CASE Unmet(d.needs, acc.ui) = {}
  <2> DEFINE a == Run(here, d.start, begun, arg, acc.ui)
  <2>1. /\ Fine(here, DOMAIN w, a)
        /\ \A f \in here.busy, b \in BOOLEAN : Marked(here, begun, f, b) => Marked(here, a, f, b)
        /\ \A p \in DOMAIN here.parts : \A x :
             MountedByUser(here, p) /\ Down(begun.ui, p, x) => Down(a.ui, p, x)
    BY <1>1, <1>2, RunKeeps DEF d
  <2>2. Launch(here, acc, h, arg) = a
    BY <1>5, <1>7
  <2> HIDE DEF a
  <2> QED
    BY <1>3, <1>4, <2>1, <2>2 DEF d
<1> QED
  BY <1>6, <1>7

---------------------------------------------------------------------------
(* A task goes on.                                                         *)

Alive(here, t, f) == t.gone => f \notin DOMAIN here.parts[here.handlers[t.h].part]

LEMMA NothingIsQuiet ==
  /\ Departs(Nothing) /\ \A f : ~Marks(Nothing, f) /\ ~Mounts(Nothing, f) /\ f \notin DOMAIN Nothing
BY DEF Nothing, Departs, Marks, Mounts

(* What a task can still assign.                                           *)
LEMMA KeptRules ==
  ASSUME NEW here, KeepsRules(here), NEW t, TaskFine(here, t), NEW e, Departs(e)
  PROVE  /\ Departs(Kept(here, t, e))
         /\ \A f : /\ f \notin DOMAIN e => f \notin DOMAIN Kept(here, t, e)
                   /\ ~Marks(e, f) => ~Marks(Kept(here, t, e), f)
                   /\ ~Mounts(e, f) => ~Mounts(Kept(here, t, e), f)
                   /\ ~Alive(here, t, f) => f \notin DOMAIN Kept(here, t, e)
                   /\ Alive(here, t, f) /\ Unmarks(e, f) => Unmarks(Kept(here, t, e), f)
<1>1. CASE ~t.gone
  <2>1. Kept(here, t, e) = e
    BY <1>1, Zenon DEF Kept
  <2> QED
    BY <1>1, <2>1 DEF Alive
<1>2. CASE t.gone
  <2> DEFINE p == here.handlers[t.h].part
  <2>1. p \in DOMAIN here.parts
    BY <1>2, HandlerRules DEF TaskFine
  <2>2. "goto" \notin DOMAIN here.parts[p]
    BY <2>1, Zenon DEF KeepsRules, WellFormed, Navigates
  <2>3. Kept(here, t, e) = [f \in DOMAIN e \ DOMAIN here.parts[p] |-> e[f]]
    BY <1>2 DEF Kept, DescriptionOf
  <2> DEFINE k == Kept(here, t, e)
  <2>4. DOMAIN k = DOMAIN e \ DOMAIN here.parts[p] /\ \A f \in DOMAIN k : k[f] = e[f]
    BY <2>3
  <2> HIDE DEF k
  <2> QED
    BY <1>2, <2>2, <2>4, Zenon DEF Alive, Departs, Marks, Mounts, Unmarks, k
<1> QED
  BY <1>1, <1>2 DEF TaskFine

LEMMA AssignMarked ==
  ASSUME NEW here, NEW D, NEW u, DOMAIN u = D, NEW ts, NEW e, NEW arg, NEW f \in D, "goto" \in D,
         Departs(e), NEW b \in BOOLEAN
  PROVE  LET r == Assign(u, e, arg) IN
         /\ DOMAIN r = D
         /\ ~Marks(e, f) /\ Off(u, f) => Off(r, f)
         /\ Unmarks(e, f) => Off(r, f)
         /\ ~Marks(e, f) /\ Marked(here, [ui |-> u, tasks |-> ts], f, b)
              => Marked(here, [ui |-> r, tasks |-> ts], f, b)
<1> DEFINE r == Assign(u, e, arg)
<1>1. Assigned(u, e, r)
  BY AssignAssigned
<1> HIDE DEF r
<1>2. DOMAIN r = D
  BY <1>1 DEF Assigned
<1>3. /\ ~Marks(e, f) /\ Off(u, f) => Off(r, f)
      /\ Unmarks(e, f) => Off(r, f)
  BY <1>1, OffKept, OffSet
<1> QED
  BY <1>2, <1>3 DEF Marked, r

(* The three ways a task goes on.                                          *)
Ended(here, t, acc, x) ==
  [ui    |-> Assign(Assign(acc.ui, Kept(here, t, x), t.arg), Kept(here, t, here.handlers[t.h].final), t.arg),
   tasks |-> acc.tasks]
Advanced(here, t, acc) ==
  [ui    |-> Assign(acc.ui, Kept(here, t, here.handlers[t.h].steps[t.at + 1].begin), t.arg),
   tasks |-> Append(acc.tasks, [t EXCEPT !.at = t.at + 1, !.fresh = TRUE])]

GoesOnAs(here, t, acc, ends, a) ==
  LET d == here.handlers[t.h] IN
  \/ (ends \/ t.at = Len(d.steps)) /\ a = Ended(here, t, acc, Nothing)
  \/ /\ t.at < Len(d.steps)
     /\ \E k \in DOMAIN d.steps[t.at + 1].needs :
          a = Ended(here, t, acc, d.steps[t.at + 1].needs[k].otherwise)
  \/ ~ends /\ t.at < Len(d.steps) /\ a = Advanced(here, t, acc)

LEMMA GoOnCases ==
  ASSUME NEW here, NEW i, NEW u, NEW ts, NEW e, NEW ends \in BOOLEAN,
         KeepsRules(here), TaskFine(here, ts[i])
  PROVE  \E v : GoesOnAs(here, ts[i], Run(here, e, [ui |-> u, tasks |-> RemoveAt(ts, i)], ts[i].arg, v),
                         ends, GoOn(here, i, u, ts, e, ends))
<1> DEFINE t == ts[i]
<1> DEFINE d == here.handlers[t.h]
<1> DEFINE next == d.steps[t.at + 1]
<1> DEFINE v == [f \in DOMAIN u |-> IF f \in DOMAIN t.q THEN t.q[f] ELSE u[f]]
<1> DEFINE acc == Run(here, e, [ui |-> u, tasks |-> RemoveAt(ts, i)], t.arg, v)
<1> DEFINE a == GoOn(here, i, u, ts, e, ends)
<1> SUFFICES GoesOnAs(here, t, acc, ends, a)
  BY Zenon
<1>1. t.at \in 1..Len(d.steps) /\ Len(d.steps) \in Nat /\ t.h \in DOMAIN here.handlers
  BY HandlerRules DEF TaskFine, Listed
<1>2. CASE ends \/ t.at = Len(d.steps)
  <2>0. ends \/ ~(t.at < Len(d.steps))
    BY <1>1, <1>2
  <2>1. a = Ended(here, t, acc, Nothing)
    BY <1>2, <2>0, Zenon DEF GoOn, Ended, DescriptionOf, RemoveAt
  <2> HIDE DEF a, acc, t
  <2> QED
    BY <1>2, <2>1, Zenon DEF GoesOnAs
<1>3. CASE ~ends /\ t.at < Len(d.steps) /\ Unmet(next.needs, v) # {}
  <2>0. t.at # Len(d.steps)
    BY <1>1, <1>3
  <2>1. a = Ended(here, t, acc, Otherwise(next.needs, v))
    BY <1>3, <2>0, Zenon DEF GoOn, Ended, DescriptionOf, RemoveAt
  <2>2. Listed(next.needs)
    <3>1. t.at + 1 \in DOMAIN d.steps
      <4>1. Listed(d.steps)
        BY <1>1, HandlerRules, Zenon
      <4> DEFINE steps == d.steps
      <4> DEFINE at == t.at
      <4>2. at \in 1..Len(steps) /\ Len(steps) \in Nat /\ at < Len(steps) /\ Listed(steps)
        BY <1>1, <1>3, <4>1, Zenon
      <4> HIDE DEF steps, at
      <4>3. at + 1 \in DOMAIN steps
        BY <4>2 DEF Listed
      <4> QED
        BY <4>3, Zenon DEF steps, at
    <3> QED
      BY <1>1, <3>1, HandlerRules, Zenon
  <2>3. PICK k \in DOMAIN next.needs : Otherwise(next.needs, v) = next.needs[k].otherwise
    BY <1>3, <2>2, SomeUnmet, Zenon DEF Unmet
  <2> HIDE DEF v, a, acc, t
  <2> QED
    BY <1>3, <2>1, <2>3, Zenon DEF GoesOnAs
<1>4. CASE ~ends /\ t.at < Len(d.steps) /\ Unmet(next.needs, v) = {}
  <2>0. t.at # Len(d.steps)
    BY <1>1, <1>4
  <2>1. a = Advanced(here, t, acc)
    BY <1>4, <2>0, Zenon DEF GoOn, Advanced, DescriptionOf, RemoveAt
  <2> HIDE DEF v, a, acc, t
  <2> QED
    BY <1>4, <2>1, Zenon DEF GoesOnAs
<1>5. ends \/ t.at = Len(d.steps) \/ (~ends /\ t.at < Len(d.steps))
  BY <1>1
<1> HIDE DEF v, a, acc, t
<1> QED
  BY <1>2, <1>3, <1>4, <1>5, Zenon

LEMMA TaskAt ==
  ASSUME NEW here, KeepsRules(here), NEW t, TaskFine(here, t)
  PROVE  LET n == Len(here.handlers[t.h].steps) IN
         n \in Nat /\ t.at \in Nat /\ t.at >= 1 /\ t.at <= n /\ DOMAIN here.handlers[t.h].steps = 1..n
<1>1. Listed(here.handlers[t.h].steps) /\ t.at \in DOMAIN here.handlers[t.h].steps
  BY HandlerRules DEF TaskFine
<1> QED
  BY <1>1 DEF Listed

LEMMA QuietEnds ==
  ASSUME NEW here, KeepsRules(here), NEW h \in DOMAIN here.handlers, NEW f \in here.busy
  PROVE  LET d == here.handlers[h] IN
         /\ ~Marks(d.final, f) /\ ~Marks(d.fail, f)
         /\ \A k \in DOMAIN d.steps : NeverMarks(d.steps[k].needs, f)
         /\ \A k \in DOMAIN d.steps : StepMarks(d.steps[k], f) => Owes(d, k, f)
         /\ f \notin CopiesInto(d)
BY DEF KeepsRules, ReleasesMark, MarksOwed

LEMMA EndedKeeps ==
  ASSUME NEW here, KeepsRules(here), NEW w \in here.states, NEW acc, Fine(here, DOMAIN w, acc),
         NEW t, TaskFine(here, t), NEW x \in {Nothing} \cup Assignments(here.handlers[t.h])
  PROVE  LET a == Ended(here, t, acc, x)
             d == here.handlers[t.h]
         IN
         /\ Fine(here, DOMAIN w, a)
         /\ \A f \in here.busy :
              /\ Marked(here, acc, f, FALSE) /\ ~Marks(x, f) => Marked(here, a, f, FALSE)
              /\ Alive(here, t, f) /\ (Unmarks(x, f) \/ Unmarks(d.final, f)) => Marked(here, a, f, FALSE)
         /\ \A p \in DOMAIN here.parts : \A y :
              ~OpensPart(d, p) /\ Down(acc.ui, p, y) => Down(a.ui, p, y)
<1> DEFINE d == here.handlers[t.h]
<1> DEFINE a == Ended(here, t, acc, x)
<1> DEFINE x1 == Kept(here, t, x)
<1> DEFINE x2 == Kept(here, t, d.final)
<1> DEFINE u1 == Assign(acc.ui, x1, t.arg)
<1> DEFINE u2 == Assign(u1, x2, t.arg)
<1>0. t.h \in DOMAIN here.handlers
  BY DEF TaskFine
<1>1. a.ui = u2 /\ a.tasks = acc.tasks
  BY Zenon DEF Ended
<1>2. Departs(x) /\ Departs(d.final) /\ d.final \in Assignments(d)
  BY <1>0, HandlerRules, InAssignments, NothingIsQuiet
<1>3. Departs(x1) /\ Departs(x2)
  BY <1>2, KeptRules
<1>4. Assigned(acc.ui, x1, u1) /\ Assigned(u1, x2, u2)
  BY AssignAssigned
<1>5. DOMAIN acc.ui = DOMAIN w /\ DOMAIN u1 = DOMAIN w /\ DOMAIN u2 = DOMAIN w
  BY <1>4 DEF Assigned, Fine
<1>6. Fine(here, DOMAIN w, a)
  BY <1>1, <1>5 DEF Fine
<1>7. ASSUME NEW f \in here.busy
      PROVE  /\ Marked(here, acc, f, FALSE) /\ ~Marks(x, f) => Marked(here, a, f, FALSE)
             /\ Alive(here, t, f) /\ (Unmarks(x, f) \/ Unmarks(d.final, f)) => Marked(here, a, f, FALSE)
  <2>1. f \in DOMAIN w /\ "goto" \in DOMAIN w
    BY FieldsOf
  <2>2. ~Marks(d.final, f)
    BY <1>0, QuietEnds
  <2>3. /\ ~Marks(x2, f)
        /\ ~Marks(x, f) => ~Marks(x1, f)
        /\ Alive(here, t, f) /\ Unmarks(x, f) => Unmarks(x1, f)
        /\ Alive(here, t, f) /\ Unmarks(d.final, f) => Unmarks(x2, f)
    BY <1>2, <2>2, KeptRules
  <2> HIDE DEF a, x1, x2, u1, u2, d
  <2>4. Off(u1, f) => Off(u2, f)
    BY <1>3, <1>4, <1>5, <2>1, <2>3, OffKept
  <2>5. Unmarks(x1, f) => Off(u1, f)
    BY <1>3, <1>4, <1>5, <2>1, OffSet
  <2>6. Unmarks(x2, f) => Off(u2, f)
    BY <1>3, <1>4, <1>5, <2>1, OffSet
  <2>7. Off(acc.ui, f) /\ ~Marks(x1, f) => Off(u1, f)
    BY <1>3, <1>4, <1>5, <2>1, OffKept
  <2> QED
    BY <1>1, <2>3, <2>4, <2>5, <2>6, <2>7 DEF Marked
<1>8. ASSUME NEW p \in DOMAIN here.parts, NEW y, ~OpensPart(d, p), Down(acc.ui, p, y)
      PROVE  Down(a.ui, p, y)
  <2>1. p \in DOMAIN w
    BY FieldsOf
  <2>2. ~Mounts(x, p) /\ ~Mounts(d.final, p)
    BY <1>2, <1>8, NothingIsQuiet DEF OpensPart
  <2>3. ~Mounts(x1, p) /\ ~Mounts(x2, p)
    BY <1>2, <2>2, KeptRules
  <2> HIDE DEF a, x1, x2, u1, u2, d
  <2>4. Down(u1, p, y)
    BY <1>4, <1>5, <1>8, <2>1, <2>3, AssignDown
  <2> QED
    BY <1>1, <1>4, <1>5, <2>1, <2>3, <2>4, AssignDown
<1> QED
  BY <1>6, <1>7, <1>8

LEMMA OwesNext ==
  ASSUME NEW d, NEW k \in Nat, NEW f, Len(d.steps) \in Nat, DOMAIN d.steps = 1..Len(d.steps),
         k < Len(d.steps), Owes(d, k, f)
  PROVE  Owes(d, k + 1, f)
BY DEF Owes

LEMMA AdvancedKeeps ==
  ASSUME NEW here, KeepsRules(here), NEW w \in here.states, NEW acc, Fine(here, DOMAIN w, acc),
         NEW t, TaskFine(here, t), t.at < Len(here.handlers[t.h].steps)
  PROVE  LET a == Advanced(here, t, acc)
             d == here.handlers[t.h]
         IN
         /\ Fine(here, DOMAIN w, a)
         /\ \A f \in here.busy :
              Carries(here, t, f) \/ Marked(here, acc, f, FALSE) => Marked(here, a, f, FALSE)
         /\ \A p \in DOMAIN here.parts : \A y :
              ~OpensPart(d, p) /\ Down(acc.ui, p, y) => Down(a.ui, p, y)
<1> DEFINE d == here.handlers[t.h]
<1> DEFINE a == Advanced(here, t, acc)
<1> DEFINE k == t.at + 1
<1> DEFINE x == d.steps[k].begin
<1> DEFINE x1 == Kept(here, t, x)
<1> DEFINE u1 == Assign(acc.ui, x1, t.arg)
<1> DEFINE s == [t EXCEPT !.at = k, !.fresh = TRUE]
<1>0. t.h \in DOMAIN here.handlers
  BY DEF TaskFine
<1>1. a.ui = u1 /\ a.tasks = Append(acc.tasks, s)
  BY Zenon DEF Advanced
<1>2. k \in DOMAIN d.steps /\ t.at \in Nat /\ Len(d.steps) \in Nat /\ k \in Nat /\ t.at \in DOMAIN d.steps
  BY <1>0, HandlerRules DEF TaskFine, Listed
<1>3. TaskFine(here, s) /\ s.h = t.h /\ s.at = k /\ s.gone = t.gone
  BY <1>2 DEF TaskFine
<1>4. Departs(x) /\ x \in Assignments(d)
  BY <1>0, <1>2, HandlerRules, InAssignments
<1>5. Departs(x1)
  BY <1>4, KeptRules
<1>6. Assigned(acc.ui, x1, u1)
  BY AssignAssigned, Zenon
<1>7. DOMAIN acc.ui = DOMAIN w /\ DOMAIN u1 = DOMAIN w
  BY <1>6, Zenon DEF Assigned, Fine
<1>8. Listed(acc.tasks) /\ Len(acc.tasks) \in Nat
  BY DEF Fine, Listed
<1> HIDE DEF s
<1>9. /\ Listed(a.tasks)
      /\ \A i \in DOMAIN acc.tasks : i \in DOMAIN a.tasks /\ a.tasks[i] = acc.tasks[i]
      /\ Len(acc.tasks) + 1 \in DOMAIN a.tasks /\ a.tasks[Len(acc.tasks) + 1] = s
      /\ \A i \in DOMAIN a.tasks : i \in DOMAIN acc.tasks \/ i = Len(acc.tasks) + 1
  BY <1>1, <1>8, AppendTask
<1>10. Fine(here, DOMAIN w, a)
  <2> HIDE DEF a, u1
  <2> QED
    BY <1>1, <1>3, <1>7, <1>9 DEF Fine
<1>11. ASSUME NEW f \in here.busy, Carries(here, t, f) \/ Marked(here, acc, f, FALSE)
       PROVE  Marked(here, a, f, FALSE)
  <2>1. f \in DOMAIN w /\ "goto" \in DOMAIN w
    BY FieldsOf
  <2>2. Marks(x, f) => Owes(d, k, f)
    BY <1>0, <1>2, QuietEnds DEF StepMarks
  <2>3. Owes(d, t.at, f) => Owes(d, k, f)
    BY <1>2, TaskAt, OwesNext
  <2>4. /\ ~Marks(x, f) => ~Marks(x1, f)
        /\ ~Alive(here, t, f) => ~Marks(x1, f)
    BY <1>4, KeptRules, Zenon DEF Marks
  <2> HIDE DEF a, x, x1, u1, d, k
  <2>5. CASE Owes(d, k, f) /\ Alive(here, t, f)
    <3>1. Carries(here, s, f)
      BY <1>3, <2>5 DEF Carries, Alive, d
    <3> QED
      BY <1>9, <3>1 DEF Marked
  <2>6. CASE ~(Owes(d, k, f) /\ Alive(here, t, f))
    <3>1. ~Carries(here, t, f)
      BY <2>3, <2>6 DEF Carries, Alive, d
    <3>2. Off(acc.ui, f) => Off(a.ui, f)
      BY <1>1, <1>5, <1>6, <1>7, <2>1, <2>2, <2>4, <2>6, OffKept
    <3> QED
      BY <1>9, <1>11, <3>1, <3>2 DEF Marked
  <2> QED
    BY <2>5, <2>6
<1>12. ASSUME NEW p \in DOMAIN here.parts, NEW y, ~OpensPart(d, p), Down(acc.ui, p, y)
       PROVE  Down(a.ui, p, y)
  <2>1. p \in DOMAIN w
    BY FieldsOf
  <2>2. ~Mounts(x, p)
    BY <1>4, <1>12, Zenon DEF OpensPart
  <2>3. ~Mounts(x1, p)
    BY <1>4, <2>2, KeptRules, Zenon
  <2> HIDE DEF a, x, x1, u1, d, k
  <2> QED
    BY <1>1, <1>6, <1>7, <1>12, <2>1, <2>3, AssignDown
<1> QED
  BY <1>10, <1>11, <1>12

(* What a task does when it goes on.                                       *)
LEMMA GoOnKeeps ==
  ASSUME NEW here, KeepsRules(here), NEW w \in here.states, NEW u, NEW ts,
         Fine(here, DOMAIN w, [ui |-> u, tasks |-> ts]), NEW i \in DOMAIN ts,
         NEW e \in PageAssignments(here), NEW ends \in BOOLEAN
  PROVE  LET a == GoOn(here, i, u, ts, e, ends)
             t == ts[i]
             d == here.handlers[t.h]
         IN
         /\ Fine(here, DOMAIN w, a)
         /\ \A f \in here.busy :
              /\ ~Carries(here, t, f) => Marked(here, [ui |-> u, tasks |-> RemoveAt(ts, i)], f, FALSE)
              /\ Carries(here, t, f) /\ (ends \/ t.at = Len(d.steps)) => Off(u, f) \/ Unmarks(d.final, f)
              => Marked(here, a, f, FALSE)
         /\ \A p \in DOMAIN here.parts : \A y :
              MountedByUser(here, p) /\ Down(u, p, y) => Down(a.ui, p, y)
<1> DEFINE a == GoOn(here, i, u, ts, e, ends)
<1> DEFINE t == ts[i]
<1> DEFINE d == here.handlers[t.h]
<1> DEFINE left == [ui |-> u, tasks |-> RemoveAt(ts, i)]
<1>0. TaskFine(here, t) /\ t.h \in DOMAIN here.handlers /\ Listed(ts) /\ DOMAIN u = DOMAIN w
  BY DEF Fine, TaskFine
<1>1. Fine(here, DOMAIN w, left)
  <2>1. Listed(RemoveAt(ts, i)) /\ SomeOf(ts, RemoveAt(ts, i))
    BY <1>0, RemoveTask
  <2> DEFINE us == RemoveAt(ts, i)
  <2> HIDE DEF us
  <2>2. \A j \in DOMAIN us : TaskFine(here, us[j])
    <3>1. PICK m \in [DOMAIN us -> DOMAIN ts] : \A j \in DOMAIN us : us[j] = ts[m[j]]
      BY <2>1 DEF SomeOf, us
    <3>2. \A j \in DOMAIN us : m[j] \in DOMAIN ts
      BY <3>1
    <3> QED
      BY <3>1, <3>2 DEF Fine
  <2> QED
    BY <1>0, <2>1, <2>2 DEF Fine, us
<1>2. PICK v : GoesOnAs(here, t, Run(here, e, left, t.arg, v), ends, a)
  BY <1>0, GoOnCases, Zenon
<1> DEFINE acc == Run(here, e, left, t.arg, v)
<1>3. /\ Fine(here, DOMAIN w, acc)
      /\ \A f \in here.busy : Marked(here, left, f, FALSE) => Marked(here, acc, f, FALSE)
      /\ \A p \in DOMAIN here.parts : \A y :
           MountedByUser(here, p) /\ Down(u, p, y) => Down(acc.ui, p, y)
  BY <1>1, RunKeeps
<1>4. \A p \in DOMAIN here.parts : MountedByUser(here, p) => ~OpensPart(d, p)
  <2>1. d.steps # <<>>
    BY <1>0, EmptyList DEF TaskFine
  <2> QED
    BY <1>0, <2>1, NeverOpens
<1>5. \A f \in here.busy : Off(u, f) => Marked(here, left, f, FALSE)
  BY DEF Marked
<1>6. \A f : Carries(here, t, f) => Alive(here, t, f)
  BY DEF Carries, Alive
<1> HIDE DEF a, left, acc
<1>7. CASE (ends \/ t.at = Len(d.steps)) /\ a = Ended(here, t, acc, Nothing)
  <2>1. /\ Fine(here, DOMAIN w, a)
        /\ \A f \in here.busy :
              /\ Marked(here, acc, f, FALSE) => Marked(here, a, f, FALSE)
              /\ Alive(here, t, f) /\ Unmarks(d.final, f) => Marked(here, a, f, FALSE)
        /\ \A p \in DOMAIN here.parts : \A y :
              ~OpensPart(d, p) /\ Down(acc.ui, p, y) => Down(a.ui, p, y)
    BY <1>0, <1>3, <1>7, EndedKeeps, NothingIsQuiet
  <2> HIDE DEF d, t
  <2> QED
    BY <1>3, <1>4, <1>5, <1>6, <1>7, <2>1 DEF a, left, d, t
<1>8. CASE /\ t.at < Len(d.steps)
           /\ \E k \in DOMAIN d.steps[t.at + 1].needs :
                a = Ended(here, t, acc, d.steps[t.at + 1].needs[k].otherwise)
  <2> DEFINE next == d.steps[t.at + 1]
  <2>1. PICK k \in DOMAIN next.needs : a = Ended(here, t, acc, next.needs[k].otherwise)
    BY <1>8, Zenon
  <2> DEFINE x == next.needs[k].otherwise
  <2>2. t.at \in DOMAIN d.steps /\ t.at + 1 \in DOMAIN d.steps
    <3>1. t.at < Len(d.steps)
      BY <1>8, Zenon
    <3>2. /\ Len(d.steps) \in Nat /\ t.at \in Nat /\ t.at >= 1 /\ t.at <= Len(d.steps)
          /\ DOMAIN d.steps = 1..Len(d.steps)
      BY <1>0, TaskAt, Zenon
    <3> DEFINE steps == d.steps
    <3> DEFINE at == t.at
    <3>3. at \in Nat /\ at >= 1 /\ Len(steps) \in Nat /\ at < Len(steps) /\ DOMAIN steps = 1..Len(steps)
      BY <3>1, <3>2, Zenon
    <3> HIDE DEF steps, at
    <3>4. at \in DOMAIN steps /\ at + 1 \in DOMAIN steps
      BY <3>3
    <3> QED
      BY <3>4, Zenon DEF steps, at
  <2>3. x \in Assignments(d)
    BY <2>1, <2>2, InAssignments, ZenonT(40)
  <2>4. /\ Fine(here, DOMAIN w, a)
        /\ \A f \in here.busy :
              /\ Marked(here, acc, f, FALSE) /\ ~Marks(x, f) => Marked(here, a, f, FALSE)
              /\ Alive(here, t, f) /\ (Unmarks(x, f) \/ Unmarks(d.final, f)) => Marked(here, a, f, FALSE)
        /\ \A p \in DOMAIN here.parts : \A y :
              ~OpensPart(d, p) /\ Down(acc.ui, p, y) => Down(a.ui, p, y)
    BY <1>0, <1>3, <2>1, <2>3, EndedKeeps, ZenonT(40)
  <2>5. \A f \in here.busy : ~Marks(x, f)
    BY <1>0, <2>1, <2>2, QuietEnds, ZenonT(40) DEF NeverMarks
  <2>6. \A f : Owes(d, t.at, f) => Unmarks(d.final, f) \/ Unmarks(x, f)
    <3>1. \A f : Owes(d, t.at, f) => EndsUnmarked(d, t.at, f)
      <4>1. t.at \in t.at..Len(d.steps)
        BY <1>0, TaskAt
      <4> QED
        BY <4>1 DEF Owes
    <3> HIDE DEF d, t
    <3> QED
      BY <1>8, <2>1, <3>1, Zenon DEF EndsUnmarked, AlwaysUnmarks
  <2>7. \A f : Carries(here, t, f) => Owes(d, t.at, f)
    BY DEF Carries
  <2> HIDE DEF d, t, x
  <2> QED
    BY <1>3, <1>4, <1>5, <1>6, <2>4, <2>5, <2>6, <2>7 DEF a, left, d, t
<1>9. CASE ~ends /\ t.at < Len(d.steps) /\ a = Advanced(here, t, acc)
  <2>1. /\ Fine(here, DOMAIN w, a)
        /\ \A f \in here.busy :
              Carries(here, t, f) \/ Marked(here, acc, f, FALSE) => Marked(here, a, f, FALSE)
        /\ \A p \in DOMAIN here.parts : \A y :
              ~OpensPart(d, p) /\ Down(acc.ui, p, y) => Down(a.ui, p, y)
    BY <1>0, <1>3, <1>9, AdvancedKeeps
  <2> HIDE DEF d, t
  <2> QED
    BY <1>3, <1>4, <2>1 DEF a, left, d, t
<1> HIDE DEF d, t
<1> QED
  BY <1>2, <1>7, <1>8, <1>9, Zenon DEF acc, d, GoesOnAs

---------------------------------------------------------------------------
(* Answers and failures.                                                   *)

(* The state r is u but for the fields S.                                  *)
Alters(u, r, S) == DOMAIN r = DOMAIN u /\ \A g \in DOMAIN u \ S : r[g] = u[g]

LEMMA AltersOff ==
  ASSUME NEW u, NEW r, NEW S, Alters(u, r, S), NEW f \in DOMAIN u \ S, "goto" \in DOMAIN u \ S, Off(u, f)
  PROVE  Off(r, f)
BY DEF Alters, Off

LEMMA ToastAlters ==
  ASSUME NEW u  PROVE Alters(u, [u EXCEPT !.toast = None], {"toast"})
BY DEF Alters

LEMMA AgedAlters ==
  ASSUME NEW here, NEW u, NEW h, NEW tables
  PROVE  Alters(u, Aged(here, u, h, tables), DOMAIN here.data)
<1> DEFINE old == {f \in DOMAIN here.data :
                     u[f] # None /\ here.data[f] \cap tables # {} /\ ~LeftOut(here, f, h)}
<1>1. Aged(here, u, h, tables) = [f \in DOMAIN u |-> IF f \in old THEN [u[f] EXCEPT !.fresh = FALSE] ELSE u[f]]
  BY DEF Aged
<1>2. \A f : f \in old => f \in DOMAIN here.data
  OBVIOUS
<1> HIDE DEF old
<1> QED
  BY <1>1, <1>2 DEF Alters

LEMMA WarnedAlters ==
  ASSUME NEW here, NEW u, NEW tables
  PROVE  Alters(u, Warned(here, u, tables), DOMAIN here.data)
<1> DEFINE known == {f \in DOMAIN here.data : u[f] # None /\ here.data[f] \cap tables # {}}
<1> DEFINE r == [f \in DOMAIN u |-> IF f \in known THEN [u[f] EXCEPT !.fresh = TRUE] ELSE u[f]]
<1>1. Warned(here, u, tables) = IF Alert(here, u) THEN r ELSE u
  BY Zenon DEF Warned
<1>2. \A f : f \in known => f \in DOMAIN here.data
  OBVIOUS
<1>3. Alters(u, r, DOMAIN here.data)
  <2> HIDE DEF known
  <2> QED
    BY <1>2 DEF Alters
<1>4. Alters(u, u, DOMAIN here.data)
  BY DEF Alters
<1> HIDE DEF r
<1> QED
  BY <1>1, <1>3, <1>4

LEMMA CopiedAlters ==
  ASSUME NEW u, NEW c  PROVE Alters(u, Copied(u, c), DOMAIN c)
BY CopiedKeeps DEF Alters

LEMMA AltersChain ==
  ASSUME NEW u, NEW r, NEW s, NEW S, NEW T, Alters(u, r, S), Alters(r, s, T)
  PROVE  Alters(u, s, S \cup T)
BY DEF Alters

(* The same tasks, with other marks of what they read.                     *)
Alike(here, ts, us) ==
  /\ DOMAIN us = DOMAIN ts /\ Listed(us)
  /\ \A i \in DOMAIN ts :
       TaskFine(here, us[i]) /\ us[i].h = ts[i].h /\ us[i].at = ts[i].at /\ us[i].gone = ts[i].gone
       /\ us[i].new = ts[i].new /\ us[i].arg = ts[i].arg

LEMMA SameLength ==
  ASSUME NEW ts, Listed(ts), NEW us, us = [i \in DOMAIN ts |-> us[i]]
  PROVE  Listed(us) /\ DOMAIN us = DOMAIN ts
<1>1. Len(ts) \in Nat /\ DOMAIN ts = 1..Len(ts)
  BY DEF Listed
<1>2. DOMAIN us = 1..Len(ts)
  BY <1>1
<1>3. us \in Seq({us[i] : i \in 1..Len(ts)})
  BY <1>1, <1>2
<1>4. Len(us) = Len(ts)
  BY <1>1, <1>2, <1>3
<1> QED
  BY <1>1, <1>2, <1>4 DEF Listed

LEMMA RacedAlike ==
  ASSUME NEW here, NEW D, Fine(here, D, [ui |-> ui, tasks |-> tasks]), NEW tables
  PROVE  Alike(here, tasks, Raced(here, tables))
<1> DEFINE us == Raced(here, tables)
<1> DEFINE read(i) == ReadsOf(here, tasks[i]) \cap tables # {}
<1>1. us = [i \in DOMAIN tasks |-> IF read(i) THEN [tasks[i] EXCEPT !.fresh = FALSE] ELSE tasks[i]]
  BY DEF Raced
<1> HIDE DEF read
<1>2. DOMAIN us = DOMAIN tasks
      /\ \A i \in DOMAIN tasks : us[i] = IF read(i) THEN [tasks[i] EXCEPT !.fresh = FALSE] ELSE tasks[i]
  BY <1>1
<1>3. us = [i \in DOMAIN tasks |-> us[i]]
  BY <1>1
<1> HIDE DEF us
<1>4. Listed(us)
  BY <1>3, SameLength DEF Fine
<1>5. ASSUME NEW i \in DOMAIN tasks
      PROVE  /\ TaskFine(here, us[i]) /\ us[i].h = tasks[i].h /\ us[i].at = tasks[i].at
             /\ us[i].gone = tasks[i].gone /\ us[i].new = tasks[i].new /\ us[i].arg = tasks[i].arg
  <2>1. TaskFine(here, tasks[i])
    BY DEF Fine
  <2>2. CASE ~read(i)
    BY <1>2, <2>1, <2>2
  <2>3. CASE read(i)
    <3>1. us[i] = [tasks[i] EXCEPT !.fresh = FALSE]
      BY <1>2, <2>3
    <3> QED
      BY <2>1, <3>1 DEF TaskFine
  <2> QED
    BY <2>2, <2>3
<1> QED
  BY <1>2, <1>4, <1>5 DEF Alike, us

(* The state of a page between two steps.                                  *)
Carried(here, u, ts, f) ==
  /\ u[f] # FALSE => \E i \in DOMAIN ts : Carries(here, ts[i], f)
  /\ \A p \in PartsOf(here, f) : u[p] = None => u[f] = FALSE
PageInv(here, w, u, ts) ==
  /\ Fine(here, DOMAIN w, [ui |-> u, tasks |-> ts])
  /\ u["goto"] = None
  /\ \A i \in DOMAIN ts : ~ts[i].new
  /\ \A f \in here.busy : Carried(here, u, ts, f)

(* What a step makes of a page, before it is known whether it is left.     *)
Stepped(here, w, acc) ==
  /\ Fine(here, DOMAIN w, acc)
  /\ \A f \in here.busy :
       /\ Marked(here, acc, f, FALSE)
       /\ \A p \in PartsOf(here, f) : Down(acc.ui, p, ui[p]) \/ Marked(here, acc, f, TRUE)

LEMMA TaskGoesOn ==
  ASSUME NEW here, KeepsRules(here), NEW w \in here.states, PageInv(here, w, ui, tasks),
         NEW i \in DOMAIN tasks, NEW u, DOMAIN u = DOMAIN w, NEW ts, Alike(here, tasks, ts),
         NEW e \in PageAssignments(here), NEW ends \in BOOLEAN,
         \A f \in here.busy :
           LET t == tasks[i]
               d == here.handlers[t.h] IN
           /\ ui[f] = FALSE /\ ~Carries(here, t, f) => Off(u, f)
           /\ Carries(here, t, f) /\ (ends \/ t.at = Len(d.steps)) => Off(u, f) \/ Unmarks(d.final, f),
         \A p \in DOMAIN here.parts : MountedByUser(here, p) => Down(u, p, ui[p])
  PROVE  Stepped(here, w, Rendered(here, ui, GoOn(here, i, u, ts, e, ends)))
<1> DEFINE a == GoOn(here, i, u, ts, e, ends)
<1> DEFINE r == Rendered(here, ui, a)
<1>1. Fine(here, DOMAIN w, [ui |-> u, tasks |-> ts]) /\ i \in DOMAIN ts /\ Listed(ts)
  BY DEF Alike, Fine
<1>2. \A j \in DOMAIN tasks : \A f : Carries(here, tasks[j], f) <=> Carries(here, ts[j], f)
  BY DEF Alike, Carries
<1>3. ts[i].h = tasks[i].h /\ ts[i].at = tasks[i].at
  BY DEF Alike
<1>4. ASSUME NEW f \in here.busy, ~Carries(here, ts[i], f)
      PROVE  Marked(here, [ui |-> u, tasks |-> RemoveAt(ts, i)], f, FALSE)
  <2>1. CASE ui[f] = FALSE
    <3>1. Off(u, f)
      BY <1>2, <1>4, <2>1
    <3> QED
      BY <3>1 DEF Marked
  <2>2. CASE ui[f] # FALSE
    <3>1. PICK j \in DOMAIN tasks : Carries(here, tasks[j], f)
      BY <2>2 DEF PageInv, Carried
    <3>2. j \in DOMAIN ts \ {i} /\ Carries(here, ts[j], f)
      BY <1>2, <1>4, <3>1 DEF Alike
    <3> DEFINE us == RemoveAt(ts, i)
    <3>3. PICK k \in DOMAIN us : us[k] = ts[j]
      BY <1>1, <3>2, RemoveTask
    <3> HIDE DEF us
    <3>4. Carries(here, us[k], f)
      BY <3>2, <3>3
    <3> QED
      BY <3>4 DEF Marked, us
  <2> QED
    BY <2>1, <2>2
<1>5. \A f \in here.busy :
        Carries(here, ts[i], f) /\ (ends \/ ts[i].at = Len(here.handlers[ts[i].h].steps)) =>
          Off(u, f) \/ Unmarks(here.handlers[ts[i].h].final, f)
  BY <1>2, <1>3
<1>6. /\ Fine(here, DOMAIN w, a)
      /\ \A f \in here.busy : Marked(here, a, f, FALSE)
      /\ \A p \in DOMAIN here.parts : MountedByUser(here, p) => Down(a.ui, p, ui[p])
  BY <1>1, <1>4, <1>5, GoOnKeeps
<1> HIDE DEF a
<1>7. /\ Fine(here, DOMAIN w, r)
      /\ \A f \in here.busy : Marked(here, r, f, FALSE)
  BY <1>6, RenderedMarks
<1>8. \A p \in DOMAIN here.parts : MountedByUser(here, p) => Down(r.ui, p, ui[p])
  BY <1>6, RenderedDown
<1>9. \A f \in here.busy : \A p \in PartsOf(here, f) : p \in DOMAIN here.parts /\ MountedByUser(here, p)
  BY DEF KeepsRules, ReleasesMark, PartsOf
<1> HIDE DEF r
<1>10. Stepped(here, w, r)
  BY <1>7, <1>8, <1>9 DEF Stepped
<1> QED
  BY <1>10 DEF r, a

(* What the fields of a page are not.                                      *)
LEMMA OtherFields ==
  ASSUME NEW here, KeepsRules(here)
  PROVE  /\ "goto" \notin DOMAIN here.data
         /\ \A f \in here.busy : f \notin {"toast", "goto"} \cup DOMAIN here.data
         /\ \A p \in DOMAIN here.parts :
              /\ p \notin {None, "toast", "goto"} \cup DOMAIN here.data /\ PartsOf(here, p) = {}
              /\ "goto" \notin DOMAIN here.parts[p]
         /\ PartsOf(here, "goto") = {}
         /\ \A h \in DOMAIN here.handlers : "goto" \notin CopiesInto(here.handlers[h])
<1>1. \A p \in DOMAIN here.parts : "goto" \notin DOMAIN here.parts[p]
  BY DEF KeepsRules, WellFormed, Navigates
<1> QED
  BY <1>1 DEF KeepsRules, WellFormed, Navigates, ReleasesMark, PartsOf

LEMMA AnswerOwed ==
  ASSUME NEW here, KeepsRules(here), NEW t, TaskFine(here, t), NEW f, Carries(here, t, f)
  PROVE  EndsUnmarked(here.handlers[t.h], t.at, f)
<1>1. t.at \in t.at..Len(here.handlers[t.h].steps)
  BY TaskAt
<1> QED
  BY <1>1 DEF Carries, Owes

LEMMA AnsweredStep ==
  ASSUME NEW here, KeepsRules(here), NEW w \in here.states, PageInv(here, w, ui, tasks),
         NEW i \in DOMAIN tasks, Answered(here, i)
  PROVE  \E acc : Stepped(here, w, acc) /\ Continue(here, acc)
<1> DEFINE t == tasks[i]
<1> DEFINE d == here.handlers[t.h]
<1> DEFINE s == d.steps[t.at]
<1> DEFINE u0 == [ui EXCEPT !.toast = None]
<1> DEFINE Old(e) == IF "unchanged" \in DOMAIN e \/ ~patient THEN {} ELSE WritesOf(here, t)
<1> DEFINE u1(e) == Copied(Aged(here, u0, t.h, Old(e)), s.copies)
<1> DEFINE u2(e, ans) == Set(u1(e), Kept(here, t, e), t.arg, ans, u0)
<1>0. PICK e \in s.then : \E ans :
        Continue(here, Rendered(here, ui,
          GoOn(here, i, u2(e, ans), Raced(here, Old(e)), e, "return" \in DOMAIN e)))
  BY Zenon DEF Answered, StepOf, DescriptionOf
<1>1. PICK ans :
        Continue(here, Rendered(here, ui,
          GoOn(here, i, u2(e, ans), Raced(here, Old(e)), e, "return" \in DOMAIN e)))
  BY <1>0, Zenon
<1> DEFINE S == {"toast"} \cup DOMAIN here.data \cup DOMAIN s.copies
<1>2. TaskFine(here, t) /\ t.h \in DOMAIN here.handlers /\ t.at \in DOMAIN d.steps
      /\ DOMAIN ui = DOMAIN w /\ Fine(here, DOMAIN w, [ui |-> ui, tasks |-> tasks])
  BY DEF PageInv, Fine, TaskFine
<1>3. Alters(ui, u1(e), S)
  <2>1. Alters(ui, u0, {"toast"})
    BY ToastAlters
  <2>2. Alters(u0, Aged(here, u0, t.h, Old(e)), DOMAIN here.data)
    BY AgedAlters
  <2>3. Alters(Aged(here, u0, t.h, Old(e)), u1(e), DOMAIN s.copies)
    BY CopiedAlters
  <2> DEFINE aged == Aged(here, u0, t.h, Old(e))
  <2> HIDE DEF u0, u1, Old, aged, s
  <2>4. Alters(ui, aged, {"toast"} \cup DOMAIN here.data)
    BY <2>1, <2>2, AltersChain DEF aged
  <2> QED
    BY <2>3, <2>4, AltersChain DEF aged
<1> DEFINE v1 == u1(e)
<1> DEFINE k == Kept(here, t, e)
<1> DEFINE u == u2(e, ans)
<1>4. Assigned(v1, k, u)
  BY SetAssigned, Zenon
<1>5. e \in Assignments(d) /\ Departs(e) /\ e \in PageAssignments(here)
  BY <1>0, <1>2, HandlerRules, InAssignments, Zenon
<1>6. Departs(k)
  BY <1>2, <1>5, KeptRules, Zenon
<1> HIDE DEF v1, u
<1>7. DOMAIN u = DOMAIN w /\ DOMAIN v1 = DOMAIN w /\ \A g \in DOMAIN ui \ S : v1[g] = ui[g]
  BY <1>2, <1>3, <1>4, Zenon DEF Alters, Assigned, v1
<1>8. \A g \in DOMAIN s.copies : g \in CopiesInto(d)
  BY <1>2 DEF CopiesInto
<1>9. "goto" \in DOMAIN w /\ "goto" \notin S
  BY <1>2, <1>8, FieldsOf, OtherFields
<1> DEFINE ends == "return" \in DOMAIN e
<1>10. ASSUME NEW f \in here.busy
       PROVE  /\ ui[f] = FALSE /\ ~Carries(here, t, f) => Off(u, f)
              /\ Carries(here, t, f) /\ (ends \/ t.at = Len(d.steps)) => Off(u, f) \/ Unmarks(d.final, f)
  <2>1. f \in DOMAIN w /\ f \notin S
    BY <1>2, <1>8, FieldsOf, OtherFields, QuietEnds
  <2>2. CASE ui[f] = FALSE /\ ~Carries(here, t, f)
    <3>1. Off(v1, f)
      BY <1>2, <1>7, <2>1, <2>2, Zenon DEF Off
    <3>2. Marks(e, f) => Owes(d, t.at, f)
      BY <1>0, <1>2, QuietEnds, Zenon DEF StepMarks
    <3>3. Marks(e, f) => ~Alive(here, t, f)
      BY <2>2, <3>2 DEF Carries, Alive
    <3>4. ~Marks(k, f)
      BY <1>2, <1>5, <3>3, KeptRules DEF Marks
    <3> HIDE DEF k
    <3>5. Off(u, f)
      BY <1>4, <1>6, <1>7, <1>9, <2>1, <3>1, <3>4, OffKept
    <3> QED
      BY <2>2, <3>5, Zenon
  <2>3. CASE Carries(here, t, f) /\ (ends \/ t.at = Len(d.steps)) /\ ~Unmarks(d.final, f)
    <3>1. EndsUnmarked(d, t.at, f)
      BY <1>2, <2>3, AnswerOwed, Zenon
    <3>2. GoesOn(d, t.at, e) \/ Unmarks(e, f)
      BY <1>0, <2>3, <3>1, Zenon DEF EndsUnmarked
    <3>3. ~GoesOn(d, t.at, e)
      <4>1. t.at = Len(d.steps) => ~(t.at < Len(d.steps))
        <5> DEFINE n == Len(d.steps)
        <5>1. n \in Nat
          BY <1>2, TaskAt, Zenon
        <5> HIDE DEF n
        <5>2. \A m : m = n => ~(m < n)
          BY <5>1
        <5> QED
          BY <5>2, Zenon DEF n
      <4> QED
        BY <2>3, <4>1 DEF GoesOn
    <3>4. Unmarks(k, f)
      BY <1>2, <1>5, <2>3, <3>2, <3>3, KeptRules, Zenon DEF Carries, Alive
    <3> HIDE DEF k
    <3>5. Off(u, f)
      BY <1>4, <1>6, <1>7, <1>9, <2>1, <3>4, OffSet
    <3> QED
      BY <2>3, <3>5
  <2> QED
    BY <2>2, <2>3
<1>11. ASSUME NEW p \in DOMAIN here.parts, MountedByUser(here, p)  PROVE Down(u, p, ui[p])
  <2>1. p \in DOMAIN w /\ p \notin S
    BY <1>2, <1>8, <1>11, FieldsOf, OtherFields, Zenon DEF MountedByUser
  <2>2. Down(v1, p, ui[p])
    BY <1>2, <1>7, <2>1 DEF Down
  <2>3. ~Mounts(e, p)
    <3>1. d.steps # <<>>
      BY <1>2, EmptyList
    <3> QED
      BY <1>2, <1>5, <1>11, <3>1, NeverOpens DEF OpensPart
  <2>4. ~Mounts(k, p)
    BY <1>2, <1>5, <2>3, KeptRules
  <2> HIDE DEF k
  <2> QED
    BY <1>4, <1>7, <2>1, <2>2, <2>4, AssignDown
<1> DEFINE ts == Raced(here, Old(e))
<1>12. Alike(here, tasks, ts)
  BY <1>2, RacedAlike, Zenon
<1> DEFINE acc == Rendered(here, ui, GoOn(here, i, u, ts, e, ends))
<1>13. Continue(here, acc)
  BY <1>1 DEF u
<1> HIDE DEF ts, S, d, t
<1>14. Stepped(here, w, acc)
  <2>1. ends \in BOOLEAN
    OBVIOUS
  <2> HIDE DEF ends
  <2> QED
    BY <1>5, <1>7, <1>10, <1>11, <1>12, <2>1, TaskGoesOn DEF d, t
<1> HIDE DEF acc
<1> QED
  BY <1>13, <1>14

LEMMA FailedStep ==
  ASSUME NEW here, KeepsRules(here), NEW w \in here.states, PageInv(here, w, ui, tasks),
         NEW i \in DOMAIN tasks, Failed(here, i)
  PROVE  \E acc : Stepped(here, w, acc) /\ Continue(here, acc)
<1> DEFINE t == tasks[i]
<1> DEFINE d == here.handlers[t.h]
<1> DEFINE s == d.steps[t.at]
<1> DEFINE e == s.fail
<1> DEFINE u0 == [ui EXCEPT !.toast = None]
<1> DEFINE k1 == Kept(here, t, e)
<1> DEFINE k2 == Kept(here, t, d.fail)
<1> DEFINE u1 == Assign(u0, k1, t.arg)
<1> DEFINE u2 == IF s.stop THEN Assign(u1, k2, t.arg) ELSE u1
<1> DEFINE ends == s.stop \/ "return" \in DOMAIN e
<1> DEFINE u == Warned(here, u2, ReadsOf(here, t))
<1> DEFINE acc == Rendered(here, ui, GoOn(here, i, u, tasks, e, ends))
<1>1. s.calls # {} /\ Continue(here, acc)
  BY Zenon DEF Failed, StepOf, DescriptionOf
<1>2. TaskFine(here, t) /\ t.h \in DOMAIN here.handlers /\ t.at \in DOMAIN d.steps
      /\ DOMAIN ui = DOMAIN w /\ Fine(here, DOMAIN w, [ui |-> ui, tasks |-> tasks])
  BY Zenon DEF PageInv, Fine, TaskFine
<1>3. Alters(ui, u0, {"toast"}) /\ Alters(u2, u, DOMAIN here.data)
  BY ToastAlters, WarnedAlters
<1>4. /\ e \in Assignments(d) /\ Departs(e) /\ e \in PageAssignments(here)
      /\ d.fail \in Assignments(d) /\ Departs(d.fail)
  BY <1>2, HandlerRules, InAssignments, Zenon
<1>5. Departs(k1) /\ Departs(k2)
  BY <1>2, <1>4, KeptRules, Zenon
<1> DEFINE v2 == Assign(u1, k2, t.arg)
<1>6. Assigned(u0, k1, u1) /\ Assigned(u1, k2, v2)
  BY AssignAssigned
<1>7. u2 = IF s.stop THEN v2 ELSE u1
  OBVIOUS
<1> HIDE DEF u0, u1, u2, v2, u, k1, k2
<1>8. /\ DOMAIN u0 = DOMAIN w /\ DOMAIN u1 = DOMAIN w /\ DOMAIN v2 = DOMAIN w
      /\ DOMAIN u2 = DOMAIN w /\ DOMAIN u = DOMAIN w
      /\ \A g \in DOMAIN w \ {"toast"} : u0[g] = ui[g]
      /\ \A g \in DOMAIN w \ DOMAIN here.data : u[g] = u2[g]
  <2>1. DOMAIN u0 = DOMAIN w /\ \A g \in DOMAIN w \ {"toast"} : u0[g] = ui[g]
    BY <1>2, <1>3 DEF Alters
  <2>2. DOMAIN u1 = DOMAIN w /\ DOMAIN v2 = DOMAIN w
    BY <1>6, <2>1 DEF Assigned
  <2>3. DOMAIN u2 = DOMAIN w
    BY <1>7, <2>2
  <2> QED
    BY <1>3, <2>1, <2>2, <2>3 DEF Alters
<1>9. "goto" \in DOMAIN w /\ "goto" \notin DOMAIN here.data
  BY FieldsOf, OtherFields, Zenon
<1>10. ASSUME NEW f \in here.busy
       PROVE  /\ ui[f] = FALSE /\ ~Carries(here, t, f) => Off(u, f)
              /\ Carries(here, t, f) /\ (ends \/ t.at = Len(d.steps)) => Off(u, f) \/ Unmarks(d.final, f)
  <2>1. f \in DOMAIN w /\ f \notin {"toast"} \cup DOMAIN here.data
    BY FieldsOf, OtherFields
  <2>2. ~Marks(k2, f)
    BY <1>2, <1>4, KeptRules, QuietEnds, Zenon DEF k2
  <2>3. Off(u1, f) => Off(v2, f)
    BY <1>5, <1>6, <1>8, <1>9, <2>1, <2>2, OffKept
  <2>4. Off(u2, f) => Off(u, f)
    BY <1>8, <1>9, <2>1 DEF Off
  <2>5. CASE ui[f] = FALSE /\ ~Carries(here, t, f)
    <3>1. Off(u0, f)
      BY <1>8, <2>1, <2>5, Zenon DEF Off
    <3>2. Marks(e, f) => Owes(d, t.at, f)
      BY <1>2, QuietEnds, Zenon DEF StepMarks
    <3>3. Marks(e, f) => ~Alive(here, t, f)
      BY <2>5, <3>2, Zenon DEF Carries, Alive
    <3>4. ~Marks(k1, f)
      BY <1>2, <1>4, <3>3, KeptRules, Zenon DEF Marks, k1
    <3>5. Off(u1, f)
      BY <1>5, <1>6, <1>8, <1>9, <2>1, <3>1, <3>4, OffKept
    <3>6. Off(u2, f)
      BY <1>7, <2>3, <3>5, Zenon
    <3> QED
      BY <2>4, <2>5, <3>6
  <2>6. CASE Carries(here, t, f) /\ (ends \/ t.at = Len(d.steps)) /\ ~Unmarks(d.final, f)
    <3>1. EndsUnmarked(d, t.at, f)
      BY <1>2, <2>6, AnswerOwed
    <3>2. FailsUnmarked(d, t.at, f)
      BY <1>1, <2>6, <3>1, Zenon DEF EndsUnmarked
    <3>3. ~s.stop => ~GoesOn(d, t.at, e)
      <4>1. t.at = Len(d.steps) => ~(t.at < Len(d.steps))
        BY <1>2, TaskAt
      <4> QED
        BY <2>6, <4>1 DEF GoesOn
    <3>4. Alive(here, t, f)
      BY <2>6, Zenon DEF Carries, Alive
    <3>5. (Unmarks(e, f) => Unmarks(k1, f)) /\ (Unmarks(d.fail, f) => Unmarks(k2, f))
      BY <1>2, <1>4, <3>4, KeptRules, Zenon DEF k1, k2
    <3>6. Unmarks(k1, f) => Off(u1, f)
      BY <1>5, <1>6, <1>8, <1>9, <2>1, OffSet
    <3>7. Unmarks(k2, f) => Off(v2, f)
      BY <1>5, <1>6, <1>8, <1>9, <2>1, OffSet
    <3>8. CASE s.stop
      <4>1. Unmarks(d.fail, f) \/ Unmarks(e, f)
        BY <3>2, <3>8, Zenon DEF FailsUnmarked
      <4> QED
        BY <1>7, <2>3, <2>4, <2>6, <3>5, <3>6, <3>7, <3>8, <4>1
    <3>9. CASE ~s.stop
      <4>1. Unmarks(e, f)
        BY <3>2, <3>3, <3>9, Zenon DEF FailsUnmarked
      <4> QED
        BY <1>7, <2>4, <2>6, <3>5, <3>6, <3>9, <4>1, ZenonT(40)
    <3> QED
      BY <3>8, <3>9
  <2> QED
    BY <2>5, <2>6
<1>11. ASSUME NEW p \in DOMAIN here.parts, MountedByUser(here, p)  PROVE Down(u, p, ui[p])
  <2>1. p \in DOMAIN w /\ p \notin {"toast"} \cup DOMAIN here.data
    BY FieldsOf, OtherFields
  <2>2. Down(u0, p, ui[p])
    BY <1>8, <2>1, Zenon DEF Down
  <2>3. ~Mounts(e, p) /\ ~Mounts(d.fail, p)
    <3>1. d.steps # <<>>
      BY <1>2, EmptyList, Zenon
    <3> QED
      BY <1>2, <1>4, <1>11, <3>1, NeverOpens, Zenon DEF OpensPart
  <2>4. ~Mounts(k1, p) /\ ~Mounts(k2, p)
    BY <1>2, <1>4, <2>3, KeptRules, Zenon DEF k1, k2
  <2>5. Down(u1, p, ui[p])
    BY <1>6, <1>8, <2>1, <2>2, <2>4, AssignDown
  <2>6. Down(v2, p, ui[p])
    BY <1>6, <1>8, <2>1, <2>4, <2>5, AssignDown
  <2> QED
    BY <1>7, <1>8, <2>1, <2>5, <2>6 DEF Down
<1>12. Alike(here, tasks, tasks)
  BY <1>2 DEF Alike, Fine
<1>13. ends \in BOOLEAN
  OBVIOUS
<1> HIDE DEF ends, d, t, e
<1>14. Stepped(here, w, acc)
  BY <1>4, <1>8, <1>10, <1>11, <1>12, <1>13, TaskGoesOn DEF d, t
<1> HIDE DEF acc
<1> QED
  BY <1>1, <1>14

---------------------------------------------------------------------------
(* Steps of a page.                                                        *)

LEMMA ClearedFields ==
  ASSUME NEW here, KeepsRules(here), NEW u,
         \A p \in DOMAIN here.parts : p \in DOMAIN u
  PROVE  LET r == Cleared(here, u) IN
         /\ DOMAIN r = DOMAIN u
         /\ \A g \in DOMAIN u :
              /\ (\A p \in PartsOf(here, g) : u[p] # None) => r[g] = u[g]
              /\ (\E p \in PartsOf(here, g) : u[p] = None) =>
                    \E p \in PartsOf(here, g) : u[p] = None /\ r[g] = here.parts[p][g]
<1> DEFINE r == Cleared(here, u)
<1> DEFINE absent(g) == {p \in DOMAIN here.parts : u[p] = None /\ g \in DOMAIN here.parts[p]}
<1>1. r = [g \in DOMAIN u |-> IF absent(g) = {} THEN u[g]
                              ELSE here.parts[CHOOSE p \in absent(g) : TRUE][g]]
  BY Zenon DEF Cleared
<1>2. \A g : absent(g) = {p \in PartsOf(here, g) : u[p] = None}
  BY DEF PartsOf
<1> HIDE DEF absent
<1>3. ASSUME NEW g \in DOMAIN u
      PROVE  /\ (\A p \in PartsOf(here, g) : u[p] # None) => r[g] = u[g]
             /\ (\E p \in PartsOf(here, g) : u[p] = None) =>
                    \E p \in PartsOf(here, g) : u[p] = None /\ r[g] = here.parts[p][g]
  <2> DEFINE q == CHOOSE p \in absent(g) : TRUE
  <2>1. r[g] = IF absent(g) = {} THEN u[g] ELSE here.parts[q][g]
    BY <1>1
  <2>2. absent(g) # {} => q \in absent(g)
    OBVIOUS
  <2> HIDE DEF q, r
  <2> QED
    BY <1>2, <2>1, <2>2
<1>4. DOMAIN r = DOMAIN u
  BY <1>1, Zenon
<1> HIDE DEF r
<1> QED
  BY <1>3, <1>4 DEF r

(* The tasks us are the tasks ts, seen as they wait.                       *)
Settles(here, ts, us) ==
  /\ us = [i \in DOMAIN ts |-> us[i]]
  /\ \A i \in DOMAIN ts :
       /\ TaskFine(here, us[i]) /\ us[i].h = ts[i].h /\ us[i].at = ts[i].at /\ us[i].arg = ts[i].arg
       /\ us[i].new = FALSE /\ (ts[i].gone => us[i].gone)

LEMMA StayTasks ==
  ASSUME NEW here, KeepsRules(here), NEW D, NEW acc, Fine(here, D, acc), Stay(here, acc)
  PROVE  /\ Settles(here, acc.tasks, tasks')
         /\ \A i \in DOMAIN acc.tasks :
              LET t == acc.tasks[i]
                  p == here.handlers[t.h].part
              IN tasks'[i].gone <=>
                   t.gone \/ (~t.new /\ p # None /\ ui[p] # acc.ui[p])
<1> DEFINE ts == acc.tasks
<1> DEFINE Gone(t) == t.gone \/ (here.handlers[t.h].part # None
                                 /\ ui[here.handlers[t.h].part] # acc.ui[here.handlers[t.h].part])
<1> DEFINE After(t) == IF t.new THEN [t EXCEPT !.new = FALSE] ELSE [t EXCEPT !.gone = Gone(t)]
<1>1. tasks' = [i \in DOMAIN ts |-> After(ts[i])]
  BY Zenon DEF Stay, DescriptionOf
<1>2. tasks' = [i \in DOMAIN ts |-> tasks'[i]] /\ \A i \in DOMAIN ts : tasks'[i] = After(ts[i])
  <2> HIDE DEF After, ts
  <2> QED
    BY <1>1
<1>3. ASSUME NEW i \in DOMAIN ts
      PROVE  /\ TaskFine(here, tasks'[i]) /\ tasks'[i].h = ts[i].h /\ tasks'[i].at = ts[i].at
             /\ tasks'[i].arg = ts[i].arg
             /\ tasks'[i].new = FALSE /\ (ts[i].gone => tasks'[i].gone)
             /\ tasks'[i].gone <=>
                  ts[i].gone \/ (~ts[i].new /\ here.handlers[ts[i].h].part # None
                                 /\ ui[here.handlers[ts[i].h].part] # acc.ui[here.handlers[ts[i].h].part])
  <2> DEFINE t == ts[i]
  <2>1. TaskFine(here, t) /\ tasks'[i] = After(t)
    BY <1>2, Zenon DEF Fine
  <2> HIDE DEF t
  <2>2. CASE t.new
    <3>1. tasks'[i] = [t EXCEPT !.new = FALSE]
      BY <2>1, <2>2
    <3>2. /\ TaskFine(here, tasks'[i]) /\ tasks'[i].h = t.h /\ tasks'[i].at = t.at /\ tasks'[i].arg = t.arg
          /\ tasks'[i].new = FALSE /\ tasks'[i].gone = t.gone
      BY <2>1, <3>1 DEF TaskFine
    <3> QED
      BY <2>2, <3>2 DEF t
  <2>3. CASE ~t.new
    <3>1. tasks'[i] = [t EXCEPT !.gone = Gone(t)]
      BY <2>1, <2>3
    <3>2. Gone(t) \in BOOLEAN /\ (Gone(t) => here.handlers[t.h].part # None)
      BY <2>1 DEF TaskFine
    <3>3. t.gone => Gone(t)
      OBVIOUS
    <3> DEFINE b == Gone(t)
    <3> HIDE DEF Gone, b
    <3>4. /\ TaskFine(here, tasks'[i]) /\ tasks'[i].h = t.h /\ tasks'[i].at = t.at /\ tasks'[i].arg = t.arg
          /\ tasks'[i].new = t.new /\ tasks'[i].gone = b
      <4>1. tasks'[i] = [t EXCEPT !.gone = b] /\ b \in BOOLEAN /\ (b => here.handlers[t.h].part # None)
        BY <3>1, <3>2 DEF b
      <4> QED
        BY <2>1, <4>1 DEF TaskFine
    <3>5. t.new = FALSE
      BY <2>1, <2>3 DEF TaskFine
    <3> QED
      BY <2>3, <3>3, <3>4, <3>5, Zenon DEF b, t, Gone
  <2> QED
    BY <2>2, <2>3
<1> HIDE DEF After, Gone
<1> QED
  BY <1>2, <1>3 DEF Settles

(* What a page is after a step that stays on it.                           *)
LEMMA PageKept ==
  ASSUME NEW here, KeepsRules(here), NEW w \in here.states, NEW acc, Fine(here, DOMAIN w, acc),
         acc.ui["goto"] = None, NEW u, u = Cleared(here, acc.ui), NEW ts, Settles(here, acc.tasks, ts),
         \A f \in here.busy :
           acc.ui[f] # FALSE /\ (\A p \in PartsOf(here, f) : acc.ui[p] # None) =>
             \E i \in DOMAIN acc.tasks : Carries(here, ts[i], f)
  PROVE  PageInv(here, w, u, ts)
<1>1. /\ \A p \in DOMAIN here.parts : p \in DOMAIN acc.ui
      /\ \A f \in here.busy : f \in DOMAIN acc.ui
      /\ "goto" \in DOMAIN acc.ui /\ DOMAIN acc.ui = DOMAIN w
  BY FieldsOf DEF Fine
<1>2. /\ DOMAIN u = DOMAIN w
      /\ \A g \in DOMAIN w :
              /\ (\A p \in PartsOf(here, g) : acc.ui[p] # None) => u[g] = acc.ui[g]
              /\ (\E p \in PartsOf(here, g) : acc.ui[p] = None) =>
                    \E p \in PartsOf(here, g) : acc.ui[p] = None /\ u[g] = here.parts[p][g]
  BY <1>1, ClearedFields
<1>3. u["goto"] = None /\ \A p \in DOMAIN here.parts : u[p] = acc.ui[p]
  BY <1>1, <1>2, OtherFields
<1>4. Listed(ts) /\ DOMAIN ts = DOMAIN acc.tasks
  BY SameLength DEF Fine, Settles
<1>5. Fine(here, DOMAIN w, [ui |-> u, tasks |-> ts])
  BY <1>2, <1>4 DEF Fine, Settles
<1>6. ASSUME NEW f \in here.busy  PROVE Carried(here, u, ts, f)
  <2>1. \A p \in PartsOf(here, f) : here.parts[p][f] = FALSE /\ p \in DOMAIN here.parts
    BY DEF KeepsRules, ReleasesMark, PartsOf
  <2>2. CASE \A p \in PartsOf(here, f) : acc.ui[p] # None
    <3>1. u[f] = acc.ui[f]
      BY <1>1, <1>2, <2>2
    <3>2. u[f] # FALSE => \E i \in DOMAIN ts : Carries(here, ts[i], f)
      BY <1>4, <2>2, <3>1
    <3> QED
      BY <1>3, <2>1, <2>2, <3>2 DEF Carried
  <2>3. CASE \E p \in PartsOf(here, f) : acc.ui[p] = None
    <3>1. u[f] = FALSE
      BY <1>1, <1>2, <2>1, <2>3
    <3> QED
      BY <3>1 DEF Carried
  <2> QED
    BY <2>2, <2>3
<1>7. \A i \in DOMAIN ts : ~ts[i].new
  BY <1>4 DEF Settles
<1> QED
  BY <1>3, <1>5, <1>6, <1>7 DEF PageInv

LEMMA StayKeeps ==
  ASSUME NEW here, KeepsRules(here), NEW w \in here.states, NEW acc, Stepped(here, w, acc),
         acc.ui["goto"] = None, Stay(here, acc)
  PROVE  PageInv(here, w, ui', tasks')
<1>1. Fine(here, DOMAIN w, acc)
  BY DEF Stepped
<1>2. /\ Settles(here, acc.tasks, tasks')
      /\ \A i \in DOMAIN acc.tasks :
              LET t == acc.tasks[i]
                  p == here.handlers[t.h].part
              IN tasks'[i].gone <=>
                   t.gone \/ (~t.new /\ p # None /\ ui[p] # acc.ui[p])
  BY <1>1, StayTasks
<1>3. ASSUME NEW f \in here.busy, acc.ui[f] # FALSE, \A p \in PartsOf(here, f) : acc.ui[p] # None
      PROVE  \E i \in DOMAIN acc.tasks : Carries(here, tasks'[i], f)
  <2>1. ~Off(acc.ui, f)
    BY <1>3 DEF Off
  <2>2. \A i \in DOMAIN acc.tasks :
          /\ acc.tasks[i].h \in DOMAIN here.handlers
          /\ here.handlers[acc.tasks[i].h].part # None => here.handlers[acc.tasks[i].h].part \in DOMAIN here.parts
    BY <1>1, HandlerRules DEF Fine, TaskFine
  <2>3. ASSUME NEW i \in DOMAIN acc.tasks, Carries(here, acc.tasks[i], f), ~Carries(here, tasks'[i], f)
        PROVE  LET p == here.handlers[acc.tasks[i].h].part IN
               ~acc.tasks[i].new /\ p \in PartsOf(here, f) /\ ui[p] # acc.ui[p]
    <3>1. tasks'[i].h = acc.tasks[i].h /\ tasks'[i].at = acc.tasks[i].at
      BY <1>2, Zenon DEF Settles
    <3>2. tasks'[i].gone /\ ~acc.tasks[i].gone /\ f \in DOMAIN here.parts[here.handlers[acc.tasks[i].h].part]
      BY <2>3, <3>1 DEF Carries
    <3> QED
      BY <1>2, <2>2, <3>2 DEF PartsOf
  <2>4. CASE \E p \in PartsOf(here, f) : Marked(here, acc, f, TRUE)
    <3>1. PICK i \in DOMAIN acc.tasks : Carries(here, acc.tasks[i], f) /\ acc.tasks[i].new
      BY <2>1, <2>4 DEF Marked
    <3> QED
      BY <2>3, <3>1
  <2>5. CASE \A p \in PartsOf(here, f) : Down(acc.ui, p, ui[p])
    <3>1. PICK i \in DOMAIN acc.tasks : Carries(here, acc.tasks[i], f)
      BY <2>1 DEF Marked, Stepped
    <3>2. \A p \in PartsOf(here, f) : acc.ui[p] = ui[p]
      BY <1>3, <2>5 DEF Down
    <3> QED
      BY <2>3, <3>1, <3>2
  <2> QED
    BY <2>4, <2>5 DEF Stepped
<1>4. ui' = Cleared(here, acc.ui)
  BY DEF Stay
<1> QED
  BY <1>1, <1>2, <1>3, <1>4, PageKept

LEMMA UsedStep ==
  ASSUME NEW here, KeepsRules(here), NEW w \in here.states, PageInv(here, w, ui, tasks), Use(here)
  PROVE  \E acc : Stepped(here, w, acc) /\ Continue(here, acc)
<1> DEFINE u == [ui EXCEPT !.toast = None]
<1> DEFINE acc0 == [ui |-> u, tasks |-> tasks]
<1>1. PICK h \in DOMAIN here.controls : \E arg \in here.handlers[h].takes :
        /\ \E pattern \in here.controls[h] : Fits(ui, pattern)
        /\ \A f \in here.handlers[h].except : ui[f] # arg
        /\ Continue(here, Rendered(here, u, Launch(here, acc0, h, arg)))
  BY Zenon DEF Use
<1>0. PICK arg \in here.handlers[h].takes :
        /\ \E pattern \in here.controls[h] : Fits(ui, pattern)
        /\ \A f \in here.handlers[h].except : ui[f] # arg
        /\ Continue(here, Rendered(here, u, Launch(here, acc0, h, arg)))
  BY <1>1
<1> DEFINE d == here.handlers[h]
<1> DEFINE acc1 == Launch(here, acc0, h, arg)
<1> DEFINE acc == Rendered(here, u, acc1)
<1>2. h \in DOMAIN here.handlers
  BY <1>1 DEF KeepsRules, WellFormed
<1>3. DOMAIN u = DOMAIN w /\ \A g \in DOMAIN w \ {"toast"} : u[g] = ui[g]
  BY DEF PageInv, Fine
<1> HIDE DEF u
<1>4. Fine(here, DOMAIN w, acc0)
  BY <1>3 DEF PageInv, Fine
<1>5. /\ Fine(here, DOMAIN w, acc1)
      /\ \A f \in here.busy, b \in BOOLEAN :
              Marked(here, acc0, f, b) /\ ~HasRun(here, h, f) => Marked(here, acc1, f, b)
      /\ \A p \in DOMAIN here.parts : \A x :
              MountedByUser(here, p) /\ ~OpensPart(d, p) /\ Down(u, p, x) => Down(acc1.ui, p, x)
  BY <1>2, <1>4, LaunchKeeps
<1> HIDE DEF acc1
<1>6. /\ Fine(here, DOMAIN w, acc)
      /\ \A f \in here.busy, b \in BOOLEAN :
              /\ Marked(here, acc1, f, b) => Marked(here, acc, f, b)
              /\ \A n \in DOMAIN here.effects : \A g \in here.effects[n].deps :
                   /\ u[g] # acc1.ui[g]
                   /\ TakesOver(here.handlers[here.effects[n].run], f)
                   => Marked(here, acc, f, b)
  BY <1>5, RenderedMarks
<1>7. \A p \in DOMAIN here.parts : \A x :
        MountedByUser(here, p) /\ Down(acc1.ui, p, x) => Down(acc.ui, p, x)
  BY <1>5, RenderedDown
<1> HIDE DEF acc
<1>8. ASSUME NEW f \in here.busy, NEW b \in BOOLEAN, Marked(here, acc0, f, b)
      PROVE  Marked(here, acc, f, b)
  <2>1. CASE ~HasRun(here, h, f)
    BY <1>5, <1>6, <1>8, <2>1
  <2>2. CASE HasRun(here, h, f)
    <3>1. PICK g \in d.except \ {"toast"}, n \in DOMAIN here.effects :
            /\ HasField(here, g) /\ g \in DOMAIN d.start /\ d.start[g] = Arg
            /\ g \in here.effects[n].deps
            /\ TakesOver(here.handlers[here.effects[n].run], f)
      BY <2>2 DEF HasRun
    <3>2. d.steps = <<>> /\ d.needs = <<>> /\ "runs" \notin DOMAIN d.start
      BY <2>2 DEF HasRun
    <3>3. acc1.ui[g] = arg
      <4> DEFINE begun == Begin(here, acc0, h, arg, u)
      <4>1. Unmet(d.needs, u) = {}
        BY <3>2, EmptyList DEF Unmet
      <4>2. acc1 = begun
        <5>1. acc1 = Run(here, d.start, begun, arg, u)
          BY <4>1, Zenon DEF Launch, acc1
        <5> QED
          BY <3>2, <5>1, Zenon DEF Run
      <4>3. ~Waits(here, d, acc0, h, arg, u, begun) /\ ~ReturnsEarly(here, d, acc0, h, arg, u, begun)
        BY <3>2, <4>1 DEF Waits, ReturnsEarly
      <4>4. EndsAtOnce(here, d, acc0, h, arg, u, begun)
        BY <1>2, <4>3, HandlerRules, BeginCases
      <4>5. begun.ui = Assign(Copied(u, d.copies), d.start, arg)
        BY <4>4 DEF EndsAtOnce
      <4>6. g \in DOMAIN Copied(u, d.copies)
        BY <1>3, <3>1, CopiedKeeps DEF HasField
      <4> HIDE DEF begun, d
      <4>7. Assign(Copied(u, d.copies), d.start, arg)[g] = arg
        BY <3>1, <4>6, AssignAssigned
      <4> QED
        BY <4>2, <4>5, <4>7
    <3>4. u[g] # acc1.ui[g]
      BY <1>0, <1>3, <3>1, <3>3 DEF HasField
    <3> HIDE DEF d
    <3> QED
      BY <1>6, <3>1, <3>4
  <2> QED
    BY <2>1, <2>2
<1>9. ASSUME NEW f \in here.busy
      PROVE  /\ Marked(here, acc0, f, FALSE)
             /\ \A p \in PartsOf(here, f) : OpensPart(d, p) => Marked(here, acc0, f, TRUE)
  <2>1. f \in DOMAIN w \ {"toast"}
    BY FieldsOf, OtherFields
  <2>2. Carried(here, ui, tasks, f)
    BY DEF PageInv
  <2>3. ui[f] = FALSE => Off(u, f)
    BY <1>3, <2>1 DEF Off
  <2>4. Marked(here, acc0, f, FALSE)
    BY <2>2, <2>3 DEF Marked, Carried
  <2>5. ASSUME NEW p \in PartsOf(here, f), OpensPart(d, p)  PROVE Marked(here, acc0, f, TRUE)
    <3>1. MountedByUser(here, p)
      BY DEF KeepsRules, ReleasesMark
    <3>2. \A pattern \in here.controls[h] : p \in DOMAIN pattern /\ pattern[p] = {None}
      BY <1>2, <2>5, <3>1 DEF MountedByUser, OpensPart
    <3>3. ui[p] = None
      BY <1>0, <3>2 DEF Fits
    <3>4. ui[f] = FALSE
      BY <2>2, <3>3 DEF Carried
    <3> QED
      BY <2>3, <3>4 DEF Marked
  <2> QED
    BY <2>4, <2>5
<1>10. ASSUME NEW f \in here.busy, NEW p \in PartsOf(here, f), ~OpensPart(d, p)
       PROVE  Down(acc.ui, p, ui[p])
  <2>1. p \in DOMAIN here.parts /\ MountedByUser(here, p)
    BY DEF KeepsRules, ReleasesMark, PartsOf
  <2>2. p \in DOMAIN w \ {"toast"}
    BY <2>1, FieldsOf, OtherFields
  <2>3. Down(u, p, ui[p])
    BY <1>3, <2>2 DEF Down
  <2> QED
    BY <1>5, <1>7, <1>10, <2>1, <2>3
<1> HIDE DEF acc0, d
<1>11. Stepped(here, w, acc)
  BY <1>6, <1>8, <1>9, <1>10 DEF Stepped
<1>12. Continue(here, acc)
  BY <1>0 DEF acc, acc1
<1> QED
  BY <1>11, <1>12

LEMMA EffectsLeavePage ==
  ASSUME NEW here, KeepsRules(here), NEW w \in here.states, NEW acc, Fine(here, DOMAIN w, acc),
         acc.ui["goto"] = None, NEW h \in ByEffect(here), NEW v
  PROVE  LET a == Begin(here, acc, h, None, v) IN
         Fine(here, DOMAIN w, a) /\ a.ui["goto"] = None
<1>1. h \in DOMAIN here.handlers
  BY DEF KeepsRules, WellFormed, Automatic
<1>2. Listed(here.handlers[h].needs) /\ Listed(here.handlers[h].steps)
  BY <1>1, HandlerRules
<1>3. "goto" \in DOMAIN acc.ui
  BY FieldsOf DEF Fine
<1>4. /\ "goto" \notin DOMAIN here.handlers[h].copies
      /\ \A e \in StartAssignments(here.handlers[h]) : "goto" \notin DOMAIN e
  BY <1>1, HandlerRules DEF KeepsRules, WellFormed, Navigates
<1>5. Begin(here, acc, h, None, v).ui["goto"] = None
  BY <1>2, <1>3, <1>4, BeginLeaves
<1> QED
  BY <1>1, <1>2, <1>5, BeginTasks

(* A page is not left as it is mounted.                                    *)
LEMMA MountedKeeps ==
  ASSUME NEW here, KeepsRules(here), NEW w \in here.states
  PROVE  LET acc == Mounted(here, w) IN
         /\ Fine(here, DOMAIN w, acc)
         /\ acc.ui["goto"] = None
         /\ \A f \in here.busy : Marked(here, acc, f, FALSE)
<1> DEFINE acc0 == [ui |-> w, tasks |-> <<>>]
<1> DEFINE all == DOMAIN here.effects
<1> DEFINE acc1 == RunEffects(here, all, w, acc0)
<1> DEFINE acc == Rendered(here, w, acc1)
<1>1. Mounted(here, w) = acc
  BY Zenon DEF Mounted
<1>2. Fine(here, DOMAIN w, acc0) /\ acc0.ui["goto"] = None
  BY EmptyList DEF Fine, KeepsRules, WellFormed, Navigates
<1>3. Listed(here.effects) /\ \A n \in all : here.effects[n].run \in ByEffect(here)
  BY EffectRules
<1>4. /\ Fine(here, DOMAIN w, acc1)
      /\ \A f \in here.busy :
              /\ Marked(here, acc0, f, FALSE) => Marked(here, acc1, f, FALSE)
              /\ \A n \in all : TakesOver(here.handlers[here.effects[n].run], f) => Marked(here, acc1, f, FALSE)
  <2> HIDE DEF acc0
  <2>1. /\ Fine(here, DOMAIN w, acc1)
        /\ \A f \in here.busy, b \in BOOLEAN :
             /\ Marked(here, acc0, f, b) => Marked(here, acc1, f, b)
             /\ \A n \in all \cap DOMAIN here.effects :
                  TakesOver(here.handlers[here.effects[n].run], f) => Marked(here, acc1, f, b)
    BY <1>2, EffectsMarks, Zenon
  <2> HIDE DEF acc1
  <2> QED
    BY <2>1
<1>5. acc1.ui["goto"] = None
  <2> HIDE DEF acc0, acc1
  <2>1. PICK R : /\ acc0 \in R
                 /\ \A G \in SUBSET R :
                     /\ acc0 \in G
                     /\ \A x \in G, n \in all \cap DOMAIN here.effects :
                          Begin(here, x, here.effects[n].run, None, w) \in R =>
                            Begin(here, x, here.effects[n].run, None, w) \in G
                     => acc1 \in G
    BY <1>3, EffectsKeep DEF acc1
  <2> DEFINE G == {x \in R : Fine(here, DOMAIN w, x) /\ x.ui["goto"] = None}
  <2>2. \A x \in G, n \in all \cap DOMAIN here.effects :
                          Begin(here, x, here.effects[n].run, None, w) \in R =>
                            Begin(here, x, here.effects[n].run, None, w) \in G
    BY <1>3, EffectsLeavePage
  <2>3. acc0 \in G /\ G \in SUBSET R
    BY <1>2, <2>1
  <2> HIDE DEF G
  <2>4. acc1 \in G
    BY <2>1, <2>2, <2>3
  <2> QED
    BY <2>4 DEF G
<1>6. ASSUME NEW f \in here.busy  PROVE Marked(here, acc1, f, FALSE)
  <2>1. CASE w[f] = FALSE
    <3>1. Marked(here, acc0, f, FALSE)
      BY <2>1 DEF Marked, Off
    <3> QED
      BY <1>4, <3>1
  <2>2. CASE w[f] # FALSE
    <3>1. \E n \in all : TakesOver(here.handlers[here.effects[n].run], f)
      BY <2>2 DEF KeepsRules, ReleasesMark, MountsOwed
    <3> HIDE DEF all, acc1
    <3> QED
      BY <1>4, <3>1
  <2> QED
    BY <2>1, <2>2
<1> HIDE DEF acc0, acc1
<1>7. /\ Fine(here, DOMAIN w, acc)
      /\ \A f \in here.busy : Marked(here, acc1, f, FALSE) => Marked(here, acc, f, FALSE)
  BY <1>4, RenderedMarks
<1>8. acc.ui["goto"] = None
  <2> HIDE DEF acc
  <2>1. PICK R : /\ acc1 \in R
                 /\ \A G \in SUBSET R :
                     /\ acc1 \in G
                     /\ \A n \in DOMAIN here.effects : here.effects[n].deps # {} => KeptBy(here, G, R, n)
                     => acc \in G
    BY <1>3, RenderedKeep DEF acc
  <2> DEFINE G == {x \in R : Fine(here, DOMAIN w, x) /\ x.ui["goto"] = None}
  <2>2. \A n \in DOMAIN here.effects : KeptBy(here, G, R, n)
    BY <1>3, EffectsLeavePage DEF KeptBy
  <2>3. acc1 \in G /\ G \in SUBSET R
    BY <1>4, <1>5, <2>1
  <2> HIDE DEF G
  <2>4. acc \in G
    BY <2>1, <2>2, <2>3
  <2> QED
    BY <2>4 DEF G
<1> HIDE DEF acc
<1> QED
  BY <1>1, <1>6, <1>7, <1>8

(* The tasks of a page that is opened.                                     *)
AsOpened(ts) == [i \in DOMAIN ts |-> [ts[i] EXCEPT !.new = FALSE]]

LEMMA OpenedTasks ==
  ASSUME NEW here, NEW D, NEW acc, Fine(here, D, acc), NEW ts, ts = AsOpened(acc.tasks)
  PROVE  /\ Settles(here, acc.tasks, ts)
         /\ \A i \in DOMAIN acc.tasks : ts[i].gone = acc.tasks[i].gone
<1>1. ts = [i \in DOMAIN acc.tasks |-> ts[i]]
  BY DEF AsOpened
<1>2. ASSUME NEW i \in DOMAIN acc.tasks
      PROVE  /\ TaskFine(here, ts[i]) /\ ts[i].h = acc.tasks[i].h /\ ts[i].at = acc.tasks[i].at
             /\ ts[i].arg = acc.tasks[i].arg /\ ts[i].new = FALSE /\ ts[i].gone = acc.tasks[i].gone
  <2> DEFINE t == acc.tasks[i]
  <2>1. TaskFine(here, t)
    BY DEF Fine
  <2>2. ts[i] = [t EXCEPT !.new = FALSE]
    BY DEF AsOpened
  <2> HIDE DEF t
  <2>3. /\ TaskFine(here, ts[i]) /\ ts[i].h = t.h /\ ts[i].at = t.at
        /\ ts[i].arg = t.arg /\ ts[i].new = FALSE /\ ts[i].gone = t.gone
    BY <2>1, <2>2 DEF TaskFine
  <2> QED
    BY <2>3 DEF t
<1> QED
  BY <1>1, <1>2 DEF Settles

LEMMA OpenedStep ==
  ASSUME NEW here, KeepsRules(here), NEW w \in here.states,
         ui' = Cleared(here, Mounted(here, w).ui),
         tasks' = AsOpened(Mounted(here, w).tasks)
  PROVE  PageInv(here, w, ui', tasks')
<1> DEFINE acc == Mounted(here, w)
<1>1. /\ Fine(here, DOMAIN w, acc)
      /\ acc.ui["goto"] = None
      /\ \A f \in here.busy : Marked(here, acc, f, FALSE)
  BY MountedKeeps
<1>2. ui' = Cleared(here, acc.ui) /\ tasks' = AsOpened(acc.tasks)
  OBVIOUS
<1> HIDE DEF acc
<1>3. /\ Settles(here, acc.tasks, tasks')
      /\ \A i \in DOMAIN acc.tasks : tasks'[i].gone = acc.tasks[i].gone
  BY <1>1, <1>2, OpenedTasks
<1>4. ASSUME NEW f \in here.busy, acc.ui[f] # FALSE  PROVE \E i \in DOMAIN acc.tasks : Carries(here, tasks'[i], f)
  <2>1. PICK i \in DOMAIN acc.tasks : Carries(here, acc.tasks[i], f)
    BY <1>1, <1>4 DEF Marked, Off
  <2>2. Carries(here, tasks'[i], f)
    BY <1>3, <2>1, Zenon DEF Carries, Settles
  <2> QED
    BY <2>2
<1> QED
  BY <1>1, <1>2, <1>3, <1>4, PageKept

---------------------------------------------------------------------------
(* Sending once.  M is a group of handlers; the tasks that count are those *)
(* of the group that can still assign field f.                             *)
Counted(here, M, f, ts) == {i \in DOMAIN ts : ts[i].h \in M /\ Alive(here, ts[i], f)}
Once(here, M, f, ts) == \A i, j \in Counted(here, M, f, ts) : i = j

(* Nothing begins to count from ts to us.                                  *)
Fewer(here, M, f, ts, us) ==
  /\ \A j \in Counted(here, M, f, us) : \E i \in Counted(here, M, f, ts) : us[j] = ts[i]
  /\ Once(here, M, f, ts) => Once(here, M, f, us)

LEMMA FewerItself == ASSUME NEW here, NEW M, NEW f, NEW ts  PROVE Fewer(here, M, f, ts, ts)
BY DEF Fewer

LEMMA FewerChain ==
  ASSUME NEW here, NEW M, NEW f, NEW ts, NEW us, NEW vs,
         Fewer(here, M, f, ts, us), Fewer(here, M, f, us, vs)
  PROVE  Fewer(here, M, f, ts, vs)
<1>1. ASSUME NEW j \in Counted(here, M, f, vs)  PROVE \E i \in Counted(here, M, f, ts) : vs[j] = ts[i]
  <2>1. PICK k \in Counted(here, M, f, us) : vs[j] = us[k]
    BY DEF Fewer
  <2>2. PICK i \in Counted(here, M, f, ts) : us[k] = ts[i]
    BY DEF Fewer
  <2> QED
    BY <2>1, <2>2
<1>2. Once(here, M, f, ts) => Once(here, M, f, vs)
  BY DEF Fewer
<1> QED
  BY <1>1, <1>2 DEF Fewer

LEMMA SomeOfFewer ==
  ASSUME NEW here, NEW M, NEW f, NEW ts, NEW us, SomeOf(ts, us)
  PROVE  Fewer(here, M, f, ts, us)
<1>1. PICK m \in [DOMAIN us -> DOMAIN ts] :
        /\ \A j \in DOMAIN us : us[j] = ts[m[j]]
        /\ \A j, k \in DOMAIN us : m[j] = m[k] => j = k
  BY DEF SomeOf
<1>2. \A j \in Counted(here, M, f, us) : j \in DOMAIN us /\ m[j] \in Counted(here, M, f, ts) /\ us[j] = ts[m[j]]
  BY <1>1 DEF Counted
<1>3. Once(here, M, f, ts) => Once(here, M, f, us)
  BY <1>1, <1>2 DEF Once
<1> QED
  BY <1>2, <1>3 DEF Fewer

LEMMA AppendFewer ==
  ASSUME NEW here, NEW M, NEW f, NEW ts, Listed(ts), NEW t, ~(t.h \in M /\ Alive(here, t, f))
  PROVE  Fewer(here, M, f, ts, Append(ts, t))
<1> DEFINE us == Append(ts, t)
<1>1. /\ DOMAIN us = DOMAIN ts \cup {Len(ts) + 1}
      /\ \A i \in DOMAIN ts : us[i] = ts[i]
      /\ us[Len(ts) + 1] = t
  <2>1. Len(ts) \in Nat
    BY DEF Listed
  <2> QED
    BY <2>1, AppendTask
<1> HIDE DEF us
<1>2. Counted(here, M, f, us) \subseteq Counted(here, M, f, ts) /\ \A i \in Counted(here, M, f, us) : us[i] = ts[i]
  BY <1>1 DEF Counted
<1>3. Fewer(here, M, f, ts, us)
  BY <1>2 DEF Fewer, Once
<1> QED
  BY <1>3 DEF us

LEMMA RemovedCounted ==
  ASSUME NEW here, NEW M, NEW f, NEW ts, Listed(ts), NEW i \in DOMAIN ts
  PROVE  /\ Fewer(here, M, f, ts, RemoveAt(ts, i))
         /\ Once(here, M, f, ts) /\ i \in Counted(here, M, f, ts) => Counted(here, M, f, RemoveAt(ts, i)) = {}
<1> DEFINE us == RemoveAt(ts, i)
<1>1. Fewer(here, M, f, ts, us)
  BY RemoveTask, SomeOfFewer
<1>2. PICK m \in [DOMAIN us -> DOMAIN ts \ {i}] : \A j \in DOMAIN us : us[j] = ts[m[j]]
  BY RemoveTask
<1> HIDE DEF us
<1>3. \A j \in Counted(here, M, f, us) : m[j] \in Counted(here, M, f, ts) /\ m[j] # i
  BY <1>2 DEF Counted
<1>4. Once(here, M, f, ts) /\ i \in Counted(here, M, f, ts) => Counted(here, M, f, us) = {}
  BY <1>3 DEF Once
<1> QED
  BY <1>1, <1>4 DEF us

LEMMA BeginCounted ==
  ASSUME NEW here, KeepsRules(here), NEW D, NEW acc, Fine(here, D, acc), NEW h \in DOMAIN here.handlers,
         NEW arg, NEW v, NEW M, NEW f, h \notin M
  PROVE  /\ Fine(here, D, Begin(here, acc, h, arg, v))
         /\ Fewer(here, M, f, acc.tasks, Begin(here, acc, h, arg, v).tasks)
<1> DEFINE us == Begin(here, acc, h, arg, v).tasks
<1> DEFINE kept == Remaining(here, acc.tasks, h)
<1>1. Listed(here.handlers[h].needs) /\ Listed(here.handlers[h].steps)
  BY HandlerRules
<1>2. /\ Fine(here, D, Begin(here, acc, h, arg, v))
      /\ us = kept \/ \E q : us = Append(kept, NewTask(h, arg, q))
  <2> DEFINE a == Begin(here, acc, h, arg, v)
  <2>1. /\ Fine(here, D, a)
        /\ Fine(here, D, [ui |-> acc.ui, tasks |-> kept])
        /\ \/ a.tasks = kept
           \/ \E q : a.tasks = Append(kept, NewTask(h, arg, q))
        /\ a.tasks # kept => Waits(here, here.handlers[h], acc, h, arg, v, a)
    BY <1>1, BeginTasks
  <2> HIDE DEF a, kept
  <2> QED
    BY <2>1 DEF a
<1>3. SomeOf(acc.tasks, kept) /\ Listed(kept)
  BY RemainingTasks DEF Fine
<1>4. Fewer(here, M, f, acc.tasks, kept)
  BY <1>3, SomeOfFewer
<1> HIDE DEF us, kept
<1>5. ASSUME NEW q, us = Append(kept, NewTask(h, arg, q))  PROVE Fewer(here, M, f, acc.tasks, us)
  <2> DEFINE t == NewTask(h, arg, q)
  <2>1. t.h = h
    BY DEF NewTask
  <2> HIDE DEF t
  <2>2. Fewer(here, M, f, kept, us)
    BY <1>3, <1>5, <2>1, AppendFewer DEF t
  <2> QED
    BY <1>4, <2>2, FewerChain
<1> QED
  BY <1>2, <1>4, <1>5 DEF us

LEMMA RunCounted ==
  ASSUME NEW here, KeepsRules(here), NEW D, NEW acc, Fine(here, D, acc), NEW e \in PageAssignments(here),
         NEW arg, NEW v, NEW M, NEW f, \A h \in ByHandler(here) : h \notin M
  PROVE  /\ Fine(here, D, Run(here, e, acc, arg, v))
         /\ Fewer(here, M, f, acc.tasks, Run(here, e, acc, arg, v).tasks)
<1>1. CASE "runs" \notin DOMAIN e
  BY <1>1, FewerItself DEF Run
<1>2. CASE "runs" \in DOMAIN e
  <2>1. Run(here, e, acc, arg, v) = Begin(here, acc, e.runs, arg, v)
    BY <1>2 DEF Run
  <2>2. e.runs \in DOMAIN here.handlers /\ e.runs \notin M
    BY <1>2, EffectRules
  <2> QED
    BY <2>1, <2>2, BeginCounted
<1> QED
  BY <1>1, <1>2

LEMMA RenderedCounted ==
  ASSUME NEW here, KeepsRules(here), NEW D, NEW u, NEW acc, Fine(here, D, acc), NEW M, NEW f,
         \A n \in DOMAIN here.effects : here.effects[n].deps # {} => here.effects[n].run \notin M
  PROVE  /\ Fine(here, D, Rendered(here, u, acc))
         /\ Fewer(here, M, f, acc.tasks, Rendered(here, u, acc).tasks)
<1>1. Listed(here.effects)
  BY EffectRules
<1>2. PICK R : /\ acc \in R
               /\ \A G \in SUBSET R :
                     /\ acc \in G
                     /\ \A n \in DOMAIN here.effects : here.effects[n].deps # {} => KeptBy(here, G, R, n)
                     => Rendered(here, u, acc) \in G
  BY <1>1, RenderedKeep
<1> DEFINE G == {y \in R : Fine(here, D, y) /\ Fewer(here, M, f, acc.tasks, y.tasks)}
<1>3. ASSUME NEW n \in DOMAIN here.effects, here.effects[n].deps # {}  PROVE KeptBy(here, G, R, n)
  <2> DEFINE h == here.effects[n].run
  <2>1. h \in DOMAIN here.handlers /\ h \notin M
    BY <1>3, EffectRules
  <2> HIDE DEF h
  <2>2. ASSUME NEW y \in G, NEW v, Begin(here, y, h, None, v) \in R  PROVE Begin(here, y, h, None, v) \in G
    <3> DEFINE z == Begin(here, y, h, None, v)
    <3>1. Fine(here, D, z) /\ Fewer(here, M, f, y.tasks, z.tasks)
      BY <2>1, BeginCounted
    <3> HIDE DEF z
    <3>2. Fewer(here, M, f, acc.tasks, z.tasks)
      BY <3>1, FewerChain
    <3> QED
      BY <2>2, <3>1, <3>2 DEF z
  <2> HIDE DEF G
  <2> QED
    BY <2>2 DEF KeptBy, h
<1>4. acc \in G /\ G \in SUBSET R
  BY <1>2, FewerItself
<1> HIDE DEF G
<1>5. Rendered(here, u, acc) \in G
  BY <1>2, <1>3, <1>4
<1> QED
  BY <1>5 DEF G

LEMMA LeftFine ==
  ASSUME NEW here, NEW D, NEW u, NEW ts, Fine(here, D, [ui |-> u, tasks |-> ts]), NEW i \in DOMAIN ts
  PROVE  Fine(here, D, [ui |-> u, tasks |-> RemoveAt(ts, i)])
<1> DEFINE us == RemoveAt(ts, i)
<1>1. Listed(ts) /\ DOMAIN u = D /\ \A j \in DOMAIN ts : TaskFine(here, ts[j])
  BY DEF Fine
<1>2. Listed(us) /\ SomeOf(ts, us)
  BY <1>1, RemoveTask
<1> HIDE DEF us
<1>3. PICK m \in [DOMAIN us -> DOMAIN ts] : \A j \in DOMAIN us : us[j] = ts[m[j]]
  BY <1>2 DEF SomeOf
<1>4. \A j \in DOMAIN us : TaskFine(here, us[j])
  <2>1. \A j \in DOMAIN us : m[j] \in DOMAIN ts
    BY <1>3
  <2> QED
    BY <1>1, <1>3, <2>1
<1>5. Fine(here, D, [ui |-> u, tasks |-> us])
  BY <1>1, <1>2, <1>4 DEF Fine
<1> QED
  BY <1>5 DEF us

(* The task that an await of t leaves.                                     *)
Next(t) == [t EXCEPT !.at = t.at + 1, !.fresh = TRUE]

LEMMA NextTask ==
  ASSUME NEW here, NEW t, TaskFine(here, t)
  PROVE  Next(t).h = t.h /\ Next(t).gone = t.gone /\ Next(t).new = t.new /\ Next(t).arg = t.arg
BY DEF Next, TaskFine

LEMMA TasksGoneOn ==
  ASSUME NEW here, NEW t, NEW acc, NEW ends, NEW a, GoesOnAs(here, t, acc, ends, a)
  PROVE  a.tasks = acc.tasks \/ a.tasks = Append(acc.tasks, Next(t))
<1>1. \A x : Ended(here, t, acc, x).tasks = acc.tasks
  BY DEF Ended
<1>2. Advanced(here, t, acc).tasks = Append(acc.tasks, Next(t))
  BY Zenon DEF Advanced, Next
<1> QED
  BY <1>1, <1>2, Zenon DEF GoesOnAs

LEMMA GoOnCounted ==
  ASSUME NEW here, KeepsRules(here), NEW D, NEW u, NEW ts, Fine(here, D, [ui |-> u, tasks |-> ts]),
         NEW i \in DOMAIN ts, NEW e \in PageAssignments(here), NEW ends \in BOOLEAN,
         NEW M, NEW f, \A h \in ByHandler(here) : h \notin M, Once(here, M, f, ts)
  PROVE  Once(here, M, f, GoOn(here, i, u, ts, e, ends).tasks)
<1> DEFINE t == ts[i]
<1> DEFINE a == GoOn(here, i, u, ts, e, ends)
<1> DEFINE left == [ui |-> u, tasks |-> RemoveAt(ts, i)]
<1>0. TaskFine(here, t) /\ Listed(ts)
  BY DEF Fine
<1>1. PICK v : GoesOnAs(here, t, Run(here, e, left, t.arg, v), ends, a)
  BY <1>0, GoOnCases, Zenon
<1> DEFINE acc == Run(here, e, left, t.arg, v)
<1>2. Fine(here, D, left)
  BY LeftFine
<1>3. Fine(here, D, acc) /\ Fewer(here, M, f, left.tasks, acc.tasks)
  BY <1>2, RunCounted
<1>4. /\ Once(here, M, f, left.tasks)
      /\ i \in Counted(here, M, f, ts) => Counted(here, M, f, left.tasks) = {}
  BY <1>0, RemovedCounted DEF Fewer
<1> HIDE DEF left, a, acc
<1>5. /\ Once(here, M, f, acc.tasks)
      /\ i \in Counted(here, M, f, ts) => Counted(here, M, f, acc.tasks) = {}
  BY <1>3, <1>4 DEF Fewer
<1>6. a.tasks = acc.tasks \/ a.tasks = Append(acc.tasks, Next(t))
  BY <1>1, TasksGoneOn DEF acc
<1>7. CASE a.tasks = Append(acc.tasks, Next(t))
  <2> DEFINE s == Next(t)
  <2>1. s.h = t.h /\ s.gone = t.gone
    BY <1>0, NextTask
  <2> HIDE DEF s
  <2>2. /\ DOMAIN a.tasks = DOMAIN acc.tasks \cup {Len(acc.tasks) + 1}
        /\ \A j \in DOMAIN acc.tasks : a.tasks[j] = acc.tasks[j]
        /\ a.tasks[Len(acc.tasks) + 1] = s
    <3>1. Listed(acc.tasks) /\ Len(acc.tasks) \in Nat
      BY <1>3 DEF Fine, Listed
    <3> QED
      BY <1>7, <3>1, AppendTask DEF s
  <2>3. CASE i \in Counted(here, M, f, ts)
    <3>1. Counted(here, M, f, a.tasks) \subseteq {Len(acc.tasks) + 1}
      <4>1. \A j \in DOMAIN acc.tasks : j \notin Counted(here, M, f, a.tasks)
        BY <1>5, <2>2, <2>3 DEF Counted
      <4> QED
        BY <2>2, <4>1 DEF Counted
    <3> QED
      BY <3>1 DEF Once, a
  <2>4. CASE i \notin Counted(here, M, f, ts)
    <3>1. ~(s.h \in M /\ Alive(here, s, f))
      BY <2>1, <2>4 DEF Counted, Alive
    <3>2. Listed(acc.tasks)
      BY <1>3 DEF Fine
    <3> QED
      BY <1>5, <1>7, <3>1, <3>2, AppendFewer DEF Fewer, s, a
  <2> QED
    BY <2>3, <2>4
<1> QED
  BY <1>5, <1>6, <1>7 DEF a

---------------------------------------------------------------------------
(* A field that holds its handlers back.                                   *)
Group(here, f) == {h \in DOMAIN here.handlers : f \in DOMAIN here.handlers[h].start}

LEMMA LockRules ==
  ASSUME NEW here, KeepsRules(here), NEW f, Lock(here, f)
  PROVE  /\ f \notin {"toast", "goto"} \cup DOMAIN here.data
         /\ \A w \in here.states : f \in DOMAIN w
         /\ \A h \in DOMAIN here.handlers :
              LET d == here.handlers[h] IN
              /\ f \notin CopiesInto(d)
              /\ h \notin Group(here, f) => \A e \in Assignments(d) : f \notin DOMAIN e
              /\ h \in Group(here, f) => Holds(here, h, f) /\ \A p \in PartsOf(here, f) : HoldsInPart(here, h, p)
         /\ \A h \in Automatic(here) : h \in DOMAIN here.handlers \ Group(here, f)
         /\ \A n \in DOMAIN here.effects :
              /\ here.effects[n].run \notin Group(here, f)
              /\ here.effects[n].deps # {} =>
                   \A p \in PartsOf(here, f) : Leaves(here.handlers[here.effects[n].run], p)
<1>1. /\ f \notin {"toast", "goto"} \cup DOMAIN here.data
      /\ \A w \in here.states : f \in DOMAIN w
  BY DEF Lock, HasField
<1>2. ASSUME NEW h \in DOMAIN here.handlers
      PROVE  LET d == here.handlers[h] IN
             /\ f \notin CopiesInto(d)
             /\ h \notin Group(here, f) => \A e \in Assignments(d) : f \notin DOMAIN e
             /\ h \in Group(here, f) => Holds(here, h, f) /\ \A p \in PartsOf(here, f) : HoldsInPart(here, h, p)
  <2> DEFINE d == here.handlers[h]
  <2>1. IF f \in DOMAIN d.start
        THEN Holds(here, h, f) /\ \A p \in PartsOf(here, f) : HoldsInPart(here, h, p)
        ELSE f \notin CopiesInto(d) /\ \A e \in Assignments(d) : f \notin DOMAIN e
    BY DEF Lock
  <2>2. Holds(here, h, f) => f \notin CopiesInto(d)
    BY DEF Holds
  <2>3. h \in Group(here, f) <=> f \in DOMAIN d.start
    BY DEF Group
  <2> HIDE DEF d
  <2> QED
    BY <2>1, <2>2, <2>3 DEF d
<1>3. \A h \in Automatic(here) : h \in DOMAIN here.handlers \ Group(here, f)
  <2>1. \A h \in DOMAIN here.handlers : Holds(here, h, f) => h \notin Automatic(here)
    BY DEF Holds
  <2>2. \A h \in Automatic(here) : h \in DOMAIN here.handlers
    BY DEF KeepsRules, WellFormed
  <2> QED
    BY <1>2, <2>1, <2>2
<1>4. \A n \in DOMAIN here.effects :
        here.effects[n].deps # {} => \A p \in PartsOf(here, f) : Leaves(here.handlers[here.effects[n].run], p)
  BY DEF Lock
<1>5. \A n \in DOMAIN here.effects : here.effects[n].run \notin Group(here, f)
  BY <1>3, EffectRules
<1> QED
  BY <1>1, <1>2, <1>3, <1>4, <1>5

(* A task that counts has the field held, and the part that holds the      *)
(* field is mounted since before the task began.                           *)
HeldIn(here, f, acc) ==
  \A i \in Counted(here, Group(here, f), f, acc.tasks) :
    /\ acc.ui[f] # Free(here, f)
    /\ \A p \in PartsOf(here, f) : ui[p] # None /\ (acc.tasks[i].new => acc.ui[p] = ui[p])
NoneNew(here, f, acc) ==
  \A i \in Counted(here, Group(here, f), f, acc.tasks) : ~acc.tasks[i].new

LEMMA FewerHeld ==
  ASSUME NEW here, NEW f, NEW acc, NEW a, Fewer(here, Group(here, f), f, acc.tasks, a.tasks),
         a.ui[f] = acc.ui[f]
  PROVE  /\ NoneNew(here, f, acc) => NoneNew(here, f, a)
         /\ HeldIn(here, f, acc) /\ (NoneNew(here, f, acc) \/ \A p \in PartsOf(here, f) : a.ui[p] = acc.ui[p])
              => HeldIn(here, f, a)
<1>1. ASSUME NEW j \in Counted(here, Group(here, f), f, a.tasks)
      PROVE  \E i \in Counted(here, Group(here, f), f, acc.tasks) : a.tasks[j] = acc.tasks[i]
  BY DEF Fewer
<1> QED
  BY <1>1 DEF NoneNew, HeldIn

LEMMA StartsWith ==
  ASSUME NEW here, KeepsRules(here), NEW h \in DOMAIN here.handlers
  PROVE  \A e \in StartAssignments(here.handlers[h]) : e \in Assignments(here.handlers[h])
<1> DEFINE d == here.handlers[h]
<1>1. d.steps # <<>> => d.steps[1].begin \in Assignments(d)
  <2>1. d.steps # <<>> => 1 \in DOMAIN d.steps
    BY HandlerRules, FirstStep
  <2> QED
    BY <2>1, InAssignments
<1>2. d.start \in Assignments(d) /\ \A i \in DOMAIN d.needs : d.needs[i].otherwise \in Assignments(d)
  BY InAssignments
<1> HIDE DEF d
<1> QED
  BY <1>1, <1>2 DEF StartAssignments, d

LEMMA BeginHeld ==
  ASSUME NEW here, KeepsRules(here), NEW f, Lock(here, f), NEW w \in here.states, NEW acc,
         Fine(here, DOMAIN w, acc), NEW h \in DOMAIN here.handlers \ Group(here, f), NEW arg, NEW v
  PROVE  LET a == Begin(here, acc, h, arg, v) IN
         /\ a.ui[f] = acc.ui[f]
         /\ NoneNew(here, f, acc) => NoneNew(here, f, a)
         /\ HeldIn(here, f, acc) /\ (NoneNew(here, f, acc) \/ \A p \in PartsOf(here, f) : Leaves(here.handlers[h], p))
              => HeldIn(here, f, a)
<1> DEFINE d == here.handlers[h]
<1> DEFINE a == Begin(here, acc, h, arg, v)
<1>1. Fewer(here, Group(here, f), f, acc.tasks, a.tasks)
  BY BeginCounted
<1>2. Listed(d.needs)
  BY HandlerRules
<1>3. f \in DOMAIN acc.ui /\ f \notin DOMAIN d.copies /\ \A e \in Assignments(d) : f \notin DOMAIN e
  BY LockRules DEF Fine, CopiesInto
<1>4. a.ui[f] = acc.ui[f]
  <2>1. \A e \in StartAssignments(d) : f \notin DOMAIN e
    BY <1>3, StartsWith
  <2> QED
    BY <1>2, <1>3, <2>1, BeginLeaves
<1>5. ASSUME NEW p \in PartsOf(here, f), Leaves(d, p)  PROVE a.ui[p] = acc.ui[p]
  <2>1. p \in DOMAIN acc.ui
    BY FieldsOf DEF Fine, PartsOf
  <2> QED
    BY <1>2, <1>5, <2>1, BeginLeaves DEF Leaves
<1> HIDE DEF a, d
<1> QED
  BY <1>1, <1>4, <1>5, FewerHeld DEF a, d

LEMMA RunHeld ==
  ASSUME NEW here, KeepsRules(here), NEW f, Lock(here, f), NEW w \in here.states, NEW acc,
         Fine(here, DOMAIN w, acc), NEW e \in PageAssignments(here), NEW arg, NEW v
  PROVE  LET a == Run(here, e, acc, arg, v) IN
         /\ Fine(here, DOMAIN w, a)
         /\ Fewer(here, Group(here, f), f, acc.tasks, a.tasks)
         /\ a.ui[f] = acc.ui[f]
         /\ NoneNew(here, f, acc) => NoneNew(here, f, a)
         /\ HeldIn(here, f, acc) /\ (NoneNew(here, f, acc) \/ "runs" \notin DOMAIN e \/ PartsOf(here, f) = {})
              => HeldIn(here, f, a)
<1>1. \A h \in ByHandler(here) : h \in DOMAIN here.handlers \ Group(here, f)
  BY LockRules DEF Automatic
<1>2. /\ Fine(here, DOMAIN w, Run(here, e, acc, arg, v))
      /\ Fewer(here, Group(here, f), f, acc.tasks, Run(here, e, acc, arg, v).tasks)
  BY <1>1, RunCounted
<1>3. CASE "runs" \notin DOMAIN e
  BY <1>2, <1>3 DEF Run
<1>4. CASE "runs" \in DOMAIN e
  <2>1. Run(here, e, acc, arg, v) = Begin(here, acc, e.runs, arg, v)
    BY <1>4 DEF Run
  <2>2. e.runs \in DOMAIN here.handlers \ Group(here, f)
    BY <1>1, <1>4, EffectRules
  <2> DEFINE h == e.runs
  <2> HIDE DEF h
  <2> DEFINE a == Begin(here, acc, h, arg, v)
  <2>3. /\ a.ui[f] = acc.ui[f]
        /\ NoneNew(here, f, acc) => NoneNew(here, f, a)
        /\ HeldIn(here, f, acc) /\ (NoneNew(here, f, acc) \/ \A p \in PartsOf(here, f) : Leaves(here.handlers[h], p))
              => HeldIn(here, f, a)
    BY <2>2, BeginHeld DEF h
  <2> HIDE DEF a
  <2> QED
    BY <1>2, <1>4, <2>1, <2>3 DEF h, a
<1> QED
  BY <1>3, <1>4

LEMMA RenderedHeld ==
  ASSUME NEW here, KeepsRules(here), NEW f, Lock(here, f), NEW w \in here.states, NEW u, NEW acc,
         Fine(here, DOMAIN w, acc), HeldIn(here, f, acc)
  PROVE  HeldIn(here, f, Rendered(here, u, acc))
<1>1. Listed(here.effects)
  BY EffectRules
<1>2. PICK R : /\ acc \in R
               /\ \A G \in SUBSET R :
                     /\ acc \in G
                     /\ \A n \in DOMAIN here.effects : here.effects[n].deps # {} => KeptBy(here, G, R, n)
                     => Rendered(here, u, acc) \in G
  BY <1>1, RenderedKeep
<1> DEFINE G == {y \in R : Fine(here, DOMAIN w, y) /\ HeldIn(here, f, y)}
<1>3. ASSUME NEW n \in DOMAIN here.effects, here.effects[n].deps # {}  PROVE KeptBy(here, G, R, n)
  <2> DEFINE h == here.effects[n].run
  <2>1. h \in DOMAIN here.handlers \ Group(here, f) /\ \A p \in PartsOf(here, f) : Leaves(here.handlers[h], p)
    BY <1>3, EffectRules, LockRules
  <2> HIDE DEF h
  <2>2. ASSUME NEW y \in G, NEW v, Begin(here, y, h, None, v) \in R  PROVE Begin(here, y, h, None, v) \in G
    <3> DEFINE z == Begin(here, y, h, None, v)
    <3>1. Fine(here, DOMAIN w, z)
      BY <2>1, BeginCounted
    <3>2. HeldIn(here, f, z)
      BY <2>1, BeginHeld
    <3> QED
      BY <2>2, <3>1, <3>2
  <2> HIDE DEF G
  <2> QED
    BY <2>2 DEF KeptBy, h
<1>4. acc \in G /\ G \in SUBSET R
  BY <1>2
<1> HIDE DEF G
<1>5. Rendered(here, u, acc) \in G
  BY <1>2, <1>3, <1>4
<1> QED
  BY <1>5 DEF G

LEMMA AssignLeaves ==
  ASSUME NEW u, NEW e, NEW arg, NEW f \in DOMAIN u, f \notin DOMAIN e
  PROVE  DOMAIN Assign(u, e, arg) = DOMAIN u /\ Assign(u, e, arg)[f] = u[f]
BY AssignAssigned DEF Assigned

(* What the rules of f leave to the handler of task t.                     *)
LEMMA KeptLeaves ==
  ASSUME NEW here, KeepsRules(here), NEW f, Lock(here, f), NEW t, TaskFine(here, t),
         NEW e \in {Nothing} \cup Assignments(here.handlers[t.h]),
         t.h \notin Group(here, f) \/ ~Alive(here, t, f) \/ f \notin DOMAIN e
  PROVE  f \notin DOMAIN Kept(here, t, e)
<1>1. t.h \in DOMAIN here.handlers
  BY DEF TaskFine
<1>2. Departs(e)
  BY <1>1, HandlerRules, NothingIsQuiet
<1>3. t.h \notin Group(here, f) => f \notin DOMAIN e
  BY <1>1, LockRules, NothingIsQuiet
<1> QED
  BY <1>2, <1>3, KeptRules

LEMMA EndedLeaves ==
  ASSUME NEW here, KeepsRules(here), NEW f, Lock(here, f), NEW t, TaskFine(here, t),
         NEW acc, f \in DOMAIN acc.ui,
         NEW x \in {Nothing} \cup Assignments(here.handlers[t.h]),
         t.h \notin Group(here, f) \/ ~Alive(here, t, f)
  PROVE  Ended(here, t, acc, x).ui[f] = acc.ui[f]
<1> DEFINE d == here.handlers[t.h]
<1>1. d.final \in Assignments(d)
  BY InAssignments
<1> DEFINE u == Assign(acc.ui, Kept(here, t, x), t.arg)
<1> DEFINE r == Assign(u, Kept(here, t, d.final), t.arg)
<1>2. f \notin DOMAIN Kept(here, t, x) /\ f \notin DOMAIN Kept(here, t, d.final)
  BY <1>1, KeptLeaves
<1>3. f \in DOMAIN u /\ u[f] = acc.ui[f]
  BY <1>2, AssignLeaves
<1> HIDE DEF u
<1>4. r[f] = u[f]
  BY <1>2, <1>3, AssignLeaves
<1>5. Ended(here, t, acc, x).ui = r
  BY DEF Ended, u
<1> QED
  BY <1>3, <1>4, <1>5

LEMMA AdvancedLeaves ==
  ASSUME NEW here, KeepsRules(here), NEW f, Lock(here, f), NEW t, TaskFine(here, t),
         t.at < Len(here.handlers[t.h].steps), NEW acc, f \in DOMAIN acc.ui
  PROVE  Advanced(here, t, acc).ui[f] = acc.ui[f]
<1> DEFINE d == here.handlers[t.h]
<1> DEFINE k == t.at + 1
<1>1. t.h \in DOMAIN here.handlers /\ k \in DOMAIN d.steps
  BY TaskAt DEF TaskFine
<1> HIDE DEF k
<1>2. d.steps[k].begin \in Assignments(d)
  BY <1>1, InAssignments, Zenon
<1>3. t.h \in Group(here, f) => f \notin DOMAIN d.steps[k].begin
  <2>1. t.h \in Group(here, f) => Holds(here, t.h, f)
    BY <1>1, LockRules
  <2> QED
    BY <1>1, <2>1 DEF Holds
<1>4. f \notin DOMAIN Kept(here, t, d.steps[k].begin)
  BY <1>2, <1>3, KeptLeaves
<1>5. Advanced(here, t, acc).ui = Assign(acc.ui, Kept(here, t, d.steps[k].begin), t.arg)
  BY DEF Advanced, k
<1> QED
  BY <1>4, <1>5, AssignLeaves

(* While a task runs that is counted f holds back the others of its group. *)
LockedBy(here, f, u, ts) ==
  \A i \in Counted(here, Group(here, f), f, ts) :
    u[f] # Free(here, f) /\ \A p \in PartsOf(here, f) : u[p] # None

LEMMA GoOnHeld ==
  ASSUME NEW here, KeepsRules(here), NEW f, Lock(here, f), NEW w \in here.states, NEW u, NEW ts,
         Fine(here, DOMAIN w, [ui |-> u, tasks |-> ts]), NEW i \in DOMAIN ts,
         NEW e \in PageAssignments(here), NEW ends \in BOOLEAN,
         Once(here, Group(here, f), f, ts), \A j \in DOMAIN ts : ~ts[j].new,
         LockedBy(here, f, ui, ts),
         i \notin Counted(here, Group(here, f), f, ts) => u[f] = ui[f],
         i \in Counted(here, Group(here, f), f, ts) =>
           ends \/ ts[i].at = Len(here.handlers[ts[i].h].steps) \/ u[f] = ui[f]
  PROVE  HeldIn(here, f, GoOn(here, i, u, ts, e, ends))
<1> DEFINE M == Group(here, f)
<1> DEFINE t == ts[i]
<1> DEFINE d == here.handlers[t.h]
<1> DEFINE a == GoOn(here, i, u, ts, e, ends)
<1> DEFINE left == [ui |-> u, tasks |-> RemoveAt(ts, i)]
<1>0. TaskFine(here, t) /\ Listed(ts) /\ f \in DOMAIN u /\ t.h \in DOMAIN here.handlers
  BY LockRules DEF Fine, TaskFine
<1>1. PICK v : GoesOnAs(here, t, Run(here, e, left, t.arg, v), ends, a)
  BY <1>0, GoOnCases, Zenon
<1> DEFINE acc == Run(here, e, left, t.arg, v)
<1>2. Fine(here, DOMAIN w, left)
  BY LeftFine
<1>3. /\ Fewer(here, M, f, ts, left.tasks)
      /\ i \in Counted(here, M, f, ts) => Counted(here, M, f, left.tasks) = {}
  BY <1>0, RemovedCounted
<1>4. /\ Fine(here, DOMAIN w, acc) /\ Fewer(here, M, f, left.tasks, acc.tasks)
      /\ acc.ui[f] = left.ui[f]
      /\ NoneNew(here, f, left) => NoneNew(here, f, acc)
      /\ HeldIn(here, f, left) /\ NoneNew(here, f, left) => HeldIn(here, f, acc)
  <2> HIDE DEF left, M
  <2> QED
    BY <1>2, RunHeld DEF M
<1>5. left.ui = u
  OBVIOUS
<1> HIDE DEF left, a, acc
<1>6. \A k \in DOMAIN d.steps : \A j \in DOMAIN d.steps[k].needs :
        d.steps[k].needs[j].otherwise \in Assignments(d)
  BY InAssignments
<1>7. f \in DOMAIN acc.ui /\ Listed(acc.tasks)
  BY <1>0, <1>4 DEF Fine
<1>8. CASE i \notin Counted(here, M, f, ts)
  <2>1. t.h \notin M \/ ~Alive(here, t, f)
    BY <1>8 DEF Counted
  <2>2. NoneNew(here, f, left) /\ HeldIn(here, f, left)
    <3>1. \A j \in Counted(here, M, f, left.tasks) : \E k \in Counted(here, M, f, ts) : left.tasks[j] = ts[k]
      BY <1>3 DEF Fewer
    <3>2. \A k \in Counted(here, M, f, ts) :
            /\ ~ts[k].new /\ u[f] # Free(here, f)
            /\ \A p \in PartsOf(here, f) : ui[p] # None
      BY <1>8 DEF LockedBy, Counted
    <3> HIDE DEF M
    <3> QED
      BY <1>5, <3>1, <3>2 DEF NoneNew, HeldIn, M
  <2>3. NoneNew(here, f, acc) /\ HeldIn(here, f, acc)
    BY <1>4, <2>2
  <2>4. ASSUME NEW x \in {Nothing} \cup Assignments(d), a = Ended(here, t, acc, x)
        PROVE  a.ui[f] = acc.ui[f] /\ a.tasks = acc.tasks
    <3>1. a.ui[f] = acc.ui[f]
      BY <1>0, <1>7, <2>1, <2>4, EndedLeaves
    <3> QED
      BY <2>4, <3>1 DEF Ended
  <2>5. CASE a.ui[f] = acc.ui[f] /\ a.tasks = acc.tasks
    BY <2>3, <2>5, FewerItself, FewerHeld DEF a
  <2>6. CASE t.at < Len(d.steps) /\ a = Advanced(here, t, acc)
    <3>1. a.ui[f] = acc.ui[f]
      BY <1>0, <1>7, <2>6, AdvancedLeaves
    <3>2. a.tasks = Append(acc.tasks, Next(t))
      BY <2>6, Zenon DEF Advanced, Next
    <3> DEFINE s == Next(t)
    <3>3. s.h = t.h /\ s.gone = t.gone
      BY <1>0, NextTask
    <3> HIDE DEF s
    <3>4. ~(s.h \in M /\ Alive(here, s, f))
      BY <2>1, <3>3 DEF Alive
    <3>5. Fewer(here, M, f, acc.tasks, a.tasks)
      BY <1>7, <3>2, <3>4, AppendFewer DEF s
    <3> QED
      BY <2>3, <3>1, <3>5, FewerHeld DEF a
  <2>7. t.at < Len(d.steps) => t.at + 1 \in DOMAIN d.steps
    BY <1>0, TaskAt
  <2> QED
    BY <1>1, <1>6, <2>4, <2>5, <2>6, <2>7, Zenon DEF GoesOnAs, acc
<1>9. CASE i \in Counted(here, M, f, ts)
  <2>1. Counted(here, M, f, acc.tasks) = {}
    BY <1>3, <1>4, <1>9 DEF Fewer
  <2>2. CASE a.tasks = acc.tasks
    BY <2>1, <2>2 DEF HeldIn, a
  <2>3. CASE ~ends /\ t.at < Len(d.steps) /\ a = Advanced(here, t, acc)
    <3>1. u[f] = ui[f]
      BY <1>0, <1>9, <2>3, TaskAt
    <3>2. a.ui[f] = ui[f]
      BY <1>0, <1>4, <1>5, <1>7, <2>3, <3>1, AdvancedLeaves
    <3> DEFINE s == Next(t)
    <3>3. a.tasks = Append(acc.tasks, s)
      BY <2>3, Zenon DEF Advanced, Next
    <3>4. s.new = t.new
      BY <1>0, NextTask
    <3> HIDE DEF s
    <3>5. ~s.new
      BY <3>4
    <3>6. /\ DOMAIN a.tasks = DOMAIN acc.tasks \cup {Len(acc.tasks) + 1}
          /\ \A j \in DOMAIN acc.tasks : a.tasks[j] = acc.tasks[j]
          /\ a.tasks[Len(acc.tasks) + 1] = s
      <4>1. Len(acc.tasks) \in Nat
        BY <1>7 DEF Listed
      <4> QED
        BY <1>7, <3>3, <4>1, AppendTask
    <3>7. ASSUME NEW j \in Counted(here, M, f, a.tasks)  PROVE a.tasks[j] = s
      <4>1. j \in DOMAIN acc.tasks => j \in Counted(here, M, f, acc.tasks)
        BY <3>6, <3>7 DEF Counted
      <4> QED
        BY <2>1, <3>6, <3>7, <4>1 DEF Counted
    <3>8. ui[f] # Free(here, f) /\ \A p \in PartsOf(here, f) : ui[p] # None
      BY <1>9 DEF LockedBy
    <3> QED
      BY <3>2, <3>5, <3>7, <3>8 DEF HeldIn, a
  <2>4. \A x : Ended(here, t, acc, x).tasks = acc.tasks
    BY DEF Ended
  <2> QED
    BY <1>1, <2>2, <2>3, <2>4, Zenon DEF GoesOnAs, acc
<1> QED
  BY <1>8, <1>9

---------------------------------------------------------------------------
(* What is sent once, from step to step.                                   *)

SendInv(here, u, ts) ==
  /\ \A h : RunsOnMount(here, h) => Once(here, {h}, "goto", ts)
  /\ \A f : Lock(here, f) => Once(here, Group(here, f), f, ts) /\ LockedBy(here, f, u, ts)

(* As a page goes on with acc.                                             *)
Sending(here, w, acc) ==
  /\ Fine(here, DOMAIN w, acc)
  /\ \A h : RunsOnMount(here, h) => Once(here, {h}, "goto", acc.tasks)
  /\ \A f : Lock(here, f) => Once(here, Group(here, f), f, acc.tasks) /\ HeldIn(here, f, acc)

LEMMA AlikeCounted ==
  ASSUME NEW here, NEW ts, NEW us, Alike(here, ts, us), NEW M, NEW f
  PROVE  Counted(here, M, f, us) = Counted(here, M, f, ts)
<1>1. \A i \in DOMAIN ts : ts[i].h = us[i].h /\ ts[i].gone = us[i].gone
  BY DEF Alike
<1>2. DOMAIN ts = DOMAIN us
  BY DEF Alike
<1> QED
  BY <1>1, <1>2 DEF Counted, Alive

LEMMA MountRules ==
  ASSUME NEW here, NEW h, RunsOnMount(here, h)
  PROVE  /\ \A g \in ByHandler(here) : g \notin {h}
         /\ \A n \in DOMAIN here.effects : here.effects[n].deps # {} => here.effects[n].run \notin {h}
         /\ h \notin DOMAIN here.controls
BY DEF RunsOnMount

(* A task that goes on sends nothing a second time, if the answer or the   *)
(* failure leaves the field that its handler holds, unless it ends.        *)
LEMMA TaskSends ==
  ASSUME NEW here, KeepsRules(here), NEW w \in here.states, PageInv(here, w, ui, tasks),
         SendInv(here, ui, tasks),
         NEW i \in DOMAIN tasks, NEW u, DOMAIN u = DOMAIN w, NEW ts, Alike(here, tasks, ts),
         NEW e \in PageAssignments(here), NEW ends \in BOOLEAN,
         \A f : Lock(here, f) =>
           LET t == tasks[i] IN
           \/ t.h \in Group(here, f) /\ Alive(here, t, f) /\ (ends \/ t.at = Len(here.handlers[t.h].steps))
           \/ u[f] = ui[f]
  PROVE  Sending(here, w, Rendered(here, ui, GoOn(here, i, u, ts, e, ends)))
<1> DEFINE a == GoOn(here, i, u, ts, e, ends)
<1> DEFINE r == Rendered(here, ui, a)
<1>1. /\ Fine(here, DOMAIN w, [ui |-> u, tasks |-> ts]) /\ i \in DOMAIN ts
      /\ \A j \in DOMAIN ts : ~ts[j].new
  BY DEF Alike, Fine, PageInv
<1>2. ts[i].h = tasks[i].h /\ ts[i].at = tasks[i].at /\ ts[i].gone = tasks[i].gone
  BY DEF Alike
<1>3. \A M, f : Counted(here, M, f, ts) = Counted(here, M, f, tasks)
  BY AlikeCounted
<1>4. Fine(here, DOMAIN w, a)
  BY <1>1, GoOnKeeps
<1>5. ASSUME NEW h, RunsOnMount(here, h)  PROVE Once(here, {h}, "goto", r.tasks)
  <2> DEFINE M == {h}
  <2>1. /\ \A g \in ByHandler(here) : g \notin M
        /\ \A n \in DOMAIN here.effects : here.effects[n].deps # {} => here.effects[n].run \notin M
    BY <1>5, MountRules
  <2>2. Once(here, M, "goto", ts)
    BY <1>3, <1>5 DEF SendInv, Once
  <2> HIDE DEF M, a
  <2>3. Once(here, M, "goto", a.tasks)
    BY <1>1, <2>1, <2>2, GoOnCounted DEF a
  <2>4. Fewer(here, M, "goto", a.tasks, r.tasks)
    BY <1>4, <2>1, RenderedCounted
  <2> QED
    BY <2>3, <2>4 DEF Fewer, M
<1>6. ASSUME NEW f, Lock(here, f)  PROVE Once(here, Group(here, f), f, r.tasks) /\ HeldIn(here, f, r)
  <2> DEFINE M == Group(here, f)
  <2>1. /\ \A g \in ByHandler(here) : g \notin M
        /\ \A n \in DOMAIN here.effects : here.effects[n].deps # {} => here.effects[n].run \notin M
    BY <1>6, LockRules DEF Automatic
  <2>2. Once(here, M, f, ts) /\ LockedBy(here, f, ui, ts)
    BY <1>3, <1>6 DEF SendInv, Once, LockedBy
  <2>3. i \in Counted(here, M, f, ts) <=> tasks[i].h \in M /\ Alive(here, tasks[i], f)
    <3>1. i \in Counted(here, M, f, tasks) <=> tasks[i].h \in M /\ Alive(here, tasks[i], f)
      BY Zenon DEF Counted
    <3> HIDE DEF M
    <3> QED
      BY <1>3, <3>1
  <2>4. i \notin Counted(here, M, f, ts) => u[f] = ui[f]
    BY <1>6, <2>3
  <2>5. i \in Counted(here, M, f, ts) => ends \/ ts[i].at = Len(here.handlers[ts[i].h].steps) \/ u[f] = ui[f]
    BY <1>2, <1>6
  <2>6. HeldIn(here, f, a)
    BY <1>1, <1>6, <2>2, <2>4, <2>5, GoOnHeld
  <2> HIDE DEF M, a
  <2>7. Once(here, M, f, a.tasks)
    BY <1>1, <2>1, <2>2, GoOnCounted DEF a
  <2>8. Fewer(here, M, f, a.tasks, r.tasks)
    BY <1>4, <2>1, RenderedCounted
  <2>9. HeldIn(here, f, r)
    BY <1>4, <1>6, <2>6, RenderedHeld
  <2> QED
    BY <2>7, <2>8, <2>9 DEF Fewer, M
<1>7. Fine(here, DOMAIN w, r)
  <2> HIDE DEF a
  <2> QED
    BY <1>4, RenderedMarks
<1> HIDE DEF r, a
<1>8. Sending(here, w, r)
  BY <1>5, <1>6, <1>7 DEF Sending
<1> QED
  BY <1>8 DEF r, a

LEMMA AnsweredSends ==
  ASSUME NEW here, KeepsRules(here), NEW w \in here.states, PageInv(here, w, ui, tasks),
         SendInv(here, ui, tasks), NEW i \in DOMAIN tasks, Answered(here, i)
  PROVE  \E acc : Sending(here, w, acc) /\ Continue(here, acc)
<1> DEFINE t == tasks[i]
<1> DEFINE d == here.handlers[t.h]
<1> DEFINE s == d.steps[t.at]
<1> DEFINE u0 == [ui EXCEPT !.toast = None]
<1> DEFINE Old(e) == IF "unchanged" \in DOMAIN e \/ ~patient THEN {} ELSE WritesOf(here, t)
<1> DEFINE u1(e) == Copied(Aged(here, u0, t.h, Old(e)), s.copies)
<1> DEFINE u2(e, ans) == Set(u1(e), Kept(here, t, e), t.arg, ans, u0)
<1>0. PICK e \in s.then : \E ans :
        Continue(here, Rendered(here, ui,
          GoOn(here, i, u2(e, ans), Raced(here, Old(e)), e, "return" \in DOMAIN e)))
  BY Zenon DEF Answered, StepOf, DescriptionOf
<1>1. PICK ans :
        Continue(here, Rendered(here, ui,
          GoOn(here, i, u2(e, ans), Raced(here, Old(e)), e, "return" \in DOMAIN e)))
  BY <1>0, Zenon
<1> DEFINE S == {"toast"} \cup DOMAIN here.data \cup DOMAIN s.copies
<1>2. TaskFine(here, t) /\ t.h \in DOMAIN here.handlers /\ t.at \in DOMAIN d.steps
      /\ DOMAIN ui = DOMAIN w /\ Fine(here, DOMAIN w, [ui |-> ui, tasks |-> tasks])
  BY DEF PageInv, Fine, TaskFine
<1>3. Alters(ui, u1(e), S)
  <2>1. Alters(ui, u0, {"toast"})
    BY ToastAlters
  <2>2. Alters(u0, Aged(here, u0, t.h, Old(e)), DOMAIN here.data)
    BY AgedAlters
  <2>3. Alters(Aged(here, u0, t.h, Old(e)), u1(e), DOMAIN s.copies)
    BY CopiedAlters
  <2> DEFINE aged == Aged(here, u0, t.h, Old(e))
  <2> HIDE DEF u0, u1, Old, aged, s
  <2>4. Alters(ui, aged, {"toast"} \cup DOMAIN here.data)
    BY <2>1, <2>2, AltersChain DEF aged
  <2> QED
    BY <2>3, <2>4, AltersChain DEF aged
<1> DEFINE v1 == u1(e)
<1> DEFINE k == Kept(here, t, e)
<1> DEFINE u == u2(e, ans)
<1>4. Assigned(v1, k, u)
  BY SetAssigned, Zenon
<1>5. e \in Assignments(d) /\ e \in PageAssignments(here)
  BY <1>0, <1>2, HandlerRules, InAssignments, ZenonT(40)
<1> HIDE DEF v1, u
<1>6. DOMAIN u = DOMAIN w /\ \A g \in DOMAIN w \ S : g \notin DOMAIN k => u[g] = ui[g]
  BY <1>2, <1>3, <1>4, Zenon DEF Alters, Assigned, v1
<1> DEFINE ends == "return" \in DOMAIN e
<1>7. ASSUME NEW f, Lock(here, f)
      PROVE  \/ t.h \in Group(here, f) /\ Alive(here, t, f) /\ (ends \/ t.at = Len(d.steps))
             \/ u[f] = ui[f]
  <2>1. f \in DOMAIN w \ S
    <3>1. f \in DOMAIN w /\ f \notin {"toast", "goto"} \cup DOMAIN here.data
      BY <1>7, LockRules, Zenon
    <3>2. f \notin CopiesInto(d)
      BY <1>2, <1>7, LockRules, Zenon
    <3>3. \A g \in DOMAIN s.copies : g \in CopiesInto(d)
      BY <1>2, Zenon DEF CopiesInto
    <3> QED
      BY <3>1, <3>2, <3>3, Zenon
  <2>2. CASE t.h \in Group(here, f) /\ Alive(here, t, f) /\ ~ends /\ t.at # Len(d.steps)
    <3>1. GoesOn(d, t.at, e)
      BY <1>2, <2>2, TaskAt DEF GoesOn
    <3>2. Holds(here, t.h, f)
      BY <1>2, <1>7, <2>2, LockRules, Zenon
    <3>3. f \notin DOMAIN e
      BY <1>0, <1>2, <3>1, <3>2, Zenon DEF Holds
    <3>4. f \notin DOMAIN k
      BY <1>2, <1>5, <1>7, <3>3, KeptLeaves
    <3> QED
      BY <1>6, <2>1, <3>4
  <2>3. CASE t.h \notin Group(here, f) \/ ~Alive(here, t, f)
    <3>1. f \notin DOMAIN k
      BY <1>2, <1>5, <1>7, <2>3, KeptLeaves
    <3> QED
      BY <1>6, <2>1, <3>1
  <2> QED
    BY <2>2, <2>3
<1> DEFINE ts == Raced(here, Old(e))
<1>8. Alike(here, tasks, ts)
  BY <1>2, RacedAlike, Zenon
<1> DEFINE acc == Rendered(here, ui, GoOn(here, i, u, ts, e, ends))
<1>9. Continue(here, acc)
  BY <1>1 DEF u
<1> HIDE DEF ts, S, d, t
<1>10. Sending(here, w, acc)
  <2>1. ends \in BOOLEAN
    OBVIOUS
  <2> HIDE DEF ends
  <2> QED
    BY <1>5, <1>6, <1>7, <1>8, <2>1, TaskSends DEF d, t
<1> HIDE DEF acc
<1> QED
  BY <1>9, <1>10

LEMMA FailedSends ==
  ASSUME NEW here, KeepsRules(here), NEW w \in here.states, PageInv(here, w, ui, tasks),
         SendInv(here, ui, tasks), NEW i \in DOMAIN tasks, Failed(here, i)
  PROVE  \E acc : Sending(here, w, acc) /\ Continue(here, acc)
<1> DEFINE t == tasks[i]
<1> DEFINE d == here.handlers[t.h]
<1> DEFINE s == d.steps[t.at]
<1> DEFINE e == s.fail
<1> DEFINE u0 == [ui EXCEPT !.toast = None]
<1> DEFINE k1 == Kept(here, t, e)
<1> DEFINE k2 == Kept(here, t, d.fail)
<1> DEFINE u1 == Assign(u0, k1, t.arg)
<1> DEFINE u2 == IF s.stop THEN Assign(u1, k2, t.arg) ELSE u1
<1> DEFINE ends == s.stop \/ "return" \in DOMAIN e
<1> DEFINE u == Warned(here, u2, ReadsOf(here, t))
<1> DEFINE acc == Rendered(here, ui, GoOn(here, i, u, tasks, e, ends))
<1>1. Continue(here, acc)
  BY Zenon DEF Failed, StepOf, DescriptionOf
<1>2. TaskFine(here, t) /\ t.h \in DOMAIN here.handlers /\ t.at \in DOMAIN d.steps
      /\ DOMAIN ui = DOMAIN w /\ Fine(here, DOMAIN w, [ui |-> ui, tasks |-> tasks])
  BY Zenon DEF PageInv, Fine, TaskFine
<1>3. Alters(ui, u0, {"toast"}) /\ Alters(u2, u, DOMAIN here.data)
  BY ToastAlters, WarnedAlters
<1>4. e \in Assignments(d) /\ e \in PageAssignments(here) /\ d.fail \in Assignments(d)
  BY <1>2, HandlerRules, InAssignments
<1> DEFINE v2 == Assign(u1, k2, t.arg)
<1>5. Assigned(u0, k1, u1) /\ Assigned(u1, k2, v2)
  BY AssignAssigned
<1>6. u2 = IF s.stop THEN v2 ELSE u1
  BY Zenon
<1> HIDE DEF u0, u1, u2, v2, u, k1, k2
<1>7. DOMAIN u2 = DOMAIN w /\ DOMAIN u = DOMAIN w
  <2>1. DOMAIN u1 = DOMAIN w /\ DOMAIN v2 = DOMAIN w
    BY <1>2, <1>3, <1>5 DEF Assigned, Alters
  <2> QED
    BY <1>3, <1>6, <2>1 DEF Alters
<1>8. ASSUME NEW f \in DOMAIN w \ ({"toast"} \cup DOMAIN here.data), f \notin DOMAIN k1,
             s.stop => f \notin DOMAIN k2
      PROVE  u[f] = ui[f]
  <2>1. u0[f] = ui[f] /\ f \in DOMAIN u0
    BY <1>2, <1>3 DEF Alters
  <2>2. u1[f] = ui[f] /\ f \in DOMAIN u1
    BY <1>5, <1>8, <2>1 DEF Assigned
  <2>3. s.stop => v2[f] = ui[f]
    BY <1>5, <1>8, <2>2 DEF Assigned
  <2>4. u2[f] = ui[f]
    BY <1>6, <2>2, <2>3, Zenon
  <2> QED
    BY <1>3, <1>7, <2>4 DEF Alters
<1>9. ASSUME NEW f, Lock(here, f)
      PROVE  \/ t.h \in Group(here, f) /\ Alive(here, t, f) /\ (ends \/ t.at = Len(d.steps))
             \/ u[f] = ui[f]
  <2>1. f \in DOMAIN w \ ({"toast"} \cup DOMAIN here.data)
    BY <1>9, LockRules, Zenon
  <2>2. CASE t.h \in Group(here, f) /\ Alive(here, t, f) /\ ~ends /\ t.at # Len(d.steps)
    <3>1. GoesOn(d, t.at, e) /\ ~s.stop
      BY <1>2, <2>2, TaskAt DEF GoesOn
    <3>2. Holds(here, t.h, f)
      BY <1>2, <1>9, <2>2, LockRules, Zenon
    <3>3. f \notin DOMAIN e
      BY <1>2, <3>1, <3>2, Zenon DEF Holds
    <3>4. f \notin DOMAIN k1
      BY <1>2, <1>4, <1>9, <3>3, KeptLeaves DEF k1
    <3> QED
      BY <1>8, <2>1, <3>1, <3>4, ZenonT(40)
  <2>3. CASE t.h \notin Group(here, f) \/ ~Alive(here, t, f)
    <3>1. f \notin DOMAIN k1 /\ f \notin DOMAIN k2
      BY <1>2, <1>4, <1>9, <2>3, KeptLeaves DEF k1, k2
    <3> QED
      BY <1>8, <2>1, <3>1
  <2> QED
    BY <2>2, <2>3
<1>10. Alike(here, tasks, tasks)
  BY <1>2 DEF Alike, Fine
<1>11. ends \in BOOLEAN
  OBVIOUS
<1> HIDE DEF ends, d, t, e
<1>12. Sending(here, w, acc)
  BY <1>4, <1>7, <1>9, <1>10, <1>11, TaskSends DEF d, t
<1> HIDE DEF acc
<1> QED
  BY <1>1, <1>12

LEMMA AppendOnly ==
  ASSUME NEW here, NEW M, NEW f, NEW ts, Listed(ts), NEW t, Counted(here, M, f, ts) = {}
  PROVE  /\ Once(here, M, f, Append(ts, t))
         /\ \A j \in Counted(here, M, f, Append(ts, t)) : Append(ts, t)[j] = t
<1> DEFINE us == Append(ts, t)
<1>1. /\ DOMAIN us = DOMAIN ts \cup {Len(ts) + 1}
      /\ \A i \in DOMAIN ts : us[i] = ts[i]
      /\ us[Len(ts) + 1] = t
  <2>1. Len(ts) \in Nat
    BY DEF Listed
  <2> QED
    BY <2>1, AppendTask
<1> HIDE DEF us
<1>2. \A j \in DOMAIN ts : j \notin Counted(here, M, f, us)
  BY <1>1 DEF Counted
<1>3. Counted(here, M, f, us) \subseteq {Len(ts) + 1}
  BY <1>1, <1>2 DEF Counted
<1> QED
  BY <1>1, <1>3 DEF Once, us

(* A page that goes on counts the tasks that acc counted, without those of *)
(* the parts that went.                                                    *)
LEMMA StaySends ==
  ASSUME NEW here, KeepsRules(here), NEW w \in here.states, NEW acc, Sending(here, w, acc),
         Stay(here, acc)
  PROVE  SendInv(here, ui', tasks')
<1> DEFINE ts == acc.tasks
<1>1. Fine(here, DOMAIN w, acc)
  BY Zenon DEF Sending
<1>2. /\ Settles(here, ts, tasks')
      /\ \A i \in DOMAIN ts :
              LET t == acc.tasks[i]
                  p == here.handlers[t.h].part
              IN tasks'[i].gone <=>
                   t.gone \/ (~t.new /\ p # None /\ ui[p] # acc.ui[p])
  BY <1>1, StayTasks, Zenon
<1>3. DOMAIN tasks' = DOMAIN ts
  BY <1>2, Zenon DEF Settles
<1>4. ASSUME NEW M, NEW f  PROVE Counted(here, M, f, tasks') \subseteq Counted(here, M, f, ts)
  BY <1>2, <1>3 DEF Counted, Alive, Settles
<1>5. ASSUME NEW M, NEW f, Once(here, M, f, ts)  PROVE Once(here, M, f, tasks')
  BY <1>4, <1>5 DEF Once
<1>6. ASSUME NEW f, Lock(here, f)  PROVE LockedBy(here, f, ui', tasks')
  <2> SUFFICES ASSUME NEW j \in Counted(here, Group(here, f), f, tasks')
               PROVE  ui'[f] # Free(here, f) /\ \A p \in PartsOf(here, f) : ui'[p] # None
    BY DEF LockedBy
  <2> DEFINE t == ts[j]
  <2>1. /\ j \in Counted(here, Group(here, f), f, ts)
        /\ t.h \in Group(here, f)
    BY <1>4 DEF Counted
  <2>2. /\ acc.ui[f] # Free(here, f)
        /\ \A p \in PartsOf(here, f) : ui[p] # None /\ (t.new => acc.ui[p] = ui[p])
    BY <1>6, <2>1 DEF Sending, HeldIn
  <2>3. ASSUME NEW p \in PartsOf(here, f)  PROVE acc.ui[p] # None
    <3>1. here.handlers[t.h].part = p
      BY <1>6, <2>1, LockRules DEF HoldsInPart, Group
    <3>2. p # None /\ f \in DOMAIN here.parts[p]
      BY OtherFields DEF PartsOf
    <3>3. ~tasks'[j].gone
      <4>1. tasks'[j].h = t.h
        BY <1>2, <2>1 DEF Settles, Counted
      <4> QED
        BY <3>1, <3>2, <4>1, Zenon DEF Counted, Alive
    <3>4. t.new \/ ui[p] = acc.ui[p]
      BY <1>2, <2>1, <3>1, <3>2, <3>3 DEF Counted
    <3> QED
      BY <2>2, <3>4
  <2> HIDE DEF t
  <2>4. \A p \in DOMAIN here.parts : p \in DOMAIN acc.ui
    BY <1>1, FieldsOf DEF Fine
  <2>5. f \in DOMAIN acc.ui
    BY <1>1, <1>6, LockRules DEF Fine
  <2>6. ui' = Cleared(here, acc.ui)
    BY DEF Stay
  <2>7. ui'[f] = acc.ui[f]
    BY <2>3, <2>4, <2>5, <2>6, ClearedFields
  <2>8. ASSUME NEW p \in PartsOf(here, f)  PROVE ui'[p] = acc.ui[p]
    <3>1. PartsOf(here, p) = {} /\ p \in DOMAIN acc.ui
      BY <2>4, OtherFields DEF PartsOf
    <3> QED
      BY <2>4, <2>6, <3>1, ClearedFields
  <2> QED
    BY <2>2, <2>3, <2>7, <2>8
<1> HIDE DEF ts
<1> QED
  BY <1>5, <1>6 DEF Sending, SendInv, ts

(* A handler that holds f starts when f is free, and holds it from then.   *)
LEMMA HolderBegins ==
  ASSUME NEW here, KeepsRules(here), NEW f, Lock(here, f), NEW w \in here.states, NEW acc,
         Fine(here, DOMAIN w, acc), \A g \in DOMAIN w \ {"toast"} : acc.ui[g] = ui[g],
         LockedBy(here, f, ui, acc.tasks), Once(here, Group(here, f), f, acc.tasks),
         HeldIn(here, f, acc), NoneNew(here, f, acc),
         NEW h \in DOMAIN here.handlers \cap Group(here, f), h \in DOMAIN here.controls,
         NEW pattern \in here.controls[h], Fits(ui, pattern), NEW arg \in here.handlers[h].takes
  PROVE  LET a == Begin(here, acc, h, arg, acc.ui) IN
         /\ Once(here, Group(here, f), f, a.tasks) /\ HeldIn(here, f, a)
         /\ Unmet(here.handlers[h].needs, acc.ui) # {} \/ "runs" \notin DOMAIN here.handlers[h].start
              \/ PartsOf(here, f) = {}
<1> DEFINE M == Group(here, f)
<1> DEFINE d == here.handlers[h]
<1> DEFINE u == acc.ui
<1> DEFINE a == Begin(here, acc, h, arg, u)
<1> DEFINE kept == Remaining(here, acc.tasks, h)
<1>1. Holds(here, h, f) /\ \A p \in PartsOf(here, f) : HoldsInPart(here, h, p)
  BY LockRules
<1>2. f \in DOMAIN w \ {"toast"} /\ DOMAIN u = DOMAIN w /\ f \notin DOMAIN d.copies
  BY LockRules DEF Fine, CopiesInto
<1>3. /\ Fine(here, DOMAIN w, a)
      /\ Fine(here, DOMAIN w, [ui |-> acc.ui, tasks |-> kept])
      /\ Fewer(here, M, f, acc.tasks, kept)
  <2>1. Listed(d.needs) /\ Listed(d.steps) /\ Listed(acc.tasks)
    BY HandlerRules DEF Fine
  <2>2. SomeOf(acc.tasks, kept)
    BY <2>1, RemainingTasks
  <2> QED
    BY <2>1, <2>2, BeginTasks, SomeOfFewer
<1>4. \/ ReturnsEarly(here, d, acc, h, arg, u, a)
      \/ EndsAtOnce(here, d, acc, h, arg, u, a)
      \/ Waits(here, d, acc, h, arg, u, a)
  BY HandlerRules, BeginCases
<1>5. CASE ReturnsEarly(here, d, acc, h, arg, u, a)
  <2>1. PICK i \in Unmet(d.needs, u) :
          a = [ui |-> Assign(acc.ui, d.needs[i].otherwise, arg), tasks |-> kept]
    BY <1>5 DEF ReturnsEarly
  <2>2. f \notin DOMAIN d.needs[i].otherwise
    BY <1>1 DEF Holds, Unmet
  <2>3. a.ui[f] = acc.ui[f] /\ a.tasks = kept
    <3>1. a.ui = Assign(acc.ui, d.needs[i].otherwise, arg) /\ a.tasks = kept
      BY <2>1
    <3> HIDE DEF a, d, u
    <3> QED
      BY <1>2, <2>2, <3>1, AssignLeaves DEF u
  <2> HIDE DEF a, kept, M
  <2>4. HeldIn(here, f, a)
    BY <1>3, <2>3, FewerHeld DEF M
  <2>5. Once(here, M, f, a.tasks)
    BY <1>3, <2>3 DEF Fewer, M
  <2> QED
    BY <2>1, <2>4, <2>5 DEF a, M
<1>6. ~EndsAtOnce(here, d, acc, h, arg, u, a)
  BY <1>1 DEF EndsAtOnce, Holds
<1>7. CASE Waits(here, d, acc, h, arg, u, a)
  <2>1. Unmet(d.needs, u) = {}
    BY <1>7 DEF Waits
  <2>2. PICK q :
          a = [ui    |-> Assign(Assign(Copied(u, d.copies), d.start, arg), d.steps[1].begin, arg),
               tasks |-> Append(kept, NewTask(h, arg, q))]
    BY <1>7 DEF Waits
  <2>3. ui[f] = Free(here, f)
    <3>1. PICK condition \in {here.controls[h]} \cup {d.needs[i].that : i \in DOMAIN d.needs} :
            \A x \in condition : f \in DOMAIN x /\ x[f] = {Free(here, f)}
      BY <1>1 DEF Holds
    <3>2. CASE condition = here.controls[h]
      BY <3>1, <3>2 DEF Fits
    <3>3. ASSUME NEW i \in DOMAIN d.needs, condition = d.needs[i].that  PROVE ui[f] = Free(here, f)
      <4>1. PICK x \in d.needs[i].that : Fits(u, x)
        BY <2>1 DEF Unmet
      <4>2. u[f] = Free(here, f)
        BY <3>1, <3>3, <4>1 DEF Fits
      <4> QED
        BY <1>2, <4>2
    <3> QED
      BY <3>1, <3>2, <3>3
  <2>4. Counted(here, M, f, kept) = {}
    <3>1. Counted(here, M, f, acc.tasks) = {}
      BY <2>3 DEF LockedBy
    <3> QED
      BY <1>3, <3>1 DEF Fewer
  <2>5. a.ui[f] # Free(here, f)
    <3> DEFINE u1 == Copied(u, d.copies)
    <3> DEFINE u2 == Assign(u1, d.start, arg)
    <3>1. f \in DOMAIN u1
      BY <1>2, CopiedKeeps
    <3>2. f \in DOMAIN d.start
      BY DEF Group
    <3> HIDE DEF u1
    <3>3. /\ DOMAIN u2 = DOMAIN u1
          /\ d.start[f] \notin {Arg, Answer, Patched} => u2[f] = d.start[f]
          /\ d.start[f] = Arg => u2[f] = arg
      BY <3>1, <3>2, AssignAssigned DEF Assigned
    <3>4. u2[f] # Free(here, f)
      <4>1. CASE f \in here.busy
        <5>1. d.start[f] = TRUE
          BY <1>1, <4>1 DEF Holds, HoldsFrom
        <5>2. u2[f] = TRUE
          BY <3>3, <5>1, MarkersAreNoValues
        <5> QED
          BY <4>1, <5>2 DEF Free
      <4>2. CASE f \notin here.busy
        <5>1. d.start[f] = Arg /\ None \notin d.takes
          BY <1>1, <4>2 DEF Holds, HoldsFrom
        <5> QED
          BY <3>3, <4>2, <5>1 DEF Free
      <4> QED
        BY <4>1, <4>2
    <3>5. f \notin DOMAIN d.steps[1].begin
      <4>1. 1 \in DOMAIN d.steps
        BY <1>1, HandlerRules, FirstStep DEF Holds
      <4> QED
        BY <1>1, <4>1 DEF Holds
    <3>6. a.ui = Assign(u2, d.steps[1].begin, arg)
      BY <2>2 DEF u1
    <3> HIDE DEF u2
    <3>7. a.ui[f] = u2[f]
      BY <3>1, <3>3, <3>5, <3>6, AssignLeaves
    <3> QED
      BY <3>4, <3>7
  <2>6. ASSUME NEW p \in PartsOf(here, f)  PROVE ui[p] # None /\ a.ui[p] = ui[p] /\ "runs" \notin DOMAIN d.start
    <3>1. HoldsInPart(here, h, p)
      BY <1>1
    <3>2. ui[p] # None
      BY <3>1 DEF HoldsInPart, Fits
    <3>3. p \in DOMAIN w \ {"toast"}
      BY FieldsOf, OtherFields DEF PartsOf
    <3>4. a.ui[p] = u[p]
      <4>1. Listed(d.needs) /\ Leaves(d, p)
        BY <3>1, HandlerRules DEF HoldsInPart
      <4> QED
        BY <1>2, <3>3, <4>1, BeginLeaves DEF Leaves
    <3> QED
      BY <3>1, <3>2, <3>3, <3>4 DEF HoldsInPart
  <2> DEFINE s == NewTask(h, arg, q)
  <2>7. a.tasks = Append(kept, s)
    BY <2>2
  <2> HIDE DEF a, kept, M, d, u, s
  <2>8. Listed(kept)
    BY <1>3 DEF Fine
  <2>9. Once(here, M, f, a.tasks)
    BY <2>4, <2>7, <2>8, AppendOnly
  <2>10. HeldIn(here, f, a)
    BY <2>5, <2>6 DEF HeldIn
  <2> QED
    BY <2>6, <2>9, <2>10 DEF a, d, u, M
<1> HIDE DEF a
<1> QED
  BY <1>4, <1>5, <1>6, <1>7 DEF a

(* What the user starts: a handler that is held back, or one that leaves   *)
(* what holds others back.                                                 *)
LEMMA LaunchHeld ==
  ASSUME NEW here, KeepsRules(here), NEW f, Lock(here, f), NEW w \in here.states, NEW acc,
         Fine(here, DOMAIN w, acc), \A g \in DOMAIN w \ {"toast"} : acc.ui[g] = ui[g],
         \A j \in DOMAIN acc.tasks : ~acc.tasks[j].new,
         LockedBy(here, f, ui, acc.tasks), Once(here, Group(here, f), f, acc.tasks),
         NEW h \in DOMAIN here.handlers, h \in DOMAIN here.controls,
         NEW pattern \in here.controls[h], Fits(ui, pattern), NEW arg \in here.handlers[h].takes
  PROVE  LET a == Launch(here, acc, h, arg) IN
         Once(here, Group(here, f), f, a.tasks) /\ HeldIn(here, f, a)
<1> DEFINE M == Group(here, f)
<1> DEFINE d == here.handlers[h]
<1> DEFINE a == Launch(here, acc, h, arg)
<1> DEFINE begun == Begin(here, acc, h, arg, acc.ui)
<1>1. NoneNew(here, f, acc)
  BY DEF NoneNew, Counted
<1>2. HeldIn(here, f, acc)
  <2>1. acc.ui[f] = ui[f]
    BY LockRules DEF Fine
  <2> QED
    BY <1>1, <2>1 DEF LockedBy, HeldIn, NoneNew
<1>3. Fine(here, DOMAIN w, begun) /\ d.start \in PageAssignments(here)
  BY HandlerRules, InAssignments, BeginTasks
<1>4. Once(here, M, f, begun.tasks) /\ HeldIn(here, f, begun)
      /\ (NoneNew(here, f, begun) \/ Unmet(d.needs, acc.ui) # {} \/ "runs" \notin DOMAIN d.start
            \/ PartsOf(here, f) = {})
  <2>1. CASE h \in M
    BY <1>1, <1>2, <2>1, HolderBegins
  <2>2. CASE h \notin M
    <3>1. Fewer(here, M, f, acc.tasks, begun.tasks)
      BY <2>2, BeginCounted
    <3>2. NoneNew(here, f, begun) /\ HeldIn(here, f, begun)
      BY <1>1, <1>2, <2>2, BeginHeld
    <3> HIDE DEF begun
    <3> QED
      BY <3>1, <3>2 DEF Fewer
  <2> QED
    BY <2>1, <2>2
<1>5. CASE Unmet(d.needs, acc.ui) # {}
  <2>1. a = begun
    BY <1>5, Zenon DEF Launch
  <2> HIDE DEF a, begun
  <2> QED
    BY <1>4, <2>1 DEF a
<1>6. CASE Unmet(d.needs, acc.ui) = {}
  <2>1. a = Run(here, d.start, begun, arg, acc.ui)
    BY <1>6, Zenon DEF Launch
  <2> DEFINE r == Run(here, d.start, begun, arg, acc.ui)
  <2> HIDE DEF begun, a
  <2>2. /\ Fewer(here, M, f, begun.tasks, r.tasks)
        /\ HeldIn(here, f, begun) /\ (NoneNew(here, f, begun) \/ "runs" \notin DOMAIN d.start \/ PartsOf(here, f) = {})
              => HeldIn(here, f, r)
    BY <1>3, RunHeld
  <2> HIDE DEF r
  <2>3. Once(here, M, f, r.tasks) /\ HeldIn(here, f, r)
    BY <1>4, <1>6, <2>2 DEF Fewer
  <2> QED
    BY <2>1, <2>3 DEF a, r
<1> QED
  BY <1>5, <1>6

LEMMA LaunchCounted ==
  ASSUME NEW here, KeepsRules(here), NEW D, NEW acc, Fine(here, D, acc),
         NEW h \in DOMAIN here.handlers, NEW arg, NEW M, NEW f,
         \A g \in ByHandler(here) : g \notin M, h \notin M
  PROVE  Fewer(here, M, f, acc.tasks, Launch(here, acc, h, arg).tasks)
<1> DEFINE d == here.handlers[h]
<1> DEFINE begun == Begin(here, acc, h, arg, acc.ui)
<1> DEFINE r == Run(here, d.start, begun, arg, acc.ui)
<1>1. Fine(here, D, begun) /\ Fewer(here, M, f, acc.tasks, begun.tasks)
  BY BeginCounted
<1>2. Launch(here, acc, h, arg) \in {begun, r}
  BY Zenon DEF Launch
<1>3. d.start \in PageAssignments(here)
  BY HandlerRules, InAssignments
<1> HIDE DEF begun
<1>4. Fewer(here, M, f, begun.tasks, r.tasks)
  BY <1>1, <1>3, RunCounted
<1> HIDE DEF r
<1>5. Fewer(here, M, f, acc.tasks, r.tasks)
  BY <1>1, <1>4, FewerChain
<1> QED
  BY <1>1, <1>2, <1>5

LEMMA UsedSends ==
  ASSUME NEW here, KeepsRules(here), NEW w \in here.states, PageInv(here, w, ui, tasks),
         SendInv(here, ui, tasks), Use(here)
  PROVE  \E acc : Sending(here, w, acc) /\ Continue(here, acc)
<1> DEFINE u == [ui EXCEPT !.toast = None]
<1> DEFINE acc0 == [ui |-> u, tasks |-> tasks]
<1>1. PICK h \in DOMAIN here.controls : \E arg \in here.handlers[h].takes :
        /\ \E pattern \in here.controls[h] : Fits(ui, pattern)
        /\ Continue(here, Rendered(here, u, Launch(here, acc0, h, arg)))
  BY Zenon DEF Use
<1>0. PICK arg \in here.handlers[h].takes :
        /\ \E pattern \in here.controls[h] : Fits(ui, pattern)
        /\ Continue(here, Rendered(here, u, Launch(here, acc0, h, arg)))
  BY <1>1
<1> DEFINE acc1 == Launch(here, acc0, h, arg)
<1> DEFINE acc == Rendered(here, u, acc1)
<1>2. h \in DOMAIN here.handlers
  BY <1>1 DEF KeepsRules, WellFormed
<1>3. DOMAIN u = DOMAIN w /\ \A g \in DOMAIN w \ {"toast"} : u[g] = ui[g]
  BY DEF PageInv, Fine
<1> HIDE DEF u
<1>4. /\ Fine(here, DOMAIN w, acc0) /\ \A j \in DOMAIN acc0.tasks : ~acc0.tasks[j].new
      /\ acc0.ui = u /\ acc0.tasks = tasks
  BY <1>3 DEF PageInv, Fine
<1> HIDE DEF acc0
<1>5. Fine(here, DOMAIN w, acc1)
  BY <1>2, <1>4, LaunchKeeps
<1>6. Fine(here, DOMAIN w, acc)
  <2> HIDE DEF acc1
  <2> QED
    BY <1>5, RenderedMarks
<1>7. ASSUME NEW g, RunsOnMount(here, g)  PROVE Once(here, {g}, "goto", acc.tasks)
  <2> DEFINE M == {g}
  <2>1. /\ \A x \in ByHandler(here) : x \notin M
        /\ \A n \in DOMAIN here.effects : here.effects[n].deps # {} => here.effects[n].run \notin M
        /\ h \notin M
    BY <1>7, MountRules
  <2>2. Once(here, M, "goto", acc0.tasks)
    BY <1>4, <1>7 DEF SendInv
  <2> HIDE DEF M
  <2>3. Fewer(here, M, "goto", acc0.tasks, acc1.tasks)
    BY <1>2, <1>4, <2>1, LaunchCounted
  <2> HIDE DEF acc1
  <2>4. Fewer(here, M, "goto", acc1.tasks, acc.tasks)
    BY <1>5, <2>1, RenderedCounted
  <2> QED
    BY <2>2, <2>3, <2>4 DEF Fewer, M
<1>8. ASSUME NEW f, Lock(here, f)  PROVE Once(here, Group(here, f), f, acc.tasks) /\ HeldIn(here, f, acc)
  <2> DEFINE M == Group(here, f)
  <2>1. \A n \in DOMAIN here.effects : here.effects[n].deps # {} => here.effects[n].run \notin M
    BY <1>8, LockRules
  <2>2. Once(here, M, f, acc1.tasks) /\ HeldIn(here, f, acc1)
    <3>1. LockedBy(here, f, ui, acc0.tasks) /\ Once(here, Group(here, f), f, acc0.tasks)
      BY <1>4, <1>8 DEF SendInv
    <3>2. PICK pattern \in here.controls[h] : Fits(ui, pattern)
      BY <1>0
    <3> QED
      BY <1>0, <1>1, <1>2, <1>3, <1>4, <1>8, <3>1, <3>2, LaunchHeld
  <2> HIDE DEF acc1, M
  <2>3. Fewer(here, M, f, acc1.tasks, acc.tasks)
    BY <1>5, <2>1, RenderedCounted
  <2>4. HeldIn(here, f, acc)
    BY <1>5, <1>8, <2>2, RenderedHeld
  <2> QED
    BY <2>2, <2>3, <2>4 DEF Fewer, M
<1>9. Continue(here, acc)
  BY <1>0
<1> HIDE DEF acc
<1>10. Sending(here, w, acc)
  BY <1>6, <1>7, <1>8 DEF Sending
<1> QED
  BY <1>9, <1>10

(* An effect that runs h on mount starts it once: the effect k, of which n *)
(* have run.                                                               *)
StartedOnce(here, D, M, k, n, acc) ==
  /\ Fine(here, D, acc) /\ Once(here, M, "goto", acc.tasks)
  /\ n < k => Counted(here, M, "goto", acc.tasks) = {}

LEMMA MountedOnce ==
  ASSUME NEW here, KeepsRules(here), NEW w \in here.states, NEW h, RunsOnMount(here, h)
  PROVE  LET acc0 == [ui |-> w, tasks |-> <<>>] IN
         Once(here, {h}, "goto", RunEffects(here, DOMAIN here.effects, w, acc0).tasks)
<1> DEFINE acc0 == [ui |-> w, tasks |-> <<>>]
<1> DEFINE all == DOMAIN here.effects
<1> DEFINE M == {h}
<1> DEFINE N == Len(here.effects)
<1> DEFINE D == DOMAIN w
<1>0. Listed(here.effects) /\ \A n \in all : here.effects[n].run \in DOMAIN here.handlers
  BY EffectRules
<1>1. N \in Nat /\ all = 1..N
  BY <1>0 DEF Listed
<1>2. Fine(here, D, acc0) /\ Counted(here, M, "goto", acc0.tasks) = {}
  BY EmptyList DEF Fine, Counted
<1>3. PICK k \in all : \A m \in all : here.effects[m].run = h => m = k
  BY DEF RunsOnMount
<1> HIDE DEF acc0
<1>4. PICK g : IsAfter(here, all, w, acc0, N, g) /\ RunEffects(here, all, w, acc0) = g[N]
  BY <1>1, EffectsRun
<1>5. \A n \in 0..N : g[n] = AfterEffect(here, all, w, acc0, n, g[n - 1])
  BY <1>4 DEF IsAfter
<1> DEFINE Good(n) == StartedOnce(here, D, M, k, n, g[n])
<1> DEFINE T == {n \in Nat : n <= N => Good(n)}
<1>6. 0 \in T
  <2>1. g[0] = acc0
    BY <1>1, <1>5 DEF AfterEffect
  <2> QED
    BY <1>2, <2>1 DEF Once, StartedOnce
<1>7. ASSUME NEW n \in T  PROVE n + 1 \in T
  <2> SUFFICES ASSUME n + 1 <= N  PROVE Good(n + 1)
    <3> HIDE DEF Good, N
    <3> QED
      OBVIOUS
  <2>1. n + 1 \in 0..N /\ n + 1 # 0 /\ (n + 1) - 1 = n /\ n + 1 \in all /\ n \in Nat /\ k \in Nat
    BY <1>1
  <2> DEFINE x == here.effects[n + 1].run
  <2> DEFINE b == Begin(here, g[n], x, None, w)
  <2>2. g[n + 1] = b
    BY <1>5, <2>1 DEF AfterEffect
  <2>3. Good(n)
    <3> HIDE DEF Good
    <3> QED
      BY <1>1, <2>1
  <2>4. Fine(here, D, g[n]) /\ x \in DOMAIN here.handlers
    BY <1>0, <2>1, <2>3 DEF StartedOnce
  <2>5. CASE n + 1 = k
    <3>1. Counted(here, M, "goto", g[n].tasks) = {}
      <4>1. n < k
        BY <2>1, <2>5
      <4> QED
        BY <2>3, <4>1 DEF StartedOnce
    <3> DEFINE kept == Remaining(here, g[n].tasks, x)
    <3>2. Listed(here.handlers[x].needs) /\ Listed(here.handlers[x].steps) /\ Listed(g[n].tasks)
      BY <2>4, HandlerRules DEF Fine
    <3>3. Fine(here, D, b) /\ (b.tasks = kept \/ \E q : b.tasks = Append(kept, NewTask(x, None, q)))
      <4> DEFINE y == g[n]
      <4>1. Fine(here, D, y)
        BY <2>4
      <4> DEFINE d == here.handlers[x]
      <4> DEFINE z == Begin(here, y, x, None, w)
      <4> DEFINE left == Remaining(here, y.tasks, x)
      <4> HIDE DEF y, x, D
      <4>2. /\ Fine(here, D, z)
            /\ Fine(here, D, [ui |-> y.ui, tasks |-> left])
            /\ \/ z.tasks = left
               \/ \E q : z.tasks = Append(left, NewTask(x, None, q))
            /\ z.tasks # left => Waits(here, d, y, x, None, w, z)
        BY <2>4, <3>2, <4>1, BeginTasks, Zenon DEF x
      <4> QED
        BY <4>2 DEF y
    <3>4. Listed(kept) /\ SomeOf(g[n].tasks, kept)
      BY <3>2, RemainingTasks
    <3> HIDE DEF kept, b, x, M
    <3>5. Counted(here, M, "goto", kept) = {}
      BY <3>1, <3>4, SomeOfFewer DEF Fewer
    <3>6. Once(here, M, "goto", b.tasks)
      <4>1. Once(here, M, "goto", kept)
        BY <3>5 DEF Once
      <4>2. \A t : Once(here, M, "goto", Append(kept, t))
        BY <3>4, <3>5, AppendOnly
      <4> QED
        BY <3>3, <4>1, <4>2
    <3>7. ~(n + 1 < k)
      BY <2>1, <2>5
    <3> QED
      BY <2>2, <3>3, <3>6, <3>7 DEF StartedOnce
  <2>6. CASE n + 1 # k
    <3>1. x \notin M
      BY <1>3, <2>1, <2>6
    <3> HIDE DEF M, x
    <3>2. Fine(here, D, b) /\ Fewer(here, M, "goto", g[n].tasks, b.tasks)
      BY <2>4, <3>1, BeginCounted
    <3>3. n + 1 < k => n < k
      BY <2>1
    <3> HIDE DEF b
    <3> QED
      BY <2>2, <2>3, <3>2, <3>3 DEF Fewer, StartedOnce
  <2> QED
    BY <2>5, <2>6
<1>8. N \in T
  <2>1. T \in SUBSET Nat
    OBVIOUS
  <2> HIDE DEF T, N
  <2> QED
    BY <1>1, <1>6, <1>7, <2>1, AllNumbers
<1>9. Good(N)
  <2> HIDE DEF Good
  <2> QED
    BY <1>1, <1>8
<1> QED
  BY <1>4, <1>9 DEF acc0, StartedOnce

LEMMA OpenedSends ==
  ASSUME NEW here, KeepsRules(here), NEW w \in here.states,
         ui' = Cleared(here, Mounted(here, w).ui),
         tasks' = AsOpened(Mounted(here, w).tasks)
  PROVE  SendInv(here, ui', tasks')
<1> DEFINE D == DOMAIN w
<1> DEFINE acc0 == [ui |-> w, tasks |-> <<>>]
<1> DEFINE all == DOMAIN here.effects
<1> DEFINE acc1 == RunEffects(here, all, w, acc0)
<1> DEFINE acc == Rendered(here, w, acc1)
<1>1. tasks' = AsOpened(acc.tasks)
  BY Zenon DEF Mounted
<1>2. Fine(here, D, acc0) /\ \A M, f : Counted(here, M, f, acc0.tasks) = {}
  BY EmptyList DEF Fine, Counted
<1>3. Listed(here.effects) /\ \A n \in all : here.effects[n].run \in DOMAIN here.handlers
  BY EffectRules
<1>4. ASSUME NEW h, RunsOnMount(here, h)  PROVE Once(here, {h}, "goto", acc1.tasks)
  BY <1>4, MountedOnce
<1> HIDE DEF acc0
<1>5. Fine(here, D, acc1)
  BY <1>2, EffectsMarks
<1>6. ASSUME NEW f, Lock(here, f)  PROVE Counted(here, Group(here, f), f, acc1.tasks) = {}
  <2> DEFINE M == Group(here, f)
  <2>0. \A n \in all : here.effects[n].run \notin M
    BY <1>6, LockRules
  <2> HIDE DEF M, acc1
  <2>1. PICK R : /\ acc0 \in R
                 /\ \A G \in SUBSET R :
                     /\ acc0 \in G
                     /\ \A x \in G, n \in all \cap DOMAIN here.effects :
                          Begin(here, x, here.effects[n].run, None, w) \in R =>
                            Begin(here, x, here.effects[n].run, None, w) \in G
                     => acc1 \in G
    BY <1>3, EffectsKeep DEF acc1
  <2> DEFINE G == {x \in R : Fine(here, D, x) /\ Counted(here, M, f, x.tasks) = {}}
  <2>2. ASSUME NEW x \in G, NEW n \in all, Begin(here, x, here.effects[n].run, None, w) \in R
        PROVE  Begin(here, x, here.effects[n].run, None, w) \in G
    <3> DEFINE b == Begin(here, x, here.effects[n].run, None, w)
    <3>1. Fine(here, D, b) /\ Fewer(here, M, f, x.tasks, b.tasks)
      BY <1>3, <2>0, BeginCounted
    <3> HIDE DEF b
    <3>2. Counted(here, M, f, b.tasks) = {}
      BY <3>1 DEF Fewer
    <3>3. b \in R
      BY <2>2 DEF b
    <3> QED
      BY <3>1, <3>2, <3>3 DEF b
  <2>3. acc0 \in G /\ G \in SUBSET R
    BY <1>2, <2>1
  <2> HIDE DEF G
  <2>4. acc1 \in G
    BY <2>1, <2>2, <2>3
  <2> QED
    BY <2>4 DEF G, M
<1> HIDE DEF acc1
<1>7. Fine(here, D, acc)
  BY <1>5, RenderedMarks
<1>8. ASSUME NEW h, RunsOnMount(here, h)  PROVE Once(here, {h}, "goto", acc.tasks)
  <2> DEFINE M == {h}
  <2>1. \A n \in DOMAIN here.effects : here.effects[n].deps # {} => here.effects[n].run \notin M
    BY <1>8, MountRules
  <2>2. Once(here, M, "goto", acc1.tasks)
    BY <1>4, <1>8
  <2> HIDE DEF M
  <2>3. Fewer(here, M, "goto", acc1.tasks, acc.tasks)
    BY <1>5, <2>1, RenderedCounted
  <2> QED
    BY <2>2, <2>3 DEF Fewer, M
<1>9. ASSUME NEW f, Lock(here, f)  PROVE Counted(here, Group(here, f), f, acc.tasks) = {}
  <2> DEFINE M == Group(here, f)
  <2>1. \A n \in DOMAIN here.effects : here.effects[n].deps # {} => here.effects[n].run \notin M
    BY <1>9, LockRules
  <2>2. Counted(here, M, f, acc1.tasks) = {}
    BY <1>6, <1>9
  <2> HIDE DEF M
  <2>3. Fewer(here, M, f, acc1.tasks, acc.tasks)
    BY <1>5, <2>1, RenderedCounted
  <2> QED
    BY <2>2, <2>3 DEF Fewer, M
<1> HIDE DEF acc
<1>10. /\ Settles(here, acc.tasks, tasks')
       /\ \A i \in DOMAIN acc.tasks : tasks'[i].gone = acc.tasks[i].gone
  BY <1>1, <1>7, OpenedTasks
<1>11. \A M, f : Counted(here, M, f, tasks') = Counted(here, M, f, acc.tasks)
  <2>1. DOMAIN tasks' = DOMAIN acc.tasks
    BY <1>10 DEF Settles
  <2> QED
    BY <1>10, <2>1, Zenon DEF Counted, Alive, Settles
<1> QED
  BY <1>8, <1>9, <1>11 DEF SendInv, Once, LockedBy

---------------------------------------------------------------------------
(* The theorems.                                                           *)

OnPage == screen \in Disciplined =>
  \E w \in Screen[screen].states : PageInv(Screen[screen], w, ui, tasks)

(* A page of the table that keeps the rules is not nowhere.                *)
LEMMA SomewhereDisciplined == Elsewhere \notin Disciplined
BY NothingOfElsewhere DEF Disciplined, Screen

(* Only from nowhere a page is opened.                                     *)
LEMMA SameOrElsewhere ==
  ASSUME NEW p, Use(p) \/ (\E i \in DOMAIN tasks : Answered(p, i) \/ Failed(p, i))
  PROVE  screen' \in {screen, Elsewhere}
<1>1. \A toast : Away(toast) => screen' = Elsewhere
  BY DEF Away
<1>2. \A acc : Continue(p, acc) => screen' \in {screen, Elsewhere}
  BY <1>1, Zenon DEF Continue, Stay
<1>3. Use(p) => screen' \in {screen, Elsewhere}
  BY <1>2, Zenon DEF Use
<1>4. \A i : Answered(p, i) => screen' \in {screen, Elsewhere}
  BY <1>2, ZenonT(40) DEF Answered
<1>5. \A i : Failed(p, i) => screen' \in {screen, Elsewhere}
  BY <1>2, Zenon DEF Failed
<1> QED
  BY <1>3, <1>4, <1>5

LEMMA PageStep ==
  ASSUME OnPage, [ScreensNext]_screenVars
  PROVE  OnPage'
<1> SUFFICES ASSUME screen' \in Disciplined
             PROVE  \E w \in Screen[screen'].states : PageInv(Screen[screen'], w, ui', tasks')
  BY DEF OnPage, Disciplined
<1>0. screen' # Elsewhere
  BY SomewhereDisciplined
<1> DEFINE here == Screen[screen']
<1>1. KeepsRules(here)
  BY DEF Disciplined
<1>2. ASSUME NEW name \in DOMAIN Screen, Open(name)  PROVE \E w \in here.states : PageInv(here, w, ui', tasks')
  <2>1. screen' = name
    BY <1>2 DEF Open
  <2>2. \E w \in Screen[name].states :
          /\ ui' = Cleared(Screen[name], Mounted(Screen[name], w).ui)
          /\ tasks' = AsOpened(Mounted(Screen[name], w).tasks)
    BY <1>2, ZenonT(40) DEF Open, AsOpened
  <2>3. PICK w \in here.states :
          /\ ui' = Cleared(here, Mounted(here, w).ui)
          /\ tasks' = AsOpened(Mounted(here, w).tasks)
    BY <2>1, <2>2
  <2> HIDE DEF here
  <2>4. PageInv(here, w, ui', tasks')
    BY <1>1, <2>3, OpenedStep
  <2> QED
    BY <2>4
<1>3. CASE Leave
  BY <1>0, <1>3 DEF Leave, Away
<1>4. ASSUME NEW w \in Screen[screen].states, PageInv(Screen[screen], w, ui, tasks),
             NEW acc, Stepped(Screen[screen], w, acc), Continue(Screen[screen], acc)
      PROVE  \E x \in here.states : PageInv(here, x, ui', tasks')
  <2>1. acc.ui["goto"] = None /\ Stay(Screen[screen], acc)
    <3>1. ~Away(acc.ui.toast)
      BY <1>0 DEF Away
    <3> QED
      BY <1>4, <3>1, Zenon DEF Continue
  <2>2. screen' = screen
    BY <2>1 DEF Stay
  <2>3. PageInv(here, w, ui', tasks')
    BY <1>1, <1>4, <2>1, <2>2, StayKeeps
  <2> QED
    BY <1>4, <2>2, <2>3
<1>5. CASE /\ screen # Elsewhere
           /\ \E p \in {Screen[screen]} :
                \/ Use(p)
                \/ \E i \in DOMAIN tasks : Answered(p, i)
                \/ \E i \in DOMAIN tasks : Failed(p, i)
  <2> DEFINE p == Screen[screen]
  <2>0. screen \in Disciplined
    BY <1>0, <1>5, SameOrElsewhere
  <2>1. PICK w \in p.states : PageInv(p, w, ui, tasks)
    BY <2>0 DEF OnPage
  <2>2. KeepsRules(p)
    BY <2>0 DEF Disciplined
  <2> HIDE DEF p, here
  <2>3. \E acc : Stepped(p, w, acc) /\ Continue(p, acc)
    <3>1. CASE Use(p)
      BY <2>1, <2>2, <3>1, UsedStep
    <3>2. ASSUME NEW i \in DOMAIN tasks, Answered(p, i)  PROVE \E acc : Stepped(p, w, acc) /\ Continue(p, acc)
      BY <2>1, <2>2, <3>2, AnsweredStep
    <3>3. ASSUME NEW i \in DOMAIN tasks, Failed(p, i)  PROVE \E acc : Stepped(p, w, acc) /\ Continue(p, acc)
      BY <2>1, <2>2, <3>3, FailedStep
    <3> QED
      BY <1>5, <3>1, <3>2, <3>3, Zenon DEF p
  <2>4. PICK acc : Stepped(p, w, acc) /\ Continue(p, acc)
    BY <2>3
  <2> QED
    BY <1>4, <1>5, <2>1, <2>4, Zenon DEF p, here
<1>6. CASE UNCHANGED screenVars
  BY <1>6 DEF screenVars, OnPage, Disciplined
<1> QED
  BY <1>2, <1>3, <1>5, <1>6, Zenon DEF ScreensNext

(* A page on which nothing runs shows no spinner and disables no button,   *)
(* whatever was answered, refused, left or unmounted before: on each page  *)
(* that keeps the rules, with any number of handlers at a time.            *)
THEOREM MarksReleased == ScreensSpec => [](screen \in Disciplined => BusyReleased)
<1>1. ScreensInit => OnPage
  BY SomewhereDisciplined DEF ScreensInit, OnPage
<1>2. OnPage /\ [ScreensNext]_screenVars => OnPage'
  BY PageStep
<1>3. OnPage => (screen \in Disciplined => BusyReleased)
  <2> SUFFICES ASSUME OnPage, screen \in Disciplined, tasks = <<>>,
                      NEW f \in Screen[screen].busy
               PROVE  ui[f] = FALSE
    BY DEF BusyReleased, Settled
  <2>1. PICK w \in Screen[screen].states : PageInv(Screen[screen], w, ui, tasks)
    BY DEF OnPage
  <2> QED
    BY <2>1, EmptyList DEF PageInv, Carried
<1> QED
  BY <1>1, <1>2, <1>3, PTL DEF ScreensSpec

(* The same steps, for what is sent once.                                  *)
OnceOnPage == screen \in Disciplined => SendInv(Screen[screen], ui, tasks)

LEMMA SendStep ==
  ASSUME OnPage, OnceOnPage, [ScreensNext]_screenVars
  PROVE  OnceOnPage'
<1> SUFFICES ASSUME screen' \in Disciplined
             PROVE  SendInv(Screen[screen'], ui', tasks')
  BY DEF OnceOnPage, Disciplined
<1>0. screen' # Elsewhere
  BY SomewhereDisciplined
<1>1. ~Leave
  BY <1>0 DEF Leave, Away
<1>2. ASSUME NEW name \in DOMAIN Screen, Open(name)  PROVE SendInv(Screen[screen'], ui', tasks')
  <2>1. screen' = name
    BY <1>2 DEF Open
  <2> DEFINE here == Screen[name]
  <2>2. KeepsRules(here)
    BY <2>1 DEF Disciplined
  <2>3. \E w \in here.states :
          /\ ui' = Cleared(here, Mounted(here, w).ui)
          /\ tasks' = AsOpened(Mounted(here, w).tasks)
    BY <1>2, ZenonT(40) DEF Open, AsOpened
  <2> HIDE DEF here
  <2>4. SendInv(here, ui', tasks')
    BY <2>2, <2>3, OpenedSends
  <2> QED
    BY <2>1, <2>4 DEF here
<1>3. CASE /\ screen # Elsewhere
           /\ \E p \in {Screen[screen]} :
                \/ Use(p)
                \/ \E i \in DOMAIN tasks : Answered(p, i)
                \/ \E i \in DOMAIN tasks : Failed(p, i)
  <2> DEFINE p == Screen[screen]
  <2>0. screen \in Disciplined
    BY <1>0, <1>3, SameOrElsewhere
  <2>1. PICK w \in p.states : PageInv(p, w, ui, tasks)
    BY <2>0 DEF OnPage
  <2>2. KeepsRules(p) /\ SendInv(p, ui, tasks)
    BY <2>0 DEF Disciplined, OnceOnPage
  <2> HIDE DEF p
  <2>3. \E acc : Sending(p, w, acc) /\ Continue(p, acc)
    <3>1. CASE Use(p)
      BY <2>1, <2>2, <3>1, UsedSends
    <3>2. ASSUME NEW i \in DOMAIN tasks, Answered(p, i)  PROVE \E acc : Sending(p, w, acc) /\ Continue(p, acc)
      BY <2>1, <2>2, <3>2, AnsweredSends
    <3>3. ASSUME NEW i \in DOMAIN tasks, Failed(p, i)  PROVE \E acc : Sending(p, w, acc) /\ Continue(p, acc)
      BY <2>1, <2>2, <3>3, FailedSends
    <3> QED
      BY <1>3, <3>1, <3>2, <3>3, Zenon DEF p
  <2>4. PICK acc : Sending(p, w, acc) /\ Continue(p, acc)
    BY <2>3
  <2>5. Stay(p, acc) /\ acc.ui.goto = None
    <3>1. ~Away(acc.ui.toast)
      BY <1>0 DEF Away
    <3> QED
      BY <2>4, <3>1, Zenon DEF Continue
  <2>6. SendInv(p, ui', tasks')
    BY <2>1, <2>2, <2>4, <2>5, StaySends
  <2>7. screen' = screen
    BY <2>5 DEF Stay
  <2> QED
    BY <2>6, <2>7 DEF p
<1>4. CASE UNCHANGED screenVars
  BY <1>4 DEF screenVars, OnceOnPage, Disciplined
<1> QED
  BY <1>1, <1>2, <1>3, <1>4, Zenon DEF ScreensNext

LEMMA OnceOnly ==
  ASSUME OnPage, OnceOnPage, screen \in Disciplined
  PROVE  OneSubmission
<1> SUFFICES ASSUME Len(tasks) > 1, NEW i \in DOMAIN tasks, NEW j \in DOMAIN tasks,
                    i # j, tasks[i].h = tasks[j].h, ~tasks[i].gone, ~tasks[j].gone,
                    Sends(Screen[screen], tasks[i].h), tasks[i].h \notin Screen[screen].again
             PROVE  FALSE
  BY DEF OneSubmission
<1> DEFINE here == Screen[screen]
<1> DEFINE h == tasks[i].h
<1>2. KeepsRules(here) /\ SendInv(here, ui, tasks)
  BY DEF Disciplined, OnceOnPage
<1>3. h \in DOMAIN here.handlers
  BY DEF OnPage, PageInv, Fine, TaskFine
<1>4. SentOnce(here, h)
  BY <1>2, <1>3 DEF KeepsRules
<1> HIDE DEF here, h
<1>5. ASSUME NEW M, NEW f, h \in M  PROVE ~Once(here, M, f, tasks)
  <2>1. i \in Counted(here, M, f, tasks) /\ j \in Counted(here, M, f, tasks)
    BY <1>5 DEF Counted, Alive, h
  <2> QED
    BY <2>1 DEF Once
<1>6. ~RunsOnMount(here, h)
  <2>1. ~Once(here, {h}, "goto", tasks)
    BY <1>5
  <2> QED
    BY <1>2, <2>1 DEF SendInv
<1>7. \A f \in DOMAIN here.handlers[h].start : Lock(here, f) => h \in Group(here, f)
  BY <1>3 DEF Group
<1> QED
  BY <1>2, <1>4, <1>5, <1>6, <1>7 DEF SentOnce, SendInv

(* What writes is not sent a second time while the first is on its way: a  *)
(* mark or a choice that its control looks at holds the handler back, or   *)
(* only the mounting of the page starts it.  On each page that keeps the   *)
(* rules, with any number of handlers at a time.                           *)
THEOREM SentOnceAtATime == ScreensSpec => [](screen \in Disciplined => OneSubmission)
<1>1. ScreensInit => OnPage /\ OnceOnPage
  BY SomewhereDisciplined DEF ScreensInit, OnPage, OnceOnPage
<1>2. OnPage /\ [ScreensNext]_screenVars => OnPage'
  BY PageStep
<1>3. OnPage /\ OnceOnPage /\ [ScreensNext]_screenVars
        => OnceOnPage'
  BY SendStep
<1>4. OnPage /\ OnceOnPage => (screen \in Disciplined => OneSubmission)
  BY OnceOnly
<1> QED
  BY <1>1, <1>2, <1>3, <1>4, PTL DEF ScreensSpec

=============================================================================
