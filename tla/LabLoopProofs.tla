---------------------------- MODULE LabLoopProofs ----------------------------
(***************************************************************************)
(* What the run directories and the knowledge store say of the lab         *)
(* sessions, for any number of sessions and tasks, with failing writes and *)
(* crashes: a run that looks valid is complete, an observation in the      *)
(* store has its update on disk, and what is reported as ingested is in    *)
(* the store.                                                              *)
(*                                                                         *)
(* A session that fails forgets what it still had to do, so the invariant  *)
(* has to read its progress off the directory: while it runs, a file is    *)
(* there exactly if it is not ahead of the session any more; when it has   *)
(* failed, whatever comes before a file that is there is whole.  Both are  *)
(* claimed only of a session that has its directory to itself.             *)
(***************************************************************************)
EXTENDS LabLoop, TLAPS

Ran == {"running", "done", "failed"}
Entries == Files \union {"store"}
Writers == Sessions \union {Nobody, Torn}
Patterns == {"mb.matmul", "mb.add"}
Units == {NoUnit} \union [pattern : Patterns, ane_legal : BOOLEAN, by : Sessions]

TypeOK ==
  /\ clock \in 0 .. MaxSecond
  /\ todo \in [Sessions -> Seq(Entries)]
  /\ status \in [Sessions -> {"new", "compiling"} \union Ran]
  /\ kind \in [Sessions -> Kinds]
  /\ inspects \in [Sessions -> BOOLEAN] /\ compiled \in [Sessions -> BOOLEAN]
  /\ task \in [Sessions -> Tasks]
  /\ run_id \in [Sessions -> RunIds]
  /\ next_obs \in [Sessions -> 1 .. 4] /\ ingested \in [Sessions -> 0 .. 3]
  /\ dirs \in [RunIds -> [Files -> Writers]]
  /\ made \subseteq RunIds /\ package \in Writers
  /\ store \in [ObsIds -> Units]
  /\ failures \subseteq Tasks

\* What a session of a kind does first has the higher rank.
Rank(k, step) ==
  IF k = "lab"
  THEN CASE step = "manifest" -> 8 [] step = "mir" -> 7 [] step = "inspection" -> 6
         [] step = "baseline" -> 5 [] step = "drift" -> 4 [] step = "update" -> 3
         [] OTHER -> 1
  ELSE CASE step = "mir" -> 8 [] step = "inspection" -> 7 [] step = "baseline" -> 6
         [] step = "drift" -> 5 [] step = "update" -> 4 [] step = "store" -> 3
         [] step = "run" -> 2 [] OTHER -> 1

Steps(s) ==
  {"manifest", "mir", "baseline", "drift", "update", "run"}
    \union (IF compiled[s] /\ inspects[s] THEN {"inspection"} ELSE {})
    \union (IF kind[s] = "lab_loop" THEN {"store"} ELSE {})

Elements(q) == {q[i] : i \in 1 .. Len(q)}

Descends(k, q) == \A i, j \in 1 .. Len(q) : i < j => Rank(k, q[i]) > Rank(k, q[j])

Ahead(s) == Elements(todo[s])

\* A running session does the last steps of its command, in their order.
InOrder(s) ==
  /\ status[s] = "running" <=> todo[s] # <<>>
  /\ Descends(kind[s], todo[s])
  /\ Ahead(s) \subseteq Steps(s)
  /\ \A x \in Ahead(s), y \in Steps(s) : Rank(kind[s], y) < Rank(kind[s], x) => y \in Ahead(s)

\* What it has written is there, and nothing that is ahead of it.
ProgressShows(s) ==
  status[s] \in {"running", "done"} /\ Alone(s) =>
    \A f \in Steps(s) \ {"store"} : Written(s, f) = IF f \in Ahead(s) THEN Nobody ELSE s

\* Whatever comes before a file that is there is whole.
EarlierIsWhole(s) ==
  \A f, g \in Steps(s) \ {"store"} :
    Rank(kind[s], f) > Rank(kind[s], g) /\ Written(s, g) # Nobody => Written(s, f) = s

FailureShows(s) == status[s] = "failed" /\ Alone(s) => EarlierIsWhole(s)

(* It counts what it ingests, and without failures of its task it counts   *)
(* everything but the drift.                                               *)
CountsRight(s) ==
  /\ status[s] \in {"new", "compiling"} => ingested[s] = 0 /\ next_obs[s] = 1
  /\ "store" \in Ahead(s) =>
       /\ ingested[s] < next_obs[s]
       /\ task[s] \notin failures /\ next_obs[s] <= 3 => ingested[s] = next_obs[s] - 1

SessionInv(s) == InOrder(s) /\ ProgressShows(s) /\ FailureShows(s) /\ CountsRight(s)

\* A file in a run directory comes from a session that runs or ran there.
FilesHaveWriters ==
  \A r \in RunIds, f \in Files :
    dirs[r][f] # Nobody =>
      \E s \in Sessions : status[s] \in Ran /\ run_id[s] = r /\ dirs[r][f] \in {s, Torn}

UnitsHaveUpdates ==
  \A id \in ObsIds, s \in Sessions :
    store[id].by = s => status[s] \in Ran /\ (Alone(s) => Written(s, "update") = s)

CountedIsStored ==
  \A s \in Sessions : \A n \in 0 .. ingested[s] - 1 : store[<<task[s], n>>] # NoUnit

IInv ==
  /\ TypeOK
  /\ \A s \in Sessions : SessionInv(s)
  /\ FilesHaveWriters /\ UnitsHaveUpdates /\ CountedIsStored /\ OneIdOnePattern

(***************************************************************************)
(* Facts about the data.                                                   *)
(***************************************************************************)
LEMMA ObservationsAre ==
  /\ Len(Observations) = 3
  /\ Observations[1] = "mb.matmul" /\ Observations[2] = "mb.add" /\ Observations[3] = "drift"
BY DEF Observations

LEMMA ObsIdsAre == ObsIds = Tasks \X (0 .. 3)
BY ObservationsAre DEF ObsIds

LEMMA RanksAreNumbers == \A k, step : Rank(k, step) \in 1 .. 8
BY DEF Rank

\* What doing the first of a sequence of steps leaves.
LEMMA TailDescends ==
  ASSUME NEW q \in Seq(Entries), q # <<>>, NEW k, Descends(k, q)
  PROVE  /\ Head(q) \in Elements(q) /\ Head(q) \in Entries
         /\ Tail(q) \in Seq(Entries) /\ Descends(k, Tail(q))
         /\ Elements(Tail(q)) = Elements(q) \ {Head(q)}
         /\ \A x \in Elements(Tail(q)) : Rank(k, x) < Rank(k, Head(q))
         /\ Len(q) = 1 <=> Tail(q) = <<>>
<1>1. /\ Len(q) \in Nat /\ Len(q) > 0 /\ Tail(q) \in Seq(Entries) /\ Head(q) = q[1]
      /\ Len(Tail(q)) = Len(q) - 1 /\ \A i \in 1 .. Len(q) - 1 : Tail(q)[i] = q[i + 1]
      /\ \A i \in 1 .. Len(q) : q[i] \in Entries
  OBVIOUS
<1>2. Descends(k, Tail(q))
  BY <1>1 DEF Descends
<1>3. \A x \in Elements(Tail(q)) : x \in Elements(q) /\ Rank(k, x) < Rank(k, Head(q))
  BY <1>1 DEF Elements, Descends
<1>4. \A x \in Elements(q) \ {Head(q)} : x \in Elements(Tail(q))
  <2> SUFFICES ASSUME NEW i \in 1 .. Len(q), q[i] # q[1] PROVE q[i] \in Elements(Tail(q))
    BY <1>1 DEF Elements
  <2>1. i - 1 \in 1 .. Len(Tail(q)) /\ Tail(q)[i - 1] = q[i]
    BY <1>1
  <2> QED
    BY <2>1 DEF Elements
<1>5. \A x \in Elements(Tail(q)) : x # Head(q)
  BY <1>3, RanksAreNumbers
<1>6. Head(q) \in Elements(q)
  BY <1>1 DEF Elements
<1>7. Len(q) = 1 <=> Tail(q) = <<>>
  BY <1>1
<1> QED
  BY <1>1, <1>2, <1>3, <1>4, <1>5, <1>6, <1>7

\* Steps of higher rank followed by steps of lower rank.
LEMMA JoinedDescend ==
  ASSUME NEW k, NEW a \in Seq(Entries), NEW b \in Seq(Entries), Descends(k, a), Descends(k, b),
         \A x \in Elements(a), y \in Elements(b) : Rank(k, x) > Rank(k, y)
  PROVE  /\ a \o b \in Seq(Entries) /\ Descends(k, a \o b)
         /\ Elements(a \o b) = Elements(a) \union Elements(b)
<1> DEFINE q == a \o b
<1>1. /\ q \in Seq(Entries) /\ Len(q) = Len(a) + Len(b) /\ Len(a) \in Nat /\ Len(b) \in Nat
      /\ \A i \in 1 .. Len(a) : q[i] = a[i]
      /\ \A i \in 1 .. Len(b) : q[Len(a) + i] = b[i]
  OBVIOUS
<1> HIDE DEF q
<1>2. \A i \in 1 .. Len(q) : \/ i \in 1 .. Len(a) /\ q[i] = a[i]
                             \/ i - Len(a) \in 1 .. Len(b) /\ q[i] = b[i - Len(a)]
  <2> SUFFICES ASSUME NEW i \in 1 .. Len(q), i \notin 1 .. Len(a)
               PROVE  i - Len(a) \in 1 .. Len(b) /\ q[i] = b[i - Len(a)]
    BY <1>1
  <2>1. i - Len(a) \in 1 .. Len(b) /\ Len(a) + (i - Len(a)) = i
    BY <1>1
  <2> QED
    BY <1>1, <2>1
<1>3. Descends(k, q)
  <2> SUFFICES ASSUME NEW i \in 1 .. Len(q), NEW j \in 1 .. Len(q), i < j
               PROVE  Rank(k, q[i]) > Rank(k, q[j])
    BY DEF Descends
  <2>1. CASE j \in 1 .. Len(a)
    BY <1>1, <2>1 DEF Descends
  <2>2. CASE i \notin 1 .. Len(a)
    <3>1. /\ i - Len(a) \in 1 .. Len(b) /\ q[i] = b[i - Len(a)]
          /\ j - Len(a) \in 1 .. Len(b) /\ q[j] = b[j - Len(a)] /\ i - Len(a) < j - Len(a)
      BY <1>1, <1>2, <2>2
    <3> QED
      BY <3>1 DEF Descends
  <2>3. CASE i \in 1 .. Len(a) /\ j \notin 1 .. Len(a)
    <3>1. q[i] \in Elements(a) /\ q[j] \in Elements(b)
      BY <1>2, <2>3, <1>1 DEF Elements
    <3> QED
      BY <3>1
  <2> QED
    BY <1>1, <2>1, <2>2, <2>3
<1>4. Elements(q) \subseteq Elements(a) \union Elements(b)
  BY <1>2 DEF Elements
<1>5. Elements(a) \subseteq Elements(q) /\ Elements(b) \subseteq Elements(q)
  <2>1. \A i \in 1 .. Len(a) : i \in 1 .. Len(q)
    BY <1>1
  <2>2. \A i \in 1 .. Len(b) : Len(a) + i \in 1 .. Len(q)
    BY <1>1
  <2> QED
    BY <1>1, <2>1, <2>2 DEF Elements
<1> QED
  BY <1>1, <1>3, <1>4, <1>5 DEF q

\* The steps of both commands are in the order of their ranks.
Plan(s, k, success) == IF k = "lab" THEN lab_steps(s, success) ELSE lab_loop_steps(s, success)

LEMMA PlansDescend ==
  ASSUME NEW s, NEW success, NEW k \in Kinds
  PROVE  /\ Plan(s, k, success) \in Seq(Entries) /\ Plan(s, k, success) # <<>>
         /\ Descends(k, Plan(s, k, success))
         /\ Elements(Plan(s, k, success)) =
              {"manifest", "mir", "baseline", "drift", "update", "run"}
                \union (IF success /\ inspects[s] THEN {"inspection"} ELSE {})
                \union (IF k = "lab_loop" THEN {"store"} ELSE {})
<1> DEFINE a == IF k = "lab" THEN <<"manifest", "mir">> ELSE <<"mir">>
           b == inspection_of(s, success)
           c == IF k = "lab" THEN <<"baseline", "drift", "update", "run">>
                ELSE <<"baseline", "drift", "update", "store", "run", "manifest">>
<1>1. /\ a \in Seq(Entries) /\ Descends(k, a)
      /\ Elements(a) = IF k = "lab" THEN {"manifest", "mir"} ELSE {"mir"}
  <2>1. CASE k = "lab"
    BY <2>1 DEF Descends, Elements, Rank, Entries, Files
  <2>2. CASE k # "lab"
    BY <2>2 DEF Descends, Elements, Rank, Entries, Files
  <2> QED
    BY <2>1, <2>2
<1>2. /\ b \in Seq(Entries) /\ Descends(k, b)
      /\ Elements(b) = IF success /\ inspects[s] THEN {"inspection"} ELSE {}
  <2>1. CASE success /\ inspects[s]
    BY <2>1 DEF inspection_of, Descends, Elements, Rank, Entries, Files
  <2>2. CASE ~(success /\ inspects[s])
    BY <2>2 DEF inspection_of, Descends, Elements, Rank, Entries, Files
  <2> QED
    BY <2>1, <2>2
<1>3. /\ c \in Seq(Entries) /\ Descends(k, c)
      /\ Elements(c) = IF k = "lab" THEN {"baseline", "drift", "update", "run"}
                       ELSE {"baseline", "drift", "update", "store", "run", "manifest"}
  <2>1. CASE k = "lab"
    <3>1. /\ c \in Seq(Entries) /\ Len(c) = 4
          /\ c[1] = "baseline" /\ c[2] = "drift" /\ c[3] = "update" /\ c[4] = "run"
      BY <2>1 DEF Entries, Files
    <3> HIDE DEF c
    <3> QED
      BY <2>1, <3>1 DEF Descends, Elements, Rank
  <2>2. CASE k # "lab"
    <3>1. /\ c \in Seq(Entries) /\ Len(c) = 6
          /\ c[1] = "baseline" /\ c[2] = "drift" /\ c[3] = "update"
          /\ c[4] = "store" /\ c[5] = "run" /\ c[6] = "manifest"
      BY <2>2 DEF Entries, Files
    <3> HIDE DEF c
    <3> QED
      BY <2>2, <3>1 DEF Descends, Elements, Rank
  <2> QED
    BY <2>1, <2>2
<1>4. Plan(s, k, success) = (a \o b) \o c
  BY DEF Plan, lab_steps, lab_loop_steps
<1> HIDE DEF a, b, c
<1> DEFINE ab == a \o b
<1>5. /\ ab \in Seq(Entries) /\ Descends(k, ab)
      /\ Elements(ab) = Elements(a) \union Elements(b)
  <2>1. \A x \in Elements(a), y \in Elements(b) : Rank(k, x) > Rank(k, y)
    BY <1>1, <1>2 DEF Rank
  <2> QED
    BY <1>1, <1>2, <2>1, JoinedDescend
<1>6. Plan(s, k, success) = ab \o c
  BY <1>4
<1> HIDE DEF ab
<1>7. /\ ab \o c \in Seq(Entries) /\ Descends(k, ab \o c)
      /\ Elements(ab \o c) = Elements(ab) \union Elements(c)
  <2>1. \A x \in Elements(ab), y \in Elements(c) : Rank(k, x) > Rank(k, y)
    BY <1>1, <1>2, <1>3, <1>5 DEF Rank
  <2> QED
    BY <1>3, <1>5, <2>1, JoinedDescend
<1>8. k = "lab" \/ k = "lab_loop"
  BY DEF Kinds
<1>9. Elements(Plan(s, k, success)) =
              {"manifest", "mir", "baseline", "drift", "update", "run"}
                \union (IF success /\ inspects[s] THEN {"inspection"} ELSE {})
                \union (IF k = "lab_loop" THEN {"store"} ELSE {})
  BY <1>1, <1>2, <1>3, <1>5, <1>6, <1>7, <1>8
<1>10. Plan(s, k, success) # <<>>
  BY <1>9 DEF Elements
<1> QED
  BY <1>6, <1>7, <1>9, <1>10

(***************************************************************************)
(* What no step of a session does to the others, and to what is there.     *)
(***************************************************************************)
Kept(x) ==
  /\ todo'[x] = todo[x] /\ status'[x] = status[x] /\ kind'[x] = kind[x]
  /\ inspects'[x] = inspects[x] /\ task'[x] = task[x] /\ compiled'[x] = compiled[x]
  /\ run_id'[x] = run_id[x] /\ next_obs'[x] = next_obs[x] /\ ingested'[x] = ingested[x]

Moves(s) ==
  /\ \A x \in Sessions \ {s} : Kept(x)
  /\ status[s] \in Ran => status'[s] \in Ran /\ run_id'[s] = run_id[s]
  /\ failures \subseteq failures'
  /\ \A r \in RunIds, f \in Files :
       \/ dirs'[r][f] = dirs[r][f]
       \/ /\ r = run_id[s] /\ f = Head(todo[s]) /\ status[s] = "running"
          /\ dirs'[r][f] \in {s, Torn}

LEMMA StepsAreEntries ==
  ASSUME NEW s PROVE Steps(s) \ {"store"} \subseteq Files /\ {"update", "run", "manifest"} \subseteq Steps(s)
BY DEF Steps, Files

LEMMA AloneBefore ==
  ASSUME NEW s \in Sessions, Moves(s), TypeOK,
         NEW x \in Sessions, x # s \/ status[s] \in Ran, Alone(x)'
  PROVE  Alone(x)
<1> SUFFICES ASSUME NEW other \in Sessions \ {x}
             PROVE  status[other] \in {"new", "compiling"} \/ run_id[other] # run_id[x]
  BY DEF Alone
<1>1. run_id'[x] = run_id[x]
  BY DEF Moves, Kept
<1>2. status'[other] \in {"new", "compiling"} \/ run_id'[other] # run_id'[x]
  BY DEF Alone
<1>3. CASE other # s
  BY <1>1, <1>2, <1>3 DEF Moves, Kept
<1>4. CASE other = s /\ status[s] \in Ran
  BY <1>1, <1>2, <1>4 DEF Moves, Ran
<1>5. CASE other = s /\ status[s] \notin Ran
  BY <1>5 DEF TypeOK
<1> QED
  BY <1>3, <1>4, <1>5

\* A session that is alone finds its files as they were.
LEMMA OthersFiles ==
  ASSUME NEW s \in Sessions, Moves(s), TypeOK, NEW x \in Sessions, x # s, Alone(x), NEW f \in Files
  PROVE  Written(x, f)' = Written(x, f)
<1>1. run_id[x] \in RunIds /\ run_id'[x] = run_id[x]
  BY DEF Moves, Kept, TypeOK
<1>2. ~(run_id[x] = run_id[s] /\ status[s] = "running")
  BY DEF Alone
<1> QED
  BY <1>1, <1>2 DEF Moves, Written

LEMMA OthersKeep ==
  ASSUME IInv, NEW s \in Sessions, Moves(s), NEW x \in Sessions \ {s}
  PROVE  SessionInv(x)'
<1>1. SessionInv(x) /\ TypeOK /\ Kept(x)
  BY DEF IInv, Moves
<1>2. /\ Ahead(x)' = Ahead(x) /\ Steps(x)' = Steps(x)
      /\ Descends(kind[x], todo[x])' = Descends(kind[x], todo[x])
  BY <1>1 DEF Kept, Ahead, Steps, Elements, Descends
<1>3. InOrder(x)'
  BY <1>1, <1>2 DEF SessionInv, InOrder, Kept
<1>4. ASSUME Alone(x)'
      PROVE  Alone(x) /\ \A f \in Steps(x) \ {"store"} : Written(x, f)' = Written(x, f)
  BY <1>1, <1>4, AloneBefore, OthersFiles, StepsAreEntries
<1>5. ProgressShows(x)'
  BY <1>1, <1>2, <1>4 DEF SessionInv, ProgressShows, Kept
<1>6. FailureShows(x)'
  BY <1>1, <1>2, <1>4 DEF SessionInv, FailureShows, EarlierIsWhole, Kept
<1>7. CountsRight(x)'
  BY <1>1, <1>2 DEF SessionInv, CountsRight, Kept, Moves
<1> QED
  BY <1>3, <1>5, <1>6, <1>7 DEF SessionInv

LEMMA WritersStay ==
  ASSUME IInv, NEW s \in Sessions, Moves(s) PROVE FilesHaveWriters'
<1> SUFFICES ASSUME NEW r \in RunIds, NEW f \in Files, dirs'[r][f] # Nobody
             PROVE  \E x \in Sessions :
                      status'[x] \in Ran /\ run_id'[x] = r /\ dirs'[r][f] \in {x, Torn}
  BY DEF FilesHaveWriters
<1>1. ASSUME NEW x \in Sessions, status[x] \in Ran
      PROVE  status'[x] \in Ran /\ run_id'[x] = run_id[x]
  BY <1>1 DEF Moves, Kept
<1>2. CASE dirs'[r][f] = dirs[r][f]
  BY <1>1, <1>2 DEF IInv, FilesHaveWriters
<1>3. CASE dirs'[r][f] # dirs[r][f]
  <2>1. r = run_id[s] /\ status[s] \in Ran /\ dirs'[r][f] \in {s, Torn}
    BY <1>3 DEF Moves, Ran
  <2> QED
    BY <1>1, <2>1
<1> QED
  BY <1>2, <1>3

\* An update that is there stays: its file is not ahead of anybody.
LEMMA UpdatesStay ==
  ASSUME IInv, NEW s \in Sessions, Moves(s), NEW x \in Sessions,
         status[x] \in Ran, Alone(x) => Written(x, "update") = x
  PROVE  status'[x] \in Ran /\ (Alone(x)' => Written(x, "update")' = x)
<1>0. TypeOK
  BY DEF IInv
<1>1. status'[x] \in Ran /\ run_id'[x] = run_id[x]
  BY DEF Moves, Kept
<1> SUFFICES ASSUME Alone(x)' PROVE Written(x, "update")' = x
  BY <1>1
<1>2. Alone(x) /\ Written(x, "update") = x
  BY <1>0, AloneBefore
<1>3. CASE x # s
  BY <1>0, <1>2, <1>3, OthersFiles DEF Files
<1>4. CASE x = s
  <2>1. run_id[s] \in RunIds /\ "update" \in Files
    BY <1>0 DEF TypeOK, Files
  <2>2. ~(Head(todo[s]) = "update" /\ status[s] = "running")
    <3> SUFFICES ASSUME Head(todo[s]) = "update", status[s] = "running" PROVE FALSE
      OBVIOUS
    <3>1. InOrder(s) /\ ProgressShows(s)
      BY DEF IInv, SessionInv
    <3>2. "update" \in Ahead(s)
      BY <1>0, <3>1, TailDescends DEF InOrder, Ahead, TypeOK
    <3>3. Written(s, "update") = Nobody
      BY <1>2, <1>4, <3>1, <3>2, StepsAreEntries DEF ProgressShows
    <3> QED
      BY <1>2, <1>4, <3>3, LabConstants
  <2> QED
    BY <1>1, <1>2, <1>4, <2>1, <2>2 DEF Moves, Written
<1> QED
  BY <1>3, <1>4

\* What a step does not touch of the store stays in order.
LEMMA StoreStays ==
  ASSUME IInv, NEW s \in Sessions, Moves(s), store' = store,
         ingested'[s] = 0 \/ (ingested'[s] = ingested[s] /\ task'[s] = task[s])
  PROVE  UnitsHaveUpdates' /\ CountedIsStored' /\ OneIdOnePattern'
<1>1. UnitsHaveUpdates'
  BY UpdatesStay DEF IInv, UnitsHaveUpdates
<1>2. CountedIsStored'
  <2> SUFFICES ASSUME NEW x \in Sessions, NEW n \in 0 .. ingested'[x] - 1
               PROVE  store[<<task'[x], n>>] # NoUnit
    BY DEF CountedIsStored
  <2>1. ingested'[x] = ingested[x] /\ task'[x] = task[x]
    BY DEF Moves, Kept
  <2> QED
    BY <2>1 DEF IInv, CountedIsStored
<1>3. OneIdOnePattern'
  BY DEF IInv, OneIdOnePattern, Moves
<1> QED
  BY <1>1, <1>2, <1>3

(* A step of a session keeps the invariant if it keeps the session's own   *)
(* part of it and that of the store.                                       *)
LEMMA Suffices ==
  ASSUME IInv, NEW s \in Sessions, Moves(s), TypeOK', SessionInv(s)',
         UnitsHaveUpdates' /\ CountedIsStored' /\ OneIdOnePattern'
  PROVE  IInv'
BY OthersKeep, WritersStay DEF IInv

(***************************************************************************)
(* The actions.                                                            *)
(***************************************************************************)
LEMMA EmptyPlan == Elements(<<>>) = {} /\ <<>> \in Seq(Entries) /\ \A k : Descends(k, <<>>)
BY DEF Elements, Descends

LEMMA InitHolds == ASSUME Init PROVE IInv
<1>1. /\ \A s \in Sessions : /\ status[s] = "new" /\ todo[s] = <<>> /\ kind[s] = "lab"
                             /\ inspects[s] = FALSE /\ compiled[s] = FALSE
                             /\ next_obs[s] = 1 /\ ingested[s] = 0
      /\ \A r \in RunIds, f \in Files : dirs[r][f] = Nobody
      /\ \A id \in ObsIds : store[id] = NoUnit
  BY DEF Init
<1>2. TypeOK
  <2>1. task \in [Sessions -> Tasks]
    BY LabConstants DEF Init
  <2>2. run_id \in [Sessions -> RunIds]
    BY <2>1, LabConstants DEF Init, RunIds
  <2>3. /\ todo \in [Sessions -> Seq(Entries)]
        /\ status \in [Sessions -> {"new", "compiling"} \union Ran]
        /\ kind \in [Sessions -> Kinds]
        /\ inspects \in [Sessions -> BOOLEAN] /\ compiled \in [Sessions -> BOOLEAN]
        /\ next_obs \in [Sessions -> 1 .. 4] /\ ingested \in [Sessions -> 0 .. 3]
    BY EmptyPlan DEF Init, Kinds
  <2>4. dirs \in [RunIds -> [Files -> Writers]] /\ store \in [ObsIds -> Units]
    BY DEF Init, Writers, Units
  <2>5. /\ clock \in 0 .. MaxSecond /\ failures \subseteq Tasks
        /\ made \subseteq RunIds /\ package \in Writers
    BY LabConstants DEF Init, Writers
  <2> QED
    BY <2>1, <2>2, <2>3, <2>4, <2>5 DEF TypeOK
<1>3. ASSUME NEW s \in Sessions PROVE SessionInv(s)
  BY <1>1, EmptyPlan
     DEF SessionInv, InOrder, ProgressShows, FailureShows, CountsRight, Ahead, Ran
<1>4. FilesHaveWriters
  BY <1>1 DEF FilesHaveWriters
<1>5. UnitsHaveUpdates /\ CountedIsStored /\ OneIdOnePattern
  <2>1. NoUnit.by \notin Sessions
    BY LabConstants DEF NoUnit
  <2>2. \A t \in Tasks, n \in 0 .. 3 : store[<<t, n>>] = NoUnit
    BY <1>1, ObsIdsAre
  <2> QED
    BY <1>1, <2>1, <2>2, ObservationsAre DEF UnitsHaveUpdates, CountedIsStored, OneIdOnePattern
<1> QED
  BY <1>2, <1>3, <1>4, <1>5 DEF IInv

LEMMA StartKeeps ==
  ASSUME IInv, NEW s \in Sessions, NEW k \in Kinds, NEW t \in Tasks, NEW inspect \in BOOLEAN,
         Start(s, k, t, inspect)
  PROVE  IInv'
<1> USE DEF Start, files
<1>0. TypeOK /\ SessionInv(s)
  BY DEF IInv
<1>1. TypeOK'
  BY <1>0 DEF TypeOK
<1>2. Moves(s)
  BY <1>0 DEF Moves, Kept, TypeOK, Ran
<1>3. /\ status[s] = "new" /\ status'[s] = "compiling" /\ todo'[s] = <<>> /\ todo[s] = <<>>
      /\ ingested'[s] = 0 /\ ingested[s] = 0 /\ next_obs'[s] = 1
  BY <1>0 DEF TypeOK, SessionInv, InOrder, CountsRight
<1>4. SessionInv(s)'
  BY <1>3, EmptyPlan
     DEF SessionInv, InOrder, ProgressShows, FailureShows, CountsRight, Ahead, Ran
<1>5. UnitsHaveUpdates' /\ CountedIsStored' /\ OneIdOnePattern'
  BY <1>2, <1>3, StoreStays
<1> QED
  BY <1>1, <1>2, <1>4, <1>5, Suffices

\* Nothing is in a directory that no other session has used.
LEMMA NothingThere ==
  ASSUME IInv, NEW s \in Sessions, status[s] \notin Ran, NEW r \in RunIds, NEW f \in Files,
         \A x \in Sessions \ {s} : status[x] \in {"new", "compiling"} \/ run_id[x] # r
  PROVE  dirs[r][f] = Nobody
BY DEF IInv, FilesHaveWriters, Ran

LEMMA CompileKeeps ==
  ASSUME IInv, NEW s \in Sessions, NEW success \in BOOLEAN, Compile(s, success)
  PROVE  IInv'
<1> USE DEF Compile
<1>0. TypeOK /\ SessionInv(s)
  BY DEF IInv
<1> DEFINE plan == Plan(s, kind[s], success)
<1>1. /\ kind[s] \in Kinds /\ inspects[s] \in BOOLEAN /\ status[s] = "compiling"
      /\ todo' = [todo EXCEPT ![s] = plan]
      /\ UNCHANGED <<kind, inspects, task, next_obs, ingested, dirs, store, failures>>
  BY <1>0 DEF TypeOK, Plan
<1>2. /\ plan \in Seq(Entries) /\ plan # <<>> /\ Descends(kind[s], plan)
      /\ Elements(plan) =
              {"manifest", "mir", "baseline", "drift", "update", "run"}
                \union (IF success /\ inspects[s] THEN {"inspection"} ELSE {})
                \union (IF kind[s] = "lab_loop" THEN {"store"} ELSE {})
  BY <1>1, PlansDescend
<1> HIDE DEF plan
<1>3. generate_run_id(s) \in RunIds
  BY <1>0, LabConstants DEF generate_run_id, RunIds, TypeOK
<1>4. TypeOK'
  <2>1. /\ todo' \in [Sessions -> Seq(Entries)] /\ compiled' \in [Sessions -> BOOLEAN]
        /\ status' \in [Sessions -> {"new", "compiling"} \union Ran]
    BY <1>0, <1>1, <1>2 DEF TypeOK, Ran
  <2>2. run_id' \in [Sessions -> RunIds] /\ made' \subseteq RunIds /\ package' \in Writers
    BY <1>0, <1>3 DEF TypeOK, Writers
  <2> QED
    BY <1>0, <1>1, <2>1, <2>2 DEF TypeOK
<1>5. Moves(s)
  BY <1>0, <1>1 DEF Moves, Kept, TypeOK, Ran
<1>6. /\ todo'[s] = plan /\ status'[s] = "running" /\ compiled'[s] = success
      /\ run_id'[s] = generate_run_id(s)
  BY <1>0, <1>1 DEF TypeOK
<1>7. Ahead(s)' = Steps(s)'
  BY <1>1, <1>2, <1>6 DEF Ahead, Steps
<1>8. InOrder(s)'
  BY <1>1, <1>2, <1>6, <1>7 DEF InOrder
<1>9. ASSUME Alone(s)', NEW f \in Files PROVE Written(s, f)' = Nobody
  <2>1. ASSUME NEW x \in Sessions \ {s}
        PROVE  status[x] \in {"new", "compiling"} \/ run_id[x] # run_id'[s]
    BY <1>5, <1>9 DEF Alone, Moves, Kept
  <2>2. dirs[run_id'[s]][f] = Nobody
    BY <1>1, <1>3, <1>6, <2>1, NothingThere DEF Ran
  <2> QED
    BY <1>1, <2>2 DEF Written
<1>10. ProgressShows(s)' /\ FailureShows(s)'
  BY <1>6, <1>7, <1>9, StepsAreEntries DEF ProgressShows, FailureShows, Files, Steps
<1>11. CountsRight(s)'
  BY <1>0, <1>1, <1>6 DEF SessionInv, CountsRight
<1>12. UnitsHaveUpdates' /\ CountedIsStored' /\ OneIdOnePattern'
  BY <1>1, <1>5, StoreStays
<1> QED
  BY <1>4, <1>5, <1>8, <1>10, <1>11, <1>12, Suffices DEF SessionInv

(* However a session fails, whatever comes before a file of its directory  *)
(* is whole: only the file it is about to write may be torn.               *)
LEMMA FailsWhole ==
  ASSUME IInv, NEW s \in Sessions, Moves(s), TypeOK',
         status[s] \in {"compiling", "running"}, Ends(s, "failed"),
         status[s] = "compiling" => dirs' = dirs,
         UNCHANGED <<kind, inspects, compiled, task, run_id, next_obs, ingested, store, failures>>
  PROVE  IInv'
<1>0. TypeOK /\ SessionInv(s) /\ run_id[s] \in RunIds
  BY DEF IInv, TypeOK
<1>1. status'[s] = "failed" /\ todo'[s] = <<>>
  BY <1>0 DEF Ends, TypeOK
<1>2. InOrder(s)' /\ ProgressShows(s)' /\ CountsRight(s)'
  BY <1>1, EmptyPlan DEF InOrder, ProgressShows, CountsRight, Ahead
<1>3. Steps(s)' = Steps(s) /\ \A f \in Steps(s) \ {"store"} : f \in Files
  BY StepsAreEntries DEF Steps
<1>4. FailureShows(s)'
  <2>1. CASE status[s] = "compiling"
    <3>1. ASSUME Alone(s)', NEW f \in Files PROVE Written(s, f)' = Nobody
      <4>1. ASSUME NEW x \in Sessions \ {s}
            PROVE  status[x] \in {"new", "compiling"} \/ run_id[x] # run_id[s]
        BY <3>1 DEF Alone, Moves, Kept
      <4> QED
        BY <1>0, <2>1, <4>1, NothingThere DEF Written, Ran
    <3> QED
      BY <1>3, <3>1 DEF FailureShows, EarlierIsWhole
  <2>2. CASE status[s] = "running"
    <3> SUFFICES ASSUME Alone(s)', NEW f \in Steps(s) \ {"store"}, NEW g \in Steps(s) \ {"store"},
                        Rank(kind[s], f) > Rank(kind[s], g), Written(s, g)' # Nobody
                 PROVE  Written(s, f)' = s
      BY <1>3 DEF FailureShows, EarlierIsWhole
    <3>1. \A h \in Steps(s) \ {"store"} : Written(s, h) = IF h \in Ahead(s) THEN Nobody ELSE s
      BY <1>0, <2>2, AloneBefore DEF SessionInv, ProgressShows, Ran
    <3>2. InOrder(s) /\ todo[s] \in Seq(Entries) /\ todo[s] # <<>>
      BY <1>0, <2>2 DEF SessionInv, InOrder, TypeOK
    <3>3. /\ Head(todo[s]) \in Ahead(s)
          /\ \A x \in Ahead(s) : x # Head(todo[s]) => Rank(kind[s], x) < Rank(kind[s], Head(todo[s]))
      BY <3>2, TailDescends DEF InOrder, Ahead
    <3>4. ASSUME NEW h \in Steps(s) \ {"store"}, h # Head(todo[s])
          PROVE  Written(s, h)' = Written(s, h)
      BY <1>0, <1>3, <3>4 DEF Moves, Written
    <3>5. f \notin Ahead(s)
      <4> SUFFICES ASSUME f \in Ahead(s) PROVE FALSE
        OBVIOUS
      <4>1. g \in Ahead(s)
        BY <3>2 DEF InOrder
      <4>2. g # Head(todo[s])
        BY <3>3, RanksAreNumbers
      <4> QED
        BY <3>1, <3>4, <4>1, <4>2
    <3>6. f # Head(todo[s])
      BY <3>3, <3>5
    <3> QED
      BY <3>1, <3>4, <3>5, <3>6
  <2> QED
    BY <2>1, <2>2
<1>5. UnitsHaveUpdates' /\ CountedIsStored' /\ OneIdOnePattern'
  BY StoreStays
<1> QED
  BY <1>2, <1>4, <1>5, Suffices DEF SessionInv

LEMMA FailuresKeep ==
  ASSUME IInv, NEW s \in Sessions, CompileFails(s) \/ StepFails(s) \/ Crash(s)
  PROVE  IInv'
<1> USE DEF CompileFails, StepFails, Crash, files
<1>0. TypeOK /\ SessionInv(s)
  BY DEF IInv
<1>1. /\ status[s] \in {"compiling", "running"} /\ Ends(s, "failed") /\ package' \in Writers
      /\ UNCHANGED <<clock, made>>
      /\ UNCHANGED <<kind, inspects, compiled, task, run_id, next_obs, ingested, store, failures>>
  BY <1>0 DEF TypeOK, Writers
<1>2. \/ dirs' = dirs
      \/ /\ status[s] = "running" /\ Head(todo[s]) \in Files
         /\ dirs' = [dirs EXCEPT ![run_id[s]][Head(todo[s])] = Torn]
  OBVIOUS
<1>3. dirs' \in [RunIds -> [Files -> Writers]]
  <2>1. dirs \in [RunIds -> [Files -> Writers]] /\ Torn \in Writers /\ run_id[s] \in RunIds
    BY <1>0 DEF TypeOK, Writers
  <2> QED
    BY <1>2, <2>1
<1>4. TypeOK'
  BY <1>0, <1>1, <1>3, EmptyPlan DEF TypeOK, Ends, Ran
<1>5. \A r \in RunIds, f \in Files :
         \/ dirs'[r][f] = dirs[r][f]
         \/ r = run_id[s] /\ f = Head(todo[s]) /\ status[s] = "running" /\ dirs'[r][f] = Torn
  BY <1>0, <1>2 DEF TypeOK
<1>6. Moves(s)
  BY <1>0, <1>1, <1>5 DEF Moves, Kept, TypeOK, Ran, Ends
<1>7. status[s] = "compiling" => dirs' = dirs
  BY <1>2
<1> QED
  BY <1>1, <1>4, <1>6, <1>7, FailsWhole

\* The session does the next of its steps, and the rest is still in order.
LEMMA GoesInOrder ==
  ASSUME IInv, NEW s \in Sessions, todo[s] # <<>>, Goes(s), TypeOK',
         kind'[s] = kind[s], inspects'[s] = inspects[s], compiled'[s] = compiled[s]
  PROVE  /\ status[s] = "running" /\ status'[s] \in {"running", "done"} /\ InOrder(s)'
         /\ Ahead(s)' = Ahead(s) \ {Head(todo[s])} /\ Steps(s)' = Steps(s)
         /\ Head(todo[s]) \in Ahead(s) /\ Head(todo[s]) \in Steps(s)
<1>0. TypeOK /\ InOrder(s) /\ todo[s] \in Seq(Entries)
  BY DEF IInv, SessionInv, TypeOK
<1>1. todo'[s] = Tail(todo[s]) /\ status'[s] = IF Len(todo[s]) = 1 THEN "done" ELSE status[s]
  BY <1>0 DEF Goes, TypeOK
<1>2. /\ Head(todo[s]) \in Elements(todo[s]) /\ Descends(kind[s], Tail(todo[s]))
      /\ Elements(Tail(todo[s])) = Elements(todo[s]) \ {Head(todo[s])}
      /\ \A x \in Elements(Tail(todo[s])) : Rank(kind[s], x) < Rank(kind[s], Head(todo[s]))
      /\ Len(todo[s]) = 1 <=> Tail(todo[s]) = <<>>
  BY <1>0, TailDescends DEF InOrder
<1>3. Ahead(s)' = Ahead(s) \ {Head(todo[s])} /\ Steps(s)' = Steps(s)
  BY <1>1, <1>2 DEF Ahead, Steps
<1>4. status[s] = "running"
  BY <1>0 DEF InOrder
<1>5. ASSUME NEW x \in Ahead(s)', NEW y \in Steps(s), Rank(kind[s], y) < Rank(kind[s], x)
      PROVE  y \in Ahead(s)'
  <2>1. y \in Ahead(s)
    BY <1>0, <1>3, <1>5 DEF InOrder
  <2>2. y # Head(todo[s])
    BY <1>1, <1>2, <1>5, RanksAreNumbers DEF Ahead
  <2> QED
    BY <1>3, <2>1, <2>2
<1>6. InOrder(s)'
  BY <1>0, <1>1, <1>2, <1>3, <1>4, <1>5 DEF InOrder
<1> QED
  BY <1>0, <1>1, <1>2, <1>3, <1>4, <1>6 DEF InOrder, Ahead

LEMMA WriteFileKeeps == ASSUME IInv, NEW s \in Sessions, WriteFile(s) PROVE IInv'
<1> USE DEF WriteFile
<1>0. TypeOK /\ SessionInv(s) /\ run_id[s] \in RunIds /\ todo[s] \in Seq(Entries)
  BY DEF IInv, TypeOK
<1> DEFINE f == Head(todo[s])
<1>1. Tail(todo[s]) \in Seq(Entries) /\ status[s] = "running" /\ f \in Files
  BY <1>0, TailDescends DEF SessionInv, InOrder
<1>2. dirs' \in [RunIds -> [Files -> Writers]]
  <2>1. dirs \in [RunIds -> [Files -> Writers]] /\ s \in Writers
    BY <1>0 DEF TypeOK, Writers
  <2> QED
    BY <1>0, <2>1
<1>3. TypeOK'
  <2>1. todo' \in [Sessions -> Seq(Entries)]
    BY <1>0, <1>1 DEF TypeOK, Goes
  <2>2. status' \in [Sessions -> {"new", "compiling"} \union Ran]
    BY <1>0, <1>1 DEF TypeOK, Goes, Ran
  <2> QED
    BY <1>0, <1>2, <2>1, <2>2 DEF TypeOK
<1>4. /\ dirs'[run_id[s]][f] = s
      /\ \A r \in RunIds, g \in Files : (r = run_id[s] /\ g = f) \/ dirs'[r][g] = dirs[r][g]
  BY <1>0, <1>1 DEF TypeOK
<1>5. Moves(s)
  BY <1>0, <1>1, <1>4 DEF Moves, Kept, TypeOK, Ran, Goes
<1>6. /\ status[s] = "running" /\ status'[s] \in {"running", "done"} /\ InOrder(s)'
      /\ Ahead(s)' = Ahead(s) \ {f} /\ Steps(s)' = Steps(s) /\ f \in Steps(s)
  BY <1>3, GoesInOrder
<1> HIDE DEF f
<1>7. ProgressShows(s)'
  <2> SUFFICES ASSUME Alone(s)', NEW g \in Steps(s) \ {"store"}
               PROVE  Written(s, g)' = IF g \in Ahead(s)' THEN Nobody ELSE s
    BY <1>6 DEF ProgressShows
  <2>1. Written(s, g) = IF g \in Ahead(s) THEN Nobody ELSE s
    BY <1>0, <1>5, <1>6, AloneBefore DEF SessionInv, ProgressShows, Ran
  <2>2. Written(s, g)' = IF g = f THEN s ELSE Written(s, g)
    BY <1>0, <1>4, StepsAreEntries DEF Written
  <2> QED
    BY <1>6, <2>1, <2>2
<1>8. FailureShows(s)'
  BY <1>6 DEF FailureShows
<1>9. CountsRight(s)'
  BY <1>0, <1>6 DEF SessionInv, CountsRight
<1>10. UnitsHaveUpdates' /\ CountedIsStored' /\ OneIdOnePattern'
  BY <1>5, StoreStays
<1> QED
  BY <1>3, <1>5, <1>6, <1>7, <1>8, <1>9, <1>10, Suffices DEF SessionInv

LEMMA IngestDoneKeeps == ASSUME IInv, NEW s \in Sessions, IngestDone(s) PROVE IInv'
<1> USE DEF IngestDone, files
<1>0. TypeOK /\ SessionInv(s) /\ todo[s] \in Seq(Entries)
  BY DEF IInv, TypeOK
<1>1. Tail(todo[s]) \in Seq(Entries) /\ status[s] = "running"
  BY <1>0, TailDescends DEF SessionInv, InOrder
<1>2. TypeOK'
  <2>1. todo' \in [Sessions -> Seq(Entries)]
    BY <1>0, <1>1 DEF TypeOK, Goes
  <2>2. status' \in [Sessions -> {"new", "compiling"} \union Ran]
    BY <1>0, <1>1 DEF TypeOK, Goes, Ran
  <2>3. next_obs' \in [Sessions -> 1 .. 4]
    BY <1>0 DEF TypeOK
  <2> QED
    BY <1>0, <2>1, <2>2, <2>3 DEF TypeOK
<1>3. Moves(s)
  BY <1>0, <1>1 DEF Moves, Kept, TypeOK, Ran, Goes
<1>4. /\ status[s] = "running" /\ status'[s] \in {"running", "done"} /\ InOrder(s)'
      /\ Ahead(s)' = Ahead(s) \ {"store"} /\ Steps(s)' = Steps(s)
  BY <1>2, GoesInOrder
<1>5. ProgressShows(s)'
  <2> SUFFICES ASSUME Alone(s)', NEW g \in Steps(s) \ {"store"}
               PROVE  Written(s, g)' = IF g \in Ahead(s)' THEN Nobody ELSE s
    BY <1>4 DEF ProgressShows
  <2>1. Written(s, g) = IF g \in Ahead(s) THEN Nobody ELSE s
    BY <1>0, <1>3, <1>4, AloneBefore DEF SessionInv, ProgressShows, Ran
  <2> QED
    BY <1>4, <2>1 DEF Written
<1>6. FailureShows(s)' /\ CountsRight(s)'
  BY <1>4 DEF FailureShows, CountsRight
<1>7. UnitsHaveUpdates' /\ CountedIsStored' /\ OneIdOnePattern'
  BY <1>3, StoreStays
<1> QED
  BY <1>2, <1>3, <1>4, <1>5, <1>6, <1>7, Suffices DEF SessionInv

(***************************************************************************)
(* An observation goes below the number of those ingested before it: its   *)
(* own position, if nothing of its task has failed.                        *)
(***************************************************************************)
LEMMA IngestingIs ==
  ASSUME IInv, NEW s \in Sessions, Ingesting(s)
  PROVE  /\ status[s] = "running" /\ "store" \in Ahead(s)
         /\ ingested[s] < next_obs[s] /\ next_obs[s] \in 1 .. 3 /\ ingested[s] \in 0 .. 2
         /\ obs_id(s) \in ObsIds /\ obs_id(s) = <<task[s], ingested[s]>> /\ task[s] \in Tasks
         /\ task[s] \notin failures => ingested[s] = next_obs[s] - 1
         /\ Alone(s) => Written(s, "update") = s
         /\ validates(Observations[next_obs[s]]) =>
              unit(s) \in Units /\ unit(s) # NoUnit /\ unit(s).by = s
         /\ unit(s).pattern = Observations[next_obs[s]]
<1>0. TypeOK /\ SessionInv(s) /\ todo[s] \in Seq(Entries) /\ task[s] \in Tasks
  BY DEF IInv, TypeOK
<1>1. status[s] = "running" /\ "store" \in Ahead(s) /\ "store" \in Steps(s)
  BY <1>0, TailDescends DEF Ingesting, SessionInv, InOrder, Ahead
<1>2. ingested[s] < next_obs[s] /\ next_obs[s] \in 1 .. 3 /\ ingested[s] \in 0 .. 2
  BY <1>0, <1>1, ObservationsAre DEF SessionInv, CountsRight, TypeOK, Ingesting
<1>3. task[s] \notin failures => ingested[s] = next_obs[s] - 1
  BY <1>0, <1>1, <1>2 DEF SessionInv, CountsRight
<1>4. Alone(s) => Written(s, "update") = s
  <2>1. Rank(kind[s], "update") > Rank(kind[s], "store")
    BY DEF Rank
  <2>2. \A x \in Ahead(s) : x # "store" => Rank(kind[s], x) < Rank(kind[s], "store")
    BY <1>0, TailDescends DEF Ingesting, SessionInv, InOrder, Ahead
  <2>3. "update" \notin Ahead(s)
    BY <2>1, <2>2, RanksAreNumbers
  <2> QED
    BY <1>0, <1>1, <2>3, StepsAreEntries DEF SessionInv, ProgressShows
<1>5. /\ unit(s).pattern = Observations[next_obs[s]] /\ unit(s).by = s
      /\ unit(s) = [pattern |-> Observations[next_obs[s]], ane_legal |-> compiled[s], by |-> s]
  BY DEF unit
<1>6. validates(Observations[next_obs[s]]) => Observations[next_obs[s]] \in Patterns
  BY <1>2, ObservationsAre DEF validates, Patterns
<1>7. validates(Observations[next_obs[s]]) => unit(s) \in Units /\ unit(s) # NoUnit
  <2>1. compiled[s] \in BOOLEAN
    BY <1>0 DEF TypeOK
  <2>2. NoUnit.pattern \notin Patterns
    BY DEF NoUnit, Patterns
  <2> QED
    BY <1>5, <1>6, <2>1, <2>2 DEF Units
<1>8. obs_id(s) \in ObsIds /\ obs_id(s) = <<task[s], ingested[s]>>
  BY <1>0, <1>2, ObsIdsAre DEF obs_id
<1> QED
  BY <1>0, <1>1, <1>2, <1>3, <1>4, <1>5, <1>7, <1>8

LEMMA Stores ==
  ASSUME IInv, NEW s \in Sessions, Moves(s), Ingesting(s), validates(Observations[next_obs[s]]),
         store' = [store EXCEPT ![obs_id(s)] = unit(s)], task' = task,
         ingested'[s] \in {ingested[s], ingested[s] + 1}
  PROVE  UnitsHaveUpdates' /\ CountedIsStored' /\ OneIdOnePattern'
<1>1. store \in [ObsIds -> Units] /\ task \in [Sessions -> Tasks] /\ ingested \in [Sessions -> 0 .. 3]
  BY DEF IInv, TypeOK
<1>2. /\ \A id \in ObsIds : store'[id] = IF id = obs_id(s) THEN unit(s) ELSE store[id]
      /\ unit(s) # NoUnit /\ unit(s).by = s
  BY <1>1, IngestingIs
<1>3. UnitsHaveUpdates'
  <2> SUFFICES ASSUME NEW id \in ObsIds, NEW x \in Sessions, store'[id].by = x
               PROVE  status'[x] \in Ran /\ (Alone(x)' => Written(x, "update")' = x)
    BY DEF UnitsHaveUpdates
  <2>1. status[x] \in Ran /\ (Alone(x) => Written(x, "update") = x)
    BY <1>2, IngestingIs DEF IInv, UnitsHaveUpdates, Ran
  <2> QED
    BY <2>1, UpdatesStay
<1>4. CountedIsStored'
  <2> SUFFICES ASSUME NEW x \in Sessions, NEW n \in 0 .. ingested'[x] - 1
               PROVE  store'[<<task[x], n>>] # NoUnit
    BY DEF CountedIsStored
  <2>1. ingested[s] \in 0 .. 2 /\ obs_id(s) = <<task[s], ingested[s]>>
    BY IngestingIs
  <2>2. CASE n \in 0 .. ingested[x] - 1
    <3>1. <<task[x], n>> \in ObsIds
      BY <1>1, <2>2, ObsIdsAre
    <3>2. store[<<task[x], n>>] # NoUnit
      BY <2>2 DEF IInv, CountedIsStored
    <3> QED
      BY <1>2, <3>1, <3>2
  <2>3. CASE n \notin 0 .. ingested[x] - 1
    <3>1. x = s /\ n = ingested[s]
      BY <1>1, <2>1, <2>3 DEF Moves, Kept
    <3>2. obs_id(s) \in ObsIds
      BY IngestingIs
    <3> QED
      BY <1>2, <2>1, <3>1, <3>2
  <2> QED
    BY <2>2, <2>3
<1>5. OneIdOnePattern'
  <2> SUFFICES ASSUME NEW t \in Tasks \ failures, NEW n \in 0 .. 3, store'[<<t, n>>] # NoUnit
               PROVE  store'[<<t, n>>].pattern = Observations[n + 1]
    BY ObservationsAre DEF OneIdOnePattern, Moves
  <2>1. <<t, n>> \in ObsIds
    BY ObsIdsAre
  <2>2. CASE <<t, n>> = obs_id(s)
    <3>1. t = task[s] /\ n = next_obs[s] - 1 /\ next_obs[s] \in 1 .. 3
      BY <2>2, IngestingIs
    <3>2. store'[<<t, n>>].pattern = Observations[next_obs[s]]
      BY <1>2, <2>1, <2>2, IngestingIs
    <3> QED
      BY <3>1, <3>2
  <2>3. CASE <<t, n>> # obs_id(s)
    <3>1. store[<<t, n>>] # NoUnit /\ store'[<<t, n>>] = store[<<t, n>>]
      BY <1>2, <2>1, <2>3
    <3>2. OneIdOnePattern /\ n \in 0 .. Len(Observations)
      BY ObservationsAre DEF IInv
    <3> QED
      BY <3>1, <3>2 DEF OneIdOnePattern
  <2> QED
    BY <2>2, <2>3
<1> QED
  BY <1>3, <1>4, <1>5

LEMMA IngestionKeeps ==
  ASSUME IInv, NEW s \in Sessions, Ingest(s) \/ IngestFails(s) PROVE IInv'
<1> USE DEF Ingest, IngestFails, NextObservation, counted, files
<1>0. TypeOK /\ SessionInv(s)
  BY DEF IInv
<1>1. /\ Ingesting(s) /\ next_obs' = [next_obs EXCEPT ![s] = @ + 1]
      /\ UNCHANGED <<clock, todo, status, kind, inspects, task, compiled, run_id, dirs, made, package>>
      /\ failures' \in {failures, failures \union {task[s]}}
      /\ ingested' = [ingested EXCEPT ![s] = @ + 1] \/ ingested' = ingested
  OBVIOUS
<1>2. /\ status[s] = "running" /\ ingested[s] < next_obs[s]
      /\ next_obs[s] \in 1 .. 3 /\ ingested[s] \in 0 .. 2
      /\ obs_id(s) \in ObsIds /\ task[s] \in Tasks
      /\ task[s] \notin failures => ingested[s] = next_obs[s] - 1
      /\ validates(Observations[next_obs[s]]) => unit(s) \in Units
  BY <1>1, IngestingIs
<1>3. \/ store' = store
      \/ /\ store' = [store EXCEPT ![obs_id(s)] = unit(s)]
         /\ validates(Observations[next_obs[s]])
  OBVIOUS
<1>4. TypeOK'
  <2>1. next_obs' \in [Sessions -> 1 .. 4] /\ ingested' \in [Sessions -> 0 .. 3]
    <3>1. next_obs[s] + 1 \in 1 .. 4 /\ ingested[s] + 1 \in 0 .. 3
      BY <1>2
    <3> QED
      BY <1>0, <1>1, <3>1 DEF TypeOK
  <2>2. store' \in [ObsIds -> Units] /\ failures' \subseteq Tasks
    BY <1>0, <1>1, <1>2, <1>3 DEF TypeOK
  <2> QED
    BY <1>0, <1>1, <2>1, <2>2 DEF TypeOK
<1>5. Moves(s)
  BY <1>0, <1>1, <1>2 DEF Moves, Kept, TypeOK, Ran
<1>6. InOrder(s)' /\ Ahead(s)' = Ahead(s) /\ Steps(s)' = Steps(s)
  BY <1>0, <1>1 DEF SessionInv, InOrder, Ahead, Steps, Descends
<1>7. ProgressShows(s)' /\ FailureShows(s)'
  BY <1>0, <1>1, <1>2, <1>5, <1>6, AloneBefore
     DEF SessionInv, ProgressShows, FailureShows, Written, Ran
<1>8. CountsRight(s)'
  <2>1. next_obs'[s] = next_obs[s] + 1 /\ ingested'[s] \in {ingested[s], ingested[s] + 1}
    BY <1>0, <1>1 DEF TypeOK
  <2>2. ASSUME task[s] \notin failures', next_obs'[s] <= 3
        PROVE  ingested'[s] = next_obs'[s] - 1
    <3>1. validates(Observations[next_obs[s]])
      BY <1>2, <2>1, <2>2, ObservationsAre DEF validates
    <3>2. ingested' = [ingested EXCEPT ![s] = @ + 1]
      BY <2>2, <3>1
    <3> QED
      BY <1>0, <1>2, <1>5, <2>1, <2>2, <3>2 DEF TypeOK, Moves
  <2> QED
    BY <1>1, <1>2, <2>1, <2>2 DEF CountsRight
<1>9. UnitsHaveUpdates' /\ CountedIsStored' /\ OneIdOnePattern'
  <2>1. ingested'[s] \in {ingested[s], ingested[s] + 1}
    BY <1>0, <1>1 DEF TypeOK
  <2>2. CASE store' = [store EXCEPT ![obs_id(s)] = unit(s)] /\ validates(Observations[next_obs[s]])
    BY <1>1, <1>5, <2>1, <2>2, Stores
  <2>3. CASE store' = store /\ ingested' = ingested
    BY <1>0, <1>1, <1>5, <2>3, StoreStays
  <2> QED
    BY <2>2, <2>3
<1> QED
  BY <1>4, <1>5, <1>6, <1>7, <1>8, <1>9, Suffices DEF SessionInv

LEMMA TickKeeps == ASSUME IInv, Tick \/ UNCHANGED vars PROVE IInv'
<1>1. UNCHANGED <<session, files, store, failures>> /\ clock' \in 0 .. MaxSecond
  BY LabConstants DEF IInv, TypeOK, Tick, vars
<1> USE <1>1 DEF session, files
<1>2. TypeOK'
  BY DEF IInv, TypeOK
<1>3. ASSUME NEW s \in Sessions PROVE SessionInv(s)'
  <2>1. /\ Ahead(s)' = Ahead(s) /\ Steps(s)' = Steps(s) /\ (Alone(s))' = Alone(s)
        /\ Descends(kind[s], todo[s])' = Descends(kind[s], todo[s])
        /\ \A f : Written(s, f)' = Written(s, f)
    BY DEF Ahead, Steps, Alone, Descends, Written
  <2>2. SessionInv(s)
    BY DEF IInv
  <2> QED
    BY <2>1, <2>2
       DEF SessionInv, InOrder, ProgressShows, FailureShows, EarlierIsWhole, CountsRight
<1>4. FilesHaveWriters'
  BY DEF IInv, FilesHaveWriters
<1>5. UnitsHaveUpdates' /\ CountedIsStored' /\ OneIdOnePattern'
  BY DEF IInv, UnitsHaveUpdates, CountedIsStored, OneIdOnePattern, Alone, Written
<1> QED
  BY <1>2, <1>3, <1>4, <1>5 DEF IInv

LEMMA StepKeeps == ASSUME IInv, [Next]_vars PROVE IInv'
BY StartKeeps, CompileKeeps, WriteFileKeeps, FailuresKeep, IngestionKeeps, IngestDoneKeeps,
   TickKeeps DEF Next

(* Run directories and the store agree with what the sessions have done.   *)
THEOREM LabInvariant == Spec => []IInv
<1>1. Init => IInv
  BY InitHolds
<1>2. IInv /\ [Next]_vars => IInv'
  BY StepKeeps
<1> QED
  BY <1>1, <1>2, PTL DEF Spec

(* A run directory that validate_run_directory accepts, because run.json   *)
(* and manifest.json are there, has every other file of its run, whole,    *)
(* wherever the session that wrote it failed or crashed.                   *)
THEOREM AcceptedRunsAreComplete == Spec => []ValidRunsAreComplete
<1>1. ASSUME IInv PROVE ValidRunsAreComplete
  <2> SUFFICES ASSUME NEW s \in Recorded, Alone(s),
                      Written(s, "run") # Nobody, Written(s, "manifest") # Nobody
               PROVE  /\ \A f \in {"mir", "baseline", "drift", "update"} : Written(s, f) = s
                      /\ compiled[s] /\ inspects[s] => Written(s, "inspection") = s
    BY DEF ValidRunsAreComplete
  <2>1. s \in Sessions /\ SessionInv(s) /\ kind[s] \in Kinds
    BY <1>1 DEF Recorded, IInv, TypeOK
  <2>2. EarlierIsWhole(s)
    <3>1. CASE status[s] = "failed"
      BY <2>1, <3>1 DEF SessionInv, FailureShows
    <3>2. CASE status[s] \in {"running", "done"}
      <4> SUFFICES ASSUME NEW f \in Steps(s) \ {"store"}, NEW g \in Steps(s) \ {"store"},
                          Rank(kind[s], f) > Rank(kind[s], g), Written(s, g) # Nobody
                   PROVE  Written(s, f) = s
        BY DEF EarlierIsWhole
      <4>1. g \notin Ahead(s)
        BY <2>1, <3>2 DEF SessionInv, ProgressShows
      <4>2. f \notin Ahead(s)
        BY <2>1, <4>1 DEF SessionInv, InOrder
      <4> QED
        BY <2>1, <3>2, <4>2 DEF SessionInv, ProgressShows
    <3> QED
      BY <3>1, <3>2 DEF Recorded
  <2>3. \A f \in {"mir", "baseline", "drift", "update", "inspection"} :
           \/ Rank(kind[s], f) > Rank(kind[s], "run")
           \/ Rank(kind[s], f) > Rank(kind[s], "manifest")
    BY <2>1 DEF Kinds, Rank
  <2>4. /\ {"mir", "baseline", "drift", "update", "run", "manifest"} \subseteq Steps(s) \ {"store"}
        /\ compiled[s] /\ inspects[s] => "inspection" \in Steps(s) \ {"store"}
    BY DEF Steps
  <2> QED
    BY <2>2, <2>3, <2>4 DEF EarlierIsWhole
<1> QED
  BY <1>1, LabInvariant, PTL

(* A run whose observation is in the knowledge store has left the update   *)
(* it came from in its run directory.                                      *)
THEOREM KnowledgeHasItsUpdate == Spec => []KnowledgeIsAccountedFor
<1>1. ASSUME IInv PROVE KnowledgeIsAccountedFor
  <2> SUFFICES ASSUME NEW id \in ObsIds, store[id].by # Nobody, Alone(store[id].by)
               PROVE  Written(store[id].by, "update") = store[id].by
    BY DEF KnowledgeIsAccountedFor
  <2>1. store[id].by \in Sessions
    BY <1>1 DEF IInv, TypeOK, Units, NoUnit
  <2> QED
    BY <1>1, <2>1 DEF IInv, UnitsHaveUpdates
<1> QED
  BY <1>1, LabInvariant, PTL

(* What a manifest of a lab loop reports as ingested is in the store, and  *)
(* one id never stands for two patterns while no insertion of its task has *)
(* failed.                                                                 *)
THEOREM ReportedKnowledgeIsStored == Spec => []IngestedIsStored
<1>1. ASSUME IInv PROVE ReportedIsStored
  <2> SUFFICES ASSUME NEW s \in Sessions, NEW n \in 0 .. ingested[s] - 1
               PROVE  store[<<task[s], n>>].pattern \in {"mb.matmul", "mb.add"}
    BY DEF ReportedIsStored
  <2>1. <<task[s], n>> \in ObsIds
    <3>1. ingested[s] \in 0 .. 3 /\ task[s] \in Tasks
      BY <1>1 DEF IInv, TypeOK
    <3>2. n \in 0 .. 3
      BY <3>1
    <3> QED
      BY <3>1, <3>2, ObsIdsAre
  <2>2. store[<<task[s], n>>] # NoUnit /\ store[<<task[s], n>>] \in Units
    BY <1>1, <2>1 DEF IInv, CountedIsStored, TypeOK
  <2> QED
    BY <2>2 DEF Units, Patterns
<1>2. IInv => IngestedIsStored
  BY <1>1 DEF IngestedIsStored, IInv
<1> QED
  BY <1>2, LabInvariant, PTL

=============================================================================
