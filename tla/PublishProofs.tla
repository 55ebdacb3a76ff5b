---------------------------- MODULE PublishProofs ----------------------------
(***************************************************************************)
(* Proofs about Publish, for all postings, all Mondays, any number of      *)
(* pods, of runs by hand and of writes to the tables, and any set of       *)
(* statements that fail.                                                   *)
(*                                                                         *)
(* TypeInv says which files are there and which of them is half written;   *)
(* ReportInv adds what a run that nothing disturbs has computed so far;    *)
(* NewestInv adds which weeks there can be, and where a row can be missing.*)
(***************************************************************************)
EXTENDS Publish, CalendarProofs, FiniteSetTheorems, TLAPS

----------------------------------------------------------------------------
(* Runs                                                                    *)

\* What is known of one run.
RunFit(x) ==
  /\ x = [at |-> x.at, week |-> x.week, report |-> x.report, clean |-> x.clean]
  /\ x.at \in 0..11 /\ x.clean \in BOOLEAN
  /\ x.at # 0 => x.week \in Mondays

\* The three fields of a run that a step replaces.
LEMMA WithAt ==
  ASSUME NEW x, RunFit(x), NEW n
  PROVE  [x EXCEPT !.at = n] = [at |-> n, week |-> x.week, report |-> x.report, clean |-> x.clean]
<1> DEFINE S == [at : {x.at}, week : {x.week}, report : {x.report}, clean : {x.clean}]
<1>1. x \in S
  BY DEF RunFit
<1> QED
  BY <1>1

LEMMA WithReport ==
  ASSUME NEW x, RunFit(x), NEW n
  PROVE  [x EXCEPT !.report = n] = [at |-> x.at, week |-> x.week, report |-> n, clean |-> x.clean]
<1> DEFINE S == [at : {x.at}, week : {x.week}, report : {x.report}, clean : {x.clean}]
<1>1. x \in S
  BY DEF RunFit
<1> QED
  BY <1>1

LEMMA WithClean ==
  ASSUME NEW x, RunFit(x), NEW n
  PROVE  [x EXCEPT !.clean = n] = [at |-> x.at, week |-> x.week, report |-> x.report, clean |-> n]
<1> DEFINE S == [at : {x.at}, week : {x.week}, report : {x.report}, clean : {x.clean}]
<1>1. x \in S
  BY DEF RunFit
<1> QED
  BY <1>1

\* The order of the steps.
LEMMA StepAt ==
  /\ DOMAIN Steps = 1..11
  /\ \A i \in 1..11 :
       /\ Steps[i] = "clear" <=> i = 1
       /\ Steps[i] = "figures" <=> i = 2
       /\ Steps[i] = "layer" <=> i = 3
       /\ Steps[i] = "rows" <=> i = 4
       /\ Steps[i] = "html" <=> i = 5
       /\ Steps[i] = "html_filled" <=> i = 6
       /\ Steps[i] = "latest" <=> i = 7
       /\ Steps[i] = "latest_filled" <=> i = 8
       /\ Steps[i] = "record" <=> i = 9
       /\ Steps[i] = "push" <=> i = 10
       /\ Steps[i] = "exit" <=> i = 11
  BY DEF Steps

\* StepOf is the place of a step in that order.
LEMMA StepOfIs ==
  ASSUME NEW s, NEW k \in 1..11, \A i \in 1..11 : Steps[i] = s <=> i = k
  PROVE  StepOf(s) = k
<1>1. \E i \in DOMAIN Steps : Steps[i] = s
  BY StepAt
<1>2. StepOf(s) \in DOMAIN Steps /\ Steps[StepOf(s)] = s
  BY <1>1, Zenon DEF StepOf
<1> QED
  BY <1>2, StepAt

\* Where the steps are that the definitions name.
LEMMA StepNumbers ==
  StepOf("figures") = 2 /\ StepOf("layer") = 3 /\ StepOf("rows") = 4 /\ StepOf("html") = 5
<1>1. \A i \in 1..11 : Steps[i] = "figures" <=> i = 2
  BY StepAt
<1>2. \A i \in 1..11 : Steps[i] = "layer" <=> i = 3
  BY StepAt
<1>3. \A i \in 1..11 : Steps[i] = "rows" <=> i = 4
  BY StepAt
<1>4. \A i \in 1..11 : Steps[i] = "html" <=> i = 5
  BY StepAt
<1>5. StepOf("figures") = 2 /\ StepOf("layer") = 3
  BY <1>1, <1>2, StepOfIs
<1>6. StepOf("rows") = 4 /\ StepOf("html") = 5
  BY <1>3, <1>4, StepOfIs
<1> QED
  BY <1>5, <1>6

\* The runs are runs, and a file has been begun before it is filled, recorded
\* or linked to.
RunsFit ==
  /\ run = [r \in Runner |-> run[r]] /\ \A r \in Runner : RunFit(run[r])

\* Only r's run is changed.
OthersSame(r) == run' = [q \in Runner |-> run'[q]] /\ \A q \in Runner \ {r} : run'[q] = run[q]

\* A step that keeps what was computed changes nothing but the place of its run.
LEMMA AdvanceEffect ==
  ASSUME RunsFit, NEW r \in Runner, Advance(r), run[r].at \in 1..10
  PROVE  /\ RunsFit' /\ OthersSame(r) /\ run'[r].at = run[r].at + 1
         /\ run'[r].week = run[r].week /\ run'[r].report = run[r].report
         /\ run'[r].clean = run[r].clean
<1> DEFINE x == [at |-> run[r].at + 1, week |-> run[r].week, report |-> run[r].report,
                 clean |-> run[r].clean]
<1>1. RunFit(run[r])
  BY DEF RunsFit
<1>2. [run[r] EXCEPT !.at = run[r].at + 1] = x
  BY <1>1, WithAt
<1>3. run' = [run EXCEPT ![r] = x]
  BY <1>2 DEF Advance
<1>4. RunFit(x) /\ x.at = run[r].at + 1 /\ x.week = run[r].week /\ x.report = run[r].report
      /\ x.clean = run[r].clean
  BY <1>1 DEF RunFit
<1> HIDE DEF x
<1>5. run'[r] = x /\ OthersSame(r)
  BY <1>3 DEF OthersSame, RunsFit
<1>6. \A q \in Runner : RunFit(run'[q])
  BY <1>4, <1>5 DEF RunsFit, OthersSame
<1> QED
  BY <1>4, <1>5, <1>6 DEF RunsFit, OthersSame, RunFit

\* All weeks of the model start on a Monday.
LEMMA MondaysFit ==
  ASSUME NEW m \in Mondays
  PROVE  m \in Int /\ m % 7 = 0 /\ m # None
<1>1. SGTDay(Firing) \in Int
  BY PublishAssumption, DayOfInstant
<1>2. targetWeek \in Int /\ targetWeek % 7 = 0
  BY <1>1, MondayBefore DEF targetWeek
<1>3. m \in Int /\ m % 7 = 0
  BY <1>2, PublishAssumption DEF Mondays
<1> QED
  BY <1>3, PublishAssumption

\* The position, week and report of every run but r's are the same.
Behind(r) ==
  \A q \in Runner \ {r} : /\ run'[q].at = run[q].at /\ run'[q].week = run[q].week
                          /\ run'[q].report = run[q].report

\* A run starts with nothing, and a run that is clean then is alone.
LEMMA BeginEffect ==
  ASSUME RunsFit, NEW r \in Runner, NEW m \in Mondays, Begin(r, m), ~Active(r)
  PROVE  /\ RunsFit' /\ Behind(r)
         /\ run'[r].at = 1 /\ run'[r].week = m /\ run'[r].report = <<>>
         /\ \A q \in Runner : run'[q].at # 0 /\ run'[q].clean =>
              \A p \in Runner \ {q} : run'[p].at = 0
<1> DEFINE x == [at |-> 1, week |-> m, report |-> <<>>, clean |-> TRUE]
           f == [run EXCEPT ![r] = x]
           Calm(q) == [at |-> f[q].at, week |-> f[q].week, report |-> f[q].report, clean |-> FALSE]
<1>1. Begun(m) = x /\ RunFit(x)
  BY DEF Begun, RunFit
<1>2. /\ f = [q \in Runner |-> f[q]] /\ f[r] = x /\ \A q \in Runner \ {r} : f[q] = run[q]
      /\ \A q \in Runner : RunFit(f[q])
  BY <1>1 DEF RunsFit
<1>3. run' = IF \E q \in Runner \ {r} : Active(q) THEN Disturbed(f) ELSE f
  BY <1>1 DEF Begin
<1>x. x.at = 1 /\ x.week = m /\ x.report = <<>>
  OBVIOUS
<1> HIDE DEF f, x
<1>4. \A q \in Runner : [f[q] EXCEPT !.clean = FALSE] = Calm(q)
  BY <1>2, WithClean
<1>5. CASE ~ \E q \in Runner \ {r} : Active(q)
  <2>1. run' = f
    BY <1>3, <1>5
  <2>2. \A q \in Runner \ {r} : f[q].at = 0
    BY <1>2, <1>5 DEF Active
  <2> QED
    BY <1>2, <1>x, <2>1, <2>2 DEF RunsFit, Behind
<1>6. CASE \E q \in Runner \ {r} : Active(q)
  <2>1. run' = [q \in Runner |-> IF f[q].at = 0 THEN f[q] ELSE Calm(q)]
    BY <1>3, <1>4, <1>6 DEF Disturbed
  <2>2. \A q \in Runner : run'[q] = IF f[q].at = 0 THEN f[q] ELSE Calm(q)
    BY <2>1
  <2>3. ASSUME NEW q \in Runner
        PROVE  /\ RunFit(run'[q])
               /\ run'[q].at = f[q].at /\ run'[q].week = f[q].week
               /\ run'[q].report = f[q].report
               /\ run'[q].at # 0 => run'[q].clean = FALSE
    <3>1. CASE f[q].at = 0
      <4>1. run'[q] = f[q]
        BY <2>2, <3>1
      <4> QED
        BY <1>2, <3>1, <4>1
    <3>2. CASE f[q].at # 0
      <4>1. run'[q] = Calm(q)
        BY <2>2, <3>2
      <4>2. /\ Calm(q).at = f[q].at /\ Calm(q).week = f[q].week /\ Calm(q).report = f[q].report
            /\ Calm(q).clean = FALSE
        OBVIOUS
      <4>3. RunFit(Calm(q))
        BY <1>2 DEF RunFit
      <4> QED
        BY <4>1, <4>2, <4>3
    <3> QED
      BY <3>1, <3>2
  <2>4. run' = [q \in Runner |-> run'[q]]
    BY <2>1
  <2> QED
    BY <1>2, <1>x, <2>3, <2>4 DEF RunsFit, Behind
<1> QED
  BY <1>5, <1>6

\* A write leaves the runs where they are, and none that still computes is clean.
LEMMA DisturbEffect ==
  ASSUME RunsFit, Disturb
  PROVE  /\ RunsFit'
         /\ \A q \in Runner : /\ run'[q].at = run[q].at /\ run'[q].week = run[q].week
                              /\ run'[q].report = run[q].report
                              /\ run'[q].clean <=> (run[q].clean /\ run[q].at \notin 1..5)
<1> DEFINE Calm(q) == [at |-> run[q].at, week |-> run[q].week, report |-> run[q].report, clean |-> FALSE]
<1>1. \A q \in Runner : RunFit(run[q])
  BY DEF RunsFit
<1>2. \A q \in Runner : [run[q] EXCEPT !.clean = FALSE] = Calm(q)
  BY <1>1, WithClean
<1>3. \A q \in Runner : Unused(q) <=> run[q].at \in 1..5
  BY StepNumbers DEF Unused
<1>4. run' = [q \in Runner |-> IF run[q].at \in 1..5 THEN Calm(q) ELSE run[q]]
  BY <1>2, <1>3 DEF Disturb
<1>5. \A q \in Runner : run'[q] = IF run[q].at \in 1..5 THEN Calm(q) ELSE run[q]
  BY <1>4
<1>6. ASSUME NEW q \in Runner
      PROVE  /\ RunFit(run'[q])
             /\ run'[q].at = run[q].at /\ run'[q].week = run[q].week
             /\ run'[q].report = run[q].report
             /\ run'[q].clean <=> (run[q].clean /\ run[q].at \notin 1..5)
  <2>1. CASE run[q].at \in 1..5
    <3>1. run'[q] = Calm(q)
      BY <1>5, <2>1
    <3>2. /\ Calm(q).at = run[q].at /\ Calm(q).week = run[q].week /\ Calm(q).report = run[q].report
          /\ Calm(q).clean = FALSE
      OBVIOUS
    <3>3. RunFit(Calm(q))
      BY <1>1 DEF RunFit
    <3> QED
      BY <2>1, <3>1, <3>2, <3>3
  <2>2. CASE run[q].at \notin 1..5
    <3>1. run'[q] = run[q]
      BY <1>5, <2>2
    <3> QED
      BY <1>1, <2>2, <3>1
  <2> QED
    BY <2>1, <2>2
<1>7. run' = [q \in Runner |-> run'[q]]
  BY <1>4
<1> QED
  BY <1>6, <1>7 DEF RunsFit

\* A run that ends or is killed keeps no place.
LEMMA StopEffect ==
  ASSUME RunsFit, NEW r \in Runner, run' = [run EXCEPT ![r] = Idle]
  PROVE  /\ RunsFit' /\ OthersSame(r) /\ run'[r].at = 0
<1>1. RunFit(Idle) /\ Idle.at = 0
  BY DEF RunFit, Idle
<1>2. run'[r] = Idle /\ OthersSame(r)
  BY DEF OthersSame, RunsFit
<1> QED
  BY <1>1, <1>2 DEF RunsFit, OthersSame

\* The report of a run that goes on.
LEMMA ReportEffect ==
  ASSUME RunsFit, NEW r \in Runner, run[r].at \in 1..10, NEW x, AdvanceWith(r, x)
  PROVE  /\ RunsFit' /\ OthersSame(r) /\ run'[r].at = run[r].at + 1
         /\ run'[r].week = run[r].week /\ run'[r].report = x
         /\ run'[r].clean = run[r].clean
<1> DEFINE y == [at |-> run[r].at + 1, week |-> run[r].week, report |-> run[r].report,
                 clean |-> run[r].clean]
           z == [at |-> y.at, week |-> y.week, report |-> x, clean |-> y.clean]
<1>1. RunFit(run[r])
  BY DEF RunsFit
<1>2. [run[r] EXCEPT !.at = run[r].at + 1] = y
  BY <1>1, WithAt
<1>3. RunFit(y)
  BY <1>1 DEF RunFit
<1>4. [y EXCEPT !.report = x] = z
  BY <1>3, WithReport
<1>5. run' = [[run EXCEPT ![r] = y] EXCEPT ![r] = z]
  BY <1>2, <1>4 DEF RunsFit, AdvanceWith
<1>6. RunFit(z) /\ z.at = run[r].at + 1 /\ z.week = run[r].week /\ z.report = x
      /\ z.clean = run[r].clean
  BY <1>3 DEF RunFit
<1> HIDE DEF y, z
<1>7. run'[r] = z /\ OthersSame(r)
  BY <1>5 DEF OthersSame, RunsFit
<1>8. \A q \in Runner : RunFit(run'[q])
  BY <1>6, <1>7 DEF RunsFit, OthersSame
<1> QED
  BY <1>6, <1>7, <1>8 DEF RunsFit, OthersSame

-----------------------------------------------------------------------------
(* Pages and links                                                         *)

Html(m) == <<"html", ISOWeekLabel(m)>>

Latest == <<"latest">>

AllNames == FigureNames \cup LayerNames

PageFit(n, page) ==
  /\ n = Latest \/ \E m \in Mondays : n = Html(m)
  /\ page # Torn =>
       DOMAIN page.report = AllNames /\ (n # Latest => n = Html(page.week))

\* A file that a run has begun, or that was recorded or linked to, is there.
Half(r, n) ==
  \/ run[r].at = 6 /\ n = Html(run[r].week)
  \/ run[r].at = 8 /\ n = Latest

FilesFit ==
  /\ \A n \in DOMAIN file : PageFit(n, file[n])
  /\ \A r \in Runner : /\ run[r].at > 5 => Html(run[r].week) \in DOMAIN file
                       /\ run[r].at > 7 => Latest \in DOMAIN file
  /\ \A m \in recorded : m \in Mondays /\ Html(m) \in DOMAIN file /\ Latest \in DOMAIN file
  /\ \A l \in pushed : l.week \in Mondays /\ l.label = ISOWeekLabel(l.week) /\ Html(l.week) \in DOMAIN file
  /\ hurt \subseteq DOMAIN file \cup ({"rows"} \X Mondays)
  /\ \A n \in DOMAIN file : file[n] = Torn => n \in hurt \/ \E r \in Runner : Half(r, n)

\* The two files of a run.
LEMMA NameOfIs ==
  ASSUME NEW r \in Runner
  PROVE  NameOf(r, "html") = Html(run[r].week) /\ NameOf(r, "latest") = Latest
  BY DEF NameOf, Html, Latest

\* A run is at the step that its place names.
LEMMA AtStep ==
  ASSUME RunsFit, NEW r \in Runner, NEW s, NEW k \in 1..11,
         \A i \in 1..11 : Steps[i] = s <=> i = k
  PROVE  At(r, s) <=> run[r].at = k
<1>1. run[r].at \in 0..11
  BY DEF RunsFit, RunFit
<1>2. CASE run[r].at = 0
  BY <1>2 DEF At, Active
<1>3. CASE run[r].at # 0
  <2>1. run[r].at \in 1..11
    BY <1>1, <1>3
  <2> QED
    BY <1>3, <2>1 DEF At, Active
<1> QED
  BY <1>2, <1>3

\* Where a run is, by the name of its step.
LEMMA AtIs ==
  ASSUME RunsFit, NEW r \in Runner
  PROVE  /\ At(r, "clear") <=> run[r].at = 1
         /\ At(r, "figures") <=> run[r].at = 2
         /\ At(r, "layer") <=> run[r].at = 3
         /\ At(r, "rows") <=> run[r].at = 4
         /\ At(r, "html") <=> run[r].at = 5
         /\ At(r, "html_filled") <=> run[r].at = 6
         /\ At(r, "latest") <=> run[r].at = 7
         /\ At(r, "latest_filled") <=> run[r].at = 8
         /\ At(r, "record") <=> run[r].at = 9
         /\ At(r, "push") <=> run[r].at = 10
         /\ At(r, "exit") <=> run[r].at = 11
<1>1. At(r, "clear") <=> run[r].at = 1
  <2>1. \A i \in 1..11 : Steps[i] = "clear" <=> i = 1
    BY StepAt
  <2> QED
    BY <2>1, AtStep
<1>2. At(r, "figures") <=> run[r].at = 2
  <2>1. \A i \in 1..11 : Steps[i] = "figures" <=> i = 2
    BY StepAt
  <2> QED
    BY <2>1, AtStep
<1>3. At(r, "layer") <=> run[r].at = 3
  <2>1. \A i \in 1..11 : Steps[i] = "layer" <=> i = 3
    BY StepAt
  <2> QED
    BY <2>1, AtStep
<1>4. At(r, "rows") <=> run[r].at = 4
  <2>1. \A i \in 1..11 : Steps[i] = "rows" <=> i = 4
    BY StepAt
  <2> QED
    BY <2>1, AtStep
<1>5. At(r, "html") <=> run[r].at = 5
  <2>1. \A i \in 1..11 : Steps[i] = "html" <=> i = 5
    BY StepAt
  <2> QED
    BY <2>1, AtStep
<1>6. At(r, "html_filled") <=> run[r].at = 6
  <2>1. \A i \in 1..11 : Steps[i] = "html_filled" <=> i = 6
    BY StepAt
  <2> QED
    BY <2>1, AtStep
<1>7. At(r, "latest") <=> run[r].at = 7
  <2>1. \A i \in 1..11 : Steps[i] = "latest" <=> i = 7
    BY StepAt
  <2> QED
    BY <2>1, AtStep
<1>8. At(r, "latest_filled") <=> run[r].at = 8
  <2>1. \A i \in 1..11 : Steps[i] = "latest_filled" <=> i = 8
    BY StepAt
  <2> QED
    BY <2>1, AtStep
<1>9. At(r, "record") <=> run[r].at = 9
  <2>1. \A i \in 1..11 : Steps[i] = "record" <=> i = 9
    BY StepAt
  <2> QED
    BY <2>1, AtStep
<1>10. At(r, "push") <=> run[r].at = 10
  <2>1. \A i \in 1..11 : Steps[i] = "push" <=> i = 10
    BY StepAt
  <2> QED
    BY <2>1, AtStep
<1>11. At(r, "exit") <=> run[r].at = 11
  <2>1. \A i \in 1..11 : Steps[i] = "exit" <=> i = 11
    BY StepAt
  <2> QED
    BY <2>1, AtStep
<1> QED
  BY <1>1, <1>2, <1>3, <1>4, <1>5, <1>6, <1>7, <1>8, <1>9, <1>10, <1>11

\* What a run that is stopped leaves half done: a file or the rows of its week.
LEMMA HalfDoneIs ==
  ASSUME RunsFit, NEW r \in Runner
  PROVE  \A n : n \in HalfDone(r) <=>
           Half(r, n) \/ (run[r].at \in 2..4 /\ n = <<"rows", run[r].week>>)
<1>4. Filled("html") = "html_filled" /\ Filled("latest") = "latest_filled"
  BY DEF Filled
<1>5. \A n : (\E f \in {g \in Files : At(r, Filled(g))} : n = NameOf(r, f)) <=> Half(r, n)
  <2>1. Files = {"html", "latest"}
    BY DEF Files
  <2> QED
    BY AtIs, <1>4, <2>1, NameOfIs DEF Half
<1>6. StepOf("rows") = 4
  BY StepNumbers
<1> QED
  BY <1>5, <1>6 DEF HalfDone

\* Steps that write no file and end in the middle of none.
LEMMA FilesStay ==
  ASSUME FilesFit, RunsFit, UNCHANGED <<file, recorded, pushed, hurt>>,
         \A q \in Runner : \/ run'[q].at = run[q].at /\ run'[q].week = run[q].week
                           \/ run[q].at \notin {6, 8} /\ run'[q].at \in 0..5
  PROVE  FilesFit'
<1>1. /\ \A n \in DOMAIN file' : PageFit(n, file'[n])
      /\ \A m \in recorded' : m \in Mondays /\ Html(m) \in DOMAIN file' /\ Latest \in DOMAIN file'
      /\ \A l \in pushed' : l.week \in Mondays /\ l.label = ISOWeekLabel(l.week) /\ Html(l.week) \in DOMAIN file'
      /\ hurt' \subseteq DOMAIN file' \cup ({"rows"} \X Mondays)
  BY DEF FilesFit
<1>2. \A r \in Runner : /\ run'[r].at > 5 => Html(run'[r].week) \in DOMAIN file'
                        /\ run'[r].at > 7 => Latest \in DOMAIN file'
  BY DEF FilesFit, RunsFit, RunFit
<1>3. ASSUME NEW n \in DOMAIN file', file'[n] = Torn
      PROVE  n \in hurt' \/ \E r \in Runner : Half(r, n)'
  BY <1>3 DEF FilesFit, Half
<1> QED
  BY <1>1, <1>2, <1>3 DEF FilesFit

\* A run has the sections up to its step.
ReportsFit ==
  \A r \in Runner : run[r].at # 0 =>
    DOMAIN run[r].report = (IF run[r].at > 2 THEN FigureNames ELSE {})
                             \cup (IF run[r].at > 3 THEN LayerNames ELSE {})

\* A run is stopped: the file it was in the middle of counts as hurt.
LEMMA FilesStop ==
  ASSUME FilesFit, RunsFit, NEW r \in Runner, run' = [run EXCEPT ![r] = Idle],
         hurt' = hurt \cup HalfDone(r), UNCHANGED <<file, recorded, pushed>>
  PROVE  FilesFit'
<1>1. run'[r].at = 0 /\ \A q \in Runner \ {r} : run'[q] = run[q]
  BY StopEffect DEF OthersSame
<1>2. \A n : n \in hurt' <=> \/ n \in hurt \/ Half(r, n)
                             \/ run[r].at \in 2..4 /\ n = <<"rows", run[r].week>>
  BY HalfDoneIs
<1>3. /\ \A n \in DOMAIN file' : PageFit(n, file'[n])
      /\ \A m \in recorded' : m \in Mondays /\ Html(m) \in DOMAIN file' /\ Latest \in DOMAIN file'
      /\ \A l \in pushed' : l.week \in Mondays /\ l.label = ISOWeekLabel(l.week) /\ Html(l.week) \in DOMAIN file'
  BY DEF FilesFit
<1>4. hurt' \subseteq DOMAIN file' \cup ({"rows"} \X Mondays)
  <2>1. \A n : Half(r, n) => n \in DOMAIN file
    BY DEF FilesFit, Half
  <2>2. run[r].at \in 2..4 => <<"rows", run[r].week>> \in {"rows"} \X Mondays
    BY DEF RunsFit, RunFit
  <2> QED
    BY <1>2, <2>1, <2>2 DEF FilesFit
<1>5. \A q \in Runner : /\ run'[q].at > 5 => Html(run'[q].week) \in DOMAIN file'
                        /\ run'[q].at > 7 => Latest \in DOMAIN file'
  BY <1>1 DEF FilesFit
<1>6. ASSUME NEW n \in DOMAIN file', file'[n] = Torn
      PROVE  n \in hurt' \/ \E q \in Runner : Half(q, n)'
  <2>1. n \in hurt \/ \E q \in Runner : Half(q, n)
    BY <1>6 DEF FilesFit
  <2>2. CASE n \in hurt
    BY <1>2, <2>2
  <2>3. ASSUME NEW q \in Runner, Half(q, n) PROVE n \in hurt' \/ Half(q, n)'
    <3>1. CASE q = r
      BY <1>2, <2>3, <3>1
    <3>2. CASE q # r
      BY <1>1, <2>3, <3>2 DEF Half
    <3> QED
      BY <3>1, <3>2
  <2> QED
    BY <2>1, <2>2, <2>3
<1> QED
  BY <1>3, <1>4, <1>5, <1>6 DEF FilesFit

\* No two names are the same.
LEMMA HtmlIsNotLatest ==
  ASSUME NEW m
  PROVE  Html(m) # Latest /\ \A w : <<"rows", w>> # Html(m) /\ <<"rows", w>> # Latest
  BY DEF Html, Latest

\* The page that r is at is truncated, or filled.
LEMMA FilesWritten ==
  ASSUME FilesFit, RunsFit, NEW r \in Runner, NEW name, NEW page, NEW step,
         OthersSame(r), run'[r].at = step + 1, run'[r].week = run[r].week,
         run[r].at = step, step \in {5, 6, 7, 8},
         name = IF step < 7 THEN Html(run[r].week) ELSE Latest,
         DOMAIN file' = DOMAIN file \cup {name}, file'[name] = page,
         \A n \in DOMAIN file \ {name} : file'[n] = file[n],
         PageFit(name, page),
         UNCHANGED <<recorded, pushed>>,
         \/ step \in {5, 7} /\ page = Torn /\ hurt' = hurt
         \/ step \in {6, 8} /\ page # Torn /\ hurt' = hurt \ {name}
         \/ step \in {6, 8} /\ page = Torn /\ hurt' = hurt \cup {name}
  PROVE  FilesFit'
<1>1. \A q \in Runner \ {r} : run'[q] = run[q]
  BY DEF OthersSame
<1>2. /\ \A n \in DOMAIN file' : PageFit(n, file'[n])
      /\ \A m \in recorded' : m \in Mondays /\ Html(m) \in DOMAIN file' /\ Latest \in DOMAIN file'
      /\ \A l \in pushed' : l.week \in Mondays /\ l.label = ISOWeekLabel(l.week) /\ Html(l.week) \in DOMAIN file'
      /\ hurt' \subseteq DOMAIN file' \cup ({"rows"} \X Mondays)
  BY DEF FilesFit
<1>3. \A q \in Runner : /\ run'[q].at > 5 => Html(run'[q].week) \in DOMAIN file'
                        /\ run'[q].at > 7 => Latest \in DOMAIN file'
  BY <1>1 DEF FilesFit
<1>4. ASSUME NEW n \in DOMAIN file', file'[n] = Torn
      PROVE  n \in hurt' \/ \E q \in Runner : Half(q, n)'
  <2>1. CASE n = name
    <3>1. CASE step \in {5, 7}
      BY <2>1, <3>1 DEF Half
    <3>2. CASE step \in {6, 8}
      BY <1>4, <2>1, <3>2
    <3> QED
      BY <3>1, <3>2
  <2>2. CASE n # name
    <3>1. n \in hurt \/ \E q \in Runner : Half(q, n)
      BY <1>4, <2>2 DEF FilesFit
    <3>2. CASE n \in hurt
      BY <2>2, <3>2
    <3>3. ASSUME NEW q \in Runner, Half(q, n) PROVE Half(q, n)'
      <4>1. q # r
        BY <2>2, <3>3 DEF Half
      <4> QED
        BY <1>1, <3>3, <4>1 DEF Half
    <3> QED
      BY <3>1, <3>2, <3>3
  <2> QED
    BY <2>1, <2>2
<1> QED
  BY <1>2, <1>3, <1>4 DEF FilesFit

\* A page is emptied only by a run that stays in the middle of it.
LEMMA FilesTruncate ==
  ASSUME FilesFit, RunsFit, NEW r \in Runner, NEW f \in Files, Truncate(r, f)
  PROVE  FilesFit'
<1>1. RunFit(run[r]) /\ f \in {"html", "latest"}
  BY DEF RunsFit, Files
<1> DEFINE step == IF f = "html" THEN 5 ELSE 7
           name == IF step < 7 THEN Html(run[r].week) ELSE Latest
<1>2. run[r].at = step
  BY <1>1, AtIs DEF Truncate
<1>3. /\ OthersSame(r) /\ run'[r].at = step + 1 /\ run'[r].week = run[r].week
  BY <1>1, <1>2, AdvanceEffect DEF Truncate
<1>4. NameOf(r, f) = name
  BY <1>1, NameOfIs
<1>5. file' = Over([n \in {name} |-> Torn], file)
  BY <1>4 DEF Truncate
<1>6. PageFit(name, Torn)
  BY <1>1, <1>2 DEF PageFit, RunFit
<1>7. step \in {5, 7} /\ UNCHANGED <<recorded, pushed, hurt>>
  BY DEF Truncate
<1> HIDE DEF name
<1>8. DOMAIN file' = DOMAIN file \cup {name} /\ file'[name] = Torn
      /\ \A n \in DOMAIN file \ {name} : file'[n] = file[n]
  BY <1>5 DEF Over
<1> QED
  BY <1>2, <1>3, <1>6, <1>7, <1>8, FilesWritten DEF name

\* A page is filled, or torn by two runs and then counts as hurt.
LEMMA FilesFill ==
  ASSUME FilesFit, ReportsFit, RunsFit, NEW r \in Runner, NEW f \in Files, Fill(r, f)
  PROVE  FilesFit'
<1>1. RunFit(run[r]) /\ f \in {"html", "latest"}
  BY DEF RunsFit, Files
<1> DEFINE step == IF f = "html" THEN 6 ELSE 8
           name == IF step < 7 THEN Html(run[r].week) ELSE Latest
           mine == [week |-> run[r].week, report |-> run[r].report]
<1>2. run[r].at = step
  BY <1>1, AtIs DEF Fill, Filled
<1>3. /\ OthersSame(r) /\ run'[r].at = step + 1 /\ run'[r].week = run[r].week
  BY <1>1, <1>2, AdvanceEffect DEF Fill
<1>4. NameOf(r, f) = name
  BY <1>1, NameOfIs
<1>5. name \in DOMAIN file
  BY <1>2 DEF FilesFit
<1>6. run[r].week \in Mondays /\ mine # Torn /\ PageFit(name, mine) /\ PageFit(name, Torn)
  <2>1. run[r].week \in Mondays /\ run[r].week # None
    BY <1>1, <1>2, MondaysFit DEF RunFit
  <2>2. DOMAIN run[r].report = AllNames
    BY <1>2 DEF ReportsFit, AllNames
  <2>3. mine.week # Torn.week
    BY <2>1 DEF Torn
  <2> QED
    BY <2>1, <2>2, <2>3 DEF PageFit
<1>7. UNCHANGED <<recorded, pushed>> /\ step \in {6, 8}
  BY DEF Fill
<1>8. \/ file' = [file EXCEPT ![name] = mine] /\ hurt' = hurt \ {name}
      \/ file' = [file EXCEPT ![name] = Torn] /\ hurt' = hurt \cup {name}
  BY <1>4 DEF Fill
<1> HIDE DEF name, mine, step
<1>9. CASE file' = [file EXCEPT ![name] = mine] /\ hurt' = hurt \ {name}
  <2>1. DOMAIN file' = DOMAIN file \cup {name} /\ file'[name] = mine
        /\ \A n \in DOMAIN file \ {name} : file'[n] = file[n]
    BY <1>5, <1>9
  <2> QED
    BY <1>2, <1>3, <1>6, <1>7, <1>9, <2>1, FilesWritten DEF name
<1>10. CASE file' = [file EXCEPT ![name] = Torn] /\ hurt' = hurt \cup {name}
  <2>1. DOMAIN file' = DOMAIN file \cup {name} /\ file'[name] = Torn
        /\ \A n \in DOMAIN file \ {name} : file'[n] = file[n]
    BY <1>5, <1>10
  <2> QED
    BY <1>2, <1>3, <1>6, <1>7, <1>10, <2>1, FilesWritten DEF name
<1> QED
  BY <1>8, <1>9, <1>10

\* A week is recorded after both of its pages have been written.
LEMMA FilesRecord ==
  ASSUME FilesFit, RunsFit, NEW r \in Runner, Record(r)
  PROVE  FilesFit'
<1>1. run[r].at = 9 /\ run[r].week \in Mondays
  BY AtIs DEF Record, RunsFit, RunFit
<1>2. /\ \A q \in Runner \ {r} : run'[q] = run[q]
      /\ run'[r].at = 10 /\ run'[r].week = run[r].week
  BY <1>1, AdvanceEffect DEF Record, OthersSame
<1>3. Html(run[r].week) \in DOMAIN file /\ Latest \in DOMAIN file
  BY <1>1 DEF FilesFit
<1>4. UNCHANGED <<file, pushed, hurt>> /\ recorded' \subseteq recorded \cup {run[r].week}
  BY DEF Record
<1>5. /\ \A n \in DOMAIN file' : PageFit(n, file'[n])
      /\ \A m \in recorded' : m \in Mondays /\ Html(m) \in DOMAIN file' /\ Latest \in DOMAIN file'
      /\ \A l \in pushed' : l.week \in Mondays /\ l.label = ISOWeekLabel(l.week) /\ Html(l.week) \in DOMAIN file'
      /\ hurt' \subseteq DOMAIN file' \cup ({"rows"} \X Mondays)
  BY <1>1, <1>3, <1>4 DEF FilesFit
<1>6. \A q \in Runner : /\ run'[q].at > 5 => Html(run'[q].week) \in DOMAIN file'
                        /\ run'[q].at > 7 => Latest \in DOMAIN file'
  BY <1>2, <1>3, <1>4 DEF FilesFit
<1>7. \A q \in Runner : \A n : Half(q, n) => Half(q, n)'
  BY <1>1, <1>2 DEF Half
<1>8. \A n \in DOMAIN file' : file'[n] = Torn => n \in hurt' \/ \E q \in Runner : Half(q, n)'
  BY <1>4, <1>7 DEF FilesFit
<1> QED
  BY <1>5, <1>6, <1>8 DEF FilesFit

\* A link is pushed after its page has been written.
LEMMA FilesPush ==
  ASSUME FilesFit, RunsFit, NEW r \in Runner, Push(r)
  PROVE  FilesFit'
<1>1. run[r].at = 10 /\ run[r].week \in Mondays
  BY AtIs DEF Push, RunsFit, RunFit
<1>2. /\ \A q \in Runner \ {r} : run'[q] = run[q]
      /\ run'[r].at = 11 /\ run'[r].week = run[r].week
  BY <1>1, AdvanceEffect DEF Push, OthersSame
<1>3. Html(run[r].week) \in DOMAIN file /\ Latest \in DOMAIN file
  BY <1>1 DEF FilesFit
<1>4. /\ UNCHANGED <<file, recorded, hurt>>
      /\ pushed' = pushed \cup {[label |-> ISOWeekLabel(run[r].week), week |-> run[r].week]}
  BY DEF Push
<1>5. /\ \A n \in DOMAIN file' : PageFit(n, file'[n])
      /\ \A m \in recorded' : m \in Mondays /\ Html(m) \in DOMAIN file' /\ Latest \in DOMAIN file'
      /\ \A l \in pushed' : l.week \in Mondays /\ l.label = ISOWeekLabel(l.week) /\ Html(l.week) \in DOMAIN file'
      /\ hurt' \subseteq DOMAIN file' \cup ({"rows"} \X Mondays)
  BY <1>1, <1>3, <1>4 DEF FilesFit
<1>6. \A q \in Runner : /\ run'[q].at > 5 => Html(run'[q].week) \in DOMAIN file'
                        /\ run'[q].at > 7 => Latest \in DOMAIN file'
  BY <1>2, <1>3, <1>4 DEF FilesFit
<1>7. \A q \in Runner : \A n : Half(q, n) => Half(q, n)'
  BY <1>1, <1>2 DEF Half
<1>8. \A n \in DOMAIN file' : file'[n] = Torn => n \in hurt' \/ \E q \in Runner : Half(q, n)'
  BY <1>4, <1>7 DEF FilesFit
<1> QED
  BY <1>5, <1>6, <1>8 DEF FilesFit

\* The rows that a clean run completes are no file.
LEMMA FilesPutLast ==
  ASSUME FilesFit, RunsFit, NEW r \in Runner, PutLast(r)
  PROVE  FilesFit'
<1>1. run[r].at = 4
  BY AtIs DEF PutLast
<1>2. /\ \A q \in Runner \ {r} : run'[q] = run[q]
      /\ run'[r].at = 5 /\ run'[r].week = run[r].week
  BY <1>1, AdvanceEffect DEF PutLast, OthersSame
<1>3. UNCHANGED <<file, recorded, pushed>>
  BY DEF PutLast
<1>4. hurt' \subseteq hurt /\ \A n \in hurt : n \in hurt' \/ n = <<"rows", run[r].week>>
  BY DEF PutLast
<1>5. /\ \A n \in DOMAIN file' : PageFit(n, file'[n])
      /\ \A m \in recorded' : m \in Mondays /\ Html(m) \in DOMAIN file' /\ Latest \in DOMAIN file'
      /\ \A l \in pushed' : l.week \in Mondays /\ l.label = ISOWeekLabel(l.week) /\ Html(l.week) \in DOMAIN file'
      /\ hurt' \subseteq DOMAIN file' \cup ({"rows"} \X Mondays)
  BY <1>3, <1>4 DEF FilesFit
<1>6. \A q \in Runner : /\ run'[q].at > 5 => Html(run'[q].week) \in DOMAIN file'
                        /\ run'[q].at > 7 => Latest \in DOMAIN file'
  BY <1>2, <1>3 DEF FilesFit
<1>7. \A q \in Runner : \A n : Half(q, n) => Half(q, n)'
  BY <1>1, <1>2 DEF Half
<1>8. \A n \in DOMAIN file : n \in hurt => n \in hurt'
  BY <1>4, HtmlIsNotLatest DEF FilesFit, PageFit
<1>9. \A n \in DOMAIN file' : file'[n] = Torn => n \in hurt' \/ \E q \in Runner : Half(q, n)'
  BY <1>3, <1>7, <1>8 DEF FilesFit
<1> QED
  BY <1>5, <1>6, <1>9 DEF FilesFit

-----------------------------------------------------------------------------
(* Types                                                                   *)

WeeklyFit ==
  weekly = [m \in Mondays |-> weekly[m]] /\ \A m \in Mondays : DOMAIN weekly[m] = RowMetrics

CronFit ==
  /\ cron \in [state : {"idle", "active", "complete", "failed"}, pods : 0..MaxPods]
  /\ cron.state = "idle" => run["cron"].at = 0

\* The sections of a report and the rows that come of them.
LEMMA Sections ==
  /\ \A f, g : DOMAIN Over(f, g) = DOMAIN f \cup DOMAIN g
  /\ \A m : DOMAIN Figures(m) = FigureNames /\ DOMAIN Layer(m) = LayerNames
  /\ \A report : /\ DOMAIN FigureRows(report) = RowMetrics \cap DOMAIN report
                 /\ DOMAIN LastRows(report) = {"salary_median", "swe_enriched", "tech_share"}
  /\ DOMAIN NoRows = RowMetrics
<1>1. \A f, g : DOMAIN Over(f, g) = DOMAIN f \cup DOMAIN g
  BY DEF Over
<1>2. \A m : DOMAIN Figures(m) = FigureNames
  BY DEF Figures, FigureNames
<1>3. \A m : DOMAIN Layer(m) = LayerNames
  BY DEF Layer, LayerNames
<1>4. \A report : DOMAIN FigureRows(report) = RowMetrics \cap DOMAIN report
  BY DEF FigureRows
<1>5. \A report : DOMAIN LastRows(report) = {"salary_median", "swe_enriched", "tech_share"}
  BY DEF LastRows
<1>6. DOMAIN NoRows = RowMetrics
  BY DEF NoRows
<1> QED
  BY <1>1, <1>2, <1>3, <1>4, <1>5, <1>6

\* A week that is given all its rows keeps the table complete.
LEMMA WeeklySet ==
  ASSUME WeeklyFit, NEW w \in Mondays, NEW rows, DOMAIN rows = RowMetrics,
         weekly' = [weekly EXCEPT ![w] = rows]
  PROVE  WeeklyFit'
<1>1. weekly' = [m \in Mondays |-> weekly'[m]]
  BY DEF WeeklyFit
<1>2. \A m \in Mondays : weekly'[m] = IF m = w THEN rows ELSE weekly[m]
  BY DEF WeeklyFit
<1> QED
  BY <1>1, <1>2 DEF WeeklyFit

\* So does one some of whose rows fail, because the old ones stay.
LEMMA PutFits ==
  ASSUME WeeklyFit, NEW r \in Runner, run[r].week \in Mondays,
         NEW rows, DOMAIN rows \subseteq RowMetrics, Put(r, rows)
  PROVE  WeeklyFit'
<1>1. PICK gone \in SUBSET (DOMAIN rows \cap Fragile) :
        weekly' = [weekly EXCEPT ![run[r].week] =
                     Over([m \in DOMAIN rows \ gone |-> rows[m]], weekly[run[r].week])]
  BY DEF Put, WeeklyFit
<1> DEFINE put == [m \in DOMAIN rows \ gone |-> rows[m]]
           old == weekly[run[r].week]
<1>2. DOMAIN put = DOMAIN rows \ gone
  OBVIOUS
<1>3. DOMAIN old = RowMetrics
  BY DEF WeeklyFit
<1>4. weekly' = [weekly EXCEPT ![run[r].week] = Over(put, old)]
  BY <1>1
<1> HIDE DEF put, old
<1>5. DOMAIN Over(put, old) = RowMetrics
  <2>1. DOMAIN Over(put, old) = DOMAIN put \cup DOMAIN old
    BY DEF Over
  <2> QED
    BY <1>2, <1>3, <2>1
<1> QED
  BY <1>4, <1>5, WeeklySet

\* Steps that change no report.
LEMMA ReportsStay ==
  ASSUME ReportsFit, RunsFit,
         \A q \in Runner :
           \/ run'[q].at = 0
           \/ run'[q].at = 1 /\ run'[q].report = <<>>
           \/ /\ run[q].at # 0 /\ run'[q].report = run[q].report
              /\ \/ run'[q].at = run[q].at
                 \/ run[q].at \in {1, 4, 5, 6, 7, 8, 9, 10} /\ run'[q].at = run[q].at + 1
  PROVE  ReportsFit'
<1> SUFFICES ASSUME NEW q \in Runner, run'[q].at # 0
             PROVE  DOMAIN run'[q].report = (IF run'[q].at > 2 THEN FigureNames ELSE {})
                             \cup (IF run'[q].at > 3 THEN LayerNames ELSE {})
  BY DEF ReportsFit
<1>0. DOMAIN <<>> = {}
  OBVIOUS
<1>1. CASE run'[q].at = 1 /\ run'[q].report = <<>>
  BY <1>0, <1>1
<1>2. CASE run[q].at # 0 /\ run'[q].report = run[q].report /\ run'[q].at = run[q].at
  BY <1>2 DEF ReportsFit
<1>3. CASE /\ run'[q].report = run[q].report
           /\ run[q].at \in {1, 4, 5, 6, 7, 8, 9, 10} /\ run'[q].at = run[q].at + 1
  BY <1>3 DEF ReportsFit
<1> QED
  BY <1>1, <1>2, <1>3

TypeInv == RunsFit /\ ReportsFit /\ FilesFit /\ WeeklyFit /\ CronFit

\* At first one report is out, complete, and nobody runs.
LEMMA TypeInit == Init => TypeInv
<1> SUFFICES ASSUME Init PROVE TypeInv
  OBVIOUS
<1> DEFINE report == Over(Figures(Earlier), Layer(Earlier))
           page   == [week |-> Earlier, report |-> report]
<1>1. run = [r \in Runner |-> Idle] /\ Idle.at = 0 /\ RunFit(Idle)
  BY DEF Init, Idle, RunFit
<1>2. RunsFit /\ ReportsFit /\ \A r \in Runner : run[r].at = 0
  BY <1>1 DEF RunsFit, ReportsFit
<1>3. Earlier \in Mondays /\ Earlier # None
  BY MondaysFit DEF Mondays
<1>4. DOMAIN report = AllNames
  <2>1. DOMAIN report = DOMAIN Figures(Earlier) \cup DOMAIN Layer(Earlier)
    BY DEF Over
  <2>2. DOMAIN Figures(Earlier) = FigureNames /\ DOMAIN Layer(Earlier) = LayerNames
    BY Sections
  <2> QED
    BY <2>1, <2>2 DEF AllNames
<1>5. /\ file = [n \in {Html(Earlier), Latest} |-> page]
      /\ recorded = {Earlier} /\ pushed = {[label |-> ISOWeekLabel(Earlier), week |-> Earlier]}
      /\ hurt = {}
  BY DEF Init, Html, Latest
<1>6. weekly = [m \in Mondays |-> IF m = Earlier THEN AllRows(report) ELSE NoRows]
  BY DEF Init
<1> HIDE DEF report
<1>7. page.week = Earlier /\ page.report = report
  OBVIOUS
<1>8. page # Torn
  BY <1>3, <1>7 DEF Torn
<1> HIDE DEF page
<1>9. FilesFit
  <2>1. DOMAIN file = {Html(Earlier), Latest} /\ \A n \in DOMAIN file : file[n] = page
    BY <1>5
  <2>2. PageFit(Html(Earlier), page) /\ PageFit(Latest, page)
    BY <1>3, <1>4, <1>7 DEF PageFit
  <2> QED
    BY <1>2, <1>3, <1>5, <1>8, <2>1, <2>2 DEF FilesFit
<1>10. WeeklyFit
  <2>1. DOMAIN FigureRows(report) = RowMetrics \cap AllNames
    BY <1>4, Sections
  <2>2. DOMAIN LastRows(report) = {"salary_median", "swe_enriched", "tech_share"}
    BY Sections
  <2>3. DOMAIN AllRows(report) = DOMAIN FigureRows(report) \cup DOMAIN LastRows(report)
    BY DEF AllRows, Over
  <2>4. DOMAIN AllRows(report) = RowMetrics
    BY <2>1, <2>2, <2>3 DEF RowMetrics, AllNames, FigureNames, LayerNames
  <2>5. DOMAIN NoRows = RowMetrics
    BY Sections
  <2>6. weekly = [m \in Mondays |-> weekly[m]]
    BY <1>6
  <2>7. \A m \in Mondays : weekly[m] = IF m = Earlier THEN AllRows(report) ELSE NoRows
    BY <1>6
  <2> QED
    BY <2>4, <2>5, <2>6, <2>7 DEF WeeklyFit
<1>11. CronFit
  BY <1>1, PublishAssumption DEF CronFit, Init, Runner
<1> QED
  BY <1>2, <1>9, <1>10, <1>11 DEF TypeInv

\* A run begins.
LEMMA TypeBegin ==
  ASSUME TypeInv, NEW r \in Runner, NEW m \in Mondays, ~Active(r), Begin(r, m),
         UNCHANGED output
  PROVE  RunsFit' /\ ReportsFit' /\ FilesFit' /\ WeeklyFit'
<1>1. /\ RunsFit' /\ run'[r].at = 1 /\ run'[r].report = <<>> /\ run[r].at = 0
      /\ \A q \in Runner \ {r} : /\ run'[q].at = run[q].at /\ run'[q].week = run[q].week
                                 /\ run'[q].report = run[q].report
  BY BeginEffect DEF TypeInv, Behind, Active
<1>2. ReportsFit'
  BY <1>1, ReportsStay DEF TypeInv
<1>3. FilesFit'
  BY <1>1, FilesStay DEF TypeInv, output
<1>4. WeeklyFit'
  BY DEF TypeInv, WeeklyFit, output
<1> QED
  BY <1>1, <1>2, <1>3, <1>4

\* A run is stopped.
LEMMA TypeStop ==
  ASSUME TypeInv, NEW r \in Runner, run' = [run EXCEPT ![r] = Idle],
         hurt' = hurt \cup HalfDone(r), UNCHANGED <<weekly, file, recorded, pushed>>
  PROVE  RunsFit' /\ ReportsFit' /\ FilesFit' /\ WeeklyFit'
<1>1. RunsFit' /\ run'[r].at = 0 /\ \A q \in Runner \ {r} : run'[q] = run[q]
  BY StopEffect DEF TypeInv, OthersSame
<1>2. ReportsFit'
  BY <1>1 DEF ReportsFit, TypeInv
<1>3. FilesFit'
  BY FilesStop DEF TypeInv
<1>4. WeeklyFit'
  BY DEF TypeInv, WeeklyFit
<1> QED
  BY <1>1, <1>2, <1>3, <1>4

\* The default week is one of the weeks.
LEMMA TargetIsMonday == targetWeek \in Mondays
  BY DEF Mondays

\* TypeInv is inductive: one step per action, under it one per conjunct.
LEMMA TypeStep == TypeInv /\ [Next]_vars => TypeInv'
<1> SUFFICES ASSUME TypeInv, [Next]_vars PROVE TypeInv'
  OBVIOUS
<1> USE DEF TypeInv
<1>1. CASE Fire
  <2>1. ~Active("cron")
    BY <1>1 DEF Fire, CronFit, Active
  <2>2. RunsFit' /\ ReportsFit' /\ FilesFit' /\ WeeklyFit'
    BY <1>1, <2>1, TypeBegin, TargetIsMonday DEF Fire, Runner
  <2>3. CronFit'
    BY <1>1, PublishAssumption DEF Fire, CronFit
  <2> QED
    BY <2>2, <2>3
<1>2. CASE Restart
  <2>1. RunsFit' /\ ReportsFit' /\ FilesFit' /\ WeeklyFit'
    BY <1>2, TypeBegin, TargetIsMonday DEF Restart, Runner
  <2>2. CronFit'
    BY <1>2, PublishAssumption DEF Restart, CronFit
  <2> QED
    BY <2>1, <2>2
<1>3. CASE GiveUp
  <2>1. RunsFit' /\ ReportsFit' /\ FilesFit' /\ WeeklyFit'
    BY <1>3 DEF GiveUp, output, RunsFit, ReportsFit, FilesFit, Half, WeeklyFit
  <2>2. CronFit'
    BY <1>3, PublishAssumption DEF GiveUp, CronFit, Ended
  <2> QED
    BY <2>1, <2>2
<1>4. CASE Deadline
  <2>1. RunsFit' /\ ReportsFit' /\ FilesFit' /\ WeeklyFit'
    BY <1>4, TypeStop DEF Deadline, Runner
  <2>2. CronFit'
    BY <1>4, PublishAssumption DEF Deadline, CronFit, Ended
  <2> QED
    BY <2>1, <2>2
<1>5. CASE RunByHand
  <2>1. PICK m \in Mondays : Begin("manual", m)
    BY <1>5 DEF RunByHand, Mondays
  <2>2. RunsFit' /\ ReportsFit' /\ FilesFit' /\ WeeklyFit'
    BY <1>5, <2>1, TypeBegin DEF RunByHand, Runner
  <2>3. run'["cron"].at = run["cron"].at
    BY <1>5, <2>1, BeginEffect DEF RunByHand, Behind, Runner
  <2>4. CronFit'
    BY <1>5, <2>3 DEF RunByHand, CronFit
  <2> QED
    BY <2>2, <2>4
<1>6. CASE \E p \in Posting : Sight(p)
  <2>1. Disturb
    BY <1>6 DEF Sight
  <2>2. /\ RunsFit' /\ \A q \in Runner : /\ run'[q].at = run[q].at /\ run'[q].week = run[q].week
                                         /\ run'[q].report = run[q].report
    BY <2>1, DisturbEffect
  <2>3. ReportsFit'
    BY <2>2 DEF ReportsFit
  <2>4. FilesFit'
    BY <2>1, <2>2, FilesStay DEF Disturb, output
  <2>5. WeeklyFit' /\ CronFit'
    BY <2>1, <2>2 DEF Disturb, output, WeeklyFit, CronFit, Runner
  <2> QED
    BY <2>2, <2>3, <2>4, <2>5
<1>7. ASSUME NEW r \in Runner, Kill(r) PROVE TypeInv'
  <2>1. RunsFit' /\ ReportsFit' /\ FilesFit' /\ WeeklyFit'
    BY <1>7, TypeStop DEF Kill
  <2>2. run'["cron"].at = 0 \/ run'["cron"].at = run["cron"].at
    BY <1>7, StopEffect DEF Kill, OthersSame, Runner
  <2>3. CronFit'
    BY <1>7, <2>2 DEF Kill, CronFit
  <2> QED
    BY <2>1, <2>3
<1>8. ASSUME NEW r \in Runner, Clear(r) PROVE TypeInv'
  <2>1. run[r].at = 1 /\ run[r].week \in Mondays
    BY <1>8, AtIs DEF Clear, RunsFit, RunFit
  <2>2. /\ RunsFit' /\ \A q \in Runner \ {r} : run'[q] = run[q]
        /\ run'[r].at = 2 /\ run'[r].report = run[r].report
    BY <1>8, <2>1, AdvanceEffect DEF Clear, OthersSame
  <2>3. ReportsFit'
    BY <2>1, <2>2, ReportsStay
  <2>4. FilesFit'
    BY <1>8, <2>1, <2>2, FilesStay DEF Clear
  <2>5. DOMAIN NoRows = RowMetrics
    BY Sections
  <2>6. WeeklyFit'
    BY <1>8, <2>1, <2>5, WeeklySet DEF Clear
  <2>7. CronFit'
    BY <1>8, <2>1, <2>2 DEF Clear, CronFit, Runner
  <2> QED
    BY <2>2, <2>3, <2>4, <2>6, <2>7
<1>9. ASSUME NEW r \in Runner, PutFigures(r) PROVE TypeInv'
  <2>1. run[r].at = 2 /\ run[r].week \in Mondays
    BY <1>9, AtIs DEF PutFigures, RunsFit, RunFit
  <2>2. PICK x : x = Figures(run[r].week) /\ AdvanceWith(r, x)
    BY <1>9 DEF PutFigures
  <2>u. UNCHANGED <<file, recorded, pushed, hurt, cron>>
    BY <1>9 DEF PutFigures
  <2>3. /\ RunsFit' /\ \A q \in Runner \ {r} : run'[q] = run[q]
        /\ run'[r].at = 3 /\ run'[r].report = Figures(run[r].week)
    BY <2>1, <2>2, ReportEffect DEF OthersSame
  <2>4. DOMAIN run'[r].report = FigureNames
    BY <2>3, Sections
  <2>5. ReportsFit'
    BY <2>3, <2>4 DEF ReportsFit
  <2>6. FilesFit'
    BY <2>1, <2>3, <2>u, FilesStay
  <2>7. WeeklyFit'
    <3>1. Put(r, FigureRows(run'[r].report))
      BY <1>9 DEF PutFigures
    <3>2. DOMAIN FigureRows(run'[r].report) \subseteq RowMetrics
      BY Sections
    <3> QED
      BY <2>1, <3>1, <3>2, PutFits
  <2>8. CronFit'
    BY <2>1, <2>3, <2>u DEF CronFit, Runner
  <2> QED
    BY <2>3, <2>5, <2>6, <2>7, <2>8
<1>10. ASSUME NEW r \in Runner, AskLayer(r) PROVE TypeInv'
  <2>1. run[r].at = 3
    BY <1>10, AtIs DEF AskLayer
  <2>2. PICK x : x = Over(run[r].report, Layer(run[r].week)) /\ AdvanceWith(r, x)
    BY <1>10 DEF AskLayer
  <2>u. UNCHANGED <<weekly, file, recorded, pushed, hurt, cron>>
    BY <1>10 DEF AskLayer, output
  <2>3. /\ RunsFit' /\ \A q \in Runner \ {r} : run'[q] = run[q]
        /\ run'[r].at = 4 /\ run'[r].report = Over(run[r].report, Layer(run[r].week))
    BY <2>1, <2>2, ReportEffect DEF OthersSame
  <2>4. DOMAIN run'[r].report = FigureNames \cup LayerNames
    <3>1. DOMAIN run[r].report = FigureNames
      <4>1. run[r].at # 0 /\ run[r].at > 2 /\ ~(run[r].at > 3)
        BY <2>1
      <4>2. DOMAIN run[r].report = FigureNames \cup {}
        BY <4>1, Zenon DEF ReportsFit
      <4> QED
        BY <4>2
    <3>2. DOMAIN Layer(run[r].week) = LayerNames
      BY Sections
    <3>3. DOMAIN Over(run[r].report, Layer(run[r].week)) = DOMAIN run[r].report \cup DOMAIN Layer(run[r].week)
      BY DEF Over
    <3> QED
      BY <2>3, <3>1, <3>2, <3>3
  <2>5. ReportsFit'
    BY <2>3, <2>4 DEF ReportsFit
  <2>6. FilesFit'
    BY <2>1, <2>3, <2>u, FilesStay
  <2>7. WeeklyFit' /\ CronFit'
    BY <2>1, <2>3, <2>u DEF WeeklyFit, CronFit, Runner
  <2> QED
    BY <2>3, <2>5, <2>6, <2>7
<1>11. ASSUME NEW r \in Runner, PutLast(r) PROVE TypeInv'
  <2>1. run[r].at = 4 /\ run[r].week \in Mondays
    BY <1>11, AtIs DEF PutLast, RunsFit, RunFit
  <2>2. /\ RunsFit' /\ \A q \in Runner \ {r} : run'[q] = run[q]
        /\ run'[r].at = 5 /\ run'[r].report = run[r].report
    BY <1>11, <2>1, AdvanceEffect DEF PutLast, OthersSame
  <2>3. ReportsFit'
    BY <2>1, <2>2, ReportsStay
  <2>4. FilesFit'
    BY <1>11, FilesPutLast
  <2>5. WeeklyFit'
    <3>1. Put(r, LastRows(run[r].report))
      BY <1>11 DEF PutLast
    <3>2. DOMAIN LastRows(run[r].report) = {"salary_median", "swe_enriched", "tech_share"}
      BY Sections
    <3>3. DOMAIN LastRows(run[r].report) \subseteq RowMetrics
      BY <3>2 DEF RowMetrics
    <3> QED
      BY <2>1, <3>1, <3>3, PutFits
  <2>6. CronFit'
    BY <1>11, <2>1, <2>2 DEF PutLast, CronFit, Runner
  <2> QED
    BY <2>2, <2>3, <2>4, <2>5, <2>6
<1>12. ASSUME NEW r \in Runner, NEW f \in Files, Truncate(r, f) \/ Fill(r, f) PROVE TypeInv'
  <2>1. run[r].at \in {5, 6, 7, 8} /\ Advance(r) /\ UNCHANGED <<weekly, cron>>
    BY <1>12, AtIs DEF Truncate, Fill, Files, Filled
  <2>2. /\ RunsFit' /\ \A q \in Runner \ {r} : run'[q] = run[q]
        /\ run'[r].at = run[r].at + 1 /\ run'[r].report = run[r].report
    BY <2>1, AdvanceEffect DEF OthersSame
  <2>3. ReportsFit'
    BY <2>1, <2>2, ReportsStay
  <2>4. FilesFit'
    BY <1>12, FilesTruncate, FilesFill
  <2>5. WeeklyFit' /\ CronFit'
    BY <2>1, <2>2 DEF WeeklyFit, CronFit, Runner
  <2> QED
    BY <2>2, <2>3, <2>4, <2>5
<1>13. ASSUME NEW r \in Runner, Record(r) \/ Push(r) PROVE TypeInv'
  <2>1. run[r].at \in {9, 10} /\ Advance(r) /\ UNCHANGED <<weekly, cron>>
    BY <1>13, AtIs DEF Record, Push
  <2>2. /\ RunsFit' /\ \A q \in Runner \ {r} : run'[q] = run[q]
        /\ run'[r].at = run[r].at + 1 /\ run'[r].report = run[r].report
    BY <2>1, AdvanceEffect DEF OthersSame
  <2>3. ReportsFit'
    BY <2>1, <2>2, ReportsStay
  <2>4. FilesFit'
    BY <1>13, FilesRecord, FilesPush
  <2>5. WeeklyFit' /\ CronFit'
    BY <2>1, <2>2 DEF WeeklyFit, CronFit, Runner
  <2> QED
    BY <2>2, <2>3, <2>4, <2>5
<1>14. ASSUME NEW r \in Runner, Exit(r) PROVE TypeInv'
  <2>1. run[r].at = 11 /\ run' = [run EXCEPT ![r] = Idle] /\ UNCHANGED output
    BY <1>14, AtIs DEF Exit
  <2>2. RunsFit' /\ run'[r].at = 0 /\ \A q \in Runner \ {r} : run'[q] = run[q]
    BY <2>1, StopEffect DEF OthersSame
  <2>3. ReportsFit'
    BY <2>2 DEF ReportsFit
  <2>4. FilesFit'
    BY <2>1, <2>2, FilesStay DEF output
  <2>5. WeeklyFit'
    BY <2>1 DEF output, WeeklyFit
  <2>6. CronFit'
    BY <1>14, <2>2, PublishAssumption DEF Exit, CronFit, Ended, Runner
  <2> QED
    BY <2>2, <2>3, <2>4, <2>5, <2>6
<1>15. CASE UNCHANGED vars
  BY <1>15 DEF vars, output, RunsFit, ReportsFit, FilesFit, Half, WeeklyFit, CronFit
<1> QED
  BY <1>1, <1>2, <1>3, <1>4, <1>5, <1>6, <1>7, <1>8, <1>9, <1>10, <1>11, <1>12, <1>13, <1>14, <1>15
     DEF Next, Step

\* TypeInv says more than TypeOK.
LEMMA TypeImplied == TypeInv => TypeOK
<1> SUFFICES ASSUME TypeInv PROVE TypeOK
  OBVIOUS
<1> USE DEF TypeInv
<1>1. /\ cron.state \in {"idle", "active", "complete", "failed"}
      /\ cron.pods \in 0..MaxPods /\ (cron.state = "idle" => ~Active("cron"))
  BY DEF CronFit, Active
<1>2. ASSUME NEW r \in Runner, Active(r)
      PROVE  /\ run[r].at \in DOMAIN Steps /\ run[r].week \in Mondays
             /\ DOMAIN run[r].report = (IF run[r].at > StepOf("figures") THEN FigureNames ELSE {})
                                   \cup (IF run[r].at > StepOf("layer") THEN LayerNames ELSE {})
  <2>1. run[r].at \in 1..11 /\ run[r].week \in Mondays
    BY <1>2 DEF RunsFit, RunFit, Active
  <2>2. DOMAIN Steps = 1..11 /\ StepOf("figures") = 2 /\ StepOf("layer") = 3
    BY StepAt, StepNumbers
  <2> QED
    BY <2>1, <2>2 DEF ReportsFit
<1>3. ASSUME NEW n \in DOMAIN file, file[n] # Torn
      PROVE  /\ DOMAIN file[n].report = FigureNames \cup LayerNames
             /\ Len(n) = 2 => n[2] = ISOWeekLabel(file[n].week)
  <2>1. DOMAIN file[n].report = AllNames /\ (n # Latest => n = Html(file[n].week))
    BY <1>3 DEF FilesFit, PageFit
  <2>2. Len(Latest) = 1
    BY DEF Latest
  <2>3. Html(file[n].week)[2] = ISOWeekLabel(file[n].week)
    BY DEF Html
  <2> QED
    BY <2>1, <2>2, <2>3 DEF AllNames
<1>4. DOMAIN weekly = Mondays /\ \A m \in Mondays : DOMAIN weekly[m] = RowMetrics
  BY DEF WeeklyFit
<1>5. recorded \subseteq Mondays /\ {l.week : l \in pushed} \subseteq Mondays
      /\ hurt \subseteq DOMAIN file \cup ({"rows"} \X Mondays)
  BY DEF FilesFit
<1> QED
  BY <1>1, <1>2, <1>3, <1>4, <1>5 DEF TypeOK

\* A run has the sections up to its step, a file is named for the week of what
\* is in it, and half-done work is a file or the rows of a week (TypeOK).
THEOREM TypeCorrect == Spec => []TypeOK
<1>1. Spec => []TypeInv
  BY TypeInit, TypeStep, PTL DEF Spec
<1> QED
  BY <1>1, TypeImplied, PTL

\* A file is torn only while a run has it or where one was stopped.
LEMMA LinkImplied == TypeInv => LinkIsReadable
<1> SUFFICES ASSUME TypeInv PROVE LinkIsReadable
  OBVIOUS
<1> USE DEF TypeInv
<1>1. ASSUME NEW n \in DOMAIN file, file[n] = Torn PROVE BeingWritten(n)
  <2>1. n \in hurt \/ \E r \in Runner : Half(r, n)
    BY <1>1 DEF FilesFit
  <2>2. ASSUME NEW r \in Runner, Half(r, n) PROVE Active(r) /\ n \in HalfDone(r)
    BY <2>2, HalfDoneIs DEF Half, Active
  <2> QED
    BY <2>1, <2>2 DEF BeingWritten
<1>2. \A n \in DOMAIN file : reportExists(n) /\ (Serve(n) = Torn => BeingWritten(n))
  BY <1>1 DEF Serve, reportExists
<1>3. ASSUME NEW l \in pushed
      PROVE  /\ reportExists(<<"html", l.label>>)
             /\ handleWeek(l.label) = Torn => BeingWritten(<<"html", l.label>>)
  <2>1. Html(l.week) = <<"html", l.label>> /\ Html(l.week) \in DOMAIN file
    BY DEF FilesFit, Html
  <2> QED
    BY <1>2, <2>1 DEF handleWeek
<1>4. ASSUME NEW m \in recorded, NEW n \in {<<"html", ISOWeekLabel(m)>>, <<"latest">>}
      PROVE  reportExists(n) /\ (Serve(n) = Torn => BeingWritten(n))
  BY <1>2 DEF FilesFit, Html, Latest
<1> QED
  BY <1>3, <1>4 DEF LinkIsReadable

\* A link that was pushed, and a week that was recorded, have their files, and
\* a file is empty or torn only while a run writes it or where one was stopped
\* writing it (LinkIsReadable), whatever is killed, repeated or run by hand meanwhile.
THEOREM LinksReadable == Spec => []LinkIsReadable
<1>1. Spec => []TypeInv
  BY TypeInit, TypeStep, PTL DEF Spec
<1> QED
  BY <1>1, LinkImplied, PTL

-----------------------------------------------------------------------------
(* Numbers                                                                 *)

JobsFit ==
  /\ job = [p \in Posting |-> job[p]]
  /\ \A p \in Posting : job[p] # None =>
       job[p].posted \in Int /\ job[p].expiry \in Int \cup {None}

PostedOn(D) == {p \in Stored : job[p].swe /\ job[p].posted \in D}

\* The postings of a week and of a quarter, from whose time stamps the
\* dates are told apart.
LEMMA PostedInWeek ==
  ASSUME JobsFit, NEW m \in Int
  PROVE  swePosted(WeekFrom(m), AnyLens) = PostedOn(m..m + 6)
<1>1. \A p \in Stored : DateIn(job[p].posted, WeekFrom(m)) <=> job[p].posted \in m..m + 6
  BY DatesOfWeek DEF JobsFit, Stored
<1>2. \A p : InLens(p, AnyLens)
  BY DEF InLens, AnyLens
<1> QED
  BY <1>1, <1>2 DEF swePosted, SWEJobs, PostedOn

\* The same for the quarter before its end.
LEMMA PostedInQuarter ==
  ASSUME JobsFit, NEW t \in Int, NEW e \in Int, SGTDay(t) = e
  PROVE  swePosted(Rolling(t, RollingDays), AnyLens) = PostedOn(e + 1 - RollingDays..e)
<1>0. RollingDays \in Nat
  BY DEF RollingDays
<1>1. \A p \in Stored :
        DateIn(job[p].posted, Rolling(t, RollingDays)) <=> job[p].posted \in e + 1 - RollingDays..e
  BY <1>0, DatesOfRolling DEF JobsFit, Stored
<1>2. \A p : InLens(p, AnyLens)
  BY DEF InLens, AnyLens
<1> QED
  BY <1>1, <1>2 DEF swePosted, SWEJobs, PostedOn

\* What the report and the pages call active, at midnight and the day before.
LEMMA ActiveAtMidnight ==
  ASSUME JobsFit, NEW d \in Int
  PROVE  /\ activeJobs(Midnight(d)) = active(d, AnyLens)
         /\ active(d, AnyLens) \subseteq active(d - 1, AnyLens)
         /\ IsFiniteSet(active(d - 1, AnyLens))
<1>1. \A p \in Stored : job[p].expiry # None =>
        /\ job[p].expiry \in Int
        /\ DateAtLeast(job[p].expiry, Midnight(d)) <=> job[p].expiry >= d
  BY MidnightIsThere DEF JobsFit, Stored, DateAtLeast
<1>2. \A p : InLens(p, AnyLens)
  BY DEF InLens, AnyLens
<1>3. activeJobs(Midnight(d)) = active(d, AnyLens)
  BY <1>1, <1>2 DEF activeJobs, active, SWEJobs
<1>4. active(d, AnyLens) \subseteq active(d - 1, AnyLens)
  BY <1>1 DEF active, SWEJobs
<1>5. active(d - 1, AnyLens) \subseteq Posting
  BY DEF active, SWEJobs, Stored
<1>6. IsFiniteSet(active(d - 1, AnyLens))
  BY <1>5, PublishAssumption, FS_Subset
<1> QED
  BY <1>3, <1>4, <1>6

\* The two anchors give the layer the week of the report, the one before, its
\* last day and the Monday after.
LEMMA AnchorsAre ==
  ASSUME NEW m \in Mondays
  PROVE  /\ LastCompletedWeek(Anchors[m].week) = WeekFrom(m)
         /\ PrevWeeks(WeekFrom(m), 1)[1] = WeekFrom(m - 7)
         /\ Anchors[m].roll \in Int /\ SGTDay(Anchors[m].roll) = m + 6
         /\ SGTDay(Anchors[m].week) = m + 7
<1>1. m \in Int /\ m % 7 = 0
  BY MondaysFit
<1>2. WeekBounds(m) = WeekFrom(m)
  BY DEF WeekBounds, WeekFrom
<1>3. Anchors[m].week = WeekFrom(m).end /\ Anchors[m].roll = WeekFrom(m).end - 1
  BY <1>2 DEF Anchors, weekAnchor, rollAnchor
<1>4. LastCompletedWeek(WeekFrom(m).end) = WeekFrom(m) /\ SGTDay(WeekFrom(m).end - 1) = m + 6
  BY <1>1, AnchorsOfReport
<1>5. SGTDay(WeekFrom(m).end) = m + 7 /\ SGTDay(WeekFrom(m).start) = m
  BY <1>1, MidnightIsThere DEF WeekFrom
<1>6. WeekFrom(m).end - 1 \in Int
  BY <1>1 DEF WeekFrom, Midnight
<1>7. PrevWeeks(WeekFrom(m), 1)[1] = WeekFrom(m - 7)
  BY <1>1, <1>5 DEF PrevWeeks, weekBefore
<1> QED
  BY <1>3, <1>4, <1>5, <1>6, <1>7

\* The numbers of a report over the tables that hold.
LEMMA NumbersHold ==
  ASSUME JobsFit, NEW m \in Mondays, NEW report, report = Over(Figures(m), Layer(m))
  PROVE  Numbers(report, m)
<1> DEFINE week    == PostedOn(m..m + 6)
           before  == PostedOn(m - 7..m - 1)
           quarter == PostedOn(m + 7 - RollingDays..m + 6)
           out     == active(m + 7, AnyLens)
           yet     == active(m + 6, AnyLens)
           now     == Anchors[m]
<1>1. m \in Int /\ m - 7 \in Int /\ m + 6 \in Int /\ m + 7 \in Int
  BY MondaysFit
<1>2. /\ LastCompletedWeek(now.week) = WeekFrom(m) /\ PrevWeeks(WeekFrom(m), 1)[1] = WeekFrom(m - 7)
      /\ now.roll \in Int /\ SGTDay(now.roll) = m + 6 /\ SGTDay(now.week) = m + 7
  BY AnchorsAre
<1>3. /\ WeekBounds(m) = WeekFrom(m) /\ WeekBounds(m - 7) = WeekFrom(m - 7)
      /\ WeekBounds(m).end = Midnight(m + 7)
  BY DEF WeekBounds, WeekFrom
<1>4. swePosted(WeekFrom(m), AnyLens) = week
  BY <1>1, PostedInWeek
<1>5. swePosted(WeekFrom(m - 7), AnyLens) = before
  <2>1. m - 7 + 6 = m - 1
    BY <1>1
  <2> QED
    BY <1>1, <2>1, PostedInWeek
<1>6. swePosted(Rolling(now.roll, RollingDays), AnyLens) = quarter
  <2>1. m + 6 + 1 - RollingDays = m + 7 - RollingDays
    BY <1>1 DEF RollingDays
  <2> QED
    BY <1>1, <1>2, <2>1, PostedInQuarter
<1>7. /\ activeJobs(Midnight(m + 7)) = out /\ out \subseteq yet /\ IsFiniteSet(yet)
  <2>1. m + 7 - 1 = m + 6
    BY <1>1
  <2> QED
    BY <1>1, <2>1, ActiveAtMidnight
<1> HIDE DEF week, before, quarter, out, yet, now
<1>8. /\ Figures(m).new_jobs = Cardinality(week) /\ Figures(m).prev_jobs = Cardinality(before)
      /\ Figures(m).active_jobs = Cardinality(out)
      /\ Figures(m).tech_freq = techFrequency(WeekFrom(m))
  BY <1>3, <1>4, <1>5, <1>7 DEF Figures, sweIn
<1>9. /\ Layer(m).denom = Cardinality({p \in week : enriched(p)})
      /\ Layer(m).counts = [s \in Slug |-> Cardinality({p \in week : Mentions(p, s)})]
      /\ Layer(m).samples = Cardinality(quarter)
      /\ Layer(m).market = <<Cardinality(week), Cardinality(before), Cardinality(out)>>
      /\ Layer(m).board = Cardinality(yet)
  <2>1. Layer(m).denom = enrichedCount(LastCompletedWeek(now.week), AnyLens)
    BY DEF Layer, now
  <2>2. Layer(m).counts = techCounts(LastCompletedWeek(now.week), AnyLens)
    BY DEF Layer, now
  <2>3. Layer(m).samples = salaryTransparency(now.roll, AnyLens).total
    BY DEF Layer, now
  <2>4. Layer(m).market = <<Cardinality(newPosted(now.week, AnyLens)),
                            Cardinality(prevPosted(now.week, AnyLens)),
                            Cardinality(activeNow(now.week, AnyLens))>>
    BY DEF Layer, now
  <2>5. Layer(m).board = GhostSignals(SGTDay(now.roll), AnyLens).active
    BY DEF Layer, now
  <2>6. Layer(m).denom = Cardinality({p \in week : enriched(p)})
    BY <1>2, <1>4, <2>1 DEF enrichedCount
  <2>7. Layer(m).counts = [s \in Slug |-> Cardinality({p \in week : Mentions(p, s)})]
    BY <1>2, <1>4, <2>2 DEF techCounts
  <2>8. Layer(m).samples = Cardinality(quarter)
    BY <1>6, <2>3 DEF salaryTransparency, windowTransparency
  <2>9. newPosted(now.week, AnyLens) = week /\ prevPosted(now.week, AnyLens) = before
        /\ activeNow(now.week, AnyLens) = out
    BY <1>2, <1>4, <1>5 DEF newPosted, prevPosted, activeNow, out
  <2>10. Layer(m).board = Cardinality(yet)
    BY <1>2, <2>5 DEF GhostSignals, yet
  <2> QED
    BY <2>4, <2>6, <2>7, <2>8, <2>9, <2>10
<1>10. /\ \A n \in FigureNames : report[n] = Figures(m)[n]
       /\ \A n \in LayerNames : report[n] = Layer(m)[n]
  <2>1. DOMAIN Figures(m) = FigureNames /\ DOMAIN Layer(m) = LayerNames
    BY Sections
  <2>2. FigureNames \cap LayerNames = {}
    BY DEF FigureNames, LayerNames
  <2> QED
    BY <2>1, <2>2 DEF Over
<1>11. /\ report.new_jobs = Cardinality(week) /\ report.prev_jobs = Cardinality(before)
       /\ report.active_jobs = Cardinality(out)
       /\ report.tech_freq = techFrequency(WeekFrom(m))
  BY <1>8, <1>10 DEF FigureNames
<1>12. /\ report.denom = Cardinality({p \in week : enriched(p)})
       /\ report.counts = [s \in Slug |-> Cardinality({p \in week : Mentions(p, s)})]
       /\ report.samples = Cardinality(quarter)
       /\ report.market = <<Cardinality(week), Cardinality(before), Cardinality(out)>>
       /\ report.board = Cardinality(yet)
  BY <1>9, <1>10 DEF LayerNames
<1>13. ASSUME NEW s \in Slug
       PROVE  report.counts[s] = IF s \in DOMAIN report.tech_freq THEN report.tech_freq[s] ELSE 0
  <2> DEFINE N(t) == Cardinality({p \in week : Mentions(p, t)})
  <2>1. report.counts[s] = N(s)
    BY <1>12
  <2>2. techFrequency(WeekFrom(m)) = [t \in {t \in Slug : N(t) > 0} |-> N(t)]
    BY <1>4 DEF techFrequency, sweIn
  <2>3. N(s) \in Nat
    <3>1. {p \in week : Mentions(p, s)} \subseteq Posting
      BY DEF week, PostedOn, Stored
    <3>2. IsFiniteSet({p \in week : Mentions(p, s)})
      BY <3>1, PublishAssumption, FS_Subset
    <3> QED
      BY <3>2, FS_CardinalityType
  <2> HIDE DEF N
  <2>4. report.tech_freq = [t \in {t \in Slug : N(t) > 0} |-> N(t)]
    BY <1>11, <2>2
  <2> QED
    BY <2>1, <2>3, <2>4
<1>14. report.active_jobs <= report.board
  BY <1>7, <1>11, <1>12, FS_Subset
<1>15. /\ report.new_jobs = Cardinality(week)
       /\ report.prev_jobs = Cardinality(before)
       /\ report.market = <<report.new_jobs, report.prev_jobs, report.active_jobs>>
       /\ report.samples = Cardinality(quarter)
       /\ report.denom = Cardinality({p \in week : enriched(p)})
  BY <1>11, <1>12
<1> QED
  BY <1>13, <1>14, <1>15 DEF Numbers, PostedOn, week, before, quarter

-----------------------------------------------------------------------------
(* A report is a function of the tables                                    *)

\* What is selected from tables that nobody writes stays the same, however often it
\* is asked for.
LEMMA SelectionsStay ==
  ASSUME UNCHANGED tables, NEW w, NEW lens
  PROVE  UNCHANGED swePosted(w, lens)
<1>1. job' = job
  BY DEF tables
<1>2. \A p : InLens(p, lens)' <=> InLens(p, lens)
  BY <1>1 DEF InLens
<1>3. Stored' = Stored
  BY <1>1 DEF Stored
<1> QED
  BY <1>1, <1>2, <1>3 DEF swePosted, SWEJobs

\* So does what is active.
LEMMA BoardStays ==
  ASSUME UNCHANGED tables, NEW d, NEW lens
  PROVE  UNCHANGED <<active(d, lens), activeJobs(d)>>
<1>1. job' = job
  BY DEF tables
<1>2. \A p : InLens(p, lens)' <=> InLens(p, lens)
  BY <1>1 DEF InLens
<1>3. Stored' = Stored
  BY <1>1 DEF Stored
<1>4. active(d, lens)' = active(d, lens)
  BY <1>1, <1>2, <1>3 DEF active, SWEJobs
<1>5. activeJobs(d)' = activeJobs(d)
  BY <1>1, <1>3 DEF activeJobs
<1> QED
  BY <1>4, <1>5

\* Hence the figures of a report are a function of the tables,
LEMMA FiguresStay ==
  ASSUME UNCHANGED tables, NEW m
  PROVE  UNCHANGED Figures(m)
<1>1. job' = job /\ tech' = tech
  BY DEF tables
<1>2. ASSUME NEW w PROVE UNCHANGED sweIn(w)
  BY SelectionsStay DEF sweIn
<1>3. ASSUME NEW w PROVE UNCHANGED techFrequency(w)
  <2>1. \A s : {p \in sweIn(w) : Mentions(p, s)}' = {p \in sweIn(w) : Mentions(p, s)}
    BY <1>1, <1>2 DEF Mentions
  <2> QED
    BY <2>1 DEF techFrequency
<1>4. ASSUME NEW w PROVE UNCHANGED RolesOf(sweIn(w))
  BY <1>1, <1>2 DEF RolesOf
<1>5. ASSUME NEW w PROVE UNCHANGED Groups(RolesOf(sweIn(w)))
  BY <1>4
<1>6. UNCHANGED activeJobs(WeekBounds(m).end)
  BY BoardStays
<1>7. UNCHANGED <<sweIn(WeekBounds(m)), sweIn(WeekBounds(m - 7)),
                  techFrequency(WeekBounds(m)), Groups(RolesOf(sweIn(WeekBounds(m))))>>
  BY <1>2, <1>3, <1>5
<1> QED
  BY <1>6, <1>7 DEF Figures

\* and so are the sections of the metric layer.
LEMMA LayerStays ==
  ASSUME UNCHANGED tables, NEW m
  PROVE  UNCHANGED Layer(m)
<1>1. job' = job /\ tech' = tech /\ marks' = marks
  BY DEF tables
<1>2. ASSUME NEW w PROVE UNCHANGED enrichedCount(w, AnyLens)
  <2>1. {p \in swePosted(w, AnyLens) : enriched(p)}' = {p \in swePosted(w, AnyLens) : enriched(p)}
    BY <1>1, SelectionsStay DEF enriched
  <2> QED
    BY <2>1 DEF enrichedCount
<1>3. ASSUME NEW w PROVE UNCHANGED techCounts(w, AnyLens)
  <2>1. \A s : {p \in swePosted(w, AnyLens) : Mentions(p, s)}' = {p \in swePosted(w, AnyLens) : Mentions(p, s)}
    BY <1>1, SelectionsStay DEF Mentions
  <2> QED
    BY <2>1 DEF techCounts
<1>4. ASSUME NEW w PROVE UNCHANGED cellOf(Comparable(w, AnyLens))
  <2>1. UNCHANGED Comparable(w, AnyLens)
    BY <1>1, SelectionsStay DEF Comparable, comparableSalary, statedSalary
  <2>2. UNCHANGED Pay(Comparable(w, AnyLens))
    BY <1>1, <2>1 DEF Pay, Midpoint
  <2> QED
    BY <2>1, <2>2 DEF cellOf
<1>5. ASSUME NEW w PROVE UNCHANGED windowTransparency(w, AnyLens)
  <2>1. {p \in swePosted(w, AnyLens) : statedSalary(p)}' = {p \in swePosted(w, AnyLens) : statedSalary(p)}
    BY <1>1, SelectionsStay DEF statedSalary
  <2> QED
    BY <2>1, SelectionsStay DEF windowTransparency
<1>6. ASSUME NEW t PROVE UNCHANGED <<overallPay(t, AnyLens), salaryTransparency(t, AnyLens)>>
  BY <1>4, <1>5 DEF overallPay, salaryTransparency
<1>7. ASSUME NEW t PROVE UNCHANGED <<newPosted(t, AnyLens), prevPosted(t, AnyLens)>>
  BY SelectionsStay DEF newPosted, prevPosted
<1>8. ASSUME NEW t PROVE UNCHANGED activeNow(t, AnyLens)
  BY BoardStays DEF activeNow
<1>9. ASSUME NEW d PROVE UNCHANGED GhostSignals(d, AnyLens).active
  BY BoardStays DEF GhostSignals
<1> DEFINE now == Anchors[m]
           week == LastCompletedWeek(now.week)
<1>10. /\ UNCHANGED enrichedCount(week, AnyLens)
       /\ UNCHANGED techCounts(week, AnyLens)
       /\ UNCHANGED overallPay(now.roll, AnyLens)
       /\ UNCHANGED salaryTransparency(now.roll, AnyLens)
       /\ UNCHANGED newPosted(now.week, AnyLens)
       /\ UNCHANGED prevPosted(now.week, AnyLens)
       /\ UNCHANGED activeNow(now.week, AnyLens)
       /\ UNCHANGED GhostSignals(SGTDay(now.roll), AnyLens).active
  BY <1>2, <1>3, <1>6, <1>7, <1>8, <1>9
<1> QED
  BY <1>10 DEF Layer

-----------------------------------------------------------------------------
(* A run that nothing disturbs                                             *)

LostFit == lost \in Nat

\* It is alone, what it has computed is of the tables that hold, and as long
\* as no statement has failed, the rows of its week are its own.
CleanFit(r, m) ==
  (run[r].at \in 1..5 /\ run[r].clean /\ run[r].week = m) =>
    /\ \A q \in Runner \ {r} : run[q].at = 0
    /\ run[r].at = 3 => run[r].report = Figures(m)
    /\ run[r].at \in 4..5 => run[r].report = Over(Figures(m), Layer(m))
    /\ lost = 0 =>
         /\ run[r].at = 2 => weekly[m] = NoRows
         /\ run[r].at \in 3..4 => weekly[m] = Over(FigureRows(Figures(m)), NoRows)
         /\ run[r].at = 5 => weekly[m] = AllRows(run[r].report)

CleanInv == \A r \in Runner : \A m \in Mondays : CleanFit(r, m)

\* Steps of others leave a clean run as it is.
LEMMA CleanStays ==
  ASSUME CleanInv, UNCHANGED tables, NEW r \in Runner, NEW m \in Mondays,
         run'[r] = run[r], weekly' = weekly, lost' = lost,
         \A q \in Runner : run'[q].at = 0 \/ run'[q].at = run[q].at
  PROVE  CleanFit(r, m)'
<1>1. UNCHANGED Figures(m) /\ UNCHANGED Layer(m)
  BY FiguresStay, LayerStays
<1>2. CleanFit(r, m)
  BY DEF CleanInv
<1> SUFFICES ASSUME run'[r].at \in 1..5 /\ run'[r].clean /\ run'[r].week = m
             PROVE  /\ \A q \in Runner \ {r} : run'[q].at = 0
                    /\ run'[r].at = 3 => run'[r].report = Figures(m)'
                    /\ run'[r].at \in 4..5 => run'[r].report = Over(Figures(m), Layer(m))'
                    /\ lost' = 0 =>
                         /\ run'[r].at = 2 => weekly'[m] = NoRows
                         /\ run'[r].at \in 3..4 => weekly'[m] = Over(FigureRows(Figures(m)), NoRows)'
                         /\ run'[r].at = 5 => weekly'[m] = AllRows(run'[r].report)
  BY DEF CleanFit
<1> QED
  BY <1>1, <1>2 DEF CleanFit

\* A run that is not clean, or not computing, owes nothing.
LEMMA CleanIfNot ==
  ASSUME NEW r, NEW m, ~(run'[r].at \in 1..5 /\ run'[r].clean)
  PROVE  CleanFit(r, m)'
  BY DEF CleanFit

\* If no statement has failed, all rows were put.
LEMMA PutAll ==
  ASSUME WeeklyFit, LostFit, NEW r \in Runner, NEW m \in Mondays, run[r].week = m,
         NEW rows, rows = [x \in DOMAIN rows |-> rows[x]], Put(r, rows), lost' = 0
  PROVE  lost = 0 /\ weekly'[m] = Over(rows, weekly[m])
<1>1. PICK gone, put :
        /\ put = [x \in DOMAIN rows \ gone |-> rows[x]]
        /\ IF gone = {} THEN UNCHANGED lost ELSE lost < MaxLost /\ lost' = lost + 1
        /\ weekly' = [weekly EXCEPT ![m] = Over(put, weekly[m])]
  BY DEF Put, WeeklyFit
<1>2. lost + 1 # 0
  BY DEF LostFit
<1>3. gone = {} /\ lost = 0
  BY <1>1, <1>2
<1>4. put = rows
  <2>1. DOMAIN rows \ gone = DOMAIN rows
    BY <1>3
  <2>2. put = [x \in DOMAIN rows |-> rows[x]]
    BY <1>1, <2>1, Zenon
  <2> QED
    BY <2>2, Zenon
<1>5. weekly' = [weekly EXCEPT ![m] = Over(rows, weekly[m])]
  BY <1>1, <1>4
<1> QED
  BY <1>3, <1>5 DEF WeeklyFit

\* The rows of the figures, then those of the layer over them, are the rows of the
\* whole report, none of them left over.
LEMMA RowsOfFigures ==
  ASSUME NEW f, NEW g, DOMAIN f = FigureNames, DOMAIN g = LayerNames
  PROVE  /\ Over(LastRows(Over(f, g)), Over(FigureRows(f), NoRows)) = AllRows(Over(f, g))
         /\ FigureRows(f) = [x \in DOMAIN FigureRows(f) |-> FigureRows(f)[x]]
<1> DEFINE report == Over(f, g)
           last == LastRows(report)
           L == {"salary_median", "swe_enriched", "tech_share"}
           F == {"new_jobs", "active_jobs", "role_family", "tech_freq"}
<1>1. RowMetrics \cap DOMAIN f = F /\ RowMetrics = L \cup F /\ L \cap F = {}
  BY DEF RowMetrics, FigureNames
<1>2. DOMAIN report = DOMAIN f \cup DOMAIN g /\ \A x \in DOMAIN f : report[x] = f[x]
  BY DEF Over
<1>3. RowMetrics \cap DOMAIN report = F
  BY <1>1, <1>2 DEF RowMetrics, LayerNames, FigureNames
<1>4. DOMAIN last = L
  BY DEF LastRows
<1> HIDE DEF last, report, L, F
<1>5. FigureRows(f) = [x \in F |-> f[x]] /\ FigureRows(report) = [x \in F |-> report[x]]
  BY <1>1, <1>3 DEF FigureRows
<1>6. F \subseteq DOMAIN f
  BY <1>1
<1>7. FigureRows(report) = [x \in F |-> f[x]]
  BY <1>2, <1>5, <1>6
<1> DEFINE rows == [x \in F |-> f[x]]
<1>8. DOMAIN rows = F /\ DOMAIN NoRows = RowMetrics
  BY DEF NoRows
<1> HIDE DEF rows
<1>9. Over(last, Over(rows, NoRows)) = [x \in L \cup F |-> IF x \in L THEN last[x] ELSE rows[x]]
  <2>1. Over(rows, NoRows) = [x \in L \cup F |-> IF x \in F THEN rows[x] ELSE NoRows[x]]
    <3>1. DOMAIN rows \cup DOMAIN NoRows = L \cup F
      BY <1>1, <1>8
    <3> QED
      BY <1>8, <3>1, Zenon DEF Over
  <2>2. Over(last, Over(rows, NoRows)) = [x \in L \cup F |-> IF x \in L THEN last[x] ELSE Over(rows, NoRows)[x]]
    <3>1. DOMAIN last \cup DOMAIN Over(rows, NoRows) = L \cup F
      BY <1>4, <2>1
    <3> QED
      BY <1>4, <3>1, Zenon DEF Over
  <2>3. \A x \in L \cup F : x \in L \/ Over(rows, NoRows)[x] = rows[x]
    BY <2>1
  <2> QED
    BY <2>2, <2>3
<1>10. Over(rows, last) = [x \in L \cup F |-> IF x \in L THEN last[x] ELSE rows[x]]
  <2>1. DOMAIN rows \cup DOMAIN last = L \cup F
    BY <1>4, <1>8
  <2>2. Over(rows, last) = [x \in L \cup F |-> IF x \in F THEN rows[x] ELSE last[x]]
    BY <1>8, <2>1, Zenon DEF Over
  <2> QED
    BY <1>1, <2>2
<1>11. AllRows(report) = Over(rows, last)
  BY <1>7 DEF AllRows, last, rows
<1>12. FigureRows(f) = rows /\ rows = [x \in DOMAIN rows |-> rows[x]]
  BY <1>5 DEF rows
<1> QED
  BY <1>9, <1>10, <1>11, <1>12 DEF last, report

\* The steps of a clean run, one by one.
CleanBody(r, m) ==
  /\ run[r].at = 3 => run[r].report = Figures(m)
  /\ run[r].at \in 4..5 => run[r].report = Over(Figures(m), Layer(m))
  /\ lost = 0 =>
       /\ run[r].at = 2 => weekly[m] = NoRows
       /\ run[r].at \in 3..4 => weekly[m] = Over(FigureRows(Figures(m)), NoRows)
       /\ run[r].at = 5 => weekly[m] = AllRows(run[r].report)

\* A clean run stays alone when it goes on; what is left is what it computes.
LEMMA CleanFromBody ==
  ASSUME CleanInv, RunsFit, NEW r \in Runner, NEW m \in Mondays, NEW k \in 1..4,
         run[r].at = k, run'[r].at = k + 1, run'[r].week = run[r].week,
         run'[r].clean = run[r].clean, \A q \in Runner \ {r} : run'[q] = run[q],
         run[r].clean /\ run[r].week = m => CleanBody(r, m)'
  PROVE  CleanFit(r, m)'
<1>1. CleanFit(r, m)
  BY DEF CleanInv
<1> SUFFICES ASSUME run'[r].clean, run'[r].week = m
             PROVE  (\A q \in Runner \ {r} : run'[q].at = 0) /\ CleanBody(r, m)'
  BY DEF CleanFit, CleanBody
<1>2. \A q \in Runner \ {r} : run[q].at = 0
  BY <1>1 DEF CleanFit
<1> QED
  BY <1>2

\* The rows of the week are cleared.
LEMMA CleanClear ==
  ASSUME CleanInv, TypeInv, NEW r \in Runner, NEW m \in Mondays, Clear(r)
  PROVE  CleanFit(r, m)'
<1>1. run[r].at = 1
  BY AtIs DEF Clear, TypeInv
<1>2. /\ \A q \in Runner \ {r} : run'[q] = run[q]
      /\ run'[r].at = 1 + 1 /\ run'[r].week = run[r].week /\ run'[r].clean = run[r].clean
  BY <1>1, AdvanceEffect DEF Clear, OthersSame, TypeInv
<1>3. ASSUME run[r].week = m PROVE CleanBody(r, m)'
  <2>1. weekly'[m] = NoRows
    BY <1>3 DEF Clear, TypeInv, WeeklyFit
  <2> QED
    BY <1>2, <2>1 DEF CleanBody
<1> QED
  BY <1>1, <1>2, <1>3, CleanFromBody DEF TypeInv

\* The figures are computed and put.
LEMMA CleanFigures ==
  ASSUME CleanInv, TypeInv, LostFit, NEW r \in Runner, NEW m \in Mondays, PutFigures(r)
  PROVE  CleanFit(r, m)'
<1>1. run[r].at = 2
  BY AtIs DEF PutFigures, TypeInv
<1>2. PICK x : x = Figures(run[r].week) /\ AdvanceWith(r, x)
  BY DEF PutFigures
<1>3. /\ \A q \in Runner \ {r} : run'[q] = run[q]
      /\ run'[r].at = 2 + 1 /\ run'[r].week = run[r].week /\ run'[r].clean = run[r].clean
      /\ run'[r].report = Figures(run[r].week)
  BY <1>1, <1>2, ReportEffect DEF OthersSame, TypeInv
<1>4. UNCHANGED Figures(m)
  BY FiguresStay DEF PutFigures
<1>5. ASSUME run[r].clean, run[r].week = m PROVE CleanBody(r, m)'
  <2> DEFINE fig == Figures(m)
             rows == FigureRows(fig)
  <2>1. run'[r].report = fig
    BY <1>3, <1>5
  <2>2. Put(r, rows)
    BY <2>1 DEF PutFigures
  <2>3. rows = [y \in DOMAIN rows |-> rows[y]]
    BY DEF FigureRows
  <2> HIDE DEF fig, rows
  <2>4. lost' = 0 => lost = 0 /\ weekly'[m] = Over(rows, weekly[m])
    BY <1>5, <2>2, <2>3, PutAll DEF TypeInv
  <2>5. lost = 0 => weekly[m] = NoRows
    BY <1>1, <1>5 DEF CleanInv, CleanFit
  <2>6. lost' = 0 => weekly'[m] = Over(rows, NoRows)
    BY <2>4, <2>5
  <2>7. Over(FigureRows(Figures(m)), NoRows)' = Over(rows, NoRows)
    BY <1>4 DEF rows, fig
  <2> QED
    BY <1>3, <1>4, <2>1, <2>6, <2>7 DEF CleanBody, fig
<1> QED
  BY <1>1, <1>3, <1>5, CleanFromBody DEF TypeInv

\* The layer is asked while the tables are as they were.
LEMMA CleanLayer ==
  ASSUME CleanInv, TypeInv, NEW r \in Runner, NEW m \in Mondays, AskLayer(r)
  PROVE  CleanFit(r, m)'
<1>1. run[r].at = 3
  BY AtIs DEF AskLayer, TypeInv
<1>2. PICK x : x = Over(run[r].report, Layer(run[r].week)) /\ AdvanceWith(r, x)
  BY DEF AskLayer
<1>3. /\ \A q \in Runner \ {r} : run'[q] = run[q]
      /\ run'[r].at = 3 + 1 /\ run'[r].week = run[r].week /\ run'[r].clean = run[r].clean
      /\ run'[r].report = Over(run[r].report, Layer(run[r].week))
  BY <1>1, <1>2, ReportEffect DEF OthersSame, TypeInv
<1>4. UNCHANGED Figures(m) /\ UNCHANGED Layer(m)
  BY FiguresStay, LayerStays DEF AskLayer
<1>5. ASSUME run[r].clean, run[r].week = m PROVE CleanBody(r, m)'
  <2>1. run[r].report = Figures(m) /\ (lost = 0 => weekly[m] = Over(FigureRows(Figures(m)), NoRows))
    BY <1>1, <1>5 DEF CleanInv, CleanFit
  <2>2. run'[r].report = Over(Figures(m), Layer(m))
    BY <1>3, <1>5, <2>1
  <2>3. lost' = lost /\ weekly' = weekly
    BY DEF AskLayer, output
  <2>4. /\ Over(Figures(m), Layer(m))' = Over(Figures(m), Layer(m))
        /\ Over(FigureRows(Figures(m)), NoRows)' = Over(FigureRows(Figures(m)), NoRows)
    BY <1>4
  <2> QED
    BY <1>3, <2>1, <2>2, <2>3, <2>4 DEF CleanBody
<1> QED
  BY <1>1, <1>3, <1>5, CleanFromBody DEF TypeInv

\* Its rows complete those of the week.
LEMMA CleanLast ==
  ASSUME CleanInv, TypeInv, LostFit, NEW r \in Runner, NEW m \in Mondays, PutLast(r)
  PROVE  CleanFit(r, m)'
<1>1. run[r].at = 4
  BY AtIs DEF PutLast, TypeInv
<1>2. /\ \A q \in Runner \ {r} : run'[q] = run[q]
      /\ run'[r].at = 4 + 1 /\ run'[r].week = run[r].week /\ run'[r].clean = run[r].clean
      /\ run'[r].report = run[r].report
  BY <1>1, AdvanceEffect DEF PutLast, OthersSame, TypeInv
<1>3. UNCHANGED Figures(m) /\ UNCHANGED Layer(m)
  BY FiguresStay, LayerStays DEF PutLast
<1>4. ASSUME run[r].clean, run[r].week = m PROVE CleanBody(r, m)'
  <2> DEFINE fig == Figures(m)
             layer == Layer(m)
             report == Over(fig, layer)
             last == LastRows(report)
             rows == FigureRows(fig)
  <2>1. run[r].report = report /\ (lost = 0 => weekly[m] = Over(rows, NoRows))
    BY <1>1, <1>4 DEF CleanInv, CleanFit
  <2>2. DOMAIN fig = FigureNames /\ DOMAIN layer = LayerNames
    BY Sections
  <2>3. Over(Figures(m), Layer(m))' = report
    BY <1>3
  <2>4. last = [x \in DOMAIN last |-> last[x]]
    BY DEF LastRows
  <2> HIDE DEF fig, layer
  <2>5. Over(last, Over(rows, NoRows)) = AllRows(report)
    BY <2>2, RowsOfFigures
  <2>6. Put(r, last)
    BY <2>1 DEF PutLast
  <2> HIDE DEF report, last, rows
  <2>7. lost' = 0 => lost = 0 /\ weekly'[m] = Over(last, weekly[m])
    BY <1>4, <2>4, <2>6, PutAll DEF TypeInv
  <2>8. lost' = 0 => weekly'[m] = AllRows(report)
    BY <2>1, <2>5, <2>7
  <2>9. run'[r].report = report /\ run'[r].at = 5
    BY <1>2, <2>1
  <2> QED
    BY <2>3, <2>8, <2>9 DEF CleanBody
<1> QED
  BY <1>1, <1>2, <1>4, CleanFromBody DEF TypeInv

-----------------------------------------------------------------------------
(* The report is of its week                                               *)

ReportInv == TypeInv /\ JobsFit /\ LostFit /\ CleanInv

\* Every posting has the date the board gives it.
LEMMA SeenFits ==
  ASSUME NEW p \in Posting, NEW t
  PROVE  Seen(p, t).posted \in Int /\ Seen(p, t).expiry \in Int \cup {None}
<1>1. "posted" \in DOMAIN Row[p] /\ "expiry" \in DOMAIN Row[p]
      /\ Row[p].posted \in Int /\ Row[p].expiry \in Int \cup {None}
  BY PublishAssumption
<1>2. Seen(p, t).posted = Row[p].posted /\ Seen(p, t).expiry = Row[p].expiry
  BY <1>1 DEF Seen, Over
<1> QED
  BY <1>1, <1>2

\* At first no run is under way.
LEMMA ReportInit == Init => ReportInv
<1> SUFFICES ASSUME Init PROVE ReportInv
  OBVIOUS
<1>1. TypeInv
  BY TypeInit
<1>2. JobsFit
  <2>1. job = [p \in Posting |-> IF p = Min(Posting) THEN Seen(p, Midnight(Earlier)) ELSE None]
    BY DEF Init
  <2>2. job = [p \in Posting |-> job[p]]
    BY <2>1
  <2>3. \A p \in Posting : job[p] # None => job[p] = Seen(p, Midnight(Earlier))
    BY <2>1
  <2> QED
    BY <2>2, <2>3, SeenFits DEF JobsFit
<1>3. LostFit
  BY DEF Init, LostFit
<1>4. \A r \in Runner : run[r].at = 0
  BY DEF Init, Idle
<1>5. CleanInv
  BY <1>4 DEF CleanInv, CleanFit
<1> QED
  BY <1>1, <1>2, <1>3, <1>5 DEF ReportInv

\* Dates stay dates.
LEMMA JobsStep ==
  ASSUME JobsFit, [Next]_vars
  PROVE  JobsFit'
<1>1. CASE \E p \in Posting : Sight(p)
  <2>1. PICK p \in Posting : job' = [job EXCEPT ![p] = Seen(p, Firing)]
    BY <1>1 DEF Sight
  <2>2. job' = [q \in Posting |-> job'[q]]
    BY <2>1 DEF JobsFit
  <2>3. \A q \in Posting : job'[q] = IF q = p THEN Seen(p, Firing) ELSE job[q]
    BY <2>1 DEF JobsFit
  <2> QED
    BY <2>2, <2>3, SeenFits DEF JobsFit
<1>2. CASE UNCHANGED tables
  BY <1>2 DEF tables, JobsFit
<1>3. [Next]_vars => (\E p \in Posting : Sight(p)) \/ UNCHANGED tables
  BY DEF Next, Step, vars, tables, Fire, Restart, GiveUp, Deadline, RunByHand, Kill, Clear,
         PutFigures, AskLayer, PutLast, Truncate, Fill, Record, Push, Exit
<1> QED
  BY <1>1, <1>2, <1>3

\* Failures are counted.
LEMMA LostStep ==
  ASSUME LostFit, [Next]_vars
  PROVE  LostFit' /\ lost <= lost'
<1>1. [Next]_vars => lost' = lost \/ lost' = lost + 1
  BY DEF Next, Step, vars, output, Sight, Disturb, Fire, Restart, GiveUp, Deadline, RunByHand,
         Kill, Clear, PutFigures, AskLayer, PutLast, Put, Truncate, Fill, Record, Push, Exit
<1> QED
  BY <1>1 DEF LostFit

\* A step of a run that is past its report disturbs no clean run.
LEMMA CleanLater ==
  ASSUME CleanInv, RunsFit, NEW s \in Runner, run[s].at \in 5..11,
         NEW r \in Runner, NEW m \in Mondays, OthersSame(s), run'[s].at \notin 1..5
  PROVE  CleanFit(r, m)'
<1>1. CASE r = s
  BY <1>1, CleanIfNot
<1>2. CASE r # s
  <2>1. run'[r] = run[r]
    BY <1>2 DEF OthersSame
  <2>2. ~(run[r].at \in 1..5 /\ run[r].clean /\ run[r].week = m)
    BY <1>2 DEF CleanInv, CleanFit
  <2> QED
    BY <2>1, <2>2 DEF CleanFit
<1> QED
  BY <1>1, <1>2

\* A run that begins is clean only if it is alone.
LEMMA CleanBegin ==
  ASSUME TypeInv, NEW s \in Runner, NEW w \in Mondays, ~Active(s), Begin(s, w),
         NEW r \in Runner, NEW m \in Mondays
  PROVE  CleanFit(r, m)'
<1>1. /\ run'[s].at = 1
      /\ \A q \in Runner : run'[q].at # 0 /\ run'[q].clean =>
              \A p \in Runner \ {q} : run'[p].at = 0
  BY BeginEffect DEF TypeInv
<1>2. CASE r = s
  BY <1>1, <1>2 DEF CleanFit
<1>3. CASE r # s
  <2>1. ~(run'[r].at \in 1..5 /\ run'[r].clean)
    BY <1>1, <1>3
  <2> QED
    BY <2>1, CleanIfNot
<1> QED
  BY <1>2, <1>3

\* A clean run is disturbed by no step but its own.
LEMMA CleanStep ==
  ASSUME ReportInv, [Next]_vars
  PROVE  CleanInv'
<1> USE DEF ReportInv
<1> SUFFICES ASSUME NEW r \in Runner, NEW m \in Mondays PROVE CleanFit(r, m)'
  BY DEF CleanInv
<1>0. RunsFit
  BY DEF TypeInv
<1>1. CASE Fire
  <2>1. ~Active("cron")
    BY <1>1 DEF Fire, TypeInv, CronFit, Active
  <2> QED
    BY <1>1, <2>1, CleanBegin, TargetIsMonday DEF Fire, Runner
<1>2. CASE Restart
  BY <1>2, CleanBegin, TargetIsMonday DEF Restart, Runner
<1>3. CASE GiveUp
  BY <1>3, CleanStays DEF GiveUp, output
<1>4. CASE Deadline
  <2>1. /\ UNCHANGED tables /\ weekly' = weekly /\ lost' = lost
        /\ run' = [run EXCEPT !["cron"] = Idle] /\ "cron" \in Runner
    BY <1>4 DEF Deadline, Runner
  <2>2. run'["cron"].at = 0 /\ \A q \in Runner \ {"cron"} : run'[q] = run[q]
    BY <1>0, <2>1, StopEffect DEF OthersSame
  <2>3. CASE r = "cron"
    BY <2>2, <2>3, CleanIfNot
  <2>4. CASE r # "cron"
    BY <2>1, <2>2, <2>4, CleanStays
  <2> QED
    BY <2>3, <2>4
<1>5. CASE RunByHand
  <2>1. PICK w \in Mondays : Begin("manual", w)
    BY <1>5 DEF RunByHand, Mondays
  <2> QED
    BY <1>5, <2>1, CleanBegin DEF RunByHand, Runner
<1>6. CASE \E p \in Posting : Sight(p)
  <2>1. Disturb
    BY <1>6 DEF Sight
  <2>2. ~(run'[r].at \in 1..5 /\ run'[r].clean)
    BY <1>0, <2>1, DisturbEffect
  <2> QED
    BY <2>2, CleanIfNot
<1>7. ASSUME NEW s \in Runner, Kill(s) PROVE CleanFit(r, m)'
  <2>1. /\ UNCHANGED tables /\ weekly' = weekly /\ lost' = lost
        /\ run' = [run EXCEPT ![s] = Idle]
    BY <1>7 DEF Kill
  <2>2. run'[s].at = 0 /\ \A q \in Runner \ {s} : run'[q] = run[q]
    BY <1>0, <2>1, StopEffect DEF OthersSame
  <2>3. CASE r = s
    BY <2>2, <2>3, CleanIfNot
  <2>4. CASE r # s
    BY <2>1, <2>2, <2>4, CleanStays
  <2> QED
    BY <2>3, <2>4
<1>8. ASSUME NEW s \in Runner, Clear(s) \/ PutFigures(s) \/ AskLayer(s) \/ PutLast(s)
      PROVE  CleanFit(r, m)'
  <2>1. CASE r = s
    BY <1>8, <2>1, CleanClear, CleanFigures, CleanLayer, CleanLast
  <2>2. CASE r # s
    <3>1. run[s].at \in 1..4
      BY <1>0, <1>8, AtIs DEF Clear, PutFigures, AskLayer, PutLast
    <3>2. OthersSame(s)
      <4>1. (\E x : AdvanceWith(s, x)) \/ Advance(s)
        BY <1>8 DEF Clear, PutFigures, AskLayer, PutLast
      <4> QED
        BY <1>0, <3>1, <4>1, AdvanceEffect, ReportEffect
    <3>3. run'[r] = run[r]
      BY <2>2, <3>2 DEF OthersSame
    <3>4. ~(run[r].at \in 1..5 /\ run[r].clean /\ run[r].week = m)
      BY <2>2, <3>1 DEF CleanInv, CleanFit
    <3> QED
      BY <3>3, <3>4 DEF CleanFit
  <2> QED
    BY <2>1, <2>2
<1>9. ASSUME NEW s \in Runner,
             (\E f \in Files : Truncate(s, f) \/ Fill(s, f)) \/ Record(s) \/ Push(s)
      PROVE  CleanFit(r, m)'
  <2>1. run[s].at \in 5..10 /\ Advance(s)
    BY <1>0, <1>9, AtIs DEF Truncate, Fill, Files, Filled, Record, Push
  <2>2. OthersSame(s) /\ run'[s].at = run[s].at + 1
    BY <1>0, <2>1, AdvanceEffect
  <2> QED
    BY <1>0, <2>1, <2>2, CleanLater
<1>10. ASSUME NEW s \in Runner, Exit(s) PROVE CleanFit(r, m)'
  <2>1. run[s].at = 11 /\ run' = [run EXCEPT ![s] = Idle]
    BY <1>0, <1>10, AtIs DEF Exit
  <2>2. OthersSame(s) /\ run'[s].at = 0
    BY <1>0, <2>1, StopEffect
  <2> QED
    BY <1>0, <2>1, <2>2, CleanLater
<1>11. CASE UNCHANGED vars
  BY <1>11, CleanStays DEF vars, output, tables
<1> QED
  BY <1>1, <1>2, <1>3, <1>4, <1>5, <1>6, <1>7, <1>8, <1>9, <1>10, <1>11 DEF Next, Step

\* At the first use of a report, CleanFit says what it is.
LEMMA ReportImplied == ReportInv => ReportIsOfItsWeek
<1> SUFFICES ASSUME ReportInv, NEW r \in Runner, At(r, "html"), run[r].clean
             PROVE  /\ Numbers(run[r].report, run[r].week)
                    /\ lost = 0 => weekly[run[r].week] = AllRows(run[r].report)
  BY DEF ReportIsOfItsWeek
<1>1. run[r].at = 5 /\ run[r].week \in Mondays
  BY AtIs DEF ReportInv, TypeInv, RunsFit, RunFit
<1>2. PICK m \in Mondays : run[r].week = m
  BY <1>1
<1>3. /\ run[r].report = Over(Figures(m), Layer(m))
      /\ lost = 0 => weekly[m] = AllRows(run[r].report)
  BY <1>1, <1>2 DEF ReportInv, CleanInv, CleanFit
<1>4. Numbers(run[r].report, m)
  BY <1>3, NumbersHold DEF ReportInv
<1> QED
  BY <1>2, <1>3, <1>4

\* A report that no write and no other run has disturbed counts the postings
\* of the seven days of its week and of the quarter before their end, agrees
\* with what the pages would say of that week, and its rows are what is kept of
\* it, although they are computed and put in four steps and no transaction
\* (ReportIsOfItsWeek).
THEOREM OfItsWeek == Spec => []ReportIsOfItsWeek
<1>1. ReportInv /\ [Next]_vars => ReportInv'
  BY TypeStep, JobsStep, LostStep, CleanStep DEF ReportInv
<1>2. Spec => []ReportInv
  BY ReportInit, <1>1, PTL DEF Spec
<1> QED
  BY <1>2, ReportImplied, PTL

-----------------------------------------------------------------------------
(* The newest week                                                         *)

Asked == {targetWeek} \cup {asked[i] : i \in DOMAIN asked}

\* Weeks are those that were asked for and are over.
WeeksFit ==
  /\ asked \in Seq(Mondays)
  /\ \A r \in Runner : run[r].at # 0 => run[r].week \in Asked /\ run[r].week <= targetWeek
  /\ \A m \in recorded : m <= targetWeek /\ (m = Earlier \/ m \in Asked)
  /\ \A m \in Mondays : weekly[m]["new_jobs"] # None => m <= targetWeek

\* The latest report is the one that was there at first or one that was asked
\* for, and the latter as soon as a run has written it.
LatestFit ==
  /\ file[Latest] # Torn => file[Latest].week \in Asked \cup {Earlier}
  /\ file[Latest] # Torn /\ ((\E m \in recorded : m # Earlier) \/ (\E r \in Runner : run[r].at > 7)) =>
       file[Latest].week \in Asked

\* A week that a run has put its figures for has its row, unless it failed, or
\* a run has cleared it and was stopped or goes on to put it.
RowsFit ==
  \A m \in Mondays :
    /\ m \in recorded \/ \E r \in Runner : run[r].at > 2 /\ run[r].week = m
    /\ weekly[m]["new_jobs"] = None
    => \/ lost > 0 \/ <<"rows", m>> \in hurt
       \/ \E r \in Runner : run[r].at = 2 /\ run[r].week = m

\* How a step moves a run.
LEMMA RunMoves ==
  ASSUME TypeInv, [Next]_vars, asked \in Seq(Mondays), NEW q \in Runner
  PROVE  \/ run'[q].at = 0
         \/ run'[q].at = 1 /\ run'[q].week \in Asked' /\ run'[q].week <= targetWeek
         \/ /\ run[q].at # 0 /\ run'[q].week = run[q].week
            /\ run'[q].at = run[q].at \/ (Step(q) /\ run'[q].at = run[q].at + 1)
<1>0. RunsFit
  BY DEF TypeInv
<1>1. ASSUME NEW r \in Runner, NEW m \in Mondays, ~Active(r), Begin(r, m),
             m \in Asked', m <= targetWeek
      PROVE  \/ run'[q].at = 0
             \/ run'[q].at = 1 /\ run'[q].week \in Asked' /\ run'[q].week <= targetWeek
             \/ run[q].at # 0 /\ run'[q].week = run[q].week /\ run'[q].at = run[q].at
  <2>1. Behind(r) /\ run'[r].at = 1 /\ run'[r].week = m
    BY <1>0, <1>1, BeginEffect
  <2> QED
    BY <1>1, <2>1 DEF Behind
<1>2. targetWeek \in Asked' /\ targetWeek <= targetWeek
  BY MondaysFit, TargetIsMonday DEF Asked
<1>3. CASE Fire \/ Restart
  <2>1. ~Active("cron") /\ Begin("cron", targetWeek) /\ "cron" \in Runner
    BY <1>3 DEF Fire, Restart, TypeInv, CronFit, Active, Runner
  <2> QED
    BY <1>1, <1>2, <2>1, TargetIsMonday
<1>4. CASE RunByHand
  <2>1. PICK m \in Mondays : m <= targetWeek /\ asked' = Append(asked, m) /\ Begin("manual", m)
    BY <1>4 DEF RunByHand, Mondays
  <2>2. ~Active("manual") /\ "manual" \in Runner
    BY <1>4 DEF RunByHand, Runner
  <2>3. Len(asked) + 1 \in DOMAIN asked' /\ asked'[Len(asked) + 1] = m
    BY <2>1
  <2>4. m \in Asked'
    BY <2>3 DEF Asked
  <2> QED
    BY <1>1, <2>1, <2>2, <2>4
<1>5. ASSUME NEW r \in Runner, run' = [run EXCEPT ![r] = Idle]
      PROVE  run'[q].at = 0 \/ run'[q] = run[q]
  BY <1>0, <1>5, StopEffect DEF OthersSame
<1>6. CASE GiveUp \/ UNCHANGED vars
  BY <1>6 DEF GiveUp, vars
<1>7. CASE Deadline \/ \E r \in Runner : Kill(r) \/ Exit(r)
  BY <1>5, <1>7 DEF Deadline, Kill, Exit, Runner
<1>8. CASE \E p \in Posting : Sight(p)
  BY <1>0, <1>8, DisturbEffect DEF Sight
<1>9. ASSUME NEW r \in Runner, run[r].at \in 1..10, Advance(r) \/ \E x : AdvanceWith(r, x)
      PROVE  /\ run[r].at # 0 /\ run'[r].week = run[r].week /\ run'[r].at = run[r].at + 1
             /\ \A p \in Runner \ {r} : run'[p] = run[p]
  BY <1>0, <1>9, AdvanceEffect, ReportEffect DEF OthersSame
<1>10. ASSUME NEW r \in Runner, Step(r), ~Exit(r)
       PROVE  run[r].at \in 1..10 /\ (Advance(r) \/ \E x : AdvanceWith(r, x))
  <2>1. Advance(r) \/ \E x : AdvanceWith(r, x)
    BY <1>10 DEF Step, Clear, PutFigures, AskLayer, PutLast, Truncate, Fill, Record, Push
  <2>2. run[r].at \in 1..10
    BY <1>0, <1>10, AtIs DEF Step, Clear, PutFigures, AskLayer, PutLast, Truncate, Fill, Record,
       Push, Files, Filled
  <2> QED
    BY <2>1, <2>2
<1>11. ASSUME NEW r \in Runner, Step(r), ~Exit(r)
       PROVE  \/ run'[q].at = 0
              \/ /\ run[q].at # 0 /\ run'[q].week = run[q].week
                 /\ run'[q].at = run[q].at \/ (Step(q) /\ run'[q].at = run[q].at + 1)
  BY <1>9, <1>10, <1>11
<1> QED
  BY <1>3, <1>4, <1>6, <1>7, <1>8, <1>11 DEF Next

\* Weeks that were asked for stay so.
LEMMA AskedGrows ==
  ASSUME [Next]_vars, asked \in Seq(Mondays)
  PROVE  asked' \in Seq(Mondays) /\ Asked \subseteq Asked'
<1>1. asked' = asked \/ \E m \in Mondays : asked' = Append(asked, m)
  <2>1. CASE RunByHand
    BY <2>1 DEF RunByHand, Mondays
  <2>2. ~RunByHand => asked' = asked
    BY DEF Next, Step, vars, Sight, Disturb, Fire, Restart, GiveUp, Deadline, Kill, Clear,
           PutFigures, AskLayer, PutLast, Truncate, Fill, Record, Push, Exit
  <2> QED
    BY <2>1, <2>2
<1>2. CASE asked' = asked
  BY <1>2 DEF Asked
<1>3. ASSUME NEW m \in Mondays, asked' = Append(asked, m)
      PROVE  asked' \in Seq(Mondays) /\ Asked \subseteq Asked'
  <2>1. asked' \in Seq(Mondays)
    BY <1>3
  <2>2. \A i \in DOMAIN asked : i \in DOMAIN asked' /\ asked'[i] = asked[i]
    BY <1>3
  <2> QED
    BY <2>1, <2>2 DEF Asked
<1> QED
  BY <1>1, <1>2, <1>3

\* What a step adds to the weeks that are recorded, and which rows it touches.
LEMMA RecordedMoves ==
  ASSUME RunsFit, [Next]_vars
  PROVE  \/ recorded' = recorded
         \/ \E r \in Runner : run[r].at = 9 /\ recorded' = recorded \cup {run[r].week}
<1>1. ASSUME NEW r \in Runner, Record(r)
      PROVE  \/ recorded' = recorded
             \/ run[r].at = 9 /\ recorded' = recorded \cup {run[r].week}
  BY <1>1, AtIs DEF Record
<1>2. (\A r \in Runner : ~Record(r)) => recorded' = recorded
  BY DEF Next, Step, vars, output, Sight, Disturb, Fire, Restart, GiveUp, Deadline, RunByHand,
         Kill, Clear, PutFigures, AskLayer, PutLast, Truncate, Fill, Push, Exit
<1> QED
  BY <1>1, <1>2

\* A week's rows change while a run has its figures or last rows to put, or are
\* cleared.
LEMMA WeeklyMoves ==
  ASSUME RunsFit, WeeklyFit, [Next]_vars, NEW m \in Mondays
  PROVE  \/ weekly'[m] = weekly[m]
         \/ weekly'[m] = NoRows
         \/ \E r \in Runner : run[r].at \in {2, 4} /\ run[r].week = m
<1>1. ASSUME NEW r \in Runner, Clear(r) PROVE weekly'[m] = weekly[m] \/ weekly'[m] = NoRows
  BY <1>1 DEF Clear, WeeklyFit
<1>2. ASSUME NEW r \in Runner, NEW rows, Put(r, rows)
      PROVE  weekly'[m] = weekly[m] \/ run[r].week = m
  BY <1>2 DEF Put, WeeklyFit
<1>3. ASSUME NEW r \in Runner, PutFigures(r) \/ PutLast(r)
      PROVE  run[r].at \in {2, 4} /\ \E rows : Put(r, rows)
  BY <1>3, AtIs DEF PutFigures, PutLast
<1>4. (\A r \in Runner : ~Clear(r) /\ ~PutFigures(r) /\ ~PutLast(r)) => weekly' = weekly
  BY DEF Next, Step, vars, output, Sight, Disturb, Fire, Restart, GiveUp, Deadline, RunByHand,
         Kill, AskLayer, Truncate, Fill, Record, Push, Exit
<1> QED
  BY <1>1, <1>2, <1>3, <1>4

\* How the latest report changes.
LEMMA LatestMoves ==
  ASSUME RunsFit, FilesFit, [Next]_vars, Latest \in DOMAIN file
  PROVE  \/ file'[Latest] = file[Latest]
         \/ file'[Latest] = Torn
         \/ \E r \in Runner : run[r].at = 8 /\ file'[Latest].week = run[r].week
<1>1. ASSUME NEW r \in Runner, NEW f \in Files, Truncate(r, f)
      PROVE  \/ file'[Latest] = Torn
             \/ file'[Latest] = file[Latest]
  <2>1. f = "html" \/ f = "latest"
    BY DEF Files
  <2>2. file' = Over([n \in {NameOf(r, f)} |-> Torn], file)
    BY <1>1 DEF Truncate
  <2>3. file'[Latest] = IF Latest = NameOf(r, f) THEN Torn ELSE file[Latest]
    BY <2>2 DEF Over
  <2>4. f = "html" => run[r].at = 5 /\ NameOf(r, f) # Latest
    BY <1>1, AtIs, NameOfIs, HtmlIsNotLatest DEF Truncate
  <2>5. f = "latest" => NameOf(r, f) = Latest
    BY NameOfIs
  <2> QED
    BY <2>1, <2>3, <2>4, <2>5
<1>2. ASSUME NEW r \in Runner, NEW f \in Files, Fill(r, f)
      PROVE  \/ file'[Latest] = Torn
             \/ file'[Latest] = file[Latest]
             \/ run[r].at = 8 /\ file'[Latest].week = run[r].week
  <2>1. f = "html" \/ f = "latest"
    BY DEF Files
  <2>2. PICK page : /\ file' = [file EXCEPT ![NameOf(r, f)] = page]
                    /\ page = Torn \/ page.week = run[r].week
    BY <1>2 DEF Fill
  <2>3. file'[Latest] = IF Latest = NameOf(r, f) THEN page ELSE file[Latest]
    BY <2>2
  <2>4. f = "html" => run[r].at = 6 /\ NameOf(r, f) # Latest
    BY <1>2, AtIs, NameOfIs, HtmlIsNotLatest DEF Fill, Filled
  <2>5. f = "latest" => run[r].at = 8 /\ NameOf(r, f) = Latest
    BY <1>2, AtIs, NameOfIs DEF Fill, Filled
  <2> QED
    BY <2>1, <2>2, <2>3, <2>4, <2>5
<1>3. (\A r \in Runner : \A f \in Files : ~Truncate(r, f) /\ ~Fill(r, f)) => file' = file
  BY DEF Next, Step, vars, output, Sight, Disturb, Fire, Restart, GiveUp, Deadline, RunByHand,
         Kill, Clear, PutFigures, AskLayer, PutLast, Record, Push, Exit
<1> QED
  BY <1>1, <1>2, <1>3

\* The latest report is truncated before a run gets past it.
LEMMA LatestBegun ==
  ASSUME TypeInv, [Next]_vars, asked \in Seq(Mondays), Latest \in DOMAIN file,
         NEW r \in Runner, run'[r].at > 7
  PROVE  run[r].at > 7 \/ file'[Latest] = Torn
<1>1. CASE run[r].at # 7
  <2>1. \/ run'[r].at = 0 \/ run'[r].at = 1 \/ run'[r].at = run[r].at
        \/ run'[r].at = run[r].at + 1
    BY RunMoves
  <2> QED
    BY <1>1, <2>1 DEF TypeInv, RunsFit, RunFit
<1>2. CASE run[r].at = 7
  <2>1. Step(r) /\ run'[r].at = 8
    <3>1. \/ run'[r].at = 0 \/ run'[r].at = 1 \/ run'[r].at = run[r].at
          \/ Step(r) /\ run'[r].at = run[r].at + 1
      BY RunMoves
    <3> QED
      BY <1>2, <3>1
  <2>2. Truncate(r, "latest")
    <3>1. ~Clear(r) /\ ~PutFigures(r) /\ ~AskLayer(r) /\ ~PutLast(r) /\ ~Record(r) /\ ~Push(r)
          /\ ~Exit(r)
      BY <1>2, AtIs DEF Clear, PutFigures, AskLayer, PutLast, Record, Push, Exit, TypeInv
    <3>2. \A f \in Files : ~Fill(r, f)
      BY <1>2, AtIs DEF Fill, Filled, Files, TypeInv
    <3>3. ~Truncate(r, "html")
      BY <1>2, AtIs DEF Truncate, TypeInv
    <3> QED
      BY <2>1, <3>1, <3>2, <3>3 DEF Step, Files
  <2>3. NameOf(r, "latest") = Latest
    BY NameOfIs
  <2>4. file' = Over([n \in {Latest} |-> Torn], file)
    BY <2>2, <2>3 DEF Truncate
  <2> QED
    BY <2>4 DEF Over
<1> QED
  BY <1>1, <1>2

\* Weeks are asked for before they are run, kept or recorded.
LEMMA WeeksStep ==
  ASSUME TypeInv, WeeksFit, [Next]_vars
  PROVE  WeeksFit'
<1>1. asked' \in Seq(Mondays) /\ Asked \subseteq Asked'
  BY AskedGrows DEF WeeksFit
<1>2. ASSUME NEW q \in Runner, run'[q].at # 0
      PROVE  run'[q].week \in Asked' /\ run'[q].week <= targetWeek
  <2>1. \/ run'[q].week \in Asked' /\ run'[q].week <= targetWeek
        \/ run[q].at # 0 /\ run'[q].week = run[q].week
    BY <1>2, RunMoves DEF WeeksFit
  <2> QED
    BY <1>1, <2>1 DEF WeeksFit
<1>3. ASSUME NEW m \in recorded'
      PROVE  m <= targetWeek /\ (m = Earlier \/ m \in Asked')
  <2>1. m \in recorded \/ \E r \in Runner : run[r].at = 9 /\ m = run[r].week
    BY <1>3, RecordedMoves DEF TypeInv
  <2> QED
    BY <1>1, <2>1 DEF WeeksFit
<1>4. ASSUME NEW m \in Mondays, weekly'[m]["new_jobs"] # None
      PROVE  m <= targetWeek
  <2>1. \/ weekly'[m] = weekly[m] \/ weekly'[m] = NoRows
        \/ \E r \in Runner : run[r].at \in {2, 4} /\ run[r].week = m
    BY WeeklyMoves DEF TypeInv
  <2>2. NoRows["new_jobs"] = None
    BY DEF NoRows, RowMetrics
  <2> QED
    BY <1>4, <2>1, <2>2 DEF WeeksFit
<1> QED
  BY <1>1, <1>2, <1>3, <1>4 DEF WeeksFit

LatestThere == Latest \in DOMAIN file

\* The latest report is there from the start.
LEMMA LatestStays ==
  ASSUME LatestThere, [Next]_vars
  PROVE  LatestThere'
<1>1. ASSUME NEW r \in Runner, NEW f \in Files, Truncate(r, f)
      PROVE  DOMAIN file \subseteq DOMAIN file'
  BY <1>1 DEF Truncate, Over
<1>2. ASSUME NEW r \in Runner, NEW f \in Files, Fill(r, f)
      PROVE  DOMAIN file \subseteq DOMAIN file'
  BY <1>2 DEF Fill
<1>3. (\A r \in Runner : \A f \in Files : ~Truncate(r, f) /\ ~Fill(r, f)) => file' = file
  BY DEF Next, Step, vars, output, Sight, Disturb, Fire, Restart, GiveUp, Deadline, RunByHand,
         Kill, Clear, PutFigures, AskLayer, PutLast, Record, Push, Exit
<1> QED
  BY <1>1, <1>2, <1>3 DEF LatestThere

\* A run writes the latest report before it is recorded.
LEMMA LatestStep ==
  ASSUME TypeInv, WeeksFit, LatestThere, LatestFit, [Next]_vars
  PROVE  LatestFit'
<1>0. Asked \subseteq Asked'
  BY AskedGrows DEF WeeksFit
<1>1. SUFFICES ASSUME file'[Latest] # Torn
               PROVE  /\ file'[Latest].week \in Asked' \cup {Earlier}
                      /\ (\E m \in recorded' : m # Earlier) \/ (\E r \in Runner : run'[r].at > 7) =>
                           file'[Latest].week \in Asked'
  BY DEF LatestFit, Latest, Torn
<1>2. CASE \E r \in Runner : run[r].at = 8 /\ file'[Latest].week = run[r].week
  BY <1>0, <1>2 DEF WeeksFit
<1>3. CASE file'[Latest] = file[Latest]
  <2>1. (\E m \in recorded' : m # Earlier) =>
          (\E m \in recorded : m # Earlier) \/ \E r \in Runner : run[r].at > 7
    BY RecordedMoves DEF TypeInv
  <2>2. ASSUME NEW r \in Runner, run'[r].at > 7 PROVE run[r].at > 7
    BY <1>1, <2>2, LatestBegun DEF LatestThere, WeeksFit
  <2>3. /\ file[Latest].week \in Asked \cup {Earlier}
        /\ (\E m \in recorded : m # Earlier) \/ (\E r \in Runner : run[r].at > 7) =>
             file[Latest].week \in Asked
    BY <1>1, <1>3 DEF LatestFit
  <2> QED
    BY <1>0, <1>3, <2>1, <2>2, <2>3
<1> QED
  BY <1>1, <1>2, <1>3, LatestMoves DEF TypeInv, LatestThere

\* What a put leaves of the rows of a week.
LEMMA PutKeeps ==
  ASSUME WeeklyFit, LostFit, NEW r \in Runner, NEW m \in Mondays, run[r].week = m,
         NEW rows, Put(r, rows), NEW x \in RowMetrics
  PROVE  \/ weekly'[m][x] = weekly[m][x] /\ (x \in DOMAIN rows => lost' > 0)
         \/ x \in DOMAIN rows /\ weekly'[m][x] = rows[x]
<1>1. PICK gone, put :
        /\ put = [y \in DOMAIN rows \ gone |-> rows[y]]
        /\ IF gone = {} THEN UNCHANGED lost ELSE lost < MaxLost /\ lost' = lost + 1
        /\ weekly' = [weekly EXCEPT ![m] = Over(put, weekly[m])]
  BY DEF Put, WeeklyFit
<1>2. weekly'[m] = Over(put, weekly[m])
  BY <1>1 DEF WeeklyFit
<1>3. DOMAIN weekly[m] = RowMetrics
  BY DEF WeeklyFit
<1>4. CASE x \in DOMAIN put
  BY <1>1, <1>2, <1>4 DEF Over
<1>5. CASE x \notin DOMAIN put
  <2>1. weekly'[m][x] = weekly[m][x]
    BY <1>2, <1>3, <1>5 DEF Over
  <2>2. x \in DOMAIN rows => gone # {}
    BY <1>1, <1>5
  <2> QED
    BY <1>1, <2>1, <2>2 DEF LostFit
<1> QED
  BY <1>4, <1>5

\* The number of new postings is a number.
LEMMA NewJobsIsNumber ==
  ASSUME NEW m
  PROVE  Figures(m).new_jobs # None /\ FigureRows(Figures(m))["new_jobs"] # None
         /\ "new_jobs" \in DOMAIN FigureRows(Figures(m))
<1>1. sweIn(WeekBounds(m)) \subseteq Posting
  BY DEF sweIn, swePosted, Stored, SWEJobs
<1>2. Cardinality(sweIn(WeekBounds(m))) \in Nat
  BY <1>1, PublishAssumption, FS_Subset, FS_CardinalityType
<1>3. Figures(m).new_jobs # None
  BY <1>2, PublishAssumption DEF Figures
<1>4. "new_jobs" \in RowMetrics \cap DOMAIN Figures(m)
  BY Sections DEF RowMetrics, FigureNames
<1>5. FigureRows(Figures(m))["new_jobs"] = Figures(m)["new_jobs"]
  BY <1>4 DEF FigureRows
<1> QED
  BY <1>3, <1>4, <1>5 DEF FigureRows

\* The figures bring the row of the week, or a statement has failed.
LEMMA FigureKept ==
  ASSUME TypeInv, LostFit, NEW r \in Runner, NEW m \in Mondays, run[r].week = m, PutFigures(r)
  PROVE  \/ weekly'[m]["new_jobs"] # None
         \/ lost' > 0 /\ weekly'[m]["new_jobs"] = weekly[m]["new_jobs"]
<1>1. run[r].at = 2
  BY AtIs DEF PutFigures, TypeInv
<1>2. PICK x : x = Figures(m) /\ AdvanceWith(r, x)
  BY DEF PutFigures
<1>3. run'[r].report = Figures(m)
  BY <1>1, <1>2, ReportEffect DEF TypeInv
<1>4. PICK rows : rows = FigureRows(Figures(m)) /\ Put(r, rows)
  BY <1>3 DEF PutFigures
<1>5. rows["new_jobs"] # None /\ "new_jobs" \in DOMAIN rows
  BY <1>4, NewJobsIsNumber
<1>6. "new_jobs" \in RowMetrics
  BY DEF RowMetrics
<1> QED
  BY <1>4, <1>5, <1>6, PutKeeps DEF TypeInv

\* Only the clearing of a week takes its row away.
LEMMA RowsGone ==
  ASSUME TypeInv, LostFit, [Next]_vars, NEW m \in Mondays,
         weekly[m]["new_jobs"] # None, weekly'[m]["new_jobs"] = None
  PROVE  \E r \in Runner : run'[r].at = 2 /\ run'[r].week = m
<1>1. ASSUME NEW r \in Runner, Clear(r)
      PROVE  \E q \in Runner : run'[q].at = 2 /\ run'[q].week = m
  <2>1. run[r].at = 1
    BY <1>1, AtIs DEF Clear, TypeInv
  <2>2. run'[r].at = 2 /\ run'[r].week = run[r].week
    BY <1>1, <2>1, AdvanceEffect DEF Clear, TypeInv
  <2>3. run[r].week = m
    BY <1>1 DEF Clear, TypeInv, WeeklyFit
  <2> QED
    BY <2>2, <2>3
<1>2. ASSUME NEW r \in Runner, PutFigures(r) PROVE FALSE
  <2>1. run[r].week = m
    BY <1>2 DEF PutFigures, Put, TypeInv, WeeklyFit
  <2> QED
    BY <1>2, <2>1, FigureKept
<1>3. ASSUME NEW r \in Runner, PutLast(r) PROVE FALSE
  <2>1. run[r].week = m
    BY <1>3 DEF PutLast, Put, TypeInv, WeeklyFit
  <2>2. PICK rows : rows = LastRows(run[r].report) /\ Put(r, rows)
    BY <1>3 DEF PutLast
  <2>3. "new_jobs" \in RowMetrics /\ "new_jobs" \notin DOMAIN rows
    BY <2>2 DEF RowMetrics, LastRows
  <2> QED
    BY <2>1, <2>2, <2>3, PutKeeps DEF TypeInv
<1>4. (\A r \in Runner : ~Clear(r) /\ ~PutFigures(r) /\ ~PutLast(r)) => weekly' = weekly
  BY DEF Next, Step, vars, output, Sight, Disturb, Fire, Restart, GiveUp, Deadline, RunByHand,
         Kill, AskLayer, Truncate, Fill, Record, Push, Exit
<1> QED
  BY <1>1, <1>2, <1>3, <1>4

\* Only the last rows of a run that nothing disturbed make the rows of its week
\* whole again.
LEMMA RowsHurt ==
  ASSUME TypeInv, [Next]_vars, NEW m \in Mondays, <<"rows", m>> \in hurt
  PROVE  \/ <<"rows", m>> \in hurt'
         \/ \E r \in Runner : run[r].at = 4 /\ run[r].clean /\ run[r].week = m
<1>1. CASE Deadline \/ \E r \in Runner : Kill(r)
  BY <1>1 DEF Deadline, Kill
<1>2. ASSUME NEW r \in Runner, PutLast(r)
      PROVE  <<"rows", m>> \in hurt' \/ (run[r].at = 4 /\ run[r].clean /\ run[r].week = m)
  BY <1>2, AtIs DEF PutLast, TypeInv
<1>3. ASSUME NEW r \in Runner, NEW f \in Files, Fill(r, f)
      PROVE  <<"rows", m>> \in hurt'
  <2>1. NameOf(r, f) = Html(run[r].week) \/ NameOf(r, f) = Latest
    BY NameOfIs DEF Files
  <2>2. <<"rows", m>> # NameOf(r, f)
    BY <2>1, HtmlIsNotLatest
  <2>3. hurt' = hurt \ {NameOf(r, f)} \/ hurt' = hurt \cup {NameOf(r, f)}
    BY <1>3 DEF Fill
  <2> QED
    BY <2>2, <2>3
<1>4. /\ ~Deadline
      /\ \A r \in Runner : ~Kill(r) /\ ~PutLast(r) /\ \A f \in Files : ~Fill(r, f)
      => hurt' = hurt
  BY DEF Next, Step, vars, output, Sight, Disturb, Fire, Restart, GiveUp, RunByHand,
         Clear, PutFigures, AskLayer, Truncate, Record, Push, Exit
<1> QED
  BY <1>1, <1>2, <1>3, <1>4

\* A run that has cleared its week puts the figures, or is stopped there.
LEMMA RowsCleared ==
  ASSUME TypeInv, [Next]_vars, asked \in Seq(Mondays), NEW r \in Runner,
         NEW m \in Mondays, run[r].at = 2, run[r].week = m
  PROVE  \/ run'[r].at = 2 /\ run'[r].week = m
         \/ <<"rows", m>> \in hurt'
         \/ PutFigures(r)
<1>1. <<"rows", m>> \in HalfDone(r)
  BY HalfDoneIs DEF TypeInv
<1>2. CASE Kill(r) \/ (r = "cron" /\ Deadline)
  BY <1>1, <1>2 DEF Kill, Deadline
<1>3. CASE Step(r)
  <2>1. ~Clear(r) /\ ~AskLayer(r) /\ ~PutLast(r) /\ ~Record(r) /\ ~Push(r) /\ ~Exit(r)
    BY AtIs DEF Clear, AskLayer, PutLast, Record, Push, Exit, TypeInv
  <2>2. \A f \in Files : ~Truncate(r, f) /\ ~Fill(r, f)
    BY AtIs DEF Truncate, Fill, Filled, Files, TypeInv
  <2> QED
    BY <1>3, <2>1, <2>2 DEF Step
<1>4. ASSUME NEW q \in Runner, q # r, run' = [run EXCEPT ![q] = Idle]
      PROVE  run'[r].at = 2 /\ run'[r].week = m
  BY <1>4, StopEffect DEF OthersSame, TypeInv
<1>5. ASSUME NEW q \in Runner, NEW w \in Mondays, ~Active(q), Begin(q, w)
      PROVE  run'[r].at = 2 /\ run'[r].week = m
  BY <1>5, BeginEffect DEF Behind, TypeInv, Active
<1>6. CASE Fire \/ Restart \/ RunByHand
  <2>1. CASE Fire \/ Restart
    <3>1. ~Active("cron") /\ Begin("cron", targetWeek) /\ "cron" \in Runner
      BY <2>1 DEF Fire, Restart, TypeInv, CronFit, Active, Runner
    <3> QED
      BY <1>5, <3>1, TargetIsMonday
  <2>2. CASE RunByHand
    <3>1. PICK w \in Mondays : Begin("manual", w)
      BY <2>2 DEF RunByHand, Mondays
    <3>2. ~Active("manual") /\ "manual" \in Runner
      BY <2>2 DEF RunByHand, Runner
    <3> QED
      BY <1>5, <3>1, <3>2
  <2> QED
    BY <1>6, <2>1, <2>2
<1>7. CASE \E q \in Runner \ {r} : Kill(q) \/ Exit(q)
  BY <1>4, <1>7 DEF Kill, Exit
<1>8. CASE Deadline /\ r # "cron"
  BY <1>4, <1>8 DEF Deadline, Runner
<1>9. CASE GiveUp \/ UNCHANGED vars
  BY <1>9 DEF GiveUp, vars
<1>10. CASE \E p \in Posting : Sight(p)
  BY <1>10, DisturbEffect DEF Sight, TypeInv
<1>11. ASSUME NEW q \in Runner, q # r, Step(q), ~Exit(q)
       PROVE  run'[r].at = 2 /\ run'[r].week = m
  <2>1. Advance(q) \/ \E x : AdvanceWith(q, x)
    BY <1>11 DEF Step, Clear, PutFigures, AskLayer, PutLast, Truncate, Fill, Record, Push
  <2>2. run[q].at \in 1..10
    BY <1>11, AtIs DEF Step, Clear, PutFigures, AskLayer, PutLast, Truncate, Fill, Record,
       Push, Files, Filled, TypeInv
  <2> QED
    BY <1>11, <2>1, <2>2, AdvanceEffect, ReportEffect DEF OthersSame, TypeInv
<1> QED
  BY <1>2, <1>3, <1>6, <1>7, <1>8, <1>9, <1>10, <1>11 DEF Next

\* A week that was run has its row, or what took it is known.
LEMMA RowsStep ==
  ASSUME ReportInv, WeeksFit, RowsFit, [Next]_vars
  PROVE  RowsFit'
<1> USE DEF ReportInv
<1>0. LostFit' /\ lost <= lost'
  BY LostStep
<1>1. SUFFICES ASSUME NEW m \in Mondays,
                      m \in recorded' \/ \E r \in Runner : run'[r].at > 2 /\ run'[r].week = m,
                      weekly'[m]["new_jobs"] = None, ~(lost' > 0)
               PROVE  \/ <<"rows", m>> \in hurt'
                      \/ \E r \in Runner : run'[r].at = 2 /\ run'[r].week = m
  BY DEF RowsFit
<1>2. lost = 0 /\ lost' = 0
  BY <1>0, <1>1 DEF LostFit
<1>3. CASE weekly[m]["new_jobs"] # None
  BY <1>1, <1>3, RowsGone
<1>4. ASSUME NEW r \in Runner, PutFigures(r), run[r].week = m PROVE FALSE
  BY <1>1, <1>4, FigureKept
<1>5. ASSUME NEW r \in Runner, run'[r].at > 2, run'[r].week = m
      PROVE  run[r].at > 2 /\ run[r].week = m
  <2>1. /\ run[r].at # 0 /\ run[r].week = m
        /\ run'[r].at = run[r].at \/ (Step(r) /\ run'[r].at = run[r].at + 1)
    BY <1>5, RunMoves DEF WeeksFit
  <2>2. run[r].at \in 0..11
    BY DEF TypeInv, RunsFit, RunFit
  <2>3. CASE run[r].at = 2
    <3>1. run'[r].at # 2 /\ Step(r)
      BY <1>5, <2>1, <2>3
    <3>2. ~Clear(r) /\ ~AskLayer(r) /\ ~PutLast(r) /\ ~Record(r) /\ ~Push(r) /\ ~Exit(r)
      BY <2>3, AtIs DEF Clear, AskLayer, PutLast, Record, Push, Exit, TypeInv
    <3>3. \A f \in Files : ~Truncate(r, f) /\ ~Fill(r, f)
      BY <2>3, AtIs DEF Truncate, Fill, Filled, Files, TypeInv
    <3> QED
      BY <1>4, <2>1, <3>1, <3>2, <3>3 DEF Step
  <2> QED
    BY <1>5, <2>1, <2>2, <2>3
<1>6. CASE weekly[m]["new_jobs"] = None
  <2>1. m \in recorded \/ \E r \in Runner : run[r].at > 2 /\ run[r].week = m
    <3>1. m \in recorded' => m \in recorded \/ \E r \in Runner : run[r].at > 2 /\ run[r].week = m
      BY RecordedMoves DEF TypeInv
    <3> QED
      BY <1>1, <1>5, <3>1
  <2>2. <<"rows", m>> \in hurt \/ \E r \in Runner : run[r].at = 2 /\ run[r].week = m
    BY <1>2, <1>6, <2>1 DEF RowsFit
  <2>3. ASSUME NEW r \in Runner, run[r].at = 4, run[r].clean, run[r].week = m PROVE FALSE
    <3>1. weekly[m] = Over(FigureRows(Figures(m)), NoRows)
      BY <1>2, <2>3 DEF CleanInv, CleanFit
    <3>2. PICK rows : rows = FigureRows(Figures(m))
      OBVIOUS
    <3>3. "new_jobs" \in DOMAIN rows /\ rows["new_jobs"] # None
      BY <3>2, NewJobsIsNumber
    <3> QED
      BY <1>6, <3>1, <3>2, <3>3 DEF Over
  <2>4. CASE <<"rows", m>> \in hurt
    BY <2>3, <2>4, RowsHurt
  <2>5. ASSUME NEW r \in Runner, run[r].at = 2, run[r].week = m
        PROVE  \/ <<"rows", m>> \in hurt'
               \/ \E q \in Runner : run'[q].at = 2 /\ run'[q].week = m
    BY <1>4, <2>5, RowsCleared DEF WeeksFit
  <2> QED
    BY <2>2, <2>4, <2>5
<1> QED
  BY <1>3, <1>6

NewestInv == ReportInv /\ WeeksFit /\ LatestThere /\ LatestFit /\ RowsFit

\* At first the report of the earlier week is out, with its rows.
LEMMA NewestInit == Init => NewestInv
<1> SUFFICES ASSUME Init PROVE NewestInv
  OBVIOUS
<1>1. ReportInv
  BY ReportInit
<1> DEFINE report == Over(Figures(Earlier), Layer(Earlier))
           page   == [week |-> Earlier, report |-> report]
<1>2. /\ file = [n \in {Html(Earlier), Latest} |-> page]
      /\ recorded = {Earlier} /\ asked = <<>>
      /\ weekly = [m \in Mondays |-> IF m = Earlier THEN AllRows(report) ELSE NoRows]
  BY DEF Init, Html, Latest
<1>3. \A r \in Runner : run[r].at = 0
  BY DEF Init, Idle
<1>4. Earlier \in Mondays /\ Earlier <= targetWeek
  BY PublishAssumption DEF Mondays, targetWeek
<1>5. AllRows(report)["new_jobs"] # None
  <2>1. DOMAIN Figures(Earlier) = FigureNames
    BY Sections
  <2>2. report["new_jobs"] = Figures(Earlier)["new_jobs"] /\ "new_jobs" \in DOMAIN report
    BY <2>1 DEF Over, FigureNames
  <2> HIDE DEF report
  <2>3. "new_jobs" \in RowMetrics \cap DOMAIN report
    BY <2>2 DEF RowMetrics
  <2>4. "new_jobs" \in DOMAIN FigureRows(report) /\ FigureRows(report)["new_jobs"] = report["new_jobs"]
    BY <2>3 DEF FigureRows
  <2>5. AllRows(report)["new_jobs"] = FigureRows(report)["new_jobs"]
    BY <2>4 DEF AllRows, Over
  <2> QED
    BY <2>2, <2>4, <2>5, NewJobsIsNumber
<1>6. NoRows["new_jobs"] = None
  BY DEF NoRows, RowMetrics
<1> HIDE DEF report
<1>7. WeeksFit
  BY <1>2, <1>3, <1>4, <1>6 DEF WeeksFit
<1>8. LatestThere /\ LatestFit
  BY <1>2, <1>3 DEF LatestThere, LatestFit
<1>9. RowsFit
  BY <1>2, <1>3, <1>5 DEF RowsFit
<1> QED
  BY <1>1, <1>7, <1>8, <1>9 DEF NewestInv

\* A set of integers that has a bound has a greatest element.
LEMMA GreatestBelow ==
  ASSUME NEW S, S \subseteq Int, S # {}, NEW b \in Int, \A x \in S : x <= b
  PROVE  Max(S) \in S /\ \A x \in S : x <= Max(S)
<1> DEFINE G == {b - x : x \in S}
<1>1. G \subseteq Nat /\ G # {}
  <2>1. \A x \in S : b - x \in Nat
    OBVIOUS
  <2> QED
    BY <2>1
<1>2. \A R, A, X : IsWellFoundedOn(R, A) /\ X \subseteq A /\ X # {}
                     => \E x \in X : \A y \in X : <<y, x>> \notin R
  BY WFMin
<1>3. PICK g \in G : \A y \in G : <<y, g>> \notin OpToRel(<, Nat)
  <2>1. IsWellFoundedOn(OpToRel(<, Nat), Nat)
    BY NatLessThanWellFounded
  <2> HIDE DEF IsWellFoundedOn, OpToRel, G
  <2> QED
    BY <1>1, <1>2, <2>1
<1>4. \A y \in G : ~(y < g)
  BY <1>1, <1>3 DEF OpToRel
<1>5. PICK x \in S : g = b - x
  OBVIOUS
<1>6. \A y \in S : b - y \in G
  OBVIOUS
<1>7. ASSUME NEW y \in S PROVE x >= y
  <2>1. b - y \in G /\ x \in Int /\ y \in Int
    BY <1>6
  <2>2. ~(b - y < b - x)
    BY <1>4, <1>5, <2>1
  <2> QED
    BY <2>1, <2>2
<1> QED
  BY <1>7 DEF Max

\* The gauge shows the greatest week that has a row.
LEMMA NewestImplied == NewestInv => LatestIsNewest
<1> SUFFICES ASSUME NewestInv, NEW m \in recorded
             PROVE  /\ handleLatestReport # Torn /\ handleLatestReport.week < m =>
                         handleLatestReport.week \in {asked[i] : i \in DOMAIN asked}
                    /\ (newJobsWeek = None \/ newJobsWeek < m) =>
                         \/ lost > 0 \/ <<"rows", m>> \in hurt
                         \/ \E r \in Runner : Computing(r) /\ run[r].week = m
  BY DEF LatestIsNewest
<1> USE DEF NewestInv
<1>0. handleLatestReport = file[Latest]
  <2>1. handleLatestReport = Serve(Latest)
    BY Zenon DEF handleLatestReport, Latest
  <2>2. Latest \in DOMAIN file
    BY DEF LatestThere
  <2> QED
    BY <2>1, <2>2, Zenon DEF Serve, reportExists
<1>1. m \in Mondays /\ m \in Int /\ m <= targetWeek /\ targetWeek \in Int
  BY MondaysFit, TargetIsMonday DEF ReportInv, TypeInv, FilesFit, WeeksFit
<1>2. ASSUME file[Latest] # Torn, file[Latest].week < m
      PROVE  file[Latest].week \in {asked[i] : i \in DOMAIN asked}
  <2>1. file[Latest].week # m /\ file[Latest].week # targetWeek
    <3>1. file[Latest].week \in Mondays
      BY <1>2, TargetIsMonday DEF LatestFit, Asked, WeeksFit, Mondays
    <3>2. file[Latest].week \in Int
      BY <3>1, MondaysFit
    <3> QED
      BY <1>1, <1>2, <3>2
  <2>2. file[Latest].week \in Asked
    BY <1>2, <2>1 DEF LatestFit
  <2> QED
    BY <2>1, <2>2 DEF Asked
<1>3. ASSUME newJobsWeek = None \/ newJobsWeek < m
      PROVE  \/ lost > 0 \/ <<"rows", m>> \in hurt
             \/ \E r \in Runner : Computing(r) /\ run[r].week = m
  <2> DEFINE weeks == {w \in Mondays : weekly[w]["new_jobs"] # None}
  <2>1. newJobsWeek = IF weeks = {} THEN None ELSE Max(weeks)
    BY DEF newJobsWeek
  <2>2. weeks \subseteq Int /\ \A w \in weeks : w <= targetWeek
    BY MondaysFit DEF WeeksFit
  <2>3. m \in weeks => weekly[m]["new_jobs"] # None
    OBVIOUS
  <2>4. m \notin weeks => weekly[m]["new_jobs"] = None
    BY <1>1
  <2> HIDE DEF weeks
  <2>5. CASE m \in weeks
    <3>1. Max(weeks) \in weeks /\ m <= Max(weeks)
      BY <1>1, <2>2, <2>5, GreatestBelow
    <3>2. Max(weeks) \in Int /\ newJobsWeek = Max(weeks)
      BY <2>1, <2>2, <2>5, <3>1
    <3> QED
      BY <1>1, <1>3, <3>1, <3>2, PublishAssumption
  <2>6. CASE m \notin weeks
    <3>1. \/ lost > 0 \/ <<"rows", m>> \in hurt
          \/ \E r \in Runner : run[r].at = 2 /\ run[r].week = m
      BY <1>1, <2>4, <2>6 DEF RowsFit
    <3>2. \A r \in Runner : run[r].at = 2 => Computing(r)
      BY StepNumbers DEF Computing
    <3> QED
      BY <3>1, <3>2
  <2> QED
    BY <2>5, <2>6
<1> QED
  BY <1>0, <1>2, <1>3

\* The latest report and the gauge are never of an older week than one that a
\* run has completed, unless a run by hand was asked for the older week, or the
\* row was lost or is being put, whatever pods are killed, whatever runs
\* overlap and whatever statements fail (LatestIsNewest).
THEOREM NewestIsShown == Spec => []LatestIsNewest
<1>1. NewestInv /\ [Next]_vars => NewestInv'
  BY TypeStep, JobsStep, LostStep, CleanStep, WeeksStep, LatestStays, LatestStep, RowsStep
     DEF NewestInv, ReportInv
<1>2. Spec => []NewestInv
  BY NewestInit, <1>1, PTL DEF Spec
<1> QED
  BY <1>2, NewestImplied, PTL
=============================================================================
