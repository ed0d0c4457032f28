------------------------------ MODULE RegressionProofs ----------------------------
(***************************************************************************)
(* What the comparison tools show and write, for every set of folders,     *)
(* files and command lines, any number of calls and of changes underneath. *)
(***************************************************************************)
EXTENDS Regression, SelectionTheorems

(* What a comparison makes of an entry, and what it keeps of a file.       *)
RowOf(e, results) == IF tool = "custom" THEN Row(e, results) ELSE RowGoogle(e, results)
Wanted(results)   == IF filter = <<>> THEN results ELSE FilterByOperation(results, filter)

Same(e, row) == e.name = row.name /\ (tool = "custom" => e.iter = row.iter)

(* Folders have what benchmark runs have written, and stay.                *)
FoldersOK ==
  /\ tool \in Tools
  /\ IsFiniteSet(DOMAIN folders)
  /\ \A f \in DOMAIN folders : IsFolderName(f) /\ folders[f] \in StoredFiles(tool)

(* The two sides name files that were there when they were loaded.         *)
SidesOK ==
  /\ base # LiveFile
  /\ pc \in {"current", "filter", "compare", "json", "markdown"} =>
       base \in DOMAIN folders
  /\ pc \in {"filter", "compare", "json", "markdown"} =>
       cur \in DOMAIN folders \cup {LiveFile}

(* What was loaded from a folder is what the folder has.                   *)
LoadedOK ==
  /\ pc \in {"current", "filter"} => baseline = Stored(base).entries
  /\ pc = "filter" /\ cur # LiveFile => current = Stored(cur).entries
  /\ pc \in {"compare", "json", "markdown"} => baseline = Wanted(Stored(base).entries)
  /\ pc \in {"compare", "json", "markdown"} /\ cur # LiveFile => current = Wanted(Stored(cur).entries)
  /\ pc \in {"json", "markdown"} => rows = [i \in DOMAIN baseline |-> RowOf(baseline[i], current)]

(* The last report stays true.                                             *)
ReportOK ==
  /\ RowsAreStored
  /\ Written => markdown.baseline \in DOMAIN folders /\ markdown.current \in DOMAIN folders \cup {LiveFile}

(* A run that has not come to its reports has written none.                *)
RunsOK ==
  /\ run \in Nat /\ json.run \in 0 .. run /\ markdown.run \in 0 .. run
  /\ json.run = run => pc \in {"idle", "markdown", "done"}
  /\ markdown.run = run => pc \in {"idle", "done"}
  /\ pc = "idle" => run = 0

(* What `methods` has shown is still so, and what an id was resolved to is *)
(* what it stands for in the baseline.                                     *)
IdsOK ==
  /\ \A f \in DOMAIN screen : f \in DOMAIN folders /\ screen[f] = Groups(f)
  /\ pc \in {"latest", "resolve"} => args \in CommandLines /\ filter = MethodWords(args)
  /\ pc = "baseline" /\ LooksLikeMethodId(MethodWords(args)) =>
       /\ args \in CommandLines
       /\ base \in DOMAIN folders
       /\ IsMethodId(MethodWords(args)[1], Groups(base))
       /\ filter = MethodOf(MethodWords(args)[1], Groups(base))

(* The baseline that `list` showed last is still one.                      *)
ListedOK == listed # <<>> => Last(listed) \in Baselines

(* The current results, when they are the live ones, are a finished file   *)
(* that was in place since the call.                                       *)
ReadingOK ==
  /\ live \in seen /\ seen \subseteq StoredFiles(tool) \cup {Truncated}
  /\ pc = "filter" /\ cur = LiveFile =>
       \E file \in seen : file.state = "complete" /\ current = file.entries
  /\ pc \in {"compare", "json", "markdown"} /\ cur = LiveFile =>
       \E file \in seen : file.state = "complete" /\ current = Wanted(file.entries)
  /\ pc = "markdown" /\ json.run = run => json.rows = rows
  /\ CurrentIsOneReading

RInv == FoldersOK /\ SidesOK /\ LoadedOK /\ ReportOK /\ RunsOK /\ IdsOK /\ ListedOK /\ ReadingOK

---------------------------------------------------------------------------
(* The files.                                                              *)

(* Folders are added and never changed.                                    *)
FoldersGrow ==
  /\ tool' = tool
  /\ \A f \in DOMAIN folders : f \in DOMAIN folders' /\ folders'[f] = folders[f]

(* No two entries of a list are for the same benchmark.                    *)
Identify(s) ==
  /\ s \in Seq(Range(s))
  /\ \A d, e \in Range(s) : d.name = e.name /\ (tool = "custom" => d.iter = e.iter) => d = e

(* The entries of a file identify their benchmarks.                        *)
LEMMA FileFacts ==
  ASSUME tool \in Tools, NEW file \in StoredFiles(tool)
  PROVE  Identify(file.entries)
<1> DEFINE s == file.entries
<1>1. CASE file = Missing
  <2>1. s = <<>>
    BY <1>1 DEF Missing
  <2>2. Range(s) = {}
    BY <2>1 DEF Range
  <2>3. s \in Seq(Range(s))
    BY <2>1
  <2> QED BY <2>2, <2>3 DEF Identify
<1>2. CASE \E r \in Results[tool] : file = File(r)
  <2>1. PICK r \in Results[tool] : file = File(r)
    BY <1>2
  <2>2. s = r
    BY <2>1 DEF File
  <2>3. r \in Seq(Range(r))
    BY SequencesAssumption
  <2>4. \A i, j \in DOMAIN r : i # j => r[i].name # r[j].name \/ (tool = "custom" /\ r[i].iter # r[j].iter)
    BY UniqueEntries
  <2>5. \A d, e \in Range(r) : d.name = e.name /\ (tool = "custom" => d.iter = e.iter) => d = e
    BY <2>4 DEF Range
  <2> QED BY <2>2, <2>3, <2>5 DEF Identify
<1> QED BY <1>1, <1>2 DEF StoredFiles

(* So do those of a folder.                                                *)
LEMMA FolderFacts ==
  ASSUME FoldersOK, NEW f \in DOMAIN folders
  PROVE  Stored(f) = folders[f] /\ f # LiveFile /\ Identify(Stored(f).entries)
<1>1. f # LiveFile /\ folders[f] \in StoredFiles(tool) /\ tool \in Tools
  BY DEF FoldersOK, IsFolderName
<1>2. Stored(f) = folders[f]
  BY <1>1 DEF Stored
<1> QED BY <1>1, <1>2, FileFacts

(* A folder that can be read is there.                                     *)
LEMMA ReadableFolder ==
  ASSUME NEW f, f # LiveFile, Readable(f)
  PROVE  f \in DOMAIN folders
<1>1. SUFFICES ASSUME f \notin DOMAIN folders PROVE FALSE
  OBVIOUS
<1>2. Stored(f) = Missing
  BY <1>1 DEF Stored
<1> QED BY <1>2 DEF Readable, Missing

(* Every step leaves the folders as they are or adds one.                  *)
LEMMA FoldersStep ==
  ASSUME FoldersOK, [Next]_vars
  PROVE  FoldersOK' /\ FoldersGrow
<1>1. CASE UNCHANGED <<tool, folders>>
  BY <1>1 DEF FoldersOK, FoldersGrow
<1>2. ASSUME NEW f \in NewFolders, NEW r \in Results[tool], AddBaseline(f, File(r))
      PROVE  FoldersOK' /\ FoldersGrow
  <2>1. /\ tool' = tool /\ f \notin DOMAIN folders
        /\ DOMAIN folders' = DOMAIN folders \cup {f}
        /\ folders'[f] = File(r)
        /\ \A g \in DOMAIN folders : folders'[g] = folders[g]
    BY <1>2 DEF AddBaseline
  <2>2. IsFiniteSet(DOMAIN folders')
    BY <2>1, FS_AddElement DEF FoldersOK
  <2>3. IsFolderName(f) /\ File(r) \in StoredFiles(tool)
    BY FoldersAssumption DEF StoredFiles
  <2> QED BY <2>1, <2>2, <2>3 DEF FoldersOK, FoldersGrow, StoredFiles
<1>3. CASE UNCHANGED vars
  BY <1>1, <1>3 DEF vars, inputs, files
<1>4. CASE Phase
  BY <1>1, <1>4 DEF Phase, LatestBaseline, PrintList, PrintMethods, ResolveMethodId, LoadBaseline, LoadCurrent,
    ApplyMethodFilter, PrintRegression, PrintRegressionGoogle, PrintRows, ExportJson, ExportMarkdown, inputs, files
<1>5. ASSUME NEW line, Call(line) PROVE FoldersOK' /\ FoldersGrow
  BY <1>1, <1>5 DEF Call, files
<1>6. ASSUME NEW file, RewriteLive(file) PROVE FoldersOK' /\ FoldersGrow
  BY <1>1, <1>6 DEF RewriteLive
<1> QED BY <1>2, <1>3, <1>4, <1>5, <1>6 DEF Next

(* What is stored in a folder stays, and so do its methods' ids.           *)
LEMMA StoredStays ==
  ASSUME FoldersOK, FoldersOK', FoldersGrow, NEW f \in DOMAIN folders
  PROVE  /\ f \in DOMAIN folders' /\ Stored(f)' = Stored(f) /\ Groups(f)' = Groups(f)
         /\ f \in Baselines => f \in Baselines'
<1>1. f \in DOMAIN folders' /\ folders'[f] = folders[f] /\ f # LiveFile
  BY FolderFacts DEF FoldersGrow
<1>2. Stored(f) = folders[f] /\ Stored(f)' = folders'[f]
  BY <1>1 DEF Stored
<1>3. Groups(f)' = Groups(f)
  BY <1>1, <1>2 DEF Groups
<1>4. f \in Baselines => f \in Baselines'
  BY <1>1 DEF Baselines, IsBaseline, IsCustomBaselineName, IsGoogleBaselineName, FoldersGrow
<1> QED BY <1>1, <1>2, <1>3, <1>4

---------------------------------------------------------------------------
(* The order of the baselines.                                             *)

(* Baselines are tags, finitely many.                                      *)
LEMMA BaselinesAreTags ==
  ASSUME FoldersOK
  PROVE  IsFiniteSet(Baselines) /\ Baselines \subseteq Tags /\ Baselines \subseteq DOMAIN folders /\ None \notin Baselines
<1>1. Baselines \subseteq DOMAIN folders
  BY DEF Baselines
<1>2. IsFiniteSet(Baselines)
  BY <1>1, FS_Subset DEF FoldersOK
<1>3. Baselines \subseteq Tags
  BY DEF Baselines, IsBaseline, IsCustomBaselineName, IsGoogleBaselineName, FoldersOK, IsFolderName
<1>4. None \notin Tags
  BY DEF None, Command, Tags
<1> QED BY <1>1, <1>2, <1>3, <1>4

(* Newer is a linear order of the tags.                                    *)
LEMMA NewerIsOrder ==
  /\ \A f \in Tags : ~ Newer(f, f)
  /\ \A f, g \in Tags : f = g \/ Newer(f, g) \/ Newer(g, f)
  /\ \A f, g, h \in Tags : Newer(f, g) /\ Newer(g, h) => Newer(f, h)
<1>1. \A f \in Tags : f.num \in Int /\ f.tail \in Int /\ f = [kind |-> "tag", num |-> f.num, tail |-> f.tail]
  BY DEF Tags
<1> QED BY <1>1 DEF Newer

(* Some order of a finite set of tags has no later one older.              *)
Sorted(order) == \A i, j \in DOMAIN order : i < j => ~ Newer(order[i], order[j])

(* In a finite set of tags there is one that no other is newer than.       *)
LEMMA NewestExists ==
  ASSUME NEW S \in SUBSET Tags, IsFiniteSet(S), S # {}
  PROVE  \E m \in S : \A x \in S : ~ Newer(x, m)
<1> DEFINE Good(U) == \E m \in U : \A x \in U : ~ Newer(x, m)
           T == {n \in Nat : \A U \in SUBSET Tags : IsFiniteSet(U) /\ Cardinality(U) = n /\ U # {} => Good(U)}
<1>1. 0 \in T
  BY FS_EmptySet
<1>2. ASSUME NEW n \in Nat, n \in T PROVE n + 1 \in T
  <2> SUFFICES ASSUME NEW U \in SUBSET Tags, IsFiniteSet(U), Cardinality(U) = n + 1, U # {}
               PROVE  Good(U)
    OBVIOUS
  <2>1. PICK a \in U : TRUE
    OBVIOUS
  <2> DEFINE V == U \ {a}
  <2>2. IsFiniteSet(V) /\ Cardinality(V) = n /\ V \in SUBSET Tags
    <3>1. IsFiniteSet(V) /\ Cardinality(V) = Cardinality(U) - 1
      BY FS_RemoveElement
    <3>2. (n + 1) - 1 = n
      OBVIOUS
    <3> QED BY <3>1, <3>2
  <2>3. CASE V = {}
    <3>1. \A x \in U : x = a
      BY <2>3
    <3> QED BY <3>1, <2>1, NewerIsOrder
  <2>4. CASE V # {}
    <3>1. PICK m \in V : \A x \in V : ~ Newer(x, m)
      BY <1>2, <2>2, <2>4
    <3>2. CASE Newer(a, m)
      <4>1. ASSUME NEW x \in U PROVE ~ Newer(x, a)
        <5>1. x = a \/ x \in V
          OBVIOUS
        <5>2. x \in Tags /\ a \in Tags /\ m \in Tags
          OBVIOUS
        <5> QED BY <5>1, <5>2, <3>1, <3>2, NewerIsOrder
      <4> QED BY <4>1
    <3>3. CASE ~ Newer(a, m)
      <4>1. ASSUME NEW x \in U PROVE ~ Newer(x, m)
        <5>1. x = a \/ x \in V
          OBVIOUS
        <5> QED BY <5>1, <3>1, <3>3
      <4> QED BY <4>1
    <3> QED BY <3>2, <3>3
  <2> QED BY <2>3, <2>4
<1> HIDE DEF T
<1>3. \A n \in Nat : n \in T
  BY <1>1, <1>2, SetInduction
<1>4. Cardinality(S) \in T
  BY <1>3, FS_CardinalityType
<1> QED BY <1>4 DEF T

(* Every finite set of tags can be listed in order.                        *)
LEMMA SortedExists ==
  ASSUME NEW S \in SUBSET Tags, IsFiniteSet(S)
  PROVE  \E order \in SetToSeqs(S) : Sorted(order)
<1> DEFINE Good(U) == \E order \in SetToSeqs(U) : Sorted(order)
           T == {n \in Nat : \A U \in SUBSET Tags : IsFiniteSet(U) /\ Cardinality(U) = n => Good(U)}
<1>1. 0 \in T
  <2> SUFFICES ASSUME NEW U \in SUBSET Tags, IsFiniteSet(U), Cardinality(U) = 0 PROVE Good(U)
    OBVIOUS
  <2> DEFINE e == [i \in 1 .. 0 |-> None]
  <2>1. e \in [1 .. 0 -> U]
    OBVIOUS
  <2>2. e \in SetToSeqs(U) /\ Sorted(e)
    BY <2>1 DEF SetToSeqs, Sorted
  <2> QED BY <2>2
<1>2. ASSUME NEW n \in Nat, n \in T PROVE n + 1 \in T
  <2> SUFFICES ASSUME NEW U \in SUBSET Tags, IsFiniteSet(U), Cardinality(U) = n + 1 PROVE Good(U)
    OBVIOUS
  <2>1. PICK m \in U : \A x \in U : ~ Newer(x, m)
    <3>1. U # {}
      BY FS_EmptySet
    <3> QED BY <3>1, NewestExists
  <2> DEFINE V == U \ {m}
  <2>2. IsFiniteSet(V) /\ Cardinality(V) = n /\ V \in SUBSET Tags
    <3>1. IsFiniteSet(V) /\ Cardinality(V) = Cardinality(U) - 1
      BY FS_RemoveElement
    <3>2. (n + 1) - 1 = n
      OBVIOUS
    <3> QED BY <3>1, <3>2
  <2>3. PICK o \in SetToSeqs(V) : Sorted(o)
    BY <1>2, <2>2
  <2>4. /\ o \in [1 .. n -> V] /\ DOMAIN o = 1 .. n
        /\ \A i, j \in 1 .. n : i # j => o[i] # o[j]
        /\ \A i, j \in 1 .. n : i < j => ~ Newer(o[i], o[j])
    BY <2>2, <2>3 DEF SetToSeqs, Sorted
  <2> DEFINE p == [i \in 1 .. n + 1 |-> IF i = n + 1 THEN m ELSE o[i]]
  <2>5. /\ \A i \in 1 .. n + 1 : i = n + 1 => p[i] = m
        /\ \A i \in 1 .. n + 1 : i # n + 1 => i \in 1 .. n /\ p[i] = o[i] /\ o[i] \in U /\ o[i] # m
    <3>1. ASSUME NEW i \in 1 .. n + 1, i # n + 1
          PROVE  i \in 1 .. n /\ p[i] = o[i] /\ o[i] \in U /\ o[i] # m
      <4>1. i \in 1 .. n
        BY <3>1
      <4>2. o[i] \in V
        BY <4>1, <2>4
      <4>3. p[i] = o[i]
        BY <3>1
      <4> HIDE DEF p
      <4> QED BY <4>1, <4>2, <4>3
    <3>2. \A i \in 1 .. n + 1 : i = n + 1 => p[i] = m
      OBVIOUS
    <3> HIDE DEF p
    <3> QED BY <3>1, <3>2
  <2>6. p \in [1 .. n + 1 -> U] /\ DOMAIN p = 1 .. n + 1
    <3>1. \A i \in 1 .. n + 1 : p[i] \in U
      BY <2>5
    <3> QED BY <3>1
  <2> HIDE DEF p
  <2>7. \A i, j \in 1 .. n + 1 : i # j => p[i] # p[j]
    BY <2>4, <2>5
  <2>8. \A i, j \in 1 .. n + 1 : i < j => ~ Newer(p[i], p[j])
    <3> SUFFICES ASSUME NEW i \in 1 .. n + 1, NEW j \in 1 .. n + 1, i < j PROVE ~ Newer(p[i], p[j])
      OBVIOUS
    <3>1. i \in 1 .. n /\ p[i] = o[i] /\ o[i] \in U
      BY <2>5
    <3>2. CASE j = n + 1
      BY <3>1, <3>2, <2>1, <2>5
    <3>3. CASE j # n + 1
      BY <3>1, <3>3, <2>4, <2>5
    <3> QED BY <3>2, <3>3
  <2>9. p \in SetToSeqs(U)
    BY <2>6, <2>7 DEF SetToSeqs
  <2>10. Sorted(p)
    BY <2>6, <2>8 DEF Sorted
  <2> QED BY <2>9, <2>10
<1> HIDE DEF T
<1>3. \A n \in Nat : n \in T
  BY <1>1, <1>2, SetInduction
<1>4. Cardinality(S) \in T
  BY <1>3, FS_CardinalityType
<1> QED BY <1>4 DEF T

(* A listing of a set has all of it.                                       *)
LEMMA ListingIsAll ==
  ASSUME NEW S, IsFiniteSet(S), NEW order \in SetToSeqs(S)
  PROVE  /\ order \in Seq(S) /\ Len(order) = Cardinality(S) /\ Cardinality(S) \in Nat
         /\ \A x \in S : \E i \in 1 .. Len(order) : order[i] = x
<1> DEFINE n == Cardinality(S)
<1>1. n \in Nat
  BY FS_CardinalityType
<1>2. order \in [1 .. n -> S] /\ \A i, j \in 1 .. n : i # j => order[i] # order[j]
  BY DEF SetToSeqs
<1>3. order \in Injection(1 .. n, S)
  BY <1>2 DEF Injection, IsInjective
<1>4. Cardinality(1 .. n) = n
  BY <1>1, FS_Interval
<1>5. order \in Surjection(1 .. n, S)
  BY <1>3, <1>4, FS_Injection
<1>6. order \in Seq(S) /\ Len(order) = n
  BY <1>1, <1>2
<1> QED BY <1>1, <1>5, <1>6 DEF Surjection

(* `list` shows the baselines.                                             *)
LEMMA OldestFirstLists ==
  ASSUME FoldersOK
  PROVE  /\ OldestFirst \in Seq(Baselines)
         /\ OldestFirst # <<>> => Last(OldestFirst) \in Baselines
<1>1. IsFiniteSet(Baselines) /\ Baselines \in SUBSET Tags
  BY BaselinesAreTags
<1>2. \E order \in SetToSeqs(Baselines) : Sorted(order)
  BY <1>1, SortedExists
<1>3. OldestFirst \in SetToSeqs(Baselines)
  BY <1>2 DEF OldestFirst, Sorted
<1>4. OldestFirst \in Seq(Baselines)
  BY <1>1, <1>3, ListingIsAll
<1> QED BY <1>4 DEF Last

(* The baseline found so far when the loop of latestBaseline() has looked  *)
(* at i folders.                                                           *)
LatestOf(order) ==
  CHOOSE f : f = [i \in 0 .. Len(order) |->
                    IF i = 0 THEN None
                    ELSE IF f[i-1] = None \/ Newer(order[i], f[i-1]) THEN order[i] ELSE f[i-1]]

(* The loop, folder by folder.                                             *)
LEMMA LatestSteps ==
  ASSUME NEW S, NEW order \in Seq(S)
  PROVE  /\ NewestOf(order) = LatestOf(order)[Len(order)]
         /\ LatestOf(order)[0] = None
         /\ \A i \in 1 .. Len(order) :
              LatestOf(order)[i] =
                IF LatestOf(order)[i-1] = None \/ Newer(order[i], LatestOf(order)[i-1])
                THEN order[i] ELSE LatestOf(order)[i-1]
<1> DEFINE n == Len(order)
           V == S \cup {None}
           Next1(v, i) == IF v = None \/ Newer(order[i], v) THEN order[i] ELSE v
           Body(f, i) == IF i = 0 THEN None ELSE Next1(f[i-1], i)
           Solves(f) == f = [i \in 0 .. n |-> Body(f, i)]
           step == [i \in 1 .. n |-> [v \in V |-> Next1(v, i)]]
<1>1. n \in Nat /\ \A i \in 1 .. n : order[i] \in S
  OBVIOUS
<1>2. step \in [1 .. n -> [V -> V]]
  BY <1>1
<1>3. \A i \in 1 .. n, v \in V : step[i][v] = Next1(v, i)
  OBVIOUS
<1> HIDE DEF step, n, Next1
<1>4. PICK f : Follows(f, n, V, None, step)
  <2>1. n \in Nat
    BY <1>1
  <2>2. None \in V
    OBVIOUS
  <2> HIDE DEF V
  <2> QED BY <2>1, <2>2, <1>2, RangeRecursion
<1>5. \A i \in 1 .. n : f[i] = Next1(f[i-1], i)
  <2> SUFFICES ASSUME NEW i \in 1 .. n PROVE f[i] = Next1(f[i-1], i)
    OBVIOUS
  <2>1. f[i-1] \in V
    BY <1>1, <1>4 DEF Follows
  <2> HIDE DEF V
  <2> QED BY <2>1, <1>3, <1>4 DEF Follows
<1> HIDE DEF V
<1>6. Solves(f)
  <2>1. \A i \in 0 .. n : f[i] = Body(f, i)
    <3>1. \A i \in 0 .. n : i = 0 \/ i \in 1 .. n
      BY <1>1
    <3>2. f[0] = None
      BY <1>4 DEF Follows
    <3> QED BY <3>1, <3>2, <1>5
  <2>2. f = [i \in 0 .. n |-> f[i]]
    BY <1>4 DEF Follows
  <2> HIDE DEF Body
  <2> QED BY <2>1, <2>2
<1>7. LatestOf(order) = CHOOSE g : Solves(g)
  BY DEF LatestOf, n, Next1
<1> DEFINE u == LatestOf(order)
<1> HIDE DEF Solves
<1>8. Solves(u)
  BY <1>6, <1>7
<1> HIDE DEF u
<1>9. \A i \in 0 .. n : u[i] = Body(u, i)
  <2>1. u = [i \in 0 .. n |-> Body(u, i)]
    BY <1>8 DEF Solves
  <2> HIDE DEF Body
  <2> QED BY <2>1
<1>10. u[0] = None
  BY <1>1, <1>9
<1>11. \A i \in 1 .. n : u[i] = Next1(u[i-1], i)
  BY <1>1, <1>9
<1>12. NewestOf(order) = u[n]
  BY DEF NewestOf, LatestOf, u, n
<1> QED BY <1>10, <1>11, <1>12 DEF u, n, Next1

(* Whatever the order the directory is read in, the newest is found.       *)
LEMMA NewestIsFound ==
  ASSUME FoldersOK, NEW order \in SetToSeqs(Baselines), Baselines # {}
  PROVE  /\ NewestOf(order) \in Baselines
         /\ \A g \in Baselines : g = NewestOf(order) \/ Newer(NewestOf(order), g)
<1> DEFINE n == Len(order)
           u == LatestOf(order)
           Good(i) == IF i = 0 THEN u[i] = None
                      ELSE u[i] \in Baselines /\ \A j \in 1 .. i : order[j] = u[i] \/ Newer(u[i], order[j])
           T == {i \in 0 .. n : Good(i)}
<1>1. /\ order \in Seq(Baselines) /\ n \in Nat /\ n = Cardinality(Baselines)
      /\ \A x \in Baselines : \E i \in 1 .. n : order[i] = x
  BY BaselinesAreTags, ListingIsAll
<1>2. /\ NewestOf(order) = u[n] /\ u[0] = None
      /\ \A i \in 1 .. n : u[i] = IF u[i-1] = None \/ Newer(order[i], u[i-1]) THEN order[i] ELSE u[i-1]
  BY <1>1, LatestSteps
<1>3. \A i \in 1 .. n : order[i] \in Baselines
  BY <1>1
<1>4. n \in Nat /\ n # 0
  BY <1>1
<1> HIDE DEF n, u
<1>5. 0 \in T
  BY <1>2, <1>4
<1>6. ASSUME NEW k \in 1 .. n, k - 1 \in T PROVE k \in T
  <2>1. Good(k - 1) /\ order[k] \in Baselines
    BY <1>3, <1>6
  <2>2. u[k] = IF u[k-1] = None \/ Newer(order[k], u[k-1]) THEN order[k] ELSE u[k-1]
    BY <1>2
  <2>3. \A i \in 1 .. k : i = k \/ (i \in 1 .. k - 1 /\ order[i] \in Baselines)
    BY <1>3, <1>4
  <2>4. CASE k = 1
    <3>1. u[k] = order[k]
      BY <2>1, <2>2, <2>4
    <3>2. \A i \in 1 .. k : i = k
      BY <2>4
    <3> QED BY <3>1, <3>2, <2>1, <2>4, <1>4
  <2>5. CASE k # 1
    <3>1. k - 1 # 0 /\ u[k-1] \in Baselines /\ u[k-1] # None
      BY <2>1, <2>5, BaselinesAreTags
    <3>2. \A j \in 1 .. k - 1 : order[j] = u[k-1] \/ Newer(u[k-1], order[j])
      BY <2>1, <3>1
    <3>3. u[k] \in Baselines
      BY <2>1, <2>2, <3>1
    <3>4. ASSUME NEW j \in 1 .. k PROVE order[j] = u[k] \/ Newer(u[k], order[j])
      <4>1. order[j] \in Tags /\ u[k] \in Tags /\ u[k-1] \in Tags /\ order[k] \in Tags
        BY <2>1, <2>3, <3>1, <3>3, BaselinesAreTags
      <4>2. CASE Newer(order[k], u[k-1])
        BY <4>1, <4>2, <2>2, <2>3, <3>2, NewerIsOrder
      <4>3. CASE ~ Newer(order[k], u[k-1])
        BY <4>1, <4>3, <2>2, <2>3, <3>1, <3>2, NewerIsOrder
      <4> QED BY <4>2, <4>3
    <3>5. Good(k)
      BY <3>3, <3>4
    <3> QED BY <3>5, <1>4
  <2> QED BY <2>4, <2>5
<1> HIDE DEF T
<1>7. n \in T
  <2>1. \A i \in 0 .. n : i \in T
    BY <1>4, <1>5, <1>6, RangeInduction
  <2> QED BY <2>1, <1>4
<1>8. u[n] \in Baselines /\ \A j \in 1 .. n : order[j] = u[n] \/ Newer(u[n], order[j])
  BY <1>4, <1>7 DEF T
<1> QED BY <1>1, <1>2, <1>8

---------------------------------------------------------------------------
(* What a comparison shows.                                                *)

(* The current time of an entry, by either tool.                           *)
CnsOf(results, e) == IF tool = "custom" THEN GetCns(results, e) ELSE GetCnsGoogle(results, e)

(* What a row of the comparison is made of.                                *)
LEMMA RowFields ==
  ASSUME NEW e, NEW results
  PROVE  /\ RowOf(e, results).name = e.name
         /\ tool = "custom" => RowOf(e, results).iter = e.iter
         /\ RowOf(e, results).baseline = e.ns
         /\ RowOf(e, results).current = CnsOf(results, e)
         /\ CnsOf(results, e) = NsOfFirst(results, {i \in DOMAIN results : Same(results[i], e)})
<1>1. CASE tool = "custom"
  <2>1. {i \in DOMAIN results : Same(results[i], e)}
          = {i \in DOMAIN results : results[i].name = e.name /\ results[i].iter = e.iter}
    BY <1>1 DEF Same
  <2> QED BY <1>1, <2>1 DEF RowOf, Row, CnsOf, GetCns
<1>2. CASE tool # "custom"
  <2>1. {i \in DOMAIN results : Same(results[i], e)} = {i \in DOMAIN results : results[i].name = e.name}
    BY <1>2 DEF Same
  <2> QED BY <1>2, <2>1 DEF RowOf, RowGoogle, CnsOf, GetCnsGoogle
<1> QED BY <1>1, <1>2

(* The least of some positions is one of them.                             *)
LEMMA LeastIsOne ==
  ASSUME NEW n \in Nat, NEW M \in SUBSET (1 .. n), M # {}
  PROVE  Min(M) \in M
<1>1. \E i \in M : \A j \in M : i <= j
  <2> DEFINE T == {k \in Nat : (\E i \in M : i <= k) => \E i \in M : \A j \in M : i <= j}
  <2>1. 0 \in T
    OBVIOUS
  <2>2. ASSUME NEW k \in Nat, k \in T PROVE k + 1 \in T
    <3> SUFFICES ASSUME NEW i \in M, i <= k + 1 PROVE \E a \in M : \A j \in M : a <= j
      OBVIOUS
    <3>1. CASE \E a \in M : a <= k
      BY <2>2, <3>1
    <3>2. CASE ~ \E a \in M : a <= k
      <4>1. \A j \in M : i <= j
        BY <3>2
      <4> QED BY <4>1
    <3> QED BY <3>1, <3>2
  <2> HIDE DEF T
  <2>3. n \in T
    BY <2>1, <2>2, SetInduction
  <2>4. \E i \in M : i <= n
    <3>1. PICK i \in M : TRUE
      OBVIOUS
    <3>2. i \in 1 .. n
      OBVIOUS
    <3>3. i <= n
      BY <3>2
    <3> QED BY <3>3
  <2> QED BY <2>3, <2>4 DEF T
<1> QED BY <1>1 DEF Min

(* The first match is one of the matches.                                  *)
LEMMA FirstMatch ==
  ASSUME NEW results, NEW n \in Nat, NEW M \in SUBSET (1 .. n), M # {}, NEW v, \A i \in M : results[i].ns = v
  PROVE  NsOfFirst(results, M) = v
<1>1. Min(M) \in M
  BY LeastIsOne
<1> QED BY <1>1 DEF NsOfFirst

(* What is kept of a file are its entries of the method.                   *)
LEMMA WantedEntries ==
  ASSUME NEW X, NEW s \in Seq(X)
  PROVE  /\ Wanted(s) \in Seq(X)
         /\ \A j \in 1 .. Len(Wanted(s)) : Wanted(s)[j] \in Range(s) /\ filter \in {<<>>, Wanted(s)[j].name}
         /\ \A e \in Range(s) : filter \in {<<>>, e.name} =>
              \E j \in 1 .. Len(Wanted(s)) : Wanted(s)[j] = e
<1>1. \A i \in 1 .. Len(s) : s[i] \in Range(s)
  BY DEF Range
<1>2. \A e \in Range(s) : \E i \in 1 .. Len(s) : s[i] = e
  BY DEF Range
<1>3. CASE filter = <<>>
  <2>1. Wanted(s) = s
    BY <1>3 DEF Wanted
  <2> QED BY <1>1, <1>2, <1>3, <2>1
<1>4. CASE filter # <<>>
  <2> DEFINE S == {e \in Range(s) : e.name = filter}
  <2>1. Wanted(s) = Selected(s, S)
    BY <1>4 DEF Wanted, FilterByOperation
  <2>2. /\ Wanted(s) \in Seq(X)
        /\ \A j \in 1 .. Len(Wanted(s)) : \E i \in 1 .. Len(s) : s[i] \in S /\ Wanted(s)[j] = s[i]
        /\ \A i \in 1 .. Len(s) : s[i] \in S => \E j \in 1 .. Len(Wanted(s)) : Wanted(s)[j] = s[i]
    <3> HIDE DEF S
    <3> QED BY <2>1, SelectedElements
  <2>3. ASSUME NEW e \in Range(s), filter \in {<<>>, e.name}
        PROVE  \E j \in 1 .. Len(Wanted(s)) : Wanted(s)[j] = e
    <3>1. PICK i \in 1 .. Len(s) : s[i] = e
      BY <1>2
    <3>2. s[i] \in S
      BY <3>1, <2>3, <1>4
    <3> QED BY <2>2, <3>1, <3>2
  <2> QED BY <2>2, <2>3
<1> QED BY <1>3, <1>4

(* An entry's time is found in what was kept of a file as in the whole.    *)
LEMMA TimeIsStored ==
  ASSUME NEW s, Identify(s), NEW d \in Range(s), NEW e, Same(d, e), filter \in {<<>>, e.name}
  PROVE  CnsOf(Wanted(s), e) = d.ns /\ CnsOf(s, e) = d.ns
<1> DEFINE X == Range(s)
           M(r) == {i \in DOMAIN r : Same(r[i], e)}
<1>1. s \in Seq(X) /\ \A a, b \in X : a.name = b.name /\ (tool = "custom" => a.iter = b.iter) => a = b
  BY DEF Identify
<1>2. \A a \in X : Same(a, e) => a = d
  BY <1>1 DEF Same
<1>3. d.name = e.name
  BY DEF Same
<1> HIDE DEF X
<1>4. ASSUME NEW r \in Seq(X), \E i \in 1 .. Len(r) : r[i] = d
      PROVE  CnsOf(r, e) = d.ns
  <2>1. DOMAIN r = 1 .. Len(r) /\ Len(r) \in Nat /\ \A i \in 1 .. Len(r) : r[i] \in X
    OBVIOUS
  <2> DEFINE N == M(r)
  <2>2. N \in SUBSET (1 .. Len(r)) /\ N # {}
    BY <1>4, <2>1
  <2>3. \A i \in N : r[i].ns = d.ns
    BY <2>1, <1>2
  <2> HIDE DEF M, N
  <2>4. NsOfFirst(r, N) = d.ns
    <3>1. Len(r) \in Nat
      BY <2>1
    <3>2. Min(N) \in N
      BY <2>2, <3>1, LeastIsOne
    <3> QED BY <2>3, <3>2 DEF NsOfFirst
  <2> QED BY <2>4, RowFields DEF M, N
<1>5. \E i \in 1 .. Len(s) : s[i] = d
  BY <1>1 DEF X, Range
<1>6. Wanted(s) \in Seq(X) /\ \E i \in 1 .. Len(Wanted(s)) : Wanted(s)[i] = d
  BY <1>1, <1>3, WantedEntries DEF X
<1> QED BY <1>1, <1>4, <1>5, <1>6

(* What a file does not have is not in what was kept of it.                *)
LEMMA NoTimeIsStored ==
  ASSUME NEW s, Identify(s), NEW e, \A d \in Range(s) : ~ Same(d, e)
  PROVE  CnsOf(Wanted(s), e) = 0 /\ CnsOf(s, e) = 0
<1> DEFINE X == Range(s)
<1>1. s \in Seq(X)
  BY DEF Identify
<1>2. ASSUME NEW r \in Seq(X) PROVE CnsOf(r, e) = 0
  <2>1. \A i \in DOMAIN r : r[i] \in X
    OBVIOUS
  <2>2. {i \in DOMAIN r : Same(r[i], e)} = {}
    BY <2>1
  <2> QED BY <2>2, RowFields DEF NsOfFirst
<1>3. Wanted(s) \in Seq(X)
  BY <1>1, WantedEntries
<1> QED BY <1>1, <1>2, <1>3

(* The rows of a comparison are true to the files.                         *)
LEMMA RowsAreTrue ==
  ASSUME FoldersOK, base \in DOMAIN folders, baseline = Wanted(Stored(base).entries),
         rows = [i \in DOMAIN baseline |-> RowOf(baseline[i], current)],
         NEW row \in Range(rows)
  PROVE  /\ \E e \in Range(Stored(base).entries) : Same(e, row) /\ e.ns = row.baseline
         /\ cur \in DOMAIN folders /\ current = Wanted(Stored(cur).entries) =>
              \A e \in Range(Stored(cur).entries) : Same(e, row) => e.ns = row.current
<1> DEFINE s == Stored(base).entries
<1>1. s \in Seq(Range(s))
  BY FolderFacts DEF Identify
<1>2. PICK i \in DOMAIN baseline : row = RowOf(baseline[i], current)
  BY DEF Range
<1> HIDE DEF s
<1>3. Wanted(s) \in Seq(Range(s))
  BY <1>1, WantedEntries
<1>4. i \in 1 .. Len(Wanted(s))
  BY <1>2, <1>3 DEF s
<1> DEFINE e == baseline[i]
<1>5. e \in Range(s) /\ filter \in {<<>>, e.name}
  BY <1>1, <1>4, WantedEntries DEF s
<1> HIDE DEF e
<1>6. row = RowOf(e, current)
  BY <1>2 DEF e
<1>7. row.name = e.name /\ (tool = "custom" => row.iter = e.iter) /\ row.baseline = e.ns /\ row.current = CnsOf(current, e)
  BY <1>6, RowFields
<1>8. Same(e, row)
  BY <1>7 DEF Same
<1>9. ASSUME cur \in DOMAIN folders, current = Wanted(Stored(cur).entries),
             NEW d \in Range(Stored(cur).entries), Same(d, row)
      PROVE  d.ns = row.current
  <2>1. Same(d, e)
    BY <1>7, <1>9 DEF Same
  <2>2. CnsOf(current, e) = d.ns
    BY <1>5, <1>9, <2>1, FolderFacts, TimeIsStored
  <2> QED BY <1>7, <2>2
<1> QED BY <1>5, <1>7, <1>8, <1>9 DEF s

---------------------------------------------------------------------------
(* The steps.                                                              *)

(* What is on the command line before the method is a tag.                 *)
LEMMA VersionWords ==
  ASSUME NEW line \in CommandLines
  PROVE  /\ line \in Seq(Range(line))
         /\ VersionCount(line) \in {0, 1, 2} /\ VersionCount(line) <= Len(line)
         /\ VersionCount(line) \in {1, 2} => line[1] # LiveFile
         /\ VersionCount(line) = 2 => line[2] # LiveFile
<1>1. line \in Seq(Range(line))
  BY SequencesAssumption
<1>2. line # <<>> => Head(line) = line[1]
  BY <1>1
<1>3. \A w : IsVersionArg(w) => w # LiveFile
  BY DEF IsVersionArg, LiveFile, Command
<1>4. Len(line) # 0 => line # <<>>
  BY <1>1
<1>5. Len(line) \in Nat
  BY <1>1
<1> DEFINE c == VersionCount(line)
<1>6. \/ c = 0
      \/ Len(line) # 0 /\ IsVersionArg(Head(line)) /\ c = 1
      \/ Len(line) # 0 /\ Len(line) # 1 /\ IsVersionArg(Head(line)) /\ IsVersionArg(line[2]) /\ c = 2
  BY DEF VersionCount
<1> HIDE DEF c
<1>7. c \in {0, 1, 2} /\ c <= Len(line)
  <2>1. Len(line) # 0 => 1 <= Len(line)
    BY <1>5
  <2>2. Len(line) # 0 /\ Len(line) # 1 => 2 <= Len(line)
    <3>1. \A k \in Nat : k # 0 /\ k # 1 => 2 <= k
      OBVIOUS
    <3> QED BY <1>5, <3>1
  <2>3. 0 <= Len(line)
    BY <1>5
  <2> QED BY <1>6, <2>1, <2>2, <2>3
<1>8. c \in {1, 2} => line[1] # LiveFile
  BY <1>2, <1>3, <1>4, <1>6
<1>9. c = 2 => line[2] # LiveFile
  BY <1>3, <1>6
<1> QED BY <1>1, <1>7, <1>8, <1>9 DEF c

(* The sides of a comparison.                                              *)
LEMMA SidesStep ==
  ASSUME RInv, [Next]_vars, FoldersOK', FoldersGrow
  PROVE  SidesOK'
<1>1. FoldersOK /\ SidesOK /\ DOMAIN folders \subseteq DOMAIN folders'
  BY DEF RInv, FoldersGrow
<1>2. CASE UNCHANGED <<pc, base, cur>>
  BY <1>1, <1>2 DEF SidesOK
<1>3. CASE LatestBaseline
  <2>1. CASE pc' = "failed" /\ UNCHANGED base
    BY <1>1, <2>1 DEF SidesOK
  <2>2. CASE Baselines # {} /\ \E order \in SetToSeqs(Baselines) : base' = NewestOf(order) /\ pc' = "resolve"
    <3>1. PICK order \in SetToSeqs(Baselines) : base' = NewestOf(order) /\ pc' = "resolve"
      BY <2>2
    <3>2. base' \in DOMAIN folders
      BY <1>1, <2>2, <3>1, NewestIsFound, BaselinesAreTags
    <3>3. base' # LiveFile
      BY <1>1, <3>2 DEF FoldersOK, IsFolderName
    <3> QED BY <3>1, <3>3 DEF SidesOK
  <2> QED BY <1>3, <2>1, <2>2 DEF LatestBaseline, Fail
<1>4. CASE PrintList \/ PrintMethods
  BY <1>1, <1>4 DEF SidesOK, PrintList, PrintMethods, Fail
<1>5. CASE ResolveMethodId
  BY <1>1, <1>5 DEF SidesOK, ResolveMethodId, Fail
<1>6. CASE LoadBaseline
  <2>1. pc' = "current" => base \in DOMAIN folders
    BY <1>1, <1>6, ReadableFolder DEF SidesOK, LoadBaseline, Fail
  <2> QED BY <1>1, <1>6, <2>1 DEF SidesOK, LoadBaseline, Fail
<1>7. CASE LoadCurrent
  <2>1. pc' = "filter" => cur \in DOMAIN folders \cup {LiveFile}
    BY <1>7, ReadableFolder DEF LoadCurrent, Fail
  <2> QED BY <1>1, <1>7, <2>1 DEF SidesOK, LoadCurrent, Fail
<1>8. CASE ApplyMethodFilter
  BY <1>1, <1>8 DEF SidesOK, ApplyMethodFilter
<1>9. CASE PrintRegression \/ PrintRegressionGoogle
  BY <1>1, <1>9 DEF SidesOK, PrintRegression, PrintRegressionGoogle, PrintRows
<1>10. CASE ExportJson \/ ExportMarkdown
  BY <1>1, <1>10 DEF SidesOK, ExportJson, ExportMarkdown
<1>11. ASSUME NEW line \in CommandLines, Call(line) PROVE SidesOK'
  <2>1. pc' \in {"list", "done", "methods", "latest", "resolve"}
    BY <1>11 DEF Call, Compare, Listing
  <2>2. CASE UNCHANGED base
    BY <1>1, <2>1, <2>2 DEF SidesOK
  <2>3. CASE Compare(line)
    <3>1. None # LiveFile
      BY DEF None, LiveFile, Command
    <3>2. base' # LiveFile
      BY <2>3, <3>1, VersionWords DEF Compare
    <3> QED BY <2>1, <3>2 DEF SidesOK
  <2> QED BY <1>11, <2>2, <2>3 DEF Call
<1> QED BY <1>2, <1>3, <1>4, <1>5, <1>6, <1>7, <1>8, <1>9, <1>10, <1>11
        DEF Next, Phase, vars, RewriteLive, AddBaseline

(* What was loaded.                                                        *)
LEMMA LoadedStep ==
  ASSUME RInv, [Next]_vars, FoldersOK', FoldersGrow
  PROVE  LoadedOK'
<1>1. FoldersOK /\ SidesOK /\ LoadedOK /\ tool' = tool
  BY DEF RInv, FoldersGrow
<1>2. base \in DOMAIN folders /\ base' = base => Stored(base)' = Stored(base)
  <2>1. base \in DOMAIN folders => base # LiveFile
    BY <1>1 DEF FoldersOK, IsFolderName
  <2> QED BY <2>1 DEF Stored, FoldersGrow
<1>3. cur \in DOMAIN folders /\ cur' = cur => Stored(cur)' = Stored(cur)
  <2>1. cur \in DOMAIN folders => cur # LiveFile
    BY <1>1 DEF FoldersOK, IsFolderName
  <2> QED BY <2>1 DEF Stored, FoldersGrow
<1>4. CASE UNCHANGED <<pc, base, cur, filter, loaded>>
  BY <1>1, <1>2, <1>3, <1>4 DEF SidesOK, LoadedOK, loaded, Wanted, FilterByOperation, RowOf, Row, RowGoogle,
    GetCns, GetCnsGoogle
<1>5. CASE pc' \notin {"current", "filter", "compare", "json", "markdown"}
  BY <1>5 DEF LoadedOK
<1>6. CASE LoadBaseline
  <2>1. CASE pc' = "current"
    <3>1. base \in DOMAIN folders
      BY <1>1, <1>6, <2>1, ReadableFolder DEF SidesOK, LoadBaseline, Fail
    <3> QED BY <1>2, <1>6, <2>1, <3>1 DEF LoadedOK, LoadBaseline, Fail
  <2> QED BY <1>5, <1>6, <2>1 DEF LoadBaseline, Fail
<1>7. CASE LoadCurrent
  <2>1. CASE pc' = "filter"
    <3>1. base \in DOMAIN folders
      BY <1>1, <1>7 DEF SidesOK, LoadCurrent
    <3>2. cur # LiveFile => cur \in DOMAIN folders
      BY <1>7, <2>1, ReadableFolder DEF LoadCurrent, Fail
    <3> QED BY <1>1, <1>2, <1>3, <1>7, <2>1, <3>1, <3>2 DEF LoadedOK, LoadCurrent, Fail
  <2> QED BY <1>5, <1>7, <2>1 DEF LoadCurrent, Fail
<1>8. CASE ApplyMethodFilter
  <2>1. CASE pc' = "compare"
    <3>1. base \in DOMAIN folders /\ (cur # LiveFile => cur \in DOMAIN folders)
      BY <1>1, <1>8 DEF SidesOK, ApplyMethodFilter
    <3>2. UNCHANGED <<base, cur, filter>>
      BY <1>8 DEF ApplyMethodFilter
    <3>3. baseline' = Wanted(baseline) /\ current' = Wanted(current)
      BY <1>8 DEF ApplyMethodFilter, Wanted
    <3>4. baseline = Stored(base).entries /\ (cur # LiveFile => current = Stored(cur).entries)
      BY <1>1, <1>8 DEF LoadedOK, ApplyMethodFilter
    <3>5. Wanted(Stored(base).entries)' = baseline'
      BY <1>2, <3>1, <3>2, <3>3, <3>4 DEF Wanted, FilterByOperation
    <3>6. cur # LiveFile => Wanted(Stored(cur).entries)' = current'
      BY <1>3, <3>1, <3>2, <3>3, <3>4 DEF Wanted, FilterByOperation
    <3> QED BY <2>1, <3>2, <3>5, <3>6 DEF LoadedOK
  <2> QED BY <1>5, <1>8, <2>1 DEF ApplyMethodFilter
<1>9. CASE PrintRegression \/ PrintRegressionGoogle
  <2>1. /\ pc = "compare" /\ pc' = "json" /\ UNCHANGED <<base, cur, filter, baseline, current>>
        /\ rows' = [i \in DOMAIN baseline |-> RowOf(baseline[i], current)]
    BY <1>9 DEF PrintRegression, PrintRegressionGoogle, PrintRows, RowOf
  <2>2. base \in DOMAIN folders /\ (cur # LiveFile => cur \in DOMAIN folders)
    BY <1>1, <2>1 DEF SidesOK
  <2>3. rows' = [i \in DOMAIN baseline |-> RowOf(baseline[i], current)]'
    BY <1>1, <2>1 DEF RowOf, Row, RowGoogle, GetCns, GetCnsGoogle
  <2>4. baseline' = Wanted(Stored(base).entries)' /\ (cur' # LiveFile => current' = Wanted(Stored(cur).entries)')
    BY <1>1, <1>2, <1>3, <2>1, <2>2 DEF LoadedOK, Wanted, FilterByOperation
  <2> QED BY <2>1, <2>3, <2>4 DEF LoadedOK
<1>10. CASE ExportJson
  <2>1. pc = "json" /\ pc' = "markdown" /\ UNCHANGED <<base, cur, filter, baseline, current, rows>>
    BY <1>10 DEF ExportJson, loaded
  <2>2. base \in DOMAIN folders /\ (cur # LiveFile => cur \in DOMAIN folders)
    BY <1>1, <2>1 DEF SidesOK
  <2>3. rows' = [i \in DOMAIN baseline |-> RowOf(baseline[i], current)]'
    BY <1>1, <2>1 DEF LoadedOK, RowOf, Row, RowGoogle, GetCns, GetCnsGoogle
  <2>4. baseline' = Wanted(Stored(base).entries)' /\ (cur' # LiveFile => current' = Wanted(Stored(cur).entries)')
    BY <1>1, <1>2, <1>3, <2>1, <2>2 DEF LoadedOK, Wanted, FilterByOperation
  <2> QED BY <2>1, <2>3, <2>4 DEF LoadedOK
<1>11. CASE LatestBaseline \/ PrintList \/ PrintMethods \/ ResolveMethodId \/ ExportMarkdown
  BY <1>5, <1>11 DEF LatestBaseline, PrintList, PrintMethods, ResolveMethodId, ExportMarkdown, Fail
<1>12. ASSUME NEW line \in CommandLines, Call(line) PROVE LoadedOK'
  BY <1>5, <1>12 DEF Call, Compare, Listing
<1> QED BY <1>4, <1>6, <1>7, <1>8, <1>9, <1>10, <1>11, <1>12 DEF Next, Phase, vars, loaded, RewriteLive, AddBaseline

(* The reports.                                                            *)
LEMMA ReportStep ==
  ASSUME RInv, [Next]_vars, FoldersOK', FoldersGrow
  PROVE  ReportOK'
<1>1. FoldersOK /\ SidesOK /\ LoadedOK /\ ReportOK /\ tool' = tool /\ DOMAIN folders \subseteq DOMAIN folders'
  BY DEF RInv, FoldersGrow
<1>2. \A f \in DOMAIN folders : f # LiveFile /\ folders'[f] = folders[f]
  BY <1>1 DEF FoldersOK, IsFolderName, FoldersGrow
<1>3. CASE UNCHANGED markdown
  <2> SUFFICES ASSUME Written PROVE ReportOK'
    BY <1>3 DEF ReportOK, RowsAreStored, Written
  <2>1. markdown.baseline \in DOMAIN folders /\ markdown.current \in DOMAIN folders \cup {LiveFile}
    BY <1>1 DEF ReportOK
  <2>2. Stored(markdown.baseline)' = Stored(markdown.baseline)
    BY <1>1, <1>2, <1>3, <2>1 DEF Stored
  <2>3. markdown.current # LiveFile => Stored(markdown.current)' = Stored(markdown.current)
    BY <1>1, <1>2, <1>3, <2>1 DEF Stored
  <2> QED BY <1>1, <1>3, <2>1, <2>2, <2>3 DEF ReportOK, RowsAreStored, Written
<1>4. CASE ExportMarkdown /\ ~ UNCHANGED markdown
  <2>1. pc = "markdown" /\ markdown' = Transcript /\ UNCHANGED inputs
    BY <1>4 DEF ExportMarkdown
  <2>2. /\ base \in DOMAIN folders /\ cur \in DOMAIN folders \cup {LiveFile}
        /\ baseline = Wanted(Stored(base).entries)
        /\ cur # LiveFile => current = Wanted(Stored(cur).entries)
        /\ rows = [i \in DOMAIN baseline |-> RowOf(baseline[i], current)]
    BY <1>1, <2>1 DEF SidesOK, LoadedOK
  <2>3. markdown'.baseline = base /\ markdown'.current = cur /\ markdown'.rows = rows
    BY <2>1 DEF Transcript
  <2>4. \A row \in Range(rows) :
          /\ \E e \in Range(Stored(base).entries) : Same(e, row) /\ e.ns = row.baseline
          /\ cur \in DOMAIN folders /\ current = Wanted(Stored(cur).entries) =>
               \A e \in Range(Stored(cur).entries) : Same(e, row) => e.ns = row.current
    BY <1>1, <2>2, RowsAreTrue
  <2>5. Stored(markdown.baseline)' = Stored(base) /\ Stored(markdown.current)' = Stored(cur)
    BY <2>1, <2>3 DEF Stored, inputs, files
  <2>6. RowsAreStored'
    BY <1>1, <2>2, <2>3, <2>4, <2>5 DEF RowsAreStored, Same
  <2> QED BY <1>1, <2>2, <2>3, <2>6 DEF ReportOK
<1>5. CASE Phase /\ ~ ExportMarkdown
  BY <1>3, <1>5 DEF Phase, LatestBaseline, PrintList, PrintMethods, ResolveMethodId, LoadBaseline, LoadCurrent,
    ApplyMethodFilter, PrintRegression, PrintRegressionGoogle, PrintRows, ExportJson, output
<1>6. ASSUME NEW line, Call(line) PROVE ReportOK'
  BY <1>3, <1>6 DEF Call, output
<1> QED BY <1>3, <1>4, <1>5, <1>6 DEF Next, Phase, vars, output, RewriteLive, AddBaseline

(* The numbers of the runs that wrote them.                                *)
LEMMA RunsStep ==
  ASSUME RInv, [Next]_vars
  PROVE  RunsOK'
<1>1. RunsOK
  BY DEF RInv
<1>2. CASE UNCHANGED <<pc, output, run>>
  BY <1>1, <1>2 DEF RunsOK, output
<1>3. CASE LatestBaseline \/ PrintList \/ PrintMethods \/ ResolveMethodId
  <2>1. pc \in {"latest", "list", "methods", "resolve"} /\ pc' # "idle" /\ UNCHANGED <<output, run>>
    BY <1>3 DEF LatestBaseline, PrintList, PrintMethods, ResolveMethodId, Fail
  <2> QED BY <1>1, <2>1 DEF RunsOK, output
<1>4. CASE LoadBaseline \/ LoadCurrent \/ ApplyMethodFilter
  <2>1. pc \in {"baseline", "current", "filter"} /\ pc' # "idle" /\ UNCHANGED <<output, run>>
    BY <1>4 DEF LoadBaseline, LoadCurrent, ApplyMethodFilter, Fail
  <2> QED BY <1>1, <2>1 DEF RunsOK, output
<1>5. CASE PrintRegression \/ PrintRegressionGoogle
  <2>1. pc = "compare" /\ pc' = "json" /\ UNCHANGED <<output, run>>
    BY <1>5 DEF PrintRegression, PrintRegressionGoogle, PrintRows
  <2> QED BY <1>1, <2>1 DEF RunsOK, output
<1>6. CASE ExportJson
  <2>1. /\ pc = "json" /\ pc' = "markdown" /\ UNCHANGED <<markdown, run>>
        /\ json'.run = run \/ json' = json
    BY <1>6 DEF ExportJson
  <2> QED BY <1>1, <2>1 DEF RunsOK
<1>7. CASE ExportMarkdown
  <2>1. /\ pc = "markdown" /\ pc' = "done" /\ UNCHANGED <<json, run>>
        /\ markdown'.run = run \/ markdown' = markdown
    BY <1>7 DEF ExportMarkdown, Transcript
  <2> QED BY <1>1, <2>1 DEF RunsOK
<1>8. ASSUME NEW line, Call(line) PROVE RunsOK'
  <2>1. run' = run + 1 /\ pc' # "idle" /\ UNCHANGED output
    BY <1>8 DEF Call, Compare, Listing
  <2> QED BY <1>1, <2>1 DEF RunsOK, output
<1> QED BY <1>2, <1>3, <1>4, <1>5, <1>6, <1>7, <1>8 DEF Next, Phase, vars, RewriteLive, AddBaseline

(* The last word of the command line is the method, if that is one word.   *)
LEMMA OneMethodWord ==
  ASSUME NEW line \in CommandLines, LooksLikeMethodId(MethodWords(line))
  PROVE  MethodWords(line)[1] = line[Len(line)]
<1> DEFINE c == VersionCount(line)
<1>1. line \in Seq(Range(line)) /\ c \in Nat /\ c <= Len(line)
  BY VersionWords
<1>2. MethodWords(line) = SubSeq(line, 1 + c, Len(line)) /\ Len(MethodWords(line)) = 1
  BY DEF MethodWords, LooksLikeMethodId
<1> HIDE DEF c
<1>3. Len(line) \in Nat
  BY <1>1
<1>4. 1 + c = Len(line)
  BY <1>1, <1>2, <1>3
<1>5. SubSeq(line, 1 + c, Len(line)) = [i \in 1 .. (Len(line) - (1 + c) + 1) |-> line[i + (1 + c) - 1]]
  BY <1>1, <1>3
<1> QED BY <1>2, <1>3, <1>4, <1>5

(* What `methods` shows is what the baselines hold.                        *)
LEMMA MethodsShown ==
  ASSUME FoldersOK, PrintMethods
  PROVE  UNCHANGED screen \/ (\A f \in DOMAIN screen' : f \in DOMAIN folders /\ screen'[f] = Groups(f))
<1> DEFINE wanted == IF Len(args) = 2 THEN Selected(OldestFirst, {args[2]}) ELSE OldestFirst
           bad    == {i \in DOMAIN wanted : ~ Readable(wanted[i])}
           last   == IF bad = {} THEN Len(wanted) ELSE Min(bad) - 1
<1>1. UNCHANGED screen \/ screen' = [f \in {wanted[i] : i \in 1 .. last} |-> Groups(f)]
  BY DEF PrintMethods
<1>2. wanted \in Seq(Baselines)
  <2>1. OldestFirst \in Seq(Baselines)
    BY OldestFirstLists
  <2>2. Selected(OldestFirst, {args[2]}) \in Seq(Baselines)
    BY <2>1, SelectedElements
  <2> QED BY <2>1, <2>2
<1> HIDE DEF wanted
<1>3. Len(wanted) \in Nat /\ DOMAIN wanted = 1 .. Len(wanted) /\ \A i \in 1 .. Len(wanted) : wanted[i] \in Baselines
  BY <1>2
<1>4. last \in Int /\ last <= Len(wanted)
  <2>1. bad \in SUBSET (1 .. Len(wanted))
    BY <1>3
  <2> HIDE DEF bad
  <2>2. bad # {} => Min(bad) \in 1 .. Len(wanted)
    BY <1>3, <2>1, LeastIsOne
  <2> QED BY <1>3, <2>2
<1> HIDE DEF last
<1>5. \A i \in 1 .. last : wanted[i] \in DOMAIN folders
  BY <1>3, <1>4, BaselinesAreTags
<1> QED BY <1>1, <1>5

(* The methods and their ids.                                              *)
LEMMA IdsStep ==
  ASSUME RInv, [Next]_vars, FoldersOK', FoldersGrow
  PROVE  IdsOK'
<1>1. FoldersOK /\ SidesOK /\ IdsOK /\ DOMAIN folders \subseteq DOMAIN folders'
  BY DEF RInv, FoldersGrow
<1>2. \A f \in DOMAIN folders : f \in DOMAIN folders' /\ Groups(f)' = Groups(f)
  BY <1>1, StoredStays
<1>3. base \in DOMAIN folders /\ base' = base => Groups(base)' = Groups(base)
  <2>1. base \in DOMAIN folders => base # LiveFile
    BY <1>1 DEF FoldersOK, IsFolderName
  <2>2. base \in DOMAIN folders /\ base' = base => Stored(base)' = Stored(base)
    BY <2>1 DEF Stored, FoldersGrow
  <2> QED BY <2>2 DEF Groups
<1> DEFINE Screen == \A f \in DOMAIN screen : f \in DOMAIN folders /\ screen[f] = Groups(f)
           Given == pc \in {"latest", "resolve"} => args \in CommandLines /\ filter = MethodWords(args)
           Found == pc = "baseline" /\ LooksLikeMethodId(MethodWords(args)) =>
                      /\ args \in CommandLines
                      /\ base \in DOMAIN folders
                      /\ IsMethodId(MethodWords(args)[1], Groups(base))
                      /\ filter = MethodOf(MethodWords(args)[1], Groups(base))
<1>4. UNCHANGED screen => Screen'
  BY <1>1, <1>2 DEF IdsOK
<1>5. SUFFICES Screen' /\ Given' /\ Found'
  BY DEF IdsOK
<1>6. CASE UNCHANGED <<pc, args, base, filter, screen>>
  BY <1>1, <1>3, <1>4, <1>6 DEF IdsOK
<1>7. CASE LatestBaseline
  BY <1>1, <1>4, <1>7 DEF IdsOK, LatestBaseline, Fail, shown
<1>8. CASE PrintList
  BY <1>4, <1>8 DEF PrintList, Fail, shown
<1>9. CASE PrintMethods
  <2>1. pc' \in {"done", "failed"} /\ UNCHANGED inputs
    BY <1>9 DEF PrintMethods, Fail
  <2>2. Screen'
    BY <1>1, <1>2, <1>4, <1>9, MethodsShown
  <2> QED BY <2>1, <2>2
<1>10. CASE ResolveMethodId
  <2>1. Screen'
    BY <1>4, <1>10 DEF ResolveMethodId, shown
  <2>2. Given'
    BY <1>10 DEF ResolveMethodId, Fail
  <2>3. Found'
    <3> SUFFICES ASSUME pc' = "baseline", LooksLikeMethodId(MethodWords(args)) PROVE Found'
      BY <1>10 DEF ResolveMethodId
    <3>1. /\ filter = MethodWords(args) /\ args \in CommandLines /\ UNCHANGED <<args, base>>
          /\ Readable(base) /\ IsMethodId(filter[1], Groups(base)) /\ filter' = MethodOf(filter[1], Groups(base))
      BY <1>1, <1>10 DEF IdsOK, ResolveMethodId, Fail
    <3>2. base \in DOMAIN folders
      BY <1>1, <3>1, ReadableFolder DEF SidesOK
    <3> QED BY <1>1, <1>3, <3>1, <3>2
  <2> QED BY <2>1, <2>2, <2>3
<1>11. CASE LoadBaseline \/ LoadCurrent \/ ApplyMethodFilter
  <2>1. pc' \in {"current", "filter", "compare", "failed"} /\ UNCHANGED screen
    BY <1>11 DEF LoadBaseline, LoadCurrent, ApplyMethodFilter, Fail, shown
  <2> QED BY <1>4, <2>1
<1>12. CASE PrintRegression \/ PrintRegressionGoogle \/ ExportJson \/ ExportMarkdown
  <2>1. pc' \in {"json", "markdown", "done"} /\ UNCHANGED screen
    BY <1>12 DEF PrintRegression, PrintRegressionGoogle, PrintRows, ExportJson, ExportMarkdown, shown
  <2> QED BY <1>4, <2>1
<1>13. ASSUME NEW line \in CommandLines, Call(line) PROVE Screen' /\ Given' /\ Found'
  <2>1. UNCHANGED screen /\ args' = line /\ pc' \in {"list", "done", "methods", "latest", "resolve"}
    BY <1>13 DEF Call, Compare, Listing, shown
  <2>2. pc' \in {"latest", "resolve"} => filter' = MethodWords(line)
    BY <1>13 DEF Call, Compare, Listing
  <2> QED BY <1>4, <2>1, <2>2
<1> QED BY <1>6, <1>7, <1>8, <1>9, <1>10, <1>11, <1>12, <1>13 DEF Next, Phase, vars, shown, RewriteLive, AddBaseline

(* What `list` showed.                                                     *)
LEMMA ListedStep ==
  ASSUME RInv, [Next]_vars, FoldersOK', FoldersGrow
  PROVE  ListedOK'
<1>1. FoldersOK /\ ListedOK
  BY DEF RInv
<1>2. Baselines \subseteq Baselines'
  BY DEF Baselines, IsBaseline, IsCustomBaselineName, IsGoogleBaselineName, FoldersGrow
<1>3. CASE UNCHANGED listed
  BY <1>1, <1>2, <1>3 DEF ListedOK
<1>4. CASE PrintList /\ listed' = OldestFirst
  <2>1. OldestFirst # <<>> => Last(OldestFirst) \in Baselines
    BY <1>1, OldestFirstLists
  <2> QED BY <1>2, <1>4, <2>1 DEF ListedOK
<1>5. CASE Phase /\ ~ PrintList
  BY <1>3, <1>5 DEF Phase, LatestBaseline, PrintMethods, ResolveMethodId, LoadBaseline, LoadCurrent,
    ApplyMethodFilter, PrintRegression, PrintRegressionGoogle, PrintRows, ExportJson, ExportMarkdown, shown
<1>6. ASSUME NEW line, Call(line) PROVE ListedOK'
  BY <1>3, <1>6 DEF Call, shown
<1> QED BY <1>3, <1>4, <1>5, <1>6 DEF Next, Phase, PrintList, vars, shown, RewriteLive, AddBaseline

(* The rows of a comparison have the times of the file that was read.      *)
LEMMA RowsOfReading ==
  ASSUME FoldersOK, base \in DOMAIN folders, baseline = Wanted(Stored(base).entries),
         rows = [i \in DOMAIN baseline |-> RowOf(baseline[i], current)],
         NEW file \in StoredFiles(tool), current = Wanted(file.entries), NEW row \in Range(rows)
  PROVE  row.current \in TimesIn(file, row)
<1> DEFINE s == Stored(base).entries
           r == file.entries
<1>1. s \in Seq(Range(s)) /\ Identify(r)
  BY FolderFacts, FileFacts DEF Identify, FoldersOK
<1>2. PICK i \in DOMAIN baseline : row = RowOf(baseline[i], current)
  BY DEF Range
<1> HIDE DEF s
<1>3. Wanted(s) \in Seq(Range(s))
  BY <1>1, WantedEntries
<1>4. i \in 1 .. Len(Wanted(s))
  BY <1>2, <1>3 DEF s
<1> DEFINE e == baseline[i]
<1>5. filter \in {<<>>, e.name}
  BY <1>1, <1>4, WantedEntries DEF s
<1> HIDE DEF e
<1>6. row.name = e.name /\ (tool = "custom" => row.iter = e.iter) /\ row.current = CnsOf(current, e)
  BY <1>2, RowFields DEF e
<1> DEFINE times == {d.ns : d \in {d \in Range(r) : Same(d, row)}}
<1>7. TimesIn(file, row) = IF times = {} THEN {0} ELSE times
  BY DEF TimesIn, Same
<1> HIDE DEF r
<1>8. \A d : Same(d, row) <=> Same(d, e)
  BY <1>6 DEF Same
<1>9. CASE \E d \in Range(r) : Same(d, e)
  <2>1. PICK d \in Range(r) : Same(d, e)
    BY <1>9
  <2>2. CnsOf(current, e) = d.ns
    BY <2>1, <1>1, <1>5, TimeIsStored DEF r
  <2>3. d.ns \in times
    BY <2>1, <1>8
  <2> QED BY <2>2, <2>3, <1>6, <1>7
<1>10. CASE \A d \in Range(r) : ~ Same(d, e)
  <2>1. CnsOf(current, e) = 0
    BY <1>10, <1>1, NoTimeIsStored DEF r
  <2>2. times = {}
    BY <1>8, <1>10
  <2> QED BY <2>1, <2>2, <1>6, <1>7
<1> QED BY <1>9, <1>10

(* All of a report's rows are of the reading it was made from.             *)
LEMMA ReadingHasRows ==
  ASSUME FoldersOK, SidesOK, LoadedOK, ReadingOK, pc \in {"json", "markdown"}, cur = LiveFile
  PROVE  \E file \in seen : file.state = "complete" /\ \A row \in Range(rows) : row.current \in TimesIn(file, row)
<1>1. PICK file \in seen : file.state = "complete" /\ current = Wanted(file.entries)
  BY DEF ReadingOK
<1>2. file \in StoredFiles(tool)
  BY <1>1 DEF ReadingOK, Truncated
<1>3. /\ base \in DOMAIN folders /\ baseline = Wanted(Stored(base).entries)
      /\ rows = [i \in DOMAIN baseline |-> RowOf(baseline[i], current)]
  BY DEF SidesOK, LoadedOK
<1>4. \A row \in Range(rows) : row.current \in TimesIn(file, row)
  BY <1>1, <1>2, <1>3, RowsOfReading
<1> QED BY <1>1, <1>4

(* The reading of the live results.                                        *)
LEMMA ReadingStep ==
  ASSUME RInv, [Next]_vars, FoldersGrow
  PROVE  ReadingOK'
<1>1. FoldersOK /\ SidesOK /\ LoadedOK /\ RunsOK /\ ReadingOK /\ tool' = tool
  BY DEF RInv, FoldersGrow
<1> DEFINE Seen == live \in seen /\ seen \subseteq StoredFiles(tool) \cup {Truncated}
           Read == pc = "filter" /\ cur = LiveFile =>
                     \E file \in seen : file.state = "complete" /\ current = file.entries
           Kept == pc \in {"compare", "json", "markdown"} /\ cur = LiveFile =>
                     \E file \in seen : file.state = "complete" /\ current = Wanted(file.entries)
           Rows == pc = "markdown" /\ json.run = run => json.rows = rows
<1>2. Seen /\ Read /\ Kept /\ Rows /\ CurrentIsOneReading
  BY <1>1 DEF ReadingOK
<1>3. SUFFICES Seen' /\ Read' /\ Kept' /\ Rows' /\ CurrentIsOneReading'
  BY DEF ReadingOK
<1>4. UNCHANGED inputs => Seen'
  BY <1>2 DEF inputs, files, StoredFiles
<1>5. ASSUME seen \subseteq seen', UNCHANGED <<cur, output, run>> PROVE CurrentIsOneReading'
  <2> DEFINE written == {report \in {json, markdown} : report.run = run}
             One(file) == /\ file.state = "complete"
                          /\ \A report \in written : \A row \in Range(report.rows) : row.current \in TimesIn(file, row)
  <2>1. run # 0 /\ cur = LiveFile /\ written # {} => \E file \in seen : One(file)
    BY <1>2 DEF CurrentIsOneReading
  <2>2. written' = written
    BY <1>5 DEF output
  <2>3. \A file, row : TimesIn(file, row)' = TimesIn(file, row)
    BY <1>1 DEF TimesIn
  <2> HIDE DEF written
  <2>4. \A file : One(file)' <=> One(file)
    BY <2>2, <2>3
  <2> HIDE DEF One
  <2>5. (run # 0 /\ cur = LiveFile /\ written # {} => \E file \in seen : One(file))'
    BY <2>1, <2>2, <2>4, <1>5
  <2> QED BY <2>5 DEF CurrentIsOneReading, One, written
<1>6. ASSUME seen \subseteq seen', Seen', UNCHANGED <<pc, cur, filter, current, rows, output, run>>
      PROVE  Seen' /\ Read' /\ Kept' /\ Rows' /\ CurrentIsOneReading'
  <2>1. Read' /\ Rows'
    BY <1>2, <1>6 DEF output
  <2>2. \A file : Wanted(file.entries)' = Wanted(file.entries)
    BY <1>6 DEF Wanted, FilterByOperation
  <2>3. Kept'
    BY <1>2, <1>6, <2>2
  <2> QED BY <1>5, <1>6, <2>1, <2>3
<1>7. CASE UNCHANGED vars
  BY <1>4, <1>6, <1>7 DEF vars, inputs, loaded
<1>8. CASE \E r \in Results[tool] : RewriteLive(File(r))
  <2>1. PICK r \in Results[tool] : RewriteLive(File(r))
    BY <1>8
  <2>2. seen \subseteq seen' /\ Seen'
    BY <2>1, <1>2 DEF RewriteLive, StoredFiles
  <2> QED BY <2>1, <2>2, <1>6 DEF RewriteLive, loaded
<1>9. CASE RewriteLive(Truncated)
  <2>1. seen \subseteq seen' /\ Seen'
    BY <1>9, <1>2 DEF RewriteLive, StoredFiles
  <2> QED BY <1>9, <2>1, <1>6 DEF RewriteLive, loaded
<1>10. ASSUME NEW f, NEW file, AddBaseline(f, file) PROVE Seen' /\ Read' /\ Kept' /\ Rows' /\ CurrentIsOneReading'
  <2>1. UNCHANGED <<tool, live, seen>>
    BY <1>10 DEF AddBaseline
  <2>2. seen \subseteq seen' /\ Seen'
    BY <2>1, <1>2 DEF StoredFiles
  <2> QED BY <1>10, <2>2, <1>6 DEF AddBaseline, loaded
<1>11. CASE LatestBaseline \/ PrintList \/ PrintMethods \/ ResolveMethodId \/ LoadBaseline
  <2>1. UNCHANGED <<inputs, cur, output, run>> /\ pc' \notin {"filter", "compare", "json", "markdown"}
    BY <1>11 DEF LatestBaseline, PrintList, PrintMethods, ResolveMethodId, LoadBaseline, Fail
  <2>2. seen \subseteq seen'
    BY <2>1 DEF inputs
  <2> QED BY <2>1, <2>2, <1>4, <1>5
<1>12. CASE LoadCurrent
  <2>1. UNCHANGED <<inputs, cur, output, run>> /\ pc' \in {"filter", "failed"}
    BY <1>12 DEF LoadCurrent, Fail
  <2>2. seen' = seen
    BY <2>1 DEF inputs
  <2>3. Read'
    <3> SUFFICES ASSUME pc' = "filter", cur = LiveFile
                 PROVE  \E file \in seen : file.state = "complete" /\ current' = file.entries
      BY <2>1, <2>2
    <3>1. Readable(cur) /\ current' = Stored(cur).entries
      BY <1>12 DEF LoadCurrent, Fail
    <3>2. LiveFile \notin DOMAIN folders
      BY <1>1 DEF FoldersOK, IsFolderName
    <3>3. Stored(cur) = live
      BY <3>2 DEF Stored
    <3> QED BY <3>1, <3>3, <1>2 DEF Readable
  <2> QED BY <2>1, <2>2, <2>3, <1>4, <1>5
<1>13. CASE ApplyMethodFilter
  <2>1. UNCHANGED <<inputs, cur, filter, output, run>> /\ pc = "filter" /\ pc' \in {"compare", "failed"}
    BY <1>13 DEF ApplyMethodFilter
  <2>2. seen' = seen
    BY <2>1 DEF inputs
  <2>3. current' = Wanted(current)
    BY <1>13 DEF ApplyMethodFilter, Wanted
  <2>4. \A file : Wanted(file.entries)' = Wanted(file.entries)
    BY <2>1 DEF Wanted, FilterByOperation
  <2>5. Kept'
    BY <2>1, <2>2, <2>3, <2>4, <1>2
  <2> QED BY <2>1, <2>2, <2>5, <1>4, <1>5
<1>14. CASE PrintRegression \/ PrintRegressionGoogle
  <2>1. UNCHANGED <<inputs, cur, filter, current, output, run>> /\ pc = "compare" /\ pc' = "json"
    BY <1>14 DEF PrintRegression, PrintRegressionGoogle, PrintRows
  <2>2. seen' = seen
    BY <2>1 DEF inputs
  <2>3. \A file : Wanted(file.entries)' = Wanted(file.entries)
    BY <2>1 DEF Wanted, FilterByOperation
  <2>4. Kept'
    BY <2>1, <2>2, <2>3, <1>2
  <2> QED BY <2>1, <2>2, <2>4, <1>4, <1>5
<1>15. CASE ExportJson
  <2>1. /\ UNCHANGED <<inputs, cur, filter, loaded, markdown, run>> /\ pc = "json" /\ pc' = "markdown"
        /\ json' = [run |-> run, rows |-> rows] \/ json' = json
    BY <1>15 DEF ExportJson
  <2>2. seen' = seen /\ UNCHANGED <<current, rows>>
    BY <2>1 DEF inputs, loaded
  <2>3. \A file : Wanted(file.entries)' = Wanted(file.entries)
    BY <2>1 DEF Wanted, FilterByOperation
  <2>4. Kept'
    BY <2>1, <2>2, <2>3, <1>2
  <2>5. json.run # run /\ markdown.run # run
    BY <2>1, <1>1 DEF RunsOK
  <2>6. Rows'
    BY <2>1, <2>2, <2>5
  <2>7. CurrentIsOneReading'
    <3> SUFFICES ASSUME cur = LiveFile PROVE CurrentIsOneReading'
      BY <2>1 DEF CurrentIsOneReading
    <3>1. PICK file \in seen : file.state = "complete" /\ \A row \in Range(rows) : row.current \in TimesIn(file, row)
      BY <1>1, <2>1, ReadingHasRows
    <3>2. \A report \in {json', markdown'} : report.run = run => report.rows = rows
      BY <2>1, <2>5
    <3>3. \A row : TimesIn(file, row)' = TimesIn(file, row)
      BY <1>1 DEF TimesIn
    <3> QED BY <2>1, <2>2, <3>1, <3>2, <3>3 DEF CurrentIsOneReading
  <2> QED BY <2>1, <2>4, <2>6, <2>7, <1>4
<1>16. CASE ExportMarkdown
  <2>1. /\ UNCHANGED <<inputs, cur, json, run>> /\ pc = "markdown" /\ pc' = "done"
        /\ markdown' = Transcript \/ markdown' = markdown
    BY <1>16 DEF ExportMarkdown
  <2>2. seen' = seen
    BY <2>1 DEF inputs
  <2>3. CurrentIsOneReading'
    <3> SUFFICES ASSUME cur = LiveFile PROVE CurrentIsOneReading'
      BY <2>1 DEF CurrentIsOneReading
    <3>1. PICK file \in seen : file.state = "complete" /\ \A row \in Range(rows) : row.current \in TimesIn(file, row)
      BY <1>1, <2>1, ReadingHasRows
    <3>2. \A report \in {json', markdown'} : report.run = run => report.rows = rows
      <4>1. markdown.run # run
        BY <2>1, <1>1 DEF RunsOK
      <4> QED BY <2>1, <4>1, <1>2 DEF Transcript
    <3>3. \A row : TimesIn(file, row)' = TimesIn(file, row)
      BY <1>1 DEF TimesIn
    <3> QED BY <2>1, <2>2, <3>1, <3>2, <3>3 DEF CurrentIsOneReading
  <2> QED BY <2>1, <2>3, <1>4
<1>17. ASSUME NEW line, Call(line) PROVE Seen' /\ Read' /\ Kept' /\ Rows' /\ CurrentIsOneReading'
  <2>1. run' = run + 1 /\ seen' = {live} /\ live' = live /\ UNCHANGED output
    BY <1>17 DEF Call, files
  <2>2. pc' \in {"list", "done", "methods", "latest", "resolve"}
    BY <1>17 DEF Call, Compare, Listing
  <2>3. Seen'
    BY <2>1, <1>1, <1>2 DEF StoredFiles
  <2>4. json'.run # run' /\ markdown'.run # run'
    BY <2>1, <1>1 DEF RunsOK, output
  <2>5. CurrentIsOneReading'
    BY <2>4 DEF CurrentIsOneReading
  <2> QED BY <2>2, <2>3, <2>5
<1> QED BY <1>7, <1>8, <1>9, <1>10, <1>11, <1>12, <1>13, <1>14, <1>15, <1>16, <1>17 DEF Next, Phase

---------------------------------------------------------------------------
(* The results.                                                            *)

(* Everything holds at first.                                              *)
LEMMA RInvInit ==
  ASSUME Init
  PROVE  RInv
<1>1. FoldersOK
  BY FoldersAssumption DEF Init, FoldersOK
<1>2. SidesOK
  BY DEF Init, SidesOK, None, LiveFile, Command
<1>3. LoadedOK
  BY DEF Init, LoadedOK
<1>4. ReportOK
  BY DEF Init, ReportOK, RowsAreStored, Written, NoReport
<1>5. RunsOK
  BY DEF Init, RunsOK, NoReport
<1>6. IdsOK
  BY DEF Init, IdsOK
<1>7. ListedOK
  BY DEF Init, ListedOK
<1>8. ReadingOK
  BY DEF Init, ReadingOK, CurrentIsOneReading
<1> QED BY <1>1, <1>2, <1>3, <1>4, <1>5, <1>6, <1>7, <1>8 DEF RInv

(* Every step keeps it.                                                    *)
LEMMA RInvStep ==
  ASSUME RInv, [Next]_vars
  PROVE  RInv'
<1>1. FoldersOK' /\ FoldersGrow
  BY FoldersStep DEF RInv
<1> QED BY <1>1, SidesStep, LoadedStep, ReportStep, RunsStep, IdsStep, ListedStep, ReadingStep DEF RInv

(* The rows of a comparison of one method are those of the whole one.      *)
LEMMA RowsOfOneMethod ==
  ASSUME RInv
  PROVE  FilteredIsPartOfWhole
<1> SUFFICES ASSUME pc = "json", cur # LiveFile PROVE FilteredIsPartOfWhole
  BY DEF FilteredIsPartOfWhole
<1> DEFINE old == Stored(base).entries
           new == Stored(cur).entries
           whole == [i \in DOMAIN old |-> IF tool = "custom" THEN Row(old[i], new) ELSE RowGoogle(old[i], new)]
           R == {row \in Range(whole) : filter \in {<<>>, row.name}}
           S == {e \in Range(old) : e.name = filter}
           X == Range(old)
           g == [e \in X |-> RowOf(e, new)]
           Y == {RowOf(e, new) : e \in X}
<1>1. FoldersOK /\ base \in DOMAIN folders /\ cur \in DOMAIN folders
  BY DEF RInv, SidesOK
<1>2. baseline = Wanted(old) /\ current = Wanted(new) /\ rows = [i \in DOMAIN baseline |-> RowOf(baseline[i], current)]
  BY DEF RInv, LoadedOK
<1>3. old \in Seq(X) /\ Identify(new)
  BY <1>1, FolderFacts DEF Identify
<1>4. whole \in Seq(Y) /\ Len(whole) = Len(old) /\ \A i \in 1 .. Len(old) : whole[i] = g[old[i]]
  <2>1. \A i \in 1 .. Len(old) : old[i] \in X /\ g[old[i]] \in Y
    BY <1>3
  <2>2. DOMAIN old = 1 .. Len(old) /\ Len(old) \in Nat
    BY <1>3
  <2>3. whole = [i \in 1 .. Len(old) |-> g[old[i]]]
    BY <2>1, <2>2 DEF RowOf
  <2> HIDE DEF whole
  <2> QED BY <2>1, <2>2, <2>3
<1>5. \A e \in X : g[e] = RowOf(e, new) /\ g[e].name = e.name
  BY RowFields
<1>6. g \in [X -> Y]
  OBVIOUS
<1>7. \A i \in 1 .. Len(old) : old[i] \in X /\ whole[i] = g[old[i]] /\ whole[i] \in Range(whole)
  <2>1. Len(old) \in Nat /\ \A i \in 1 .. Len(old) : old[i] \in X
    BY <1>3
  <2> HIDE DEF whole, Y, old, X, g
  <2>2. DOMAIN whole = 1 .. Len(old)
    BY <1>4
  <2>3. \A i \in 1 .. Len(old) : whole[i] \in Range(whole)
    BY <2>2 DEF Range
  <2> QED BY <2>1, <2>3, <1>4
<1>8. \A e \in X : filter \in {<<>>, e.name} => RowOf(e, current) = g[e]
  <2> SUFFICES ASSUME NEW e \in X, filter \in {<<>>, e.name} PROVE RowOf(e, current) = RowOf(e, new)
    BY <1>5
  <2>1. CnsOf(current, e) = CnsOf(new, e)
    <3>1. CASE \E d \in Range(new) : Same(d, e)
      BY <3>1, <1>2, <1>3, TimeIsStored
    <3>2. CASE \A d \in Range(new) : ~ Same(d, e)
      BY <3>2, <1>2, <1>3, NoTimeIsStored
    <3> QED BY <3>1, <3>2
  <2> QED BY <2>1 DEF RowOf, Row, RowGoogle, CnsOf
<1> DEFINE kept == Wanted(old)
<1>9. /\ kept \in Seq(X)
      /\ \A j \in 1 .. Len(kept) : kept[j] \in X /\ filter \in {<<>>, kept[j].name}
  BY <1>3, WantedEntries
<1>10. rows = [j \in 1 .. Len(kept) |-> g[kept[j]]]
  BY <1>2, <1>8, <1>9
<1>11. /\ Selected(whole, R) \in Seq(Y) /\ Len(Selected(whole, R)) = Len(kept)
       /\ \A j \in 1 .. Len(kept) : Selected(whole, R)[j] = g[kept[j]]
  <2>1. CASE filter = <<>>
    <3>1. \A i \in 1 .. Len(old) : whole[i] = g[old[i]] /\ (whole[i] \in R <=> old[i] \in X)
      BY <2>1, <1>7
    <3>2. kept = Selected(old, X)
      BY <2>1, <1>3, SelectedAll DEF Wanted
    <3> HIDE DEF g, Y, R, X, old, new, whole, kept
    <3> QED BY <3>1, <3>2, <1>3, <1>4, <1>6, SelectedImage
  <2>2. CASE filter # <<>>
    <3>1. \A i \in 1 .. Len(old) : whole[i] = g[old[i]] /\ (whole[i] \in R <=> old[i] \in S)
      BY <2>2, <1>5, <1>7
    <3>2. kept = Selected(old, S)
      BY <2>2 DEF Wanted, FilterByOperation
    <3> HIDE DEF g, Y, R, S, X, old, new, whole, kept
    <3>3. /\ Selected(whole, R) \in Seq(Y) /\ Len(Selected(whole, R)) = Len(Selected(old, S))
          /\ \A j \in 1 .. Len(Selected(old, S)) : Selected(whole, R)[j] = g[Selected(old, S)[j]]
      BY <3>1, <1>3, <1>4, <1>6, SelectedImage
    <3> QED BY <3>2, <3>3
  <2> QED BY <2>1, <2>2
<1>12. Selected(whole, R) = [j \in 1 .. Len(kept) |-> g[kept[j]]]
  <2> DEFINE w == Selected(whole, R)
  <2>1. w \in Seq(Y) /\ Len(w) = Len(kept) /\ \A j \in 1 .. Len(kept) : w[j] = g[kept[j]]
    BY <1>11
  <2> HIDE DEF w, g, kept, Y
  <2>2. w = [j \in 1 .. Len(kept) |-> w[j]]
    BY <2>1
  <2>3. w = [j \in 1 .. Len(kept) |-> g[kept[j]]]
    BY <2>1, <2>2
  <2> QED BY <2>3 DEF w
<1> QED BY <1>10, <1>12 DEF FilteredIsPartOfWhole

(* An id means what was shown.                                             *)
LEMMA IdsAsShown ==
  ASSUME RInv
  PROVE  IdsMeanWhatWasShown
<1> SUFFICES ASSUME pc = "baseline", LooksLikeMethodId(MethodWords(args)), base \in DOMAIN screen
             PROVE  IdsMeanWhatWasShown
  BY DEF IdsMeanWhatWasShown
<1>1. /\ args \in CommandLines /\ screen[base] = Groups(base)
      /\ IsMethodId(MethodWords(args)[1], Groups(base))
      /\ filter = MethodOf(MethodWords(args)[1], Groups(base))
  BY DEF RInv, IdsOK
<1>2. MethodWords(args)[1] = args[Len(args)]
  BY <1>1, OneMethodWord
<1> QED BY <1>1, <1>2 DEF IdsMeanWhatWasShown, MethodOf

(* The newest baseline is the one `list` showed last, or newer.            *)
LEMMA LatestAsListed ==
  ASSUME RInv, Next, pc = "latest", pc' = "resolve", listed # <<>>
  PROVE  base' = Last(listed) \/ Newer(base', Last(listed))
<1>1. LatestBaseline
  BY DEF Next, Phase, PrintList, PrintMethods, ResolveMethodId, LoadBaseline, LoadCurrent, ApplyMethodFilter,
    PrintRegression, PrintRegressionGoogle, ExportJson, ExportMarkdown, Call, RewriteLive, AddBaseline
<1>2. PICK order \in SetToSeqs(Baselines) : base' = NewestOf(order)
  BY <1>1 DEF LatestBaseline, Fail
<1>3. FoldersOK /\ Last(listed) \in Baselines
  BY DEF RInv, ListedOK
<1> QED BY <1>2, <1>3, NewestIsFound

(* The report is always true to the files its columns are named for:       *)
(* getCns() finds for every row the time stored for the same benchmark,    *)
(* through the method filter, no release changes a stored baseline, and    *)
(* loadResults() reads the live results once and refuses what is cut short. *)
THEOREM ReportCorrect == Spec => []ReportIsTrue
<1>1. RInv => ReportIsTrue
  BY DEF RInv, ReportOK, ReadingOK, ReportIsTrue
<1> QED BY <1>1, RInvInit, RInvStep, PTL DEF Spec

(* Filtering both sides first gives the rows the method has in the whole   *)
(* comparison, none lost, none added, in the same order.                   *)
THEOREM FilteredCorrect == Spec => []FilteredIsPartOfWhole
BY RowsOfOneMethod, RInvInit, RInvStep, PTL DEF Spec

(* An id that resolveMethodId() accepts means the method that `methods`    *)
(* last showed next to it for that baseline.                               *)
THEOREM IdsCorrect == Spec => []IdsMeanWhatWasShown
BY IdsAsShown, RInvInit, RInvStep, PTL DEF Spec

(* A run that ends in an error has written neither report.                 *)
THEOREM FailureCorrect == Spec => []FailureLeavesReports
<1>1. RInv => FailureLeavesReports
  BY DEF RInv, RunsOK, FailureLeavesReports
<1> QED BY <1>1, RInvInit, RInvStep, PTL DEF Spec

(* Whatever the order the directory is read in, latestBaseline() takes the *)
(* baseline `list` showed last, or a newer one.                            *)
THEOREM LatestCorrect == Spec => LatestIsLastListed
<1>1. RInv /\ [Next]_vars =>
        [pc = "latest" /\ pc' = "resolve" /\ listed # <<>> =>
           base' = Last(listed) \/ Newer(base', Last(listed))]_vars
  BY LatestAsListed
<1> QED BY <1>1, RInvInit, RInvStep, PTL DEF Spec, LatestIsLastListed

=============================================================================
