-------------------------------- MODULE Regression -------------------------------
(***************************************************************************)
(* The two comparison tools: regression (custom/) for the snapshots of the *)
(* project's own benchmarks, google_regression (google/) for those of      *)
(* Google Benchmark.  They are copies of each other that differ in how an  *)
(* entry is identified and in which folders hold a baseline; `tool` says   *)
(* which one runs.  A run is the phases of main(), one action each; it     *)
(* ends and another one starts, while benchmark runs rewrite the live      *)
(* results and releases add baselines.                                     *)
(***************************************************************************)
EXTENDS Integers, Sequences, SequencesExt, FiniteSets, FiniteSetsExt, Functions, Selection

CONSTANTS
  Tools,         \* the tools that are run
  Spelling,      \* every method name, in alphabetical order
  Directories,   \* for each tool, what benchmarks/baselines may hold at first
  Results,       \* for each tool, what a results file may hold
  NewFolders,    \* the folders that may be added to benchmarks/baselines
  CommandLines,  \* the arguments the tools are called with
  MaxRuns,       \* bound: calls of the tool
  MaxChanges     \* bound: changes of the files underneath

(***************************************************************************)
(* Words of the command line, which also name folders.  A tag is a word    *)
(* that begins with v: num is the place of its numbers in their order, -1  *)
(* if it has none; tail is what follows them, 0 for nothing, and orders    *)
(* the names that have the same numbers.  A method name is a sequence of   *)
(* text words, since main() joins what is left of the arguments.           *)
(***************************************************************************)
Command(c)   == [kind |-> "command", is |-> c]
Tag(n, t)    == [kind |-> "tag", num |-> n, tail |-> t]
Id(l, i)     == [kind |-> "id", letter |-> l, index |-> i]
Text(l, n)   == [kind |-> "text", letter |-> l, rest |-> n]
LiveFile     == Command("benchmarks/results")
None         == Command("none")

\* A results file: its entries [name, iter, ns], or why it cannot be read.
File(entries) == [state |-> "complete", entries |-> entries]
Missing       == [state |-> "missing", entries |-> <<>>]
Truncated     == [state |-> "truncated", entries |-> <<>>]
StoredFiles(t) == {File(r) : r \in Results[t]} \cup {Missing}

Tags == [kind : {"tag"}, num : Int, tail : Int]
IsFolderName(f) == f # LiveFile /\ (f.kind = "tag" => f \in Tags)

\* Folders have names and hold what benchmark runs have written.
ASSUME FoldersAssumption ==
  /\ \A t \in Tools : \A d \in Directories[t] :
       /\ IsFiniteSet(DOMAIN d)
       /\ \A f \in DOMAIN d : IsFolderName(f) /\ d[f] \in StoredFiles(t)
  /\ \A f \in NewFolders : IsFolderName(f)

\* A results file and a command line are sequences.
ASSUME SequencesAssumption ==
  /\ \A t \in Tools : \A r \in Results[t] : r \in Seq(Range(r))
  /\ \A line \in CommandLines : line \in Seq(Range(line))

\* An entry identifies a benchmark: no snapshot holds two for the same one
\* (for the custom tool, the same operation and number of iterations).
ASSUME UniqueEntries ==
  \A t \in Tools : \A r \in Results[t] : \A i, j \in DOMAIN r :
    i # j => r[i].name # r[j].name \/ (t = "custom" /\ r[i].iter # r[j].iter)

VARIABLES
  tool,
  folders,    \* benchmarks/baselines: folder name -> the tool's file in it
  live,       \* the results of the last benchmark run
  seen,       \* history: what live has been since the tool was called
  pc,
  args,
  base, cur,  \* the two files compared: a folder or LiveFile
  filter,     \* methodFilter, <<>> for none
  baseline, current,   \* loaded results
  rows,       \* regression_results()
  json, markdown,      \* the reports in regression/results, each with the run that wrote it
  listed,     \* the tags the last `list` showed
  screen,     \* the methods the last `methods` showed: folder -> letter -> names
  run, changes

files  == <<tool, folders, live, changes>>
inputs == <<files, seen>>
loaded == <<baseline, current, rows>>
output == <<json, markdown>>
shown  == <<listed, screen>>
vars   == <<inputs, pc, args, base, cur, filter, loaded, output, shown, run>>

Stored(f) == CASE f = LiveFile          -> live
               [] f \in DOMAIN folders  -> folders[f]
               [] OTHER                 -> Missing

Readable(f) == Stored(f).state = "complete"

Fail == pc' = "failed"

-----------------------------------------------------------------------------
(* Baselines *)

Parses(f) == f.num >= 0

\* A tag given as an argument must be nothing but its numbers.
IsVersionArg(word) == word.kind = "tag" /\ word.num >= 0 /\ word.tail = 0

\* Mutated form: what follows the numbers is not looked at.
NewerByNumbers(f, g) == f.num > g.num

Newer(f, g) == f.num > g.num \/ (f.num = g.num /\ f.tail > g.tail)

IsCustomBaselineName(f) == f.kind = "tag"
IsGoogleBaselineName(f) == f.kind = "tag" /\ folders[f].state # "missing"
IsBaseline(f) == IF tool = "custom" THEN IsCustomBaselineName(f) ELSE IsGoogleBaselineName(f)

Baselines == {f \in DOMAIN folders : IsBaseline(f)}

\* Sorted: no later one is older.
OldestFirst ==
  CHOOSE order \in SetToSeqs(Baselines) :
    \A i, j \in DOMAIN order : i < j => ~ Newer(order[i], order[j])

\* The order is the directory's own.
NewestOf(order) ==
  LET latest[i \in 0 .. Len(order)] ==
        IF i = 0 THEN None
        ELSE IF latest[i-1] = None \/ Newer(order[i], latest[i-1]) THEN order[i] ELSE latest[i-1]
  IN  latest[Len(order)]

\* Where there are no folders, benchmarks/baselines itself may be missing,
\* and then it cannot be read.
ScanMayFail == DOMAIN folders = {} \/ \E f \in Baselines : ~ Parses(f)
Scanned     == \A f \in Baselines : Parses(f)

LatestBaseline ==
  /\ pc = "latest"
  /\ IF Baselines = {} \/ \E f \in Baselines : ~ Parses(f)
     THEN Fail /\ UNCHANGED base
     ELSE \E order \in SetToSeqs(Baselines) : base' = NewestOf(order) /\ pc' = "resolve"
  /\ UNCHANGED <<inputs, args, cur, filter, loaded, output, shown, run>>

PrintList ==
  /\ pc = "list"
  /\ \/ ScanMayFail /\ Fail /\ UNCHANGED listed
     \/ Scanned /\ listed' = OldestFirst /\ pc' = "done"
  /\ UNCHANGED <<inputs, args, base, cur, filter, loaded, output, screen, run>>

-----------------------------------------------------------------------------
(* Methods and their ids *)

UniqueOperations(results) == {e.name : e \in Range(results)}

GroupMethodsByLetter(names) ==
  [l \in {n[1].letter : n \in names} |->
     Selected(Spelling, {n \in names : n[1].letter = l})]

Groups(f) == GroupMethodsByLetter(UniqueOperations(Stored(f).entries))

\* One baseline after another, up to the first whose file cannot be loaded.
PrintMethods ==
  LET wanted == IF Len(args) = 2 THEN Selected(OldestFirst, {args[2]}) ELSE OldestFirst
      unknown == Len(args) = 2 /\ wanted = <<>>
      bad    == {i \in DOMAIN wanted : ~ Readable(wanted[i])}
      last   == IF bad = {} THEN Len(wanted) ELSE Min(bad) - 1
  IN  /\ pc = "methods"
      /\ \/ (ScanMayFail \/ unknown) /\ Fail /\ UNCHANGED screen
         \/ /\ Scanned /\ ~ unknown
            /\ screen' = [f \in {wanted[i] : i \in 1 .. last} |-> Groups(f)]
            /\ pc' = IF bad = {} THEN "done" ELSE "failed"
      /\ UNCHANGED <<inputs, args, base, cur, filter, loaded, output, listed, run>>

LooksLikeMethodId(words) == Len(words) = 1 /\ words[1].kind = "id"

MethodOf(id, groups) == groups[id.letter][id.index]

IsMethodId(id, groups) == id.letter \in DOMAIN groups /\ id.index \in DOMAIN groups[id.letter]

\* Mutated form: the id is looked up in the current side.
ResolveMethodIdOfCurrent ==
  /\ pc = "resolve"
  /\ IF ~ LooksLikeMethodId(filter) THEN pc' = "baseline" /\ UNCHANGED filter
     ELSE IF Readable(cur) /\ IsMethodId(filter[1], Groups(cur))
     THEN filter' = MethodOf(filter[1], Groups(cur)) /\ pc' = "baseline"
     ELSE Fail /\ UNCHANGED filter
  /\ UNCHANGED <<inputs, args, base, cur, loaded, output, shown, run>>

ResolveMethodId ==
  /\ pc = "resolve"
  /\ IF ~ LooksLikeMethodId(filter) THEN pc' = "baseline" /\ UNCHANGED filter
     ELSE IF Readable(base) /\ IsMethodId(filter[1], Groups(base))
     THEN filter' = MethodOf(filter[1], Groups(base)) /\ pc' = "baseline"
     ELSE Fail /\ UNCHANGED filter
  /\ UNCHANGED <<inputs, args, base, cur, loaded, output, shown, run>>

-----------------------------------------------------------------------------
(* Comparing *)

LoadBaseline ==
  /\ pc = "baseline"
  /\ IF Readable(base)
     THEN baseline' = Stored(base).entries /\ pc' = "current"
     ELSE Fail /\ UNCHANGED baseline
  /\ UNCHANGED <<inputs, args, base, cur, filter, current, rows, output, shown, run>>

\* Mutated form: a file that ends too soon is read as one without entries.
LoadCurrentUnchecked ==
  /\ pc = "current"
  /\ current' = Stored(cur).entries /\ pc' = "filter"
  /\ UNCHANGED <<inputs, args, base, cur, filter, baseline, rows, output, shown, run>>

LoadCurrent ==
  /\ pc = "current"
  /\ IF Readable(cur)
     THEN current' = Stored(cur).entries /\ pc' = "filter"
     ELSE Fail /\ UNCHANGED current
  /\ UNCHANGED <<inputs, args, base, cur, filter, baseline, rows, output, shown, run>>

\* Mutated form: the first entry of the method, not all its tiers.
FilterByFirst(results, name) ==
  LET found == Selected(results, {e \in Range(results) : e.name = name})
  IN  IF found = <<>> THEN <<>> ELSE <<Head(found)>>

FilterByOperation(results, name) == Selected(results, {e \in Range(results) : e.name = name})

ApplyMethodFilter ==
  /\ pc = "filter"
  /\ IF filter = <<>> THEN pc' = "compare" /\ UNCHANGED <<baseline, current>>
     ELSE /\ baseline' = FilterByOperation(baseline, filter)
          /\ current' = FilterByOperation(current, filter)
          /\ pc' = IF baseline' = <<>> \/ current' = <<>> THEN "failed" ELSE "compare"
  /\ UNCHANGED <<inputs, args, base, cur, filter, rows, output, shown, run>>

\* 0 stands for no such entry.
NsOfFirst(results, matches) == IF matches = {} THEN 0 ELSE results[Min(matches)].ns

GetCns(results, e) ==
  NsOfFirst(results, {i \in DOMAIN results : results[i].name = e.name /\ results[i].iter = e.iter})

\* Google Benchmark picks its own number of iterations, so it identifies nothing.
GetCnsGoogle(results, e) == NsOfFirst(results, {i \in DOMAIN results : results[i].name = e.name})

NoiseThreshold == 1

\* The sign of pct, "tie" within the noise.  A division by cns = 0 is +infinity.
Verdict(bns, cns) ==
  IF bns = 0 \/ (100 * (bns - cns) < NoiseThreshold * cns /\ 100 * (cns - bns) < NoiseThreshold * cns)
  THEN "tie"
  ELSE IF bns > cns THEN "faster" ELSE "slower"

Row(e, results) ==
  LET cns == GetCns(results, e)
  IN  [name |-> e.name, iter |-> e.iter, baseline |-> e.ns, current |-> cns,
       verdict |-> Verdict(e.ns, cns)]

RowGoogle(e, results) ==
  LET cns == GetCnsGoogle(results, e)
  IN  [name |-> e.name, baseline |-> e.ns, current |-> cns, verdict |-> Verdict(e.ns, cns)]

PrintRows(rs) ==
  /\ rows' = rs
  /\ pc' = "json"
  /\ UNCHANGED <<inputs, args, base, cur, filter, baseline, current, output, shown, run>>

PrintRegression ==
  /\ pc = "compare" /\ tool = "custom"
  /\ PrintRows([i \in DOMAIN baseline |-> Row(baseline[i], current)])

PrintRegressionGoogle ==
  /\ pc = "compare" /\ tool = "google"
  /\ PrintRows([i \in DOMAIN baseline |-> RowGoogle(baseline[i], current)])

Count(verdict) == Cardinality({i \in DOMAIN rows : rows[i].verdict = verdict})

\* What printSummary() adds to the transcript; nothing if there are no rows.
Summary == [v \in IF rows = <<>> THEN {} ELSE {"faster", "slower", "tie"} |-> Count(v)]

\* A report that cannot be opened is not written, and that is no error.
ExportJson ==
  /\ pc = "json"
  /\ \/ json' = [run |-> run, rows |-> rows]
     \/ UNCHANGED json
  /\ pc' = "markdown"
  /\ UNCHANGED <<inputs, args, base, cur, filter, loaded, markdown, shown, run>>

\* Its columns are named for the two files compared.
Transcript == [run |-> run, current |-> cur, baseline |-> base, rows |-> rows, summary |-> Summary]

\* Mutated form: a report that cannot be opened ends the run in an error.
ExportMarkdownOrFail ==
  /\ pc = "markdown"
  /\ \/ markdown' = Transcript
        /\ pc' = "done"
     \/ Fail /\ UNCHANGED markdown
  /\ UNCHANGED <<inputs, args, base, cur, filter, loaded, json, shown, run>>

ExportMarkdown ==
  /\ pc = "markdown"
  /\ \/ markdown' = Transcript
     \/ UNCHANGED markdown
  /\ pc' = "done"
  /\ UNCHANGED <<inputs, args, base, cur, filter, loaded, json, shown, run>>

-----------------------------------------------------------------------------
(* main() *)

VersionCount(line) ==
  IF Len(line) = 0 \/ ~ IsVersionArg(Head(line)) THEN 0
  ELSE IF Len(line) = 1 \/ ~ IsVersionArg(line[2]) THEN 1 ELSE 2

MethodWords(line) == SubSeq(line, 1 + VersionCount(line), Len(line))

Compare(line) ==
  /\ base' = CASE VersionCount(line) = 0 -> None
               [] VersionCount(line) = 1 -> line[1]
               [] VersionCount(line) = 2 -> line[2]
  /\ cur' = IF VersionCount(line) = 2 THEN line[1] ELSE LiveFile
  /\ filter' = MethodWords(line)
  /\ pc' = IF VersionCount(line) = 0 THEN "latest" ELSE "resolve"

\* list, methods and help are commands only where main() looks for them;
\* anywhere else they are words of a method name.
Listing(line) ==
  CASE line = <<Command("list")>>    -> "list"
    [] line = <<Command("help")>>    -> "done"
    [] Len(line) \in 1 .. 2 /\ Head(line) = Command("methods") -> "methods"
    [] OTHER -> "none"

Call(line) ==
  /\ pc \in {"idle", "done", "failed"} /\ run < MaxRuns
  /\ run' = run + 1
  /\ args' = line
  /\ rows' = <<>> /\ baseline' = <<>> /\ current' = <<>>
  /\ \/ Listing(line) # "none" /\ pc' = Listing(line) /\ UNCHANGED <<base, cur, filter>>
     \/ Listing(line) = "none" /\ Compare(line)
  /\ seen' = {live}
  /\ UNCHANGED <<files, output, shown>>

-----------------------------------------------------------------------------
(* The files underneath: a benchmark run rewrites the live results, which  *)
(* are cut short until it has finished; a release adds a folder.           *)

RewriteLive(file) ==
  /\ changes < MaxChanges
  /\ live' = file /\ seen' = seen \cup {file}
  /\ changes' = changes + 1
  /\ UNCHANGED <<tool, folders, pc, args, base, cur, filter, loaded, output, shown, run>>

AddBaseline(f, file) ==
  /\ changes < MaxChanges /\ f \notin DOMAIN folders
  /\ folders' = [g \in DOMAIN folders \cup {f} |-> IF g = f THEN file ELSE folders[g]]
  /\ changes' = changes + 1
  /\ UNCHANGED <<tool, live, seen, pc, args, base, cur, filter, loaded, output, shown, run>>

NoReport == [run |-> 0, rows |-> <<>>]

Init ==
  /\ tool \in Tools
  /\ folders \in Directories[tool]
  /\ live \in StoredFiles(tool) /\ seen = {live}
  /\ pc = "idle" /\ args = <<>> /\ run = 0 /\ changes = 0
  /\ base = None /\ cur = None /\ filter = <<>>
  /\ baseline = <<>> /\ current = <<>> /\ rows = <<>>
  /\ json = NoReport /\ markdown = NoReport
  /\ listed = <<>> /\ screen = <<>>

Phase ==
  \/ LatestBaseline \/ PrintList \/ PrintMethods \/ ResolveMethodId
  \/ LoadBaseline \/ LoadCurrent \/ ApplyMethodFilter
  \/ PrintRegression \/ PrintRegressionGoogle \/ ExportJson \/ ExportMarkdown

Next ==
  \/ Phase
  \/ \E line \in CommandLines : Call(line)
  \/ \E r \in Results[tool] : RewriteLive(File(r))
  \/ RewriteLive(Truncated)
  \/ \E f \in NewFolders, r \in Results[tool] : AddBaseline(f, File(r))

Spec == Init /\ [][Next]_vars

-----------------------------------------------------------------------------

Written == markdown.run # 0

\* A row's baseline time is the one stored in the baseline for that method and
\* tier, its current time the one stored for the same benchmark in the other
\* file, if that is a baseline too (the labels, regression_main.cpp:167-169;
\* getCns, helpers.h:163-172).
RowsAreStored ==
  Written =>
    \A row \in Range(markdown.rows) :
      /\ \E e \in Range(Stored(markdown.baseline).entries) :
           e.name = row.name /\ (tool = "custom" => e.iter = row.iter) /\ e.ns = row.baseline
      /\ markdown.current # LiveFile =>
           \A e \in Range(Stored(markdown.current).entries) :
             e.name = row.name /\ (tool = "custom" => e.iter = row.iter) => e.ns = row.current

\* The times a results file has for a row's benchmark, 0 if it has none.
TimesIn(file, row) ==
  LET times == {e.ns : e \in {e \in Range(file.entries) :
                  e.name = row.name /\ (tool = "custom" => e.iter = row.iter)}}
  IN  IF times = {} THEN {0} ELSE times

\* The reports of the live results are of one reading of one benchmark run,
\* whatever is rewritten while the tool is at work: there is one finished file
\* that was in place since the call, and every row of either report shows the
\* time stored in it for its benchmark, 0 if there is none
\* (regression_main.cpp:171-190; loadResults, helpers.h:140-160).
CurrentIsOneReading ==
  LET written == {report \in {json, markdown} : report.run = run}
  IN  run # 0 /\ cur = LiveFile /\ written # {} =>
        \E file \in seen :
          /\ file.state = "complete"
          /\ \A report \in written : \A row \in Range(report.rows) : row.current \in TimesIn(file, row)

\* The report tells the truth about the files its columns are named for: of a
\* folder what is stored in it, of the live results, which may have changed
\* since, what was in them at one moment of the run.
ReportIsTrue == RowsAreStored /\ CurrentIsOneReading

\* Comparing one method gives exactly the rows that method has in the whole
\* comparison: filtering both sides first loses no partner and adds none
\* (regression_main.cpp:181-186).
FilteredIsPartOfWhole ==
  pc = "json" /\ cur # LiveFile =>
    LET old   == Stored(base).entries
        new   == Stored(cur).entries
        whole == [i \in DOMAIN old |-> IF tool = "custom" THEN Row(old[i], new) ELSE RowGoogle(old[i], new)]
    IN  rows = Selected(whole, {row \in Range(whole) : filter \in {<<>>, row.name}})

\* An id means the method that `methods` last showed next to it for the
\* baseline that is being compared (helpers.h:269-275).
IdsMeanWhatWasShown ==
  pc = "baseline" /\ LooksLikeMethodId(MethodWords(args)) /\ base \in DOMAIN screen =>
    LET id == args[Len(args)]
    IN  IsMethodId(id, screen[base]) /\ filter = screen[base][id.letter][id.index]

\* With no tag the comparison is with the baseline that `list` shows last, or
\* with one added since, whatever order the directory is read in
\* (helpers.h:361-389, framework.h:229-254).
LatestIsLastListed ==
  [][pc = "latest" /\ pc' = "resolve" /\ listed # <<>> =>
       base' = Last(listed) \/ Newer(base', Last(listed))]_vars

\* A run that ends in an error has written no report; the earlier ones are
\* still there (custom/README.md:100-101).
FailureLeavesReports ==
  pc = "failed" => json.run # run /\ markdown.run # run

\* The summary counts, for the current side, the rows it won
\* (framework.h:58-59): there is a measurement for every row counted so.
FasterWasMeasured ==
  pc = "done" =>
    \A i \in DOMAIN rows : rows[i].verdict = "faster" =>
      \E e \in Range(current) :
        e.name = rows[i].name /\ (tool = "custom" => e.iter = rows[i].iter)
=============================================================================
