---------------------------------- MODULE Suites ---------------------------------
(***************************************************************************)
(* The two executables that run registered suites: tests (tests/custom)    *)
(* and examples.  Every source file of a suite registers itself before     *)
(* main() starts, in an order the language leaves to the linker; main()    *)
(* then runs the suites the first argument selects.  The two are written   *)
(* alike, but tests runs a category's suites while it scans the registry   *)
(* and examples collects them first; tests keeps a tally of its checks.    *)
(***************************************************************************)
EXTENDS Integers, Sequences, SequencesExt, FiniteSets, Functions, Selection

CONSTANTS
  Files,        \* for each tool, its source files [category, name] in link order
  Letter,       \* the capital first letter of a category
  Numeral,      \* std::to_string() of the number in an id
  Requests,     \* the arguments it is called with, <<>> for none
  MaxTests,     \* bound: RUN()s in one call of the tool
  MaxChecks     \* bound: CHK()s in one call

\* A name is the sequence of its words and separators, so that what prettify()
\* does to it can be said.  Matching ignores case: a word stands for all its
\* spellings.
Help == {<<"-h">>, <<"--help">>}
List == <<"list">>

Prettify(text) == [i \in DOMAIN text |-> IF i > 1 /\ text[i] = "_" THEN " " ELSE text[i]]

Categories(t) == {f.category : f \in Range(Files[t])}

IdOf(category, number) == <<Letter[category], Numeral[number]>>

Ids(t) == {IdOf(c, n) : c \in Categories(t), n \in 1 .. Len(Files[t])}

\* The trees the tools are built from: categories are single words and no two
\* begin alike; no two files of a tool have names that are shown alike, and none
\* is shown like a category, an id or a command; the files of a category are
\* linked one after the other.
ASSUME SuiteTree ==
  \A t \in DOMAIN Files :
    /\ Files[t] \in Seq(Range(Files[t])) /\ Files[t] # <<>> /\ IsInjective(Files[t])
    /\ \A c \in Categories(t) : c = <<c[1]>>
    /\ \A c, d \in Categories(t) : c # d => Letter[c] # Letter[d]
    /\ \A f, g \in Range(Files[t]) : f # g => Prettify(f.name) # Prettify(g.name)
    /\ \A f \in Range(Files[t]) : Prettify(f.name) \notin Categories(t) \cup Ids(t) \cup Help \cup {List}
    /\ \A i, j, k \in DOMAIN Files[t] :
         i < j /\ j < k /\ Files[t][i].category = Files[t][k].category
           => Files[t][j].category = Files[t][i].category

\* Different numbers are written differently.
ASSUME NumeralAssumption ==
  \A t \in DOMAIN Files : \A m, n \in 1 .. Len(Files[t]) : m # n => Numeral[m] # Numeral[n]

\* An argument is a sequence of words.
ASSUME RequestAssumption == \A t \in DOMAIN Files : \A r \in Requests[t] : r \in Seq(Range(r))

VARIABLES
  tool,
  registry,   \* test_registry(), example_registry()
  counters,   \* category_counters()
  pc,
  requested,
  at,         \* position of main()'s scan
  todo,       \* suites collected and not yet run; the first is running if pc = "suite"
  after,      \* what follows them: the rest of the scan, the summary or the end
  ran,        \* the suites that were started
  listed,     \* what `list` printed: a heading and its suites, one after the other
  summary,    \* the counts of printRunSummary(), 0 before
  pass, fail, total,
  snapshot,   \* RUN()'s copy of fail
  marks,      \* the lines RUN() printed: TRUE for a check mark, FALSE for a cross
  exit        \* main()'s status, -1 before it returns

control == <<tool, requested, at, todo, after>>
tally   == <<pass, fail, total, snapshot, marks>>
vars    == <<control, registry, counters, pc, ran, listed, summary, tally, exit>>

-----------------------------------------------------------------------------
(* Registration *)

\* Mutated form: the number starts again where the category changes.
SuiteIdInRun(f) ==
  LET since == SelectLastInSeq(registry, LAMBDA s : s.category # f.category)
  IN  IdOf(f.category, Len(registry) - since + 1)

SuiteId(f) == IdOf(f.category, counters[f.category] + 1)

Suite(f) == [id |-> SuiteId(f), category |-> f.category, name |-> Prettify(f.name)]

Pending == {f \in Range(Files[tool]) :
              \A s \in Range(registry) : s.category # f.category \/ s.name # Prettify(f.name)}

Registrar(f) ==
  /\ pc = "static" /\ f \in Pending
  /\ counters' = [counters EXCEPT ![f.category] = @ + 1]
  /\ registry' = Append(registry, Suite(f))
  /\ UNCHANGED <<control, pc, ran, listed, summary, tally, exit>>

-----------------------------------------------------------------------------
(* main() *)

\* Mutated form: every suite gets a heading of its own.
GroupedSingly == [i \in DOMAIN registry |-> [category |-> registry[i].category, suites |-> <<registry[i]>>]]

\* A heading begins where a suite's category is not that of the one before it.
Grouped ==
  LET upTo[i \in 0 .. Len(registry)] ==
        IF i = 0 THEN <<>>
        ELSE IF upTo[i-1] = <<>> \/ Last(upTo[i-1]).category # registry[i].category
        THEN Append(upTo[i-1], [category |-> registry[i].category, suites |-> <<registry[i]>>])
        ELSE [upTo[i-1] EXCEPT ![Len(upTo[i-1])].suites = Append(@, registry[i])]
  IN  upTo[Len(registry)]

Finish(status) == pc' = "exit" /\ exit' = status

PrintUsage ==
  /\ pc = "static" /\ Pending = {} /\ requested \in Help
  /\ Finish(0)
  /\ UNCHANGED <<control, registry, counters, ran, listed, summary, tally>>

PrintSuiteList ==
  /\ pc = "static" /\ Pending = {} /\ requested = List
  /\ listed' = Grouped
  /\ Finish(0)
  /\ UNCHANGED <<control, registry, counters, ran, summary, tally>>

RunSuites(suites, next) ==
  /\ todo' = suites /\ after' = next /\ pc' = "suites"

PrintAllSuites ==
  /\ pc = "static" /\ Pending = {} /\ requested = <<>>
  /\ RunSuites(registry, "summary")
  /\ UNCHANGED <<tool, requested, at, registry, counters, ran, listed, summary, tally, exit>>

BeginScan ==
  /\ pc = "static" /\ Pending = {}
  /\ requested # <<>> /\ requested \notin Help \cup {List}
  /\ pc' = "scan" /\ at' = 1
  /\ UNCHANGED <<tool, requested, todo, after, registry, counters, ran, listed, summary, tally, exit>>

\* The argument is prettified before it is compared, the category is not.
IsExact(s)    == Prettify(requested) \in {s.name, s.id}
IsCategory(s) == Prettify(requested) = s.category

ScanExact ==
  /\ pc = "scan" /\ at <= Len(registry) /\ IsExact(registry[at])
  /\ RunSuites(<<registry[at]>>, "end")
  /\ UNCHANGED <<tool, requested, at, registry, counters, ran, listed, summary, tally, exit>>

\* Mutated form: the first suite of the category is taken for all of it.
ScanCategoryOnce ==
  /\ pc = "scan" /\ at <= Len(registry) /\ ~ IsExact(registry[at]) /\ IsCategory(registry[at])
  /\ RunSuites(<<registry[at]>>, "summary")
  /\ at' = at + 1
  /\ UNCHANGED <<tool, requested, registry, counters, ran, listed, summary, tally, exit>>

\* tests runs the suite here and now, examples puts it by.
ScanCategory ==
  /\ pc = "scan" /\ at <= Len(registry) /\ ~ IsExact(registry[at]) /\ IsCategory(registry[at])
  /\ IF tool = "tests" THEN RunSuites(<<registry[at]>>, "scan")
                       ELSE todo' = Append(todo, registry[at]) /\ UNCHANGED <<pc, after>>
  /\ at' = at + 1
  /\ UNCHANGED <<tool, requested, registry, counters, ran, listed, summary, tally, exit>>

ScanOther ==
  /\ pc = "scan" /\ at <= Len(registry) /\ ~ IsExact(registry[at]) /\ ~ IsCategory(registry[at])
  /\ at' = at + 1
  /\ UNCHANGED <<tool, requested, todo, after, registry, counters, pc, ran, listed, summary, tally, exit>>

\* foundCategory of tests is that a suite has run.
FoundCategory == IF tool = "tests" THEN ran # <<>> ELSE todo # <<>>

ScanEnd ==
  /\ pc = "scan" /\ at > Len(registry)
  /\ IF FoundCategory THEN RunSuites(todo, "summary") /\ UNCHANGED exit
                      ELSE Finish(1) /\ UNCHANGED <<todo, after>>
  /\ UNCHANGED <<tool, requested, at, registry, counters, ran, listed, summary, tally>>

StartSuite ==
  /\ pc = "suites" /\ todo # <<>>
  /\ ran' = Append(ran, Head(todo))
  /\ pc' = "suite"
  /\ UNCHANGED <<control, registry, counters, listed, summary, tally, exit>>

EndSuite ==
  /\ pc = "suite"
  /\ todo' = Tail(todo)
  /\ pc' = IF todo' = <<>> /\ after = "scan" THEN "scan" ELSE "suites"
  /\ UNCHANGED <<tool, requested, at, after, registry, counters, ran, listed, summary, tally, exit>>

\* An exception that leaves a suite ends the program: main() catches none.  In
\* tests that is one thrown outside RUN(), in examples any.
SuiteThrows ==
  /\ pc = "suite"
  /\ pc' = "terminated"
  /\ UNCHANGED <<control, registry, counters, ran, listed, summary, tally, exit>>

\* printAllExampleSuite() counts what it has not seen before; a category run
\* says 1.
CategoryCount == IF requested = <<>> THEN Cardinality({s.category : s \in Range(registry)}) ELSE 1

\* tests prints its stats here; it returns 0 whatever they are.
EndSuites ==
  /\ pc = "suites" /\ todo = <<>>
  /\ summary' = IF tool = "examples" /\ after = "summary"
                THEN [examples |-> Len(ran), categories |-> CategoryCount] ELSE summary
  /\ Finish(0)
  /\ UNCHANGED <<control, registry, counters, ran, listed, tally>>

-----------------------------------------------------------------------------
(* The macros of a test suite.  Examples have no checks.                   *)

BeginRun ==
  /\ pc = "suite" /\ tool = "tests" /\ Len(marks) < MaxTests
  /\ snapshot' = fail
  /\ pc' = "test"
  /\ UNCHANGED <<control, registry, counters, ran, listed, summary, pass, fail, total, marks, exit>>

\* CHK(), and CHK_THROWS() of a call that throws or not, or throws something else.
Chk(holds) ==
  /\ pc = "test" /\ total < MaxChecks
  /\ IF holds THEN pass' = pass + 1 /\ UNCHANGED fail
              ELSE fail' = fail + 1 /\ UNCHANGED pass
  /\ total' = total + 1
  /\ UNCHANGED <<control, registry, counters, pc, ran, listed, summary, snapshot, marks, exit>>

\* Mutated form: the mark looks at what was thrown only.
EndRunUnlessThrown ==
  /\ pc = "test"
  /\ marks' = Append(marks, TRUE)
  /\ pc' = "suite"
  /\ UNCHANGED <<control, registry, counters, ran, listed, summary, pass, fail, total, snapshot, exit>>

EndRun ==
  /\ pc = "test"
  /\ marks' = Append(marks, fail = snapshot)
  /\ pc' = "suite"
  /\ UNCHANGED <<control, registry, counters, ran, listed, summary, pass, fail, total, snapshot, exit>>

\* An exception ends the test and is one more failure, but not one more check.
RunThrows ==
  /\ pc = "test"
  /\ fail' = fail + 1
  /\ marks' = Append(marks, FALSE)
  /\ pc' = "suite"
  /\ UNCHANGED <<control, registry, counters, ran, listed, summary, pass, total, snapshot, exit>>

-----------------------------------------------------------------------------

Init ==
  /\ tool \in DOMAIN Files
  /\ registry = <<>>
  /\ counters = [c \in Categories(tool) |-> 0]
  /\ requested \in Requests[tool]
  /\ pc = "static" /\ at = 0 /\ todo = <<>> /\ after = "end" /\ ran = <<>>
  /\ listed = <<>> /\ summary = [examples |-> 0, categories |-> 0]
  /\ pass = 0 /\ fail = 0 /\ total = 0 /\ snapshot = 0 /\ marks = <<>>
  /\ exit = -1

Next ==
  \/ \E f \in Pending : Registrar(f)
  \/ PrintUsage \/ PrintSuiteList \/ PrintAllSuites
  \/ BeginScan \/ ScanExact \/ ScanCategory \/ ScanOther \/ ScanEnd
  \/ StartSuite \/ EndSuite \/ SuiteThrows \/ EndSuites
  \/ BeginRun \/ EndRun \/ RunThrows
  \/ \E holds \in BOOLEAN : Chk(holds)

Spec == Init /\ [][Next]_vars

-----------------------------------------------------------------------------

\* An id names one suite, and so does a name, in whatever order the files were
\* initialised (registry.h:40-43): what `list` shows can be asked for.
IdsAreDistinct ==
  \A i, j \in DOMAIN registry : i # j =>
    registry[i].id # registry[j].id /\ registry[i].name # registry[j].name

Named(s)     == Prettify(requested) \in {s.name, s.id}
InCategory(s) == \E f \in Range(Files[tool]) : f.category = requested /\ f.category = s.category

\* What was run is what was asked for, in the registry's order: everything, the
\* one suite with that name or id, or the whole category.  The exit status
\* is 1 exactly if that is nothing (example_main.cpp:9-57, test_main.cpp:7-60).
RunsWhatWasAsked ==
  exit # -1 /\ requested \notin Help \cup {List} =>
    /\ ran = Selected(registry, {s \in Range(registry) : requested = <<>> \/ Named(s) \/ InCategory(s)})
    /\ exit = IF ran = <<>> THEN 1 ELSE 0

\* When the files are initialised in link order, which is that of their paths,
\* `list` shows every category under one heading, and all its suites there.
CategoriesListedOnce ==
  listed # <<>> /\ (\A i \in DOMAIN registry : registry[i].category = Files[tool][i].category) =>
    /\ Len(listed) = Cardinality(Categories(tool))
    /\ \A g \in Range(listed) :
         g.suites = Selected(registry, {s \in Range(registry) : s.category = g.category})

\* The summary of a test run shows a failure exactly if a test line does; a
\* check is a pass or a failure, and only exceptions are failures that are not
\* checks (macros.h:10-13, helpers.h:148-153).
TallyIsTrue ==
  pc \in {"suite", "exit"} =>
    LET crosses == Cardinality({i \in DOMAIN marks : ~ marks[i]})
    IN  /\ (fail = 0) = (crosses = 0) /\ crosses <= fail
        /\ total <= pass + fail /\ pass + fail <= total + crosses

\* What CTest makes of the exit status is whether the tests passed
\* (tests/custom/README.md:114-116).
ExitTellsFailure == tool = "tests" /\ exit = 0 => fail = 0

=============================================================================
