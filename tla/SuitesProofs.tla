------------------------------- MODULE SuitesProofs -------------------------------
(***************************************************************************)
(* What the test and example runners list, run and count, for every tree   *)
(* of files in any order of initialisation and every argument.             *)
(***************************************************************************)
EXTENDS Suites, SelectionTheorems, SequenceTheorems

(* The suites asked for, and those that will have run when main() is done  *)
(* with the suites collected so far.                                       *)
Asked == {s \in Range(registry) : requested = <<>> \/ Named(s) \/ InCategory(s)}

Planned == ran \o (IF pc \in {"suite", "test"} THEN Tail(todo) ELSE todo)

Running == {"suites", "suite", "test"}

(* Every entry comes from a file, none twice.                              *)
RegistryOK ==
  /\ tool \in DOMAIN Files /\ requested \in Requests[tool]
  /\ registry \in Seq(Range(registry))
  /\ \A i \in DOMAIN registry : \E f \in Range(Files[tool]) :
       registry[i].category = f.category /\ registry[i].name = Prettify(f.name)
  /\ \A i, j \in DOMAIN registry : i # j => registry[i].name # registry[j].name

(* The ids of a category are those of the numbers its counter has passed.  *)
IdsOK ==
  /\ counters \in [Categories(tool) -> 0 .. Len(registry)]
  /\ \A i \in DOMAIN registry : \E n \in 1 .. counters[registry[i].category] :
       registry[i].id = IdOf(registry[i].category, n)
  /\ \A i, j \in DOMAIN registry : i # j => registry[i].id # registry[j].id

(* Nothing runs before everything is registered.                           *)
PhaseOK ==
  /\ pc \in {"static", "scan", "exit", "terminated"} \cup Running
  /\ pc = "static" => ran = <<>> /\ todo = <<>>
  /\ pc # "static" => Pending = {}
  /\ exit = -1 <=> pc # "exit"
  /\ listed # <<>> => pc = "exit" /\ listed = Grouped

(* What has run and what is still to run is, while the registry is scanned,*)
(* what was asked for of the part seen, and afterwards all of it.          *)
RunOK ==
  /\ ran \in Seq(Range(registry)) /\ todo \in Seq(Range(registry))
  /\ pc \in {"scan"} \cup Running => requested \notin Help \cup {List}
  /\ pc = "scan" => IF tool = "tests" THEN todo = <<>> ELSE ran = <<>>
  /\ pc = "scan" \/ (pc \in Running /\ after = "scan") =>
       /\ requested # <<>> /\ at \in 1 .. Len(registry) + 1
       /\ Planned = UpTo(registry, Asked)[at-1]
  /\ pc \in Running => Planned # <<>>
  /\ pc \in Running /\ after = "scan" => tool = "tests" /\ todo # <<>>
  /\ pc \in Running /\ after # "scan" => Planned = Selected(registry, Asked)
  /\ pc \in {"suite", "test"} => todo # <<>>
  /\ pc = "exit" /\ requested \notin Help \cup {List} =>
       ran = Selected(registry, Asked) /\ exit = IF ran = <<>> THEN 1 ELSE 0

(* The failures before the running test are those marked with crosses.     *)
Crosses == {i \in DOMAIN marks : ~ marks[i]}

TallyOK ==
  LET before == IF pc = "test" THEN snapshot ELSE fail
  IN  /\ pass \in Nat /\ fail \in Nat /\ total \in Nat /\ snapshot \in Nat
      /\ marks \in Seq(BOOLEAN)
      /\ (before = 0) = (Crosses = {}) /\ Cardinality(Crosses) <= before
      /\ before <= fail
      /\ total <= pass + fail /\ pass + fail <= total + Cardinality(Crosses)

SInv == RegistryOK /\ IdsOK /\ PhaseOK /\ RunOK /\ TallyOK

---------------------------------------------------------------------------
(* Sequences.                                                              *)

(* Moving the first of what is to come to the end of what has been.        *)
LEMMA MoveHead ==
  ASSUME NEW X, NEW r \in Seq(X), NEW t \in Seq(X), t # <<>>
  PROVE  /\ Append(r, Head(t)) \in Seq(X) /\ Tail(t) \in Seq(X)
         /\ Append(r, Head(t)) \o Tail(t) = r \o t
<1>1. Head(t) \in X /\ Tail(t) \in Seq(X) /\ t = <<Head(t)>> \o Tail(t)
  <2>1. Head(t) \in X /\ Tail(t) \in Seq(X)
    BY HeadTailProperties
  <2>2. Tail(t) = SubSeq(t, 1 + 1, Len(t))
    BY TailIsSubSeq
  <2>3. SubSeq(t, 1, Len(t)) = <<t[1]>> \o SubSeq(t, 1 + 1, Len(t))
    <3>1. 1 \in 1 .. Len(t) /\ Len(t) \in 1 .. Len(t)
      OBVIOUS
    <3> QED BY <3>1, SubSeqRecursiveFirst
  <2>4. SubSeq(t, 1, Len(t)) = t /\ Head(t) = t[1]
    OBVIOUS
  <2> QED BY <2>1, <2>2, <2>3, <2>4
<1>2. Append(r, Head(t)) = r \o <<Head(t)>> /\ Append(r, Head(t)) \in Seq(X)
  BY <1>1, AppendIsConcat
<1>3. <<Head(t)>> \in Seq(X)
  BY <1>1
<1> QED BY <1>1, <1>2, <1>3, ConcatAssociative

(* Adding one to what is to come.                                          *)
LEMMA AddLast ==
  ASSUME NEW X, NEW r \in Seq(X), NEW t \in Seq(X), NEW x \in X
  PROVE  /\ r \o t \in Seq(X) /\ Append(t, x) \in Seq(X) /\ r \o Append(t, x) = Append(r \o t, x)
         /\ Append(r, x) # <<>> /\ r \o <<x>> = Append(r, x) /\ r \o <<>> = r /\ <<>> \o r = r
<1>1. Append(t, x) = t \o <<x>> /\ Append(t, x) \in Seq(X) /\ Append(r, x) = r \o <<x>> /\ Append(r, x) # <<>>
  BY AppendIsConcat, AppendProperties
<1>2. r \o t \in Seq(X) /\ <<x>> \in Seq(X)
  BY ConcatProperties
<1>3. Append(r \o t, x) = (r \o t) \o <<x>>
  BY <1>2, AppendIsConcat
<1>4. (r \o t) \o <<x>> = r \o (t \o <<x>>)
  BY <1>2, ConcatAssociative
<1> QED BY <1>1, <1>2, <1>3, <1>4, ConcatEmptySeq

---------------------------------------------------------------------------
(* Registration.                                                           *)

(* Only registrars touch the registry, and nothing changes the argument.   *)
LEMMA Frozen ==
  ASSUME [Next]_vars
  PROVE  /\ tool' = tool /\ requested' = requested
         /\ UNCHANGED <<registry, counters>> \/ \E f \in Pending : Registrar(f)
<1>1. CASE UNCHANGED vars
  BY <1>1 DEF vars, control
<1>2. ASSUME NEW f \in Pending, Registrar(f)
      PROVE  tool' = tool /\ requested' = requested
  BY <1>2 DEF Registrar, control
<1>3. CASE PrintUsage \/ PrintSuiteList \/ PrintAllSuites
  BY <1>3 DEF PrintUsage, PrintSuiteList, PrintAllSuites, control
<1>4. CASE BeginScan \/ ScanExact \/ ScanCategory \/ ScanOther \/ ScanEnd
  BY <1>4 DEF BeginScan, ScanExact, ScanCategory, ScanOther, ScanEnd
<1>5. CASE StartSuite \/ EndSuite \/ SuiteThrows \/ EndSuites
  BY <1>5 DEF StartSuite, EndSuite, SuiteThrows, EndSuites, control
<1>6. CASE BeginRun \/ EndRun \/ RunThrows
  BY <1>6 DEF BeginRun, EndRun, RunThrows, control
<1>7. ASSUME NEW holds, Chk(holds)
      PROVE  tool' = tool /\ requested' = requested /\ UNCHANGED <<registry, counters>>
  BY <1>7 DEF Chk, control
<1> QED BY <1>1, <1>2, <1>3, <1>4, <1>5, <1>6, <1>7 DEF Next

(* What a registrar does.                                                  *)
LEMMA RegistrarFacts ==
  ASSUME RegistryOK, NEW f \in Pending, Registrar(f)
  PROVE  /\ f \in Range(Files[tool]) /\ registry' = Append(registry, Suite(f))
         /\ registry' \in Seq(Range(registry'))
         /\ DOMAIN registry = 1 .. Len(registry) /\ Len(registry) \in Nat
         /\ DOMAIN registry' = 1 .. Len(registry) + 1 /\ Len(registry') = Len(registry) + 1
         /\ registry'[Len(registry) + 1] = Suite(f)
         /\ \A i \in 1 .. Len(registry) : registry'[i] = registry[i]
<1>1. registry' = Append(registry, Suite(f)) /\ registry \in Seq(Range(registry)) /\ f \in Range(Files[tool])
  BY DEF Registrar, RegistryOK, Pending
<1> DEFINE X == Range(registry) \cup {Suite(f)}
<1>2. registry \in Seq(X) /\ Suite(f) \in X
  BY <1>1, SeqMonotonic
<1> HIDE DEF X
<1>3. /\ registry' \in Seq(X) /\ Len(registry') = Len(registry) + 1
      /\ registry'[Len(registry) + 1] = Suite(f)
      /\ \A i \in 1 .. Len(registry) : registry'[i] = registry[i]
  BY <1>1, <1>2, AppendProperties
<1>4. Len(registry) \in Nat /\ DOMAIN registry = 1 .. Len(registry)
  BY <1>2
<1>5. DOMAIN registry' = 1 .. Len(registry) + 1
  BY <1>3
<1>6. registry' \in Seq(Range(registry'))
  <2>1. registry' = [i \in 1 .. Len(registry) + 1 |-> registry'[i]]
    BY <1>3
  <2>2. \A i \in 1 .. Len(registry) + 1 : registry'[i] \in Range(registry')
    BY <1>5 DEF Range
  <2>3. Len(registry) + 1 \in Nat
    BY <1>4
  <2> QED BY <2>1, <2>2, <2>3
<1> QED BY <1>1, <1>3, <1>4, <1>5, <1>6

(* The registry.                                                           *)
LEMMA RegistryStep ==
  ASSUME RegistryOK, [Next]_vars
  PROVE  RegistryOK'
<1>1. tool' = tool /\ requested' = requested
  BY Frozen
<1>2. CASE UNCHANGED registry
  BY <1>1, <1>2 DEF RegistryOK
<1>3. ASSUME NEW f \in Pending, Registrar(f) PROVE RegistryOK'
  <2> DEFINE n == Len(registry)
  <2>1. /\ f \in Range(Files[tool]) /\ registry' \in Seq(Range(registry'))
        /\ DOMAIN registry = 1 .. n /\ n \in Nat /\ DOMAIN registry' = 1 .. n + 1
        /\ registry'[n + 1] = Suite(f)
        /\ \A i \in 1 .. n : registry'[i] = registry[i]
    BY <1>3, RegistrarFacts
  <2> HIDE DEF n
  <2>2. Suite(f).category = f.category /\ Suite(f).name = Prettify(f.name)
    BY DEF Suite
  <2>3. \A i \in 1 .. n + 1 : i = n + 1 \/ i \in 1 .. n
    BY <2>1
  <2>4. \A i \in 1 .. n : \E g \in Range(Files[tool]) :
          registry[i].category = g.category /\ registry[i].name = Prettify(g.name)
    BY <2>1 DEF RegistryOK
  <2>5. \A i \in 1 .. n : registry[i].name # Prettify(f.name)
    <3> SUFFICES ASSUME NEW i \in 1 .. n, registry[i].name = Prettify(f.name) PROVE FALSE
      OBVIOUS
    <3>1. PICK g \in Range(Files[tool]) : registry[i].category = g.category /\ registry[i].name = Prettify(g.name)
      BY <2>4
    <3>2. g = f
      <4>1. \A a, b \in Range(Files[tool]) : a # b => Prettify(a.name) # Prettify(b.name)
        BY SuiteTree DEF RegistryOK
      <4> QED BY <2>1, <3>1, <4>1
    <3>3. registry[i] \in Range(registry)
      BY <2>1 DEF Range
    <3> QED BY <3>1, <3>2, <3>3 DEF Pending
  <2>6. \A i \in 1 .. n + 1 : \E g \in Range(Files[tool]) :
          registry'[i].category = g.category /\ registry'[i].name = Prettify(g.name)
    BY <2>1, <2>2, <2>3, <2>4
  <2>7. \A i, j \in 1 .. n + 1 : i # j => registry'[i].name # registry'[j].name
    <3> SUFFICES ASSUME NEW i \in 1 .. n + 1, NEW j \in 1 .. n + 1, i # j
                 PROVE  registry'[i].name # registry'[j].name
      OBVIOUS
    <3>1. CASE i \in 1 .. n /\ j \in 1 .. n
      BY <3>1, <2>1 DEF RegistryOK
    <3>2. CASE i = n + 1
      BY <3>2, <2>1, <2>2, <2>3, <2>5
    <3>3. CASE j = n + 1
      BY <3>3, <2>1, <2>2, <2>3, <2>5
    <3> QED BY <3>1, <3>2, <3>3, <2>3
  <2> QED BY <1>1, <2>1, <2>6, <2>7 DEF RegistryOK
<1> QED BY <1>2, <1>3, Frozen

(* No more suites than files.                                              *)
LEMMA RegistrySize ==
  ASSUME NEW t \in DOMAIN Files, NEW r, r \in Seq(Range(r)),
         \A i \in DOMAIN r : \E f \in Range(Files[t]) :
           r[i].category = f.category /\ r[i].name = Prettify(f.name),
         \A i, j \in DOMAIN r : i # j => r[i].name # r[j].name
  PROVE  /\ Len(r) \in Nat /\ DOMAIN r = 1 .. Len(r)
         /\ Len(Files[t]) \in Nat /\ DOMAIN Files[t] = 1 .. Len(Files[t])
         /\ Len(r) <= Len(Files[t])
<1> DEFINE n == Len(r)
           m == Len(Files[t])
           F == Files[t]
           from == [i \in 1 .. n |-> CHOOSE k \in 1 .. m : r[i].name = Prettify(F[k].name)]
<1>1. n \in Nat /\ DOMAIN r = 1 .. n
  OBVIOUS
<1>2. m \in Nat /\ DOMAIN F = 1 .. m
  <2>1. F \in Seq(Range(F))
    BY SuiteTree
  <2> QED BY <2>1
<1>3. \A i \in 1 .. n : \E k \in 1 .. m : r[i].name = Prettify(F[k].name)
  <2> SUFFICES ASSUME NEW i \in 1 .. n PROVE \E k \in 1 .. m : r[i].name = Prettify(F[k].name)
    OBVIOUS
  <2>1. PICK f \in Range(F) : r[i].name = Prettify(f.name)
    BY <1>1
  <2>2. PICK k \in DOMAIN F : F[k] = f
    BY DEF Range
  <2> QED BY <2>1, <2>2, <1>2
<1> HIDE DEF n, m, F
<1>4. \A i \in 1 .. n : from[i] \in 1 .. m /\ r[i].name = Prettify(F[from[i]].name)
  BY <1>3
<1>5. from \in [1 .. n -> 1 .. m]
  BY <1>3
<1>6. \A i, j \in 1 .. n : i # j => from[i] # from[j]
  <2> HIDE DEF from
  <2> QED BY <1>1, <1>4
<1>7. from \in Injection(1 .. n, 1 .. m)
  <2> HIDE DEF from
  <2> QED BY <1>5, <1>6 DEF Injection, IsInjective
<1>8. Cardinality(1 .. n) <= Cardinality(1 .. m)
  <2> HIDE DEF from
  <2>1. IsFiniteSet(1 .. m)
    BY <1>2, FS_Interval
  <2> QED BY <1>7, <2>1, FS_Injection
<1>9. Cardinality(1 .. n) = n /\ Cardinality(1 .. m) = m
  BY <1>1, <1>2, FS_Interval
<1> QED BY <1>1, <1>2, <1>8, <1>9 DEF n, m, F

(* The ids.                                                                *)
LEMMA IdsStep ==
  ASSUME RegistryOK, RegistryOK', IdsOK, [Next]_vars
  PROVE  IdsOK'
<1>1. tool' = tool
  BY Frozen
<1>2. CASE UNCHANGED <<registry, counters>>
  BY <1>1, <1>2 DEF IdsOK
<1>3. ASSUME NEW f \in Pending, Registrar(f) PROVE IdsOK'
  <2> DEFINE n == Len(registry)
             c == f.category
             Cs == Categories(tool)
  <2>1. /\ f \in Range(Files[tool])
        /\ DOMAIN registry = 1 .. n /\ n \in Nat /\ DOMAIN registry' = 1 .. n + 1 /\ Len(registry') = n + 1
        /\ registry'[n + 1] = Suite(f)
        /\ \A i \in 1 .. n : registry'[i] = registry[i]
    BY <1>3, RegistrarFacts
  <2>2. n + 1 <= Len(Files[tool]) /\ Len(Files[tool]) \in Nat
    <3>1. /\ tool \in DOMAIN Files /\ registry' \in Seq(Range(registry'))
          /\ \A i \in DOMAIN registry' : \E g \in Range(Files[tool]) :
               registry'[i].category = g.category /\ registry'[i].name = Prettify(g.name)
          /\ \A i, j \in DOMAIN registry' : i # j => registry'[i].name # registry'[j].name
      BY <1>1 DEF RegistryOK
    <3>2. Len(registry') <= Len(Files[tool]) /\ Len(Files[tool]) \in Nat
      BY <3>1, RegistrySize
    <3> QED BY <2>1, <3>2
  <2>3. c \in Cs
    BY <2>1 DEF Categories
  <2>4. counters \in [Cs -> 0 .. n] /\ counters' = [counters EXCEPT ![c] = @ + 1]
    BY <1>3 DEF IdsOK, Registrar
  <2>5. \A i \in 1 .. n : registry[i].category \in Cs
    BY <2>1 DEF RegistryOK, Categories
  <2>6. \A i \in 1 .. n : \E k \in 1 .. counters[registry[i].category] : registry[i].id = IdOf(registry[i].category, k)
    BY <2>1 DEF IdsOK
  <2>7. \A i, j \in 1 .. n : i # j => registry[i].id # registry[j].id
    BY <2>1 DEF IdsOK
  <2>8. Suite(f).category = c /\ Suite(f).id = IdOf(c, counters[c] + 1)
    BY DEF Suite, SuiteId
  <2>9. tool \in DOMAIN Files
    BY DEF RegistryOK
  <2> HIDE DEF n, c, Cs
  <2>10. /\ counters' \in [Cs -> 0 .. n + 1]
         /\ counters'[c] = counters[c] + 1
         /\ \A d \in Cs : counters[d] \in 0 .. n /\ (d # c => counters'[d] = counters[d])
    BY <2>1, <2>3, <2>4
  <2>11. \A i \in 1 .. n : registry[i].id # IdOf(c, counters[c] + 1)
    <3> SUFFICES ASSUME NEW i \in 1 .. n PROVE registry[i].id # IdOf(c, counters[c] + 1)
      OBVIOUS
    <3> DEFINE d == registry[i].category
    <3>1. PICK k \in 1 .. counters[d] : registry[i].id = IdOf(d, k)
      BY <2>6
    <3>2. d \in Cs
      BY <2>5
    <3> HIDE DEF d
    <3>3. CASE d = c
      <4>1. counters[c] \in 0 .. n
        BY <2>3, <2>10
      <4>2. k \in 1 .. Len(Files[tool]) /\ counters[c] + 1 \in 1 .. Len(Files[tool]) /\ k # counters[c] + 1
        BY <3>1, <3>3, <4>1, <2>1, <2>2
      <4>3. Numeral[k] # Numeral[counters[c] + 1]
        BY <4>2, <2>9, NumeralAssumption
      <4> QED BY <3>1, <4>3 DEF IdOf
    <3>4. CASE d # c
      <4>1. Letter[d] # Letter[c]
        BY <3>2, <3>4, <2>3, <2>9, SuiteTree DEF Cs
      <4> QED BY <3>1, <4>1 DEF IdOf
    <3> QED BY <3>3, <3>4
  <2>12. \A i \in 1 .. n + 1 : i = n + 1 \/ i \in 1 .. n
    BY <2>1
  <2>13. \A i \in 1 .. n + 1 : \E k \in 1 .. counters'[registry'[i].category] :
           registry'[i].id = IdOf(registry'[i].category, k)
    <3> SUFFICES ASSUME NEW i \in 1 .. n + 1
                 PROVE  \E k \in 1 .. counters'[registry'[i].category] : registry'[i].id = IdOf(registry'[i].category, k)
      OBVIOUS
    <3>1. CASE i = n + 1
      <4>1. counters[c] + 1 \in 1 .. counters'[c]
        BY <2>3, <2>10
      <4> QED BY <3>1, <4>1, <2>1, <2>8
    <3>2. CASE i \in 1 .. n
      <4>1. PICK k \in 1 .. counters[registry[i].category] : registry[i].id = IdOf(registry[i].category, k)
        BY <3>2, <2>6
      <4>2. k \in 1 .. counters'[registry[i].category]
        BY <3>2, <4>1, <2>3, <2>5, <2>10
      <4> QED BY <3>2, <4>1, <4>2, <2>1
    <3> QED BY <3>1, <3>2, <2>12
  <2>14. \A i, j \in 1 .. n + 1 : i # j => registry'[i].id # registry'[j].id
    <3> SUFFICES ASSUME NEW i \in 1 .. n + 1, NEW j \in 1 .. n + 1, i # j
                 PROVE  registry'[i].id # registry'[j].id
      OBVIOUS
    <3>1. CASE i \in 1 .. n /\ j \in 1 .. n
      BY <3>1, <2>1, <2>7
    <3>2. CASE i = n + 1
      BY <3>2, <2>1, <2>8, <2>11, <2>12
    <3>3. CASE j = n + 1
      BY <3>3, <2>1, <2>8, <2>11, <2>12
    <3> QED BY <3>1, <3>2, <3>3, <2>12
  <2> QED BY <1>1, <2>1, <2>10, <2>13, <2>14 DEF IdsOK, Cs
<1> QED BY <1>2, <1>3, Frozen

---------------------------------------------------------------------------
(* main().                                                                 *)

(* What depends on the registry and the argument only.                     *)
LEMMA Same ==
  ASSUME tool' = tool, requested' = requested, registry' = registry
  PROVE  /\ Pending' = Pending /\ Grouped' = Grouped /\ Asked' = Asked
         /\ Selected(registry, Asked)' = Selected(registry, Asked)
         /\ UpTo(registry, Asked)' = UpTo(registry, Asked)
<1>1. Pending' = Pending /\ Grouped' = Grouped
  BY DEF Pending, Grouped
<1>2. Asked' = Asked
  BY DEF Asked, Named, InCategory
<1>3. Selected(registry, Asked)' = Selected(registry', Asked')
  BY DEF Selected
<1>4. UpTo(registry, Asked)' = UpTo(registry', Asked')
  BY DEF UpTo
<1> QED BY <1>1, <1>2, <1>3, <1>4

(* Registration comes first.                                               *)
LEMMA PhaseStep ==
  ASSUME PhaseOK, [Next]_vars
  PROVE  PhaseOK'
<1> USE DEF PhaseOK, Running
<1>1. tool' = tool /\ requested' = requested
  BY Frozen
<1>2. registry' = registry => Pending' = Pending /\ Grouped' = Grouped
  BY <1>1, Same
<1>3. CASE UNCHANGED vars
  BY <1>2, <1>3 DEF vars, control
<1>4. ASSUME NEW f \in Pending, Registrar(f) PROVE PhaseOK'
  BY <1>4 DEF Registrar, control
<1>5. CASE PrintUsage
  BY <1>2, <1>5 DEF PrintUsage, Finish, control
<1>6. CASE PrintSuiteList
  BY <1>2, <1>6 DEF PrintSuiteList, Finish, control
<1>7. CASE PrintAllSuites
  BY <1>2, <1>7 DEF PrintAllSuites, RunSuites
<1>8. CASE BeginScan
  BY <1>2, <1>8 DEF BeginScan
<1>9. CASE ScanExact
  BY <1>2, <1>9 DEF ScanExact, RunSuites
<1>10. CASE ScanCategory
  <2>1. CASE tool = "tests"
    BY <2>1, <1>2, <1>10 DEF ScanCategory, RunSuites
  <2>2. CASE tool # "tests"
    BY <2>2, <1>2, <1>10 DEF ScanCategory
  <2> QED BY <2>1, <2>2
<1>11. CASE ScanOther
  BY <1>2, <1>11 DEF ScanOther
<1>12. CASE ScanEnd
  BY <1>2, <1>12 DEF ScanEnd, RunSuites, Finish
<1>13. CASE StartSuite
  BY <1>2, <1>13 DEF StartSuite, control
<1>14. CASE EndSuite
  BY <1>2, <1>14 DEF EndSuite
<1>15. CASE EndSuites
  BY <1>2, <1>15 DEF EndSuites, Finish, control
<1>16. CASE BeginRun \/ EndRun \/ RunThrows
  BY <1>2, <1>16 DEF BeginRun, EndRun, RunThrows, control
<1>17. ASSUME NEW holds, Chk(holds) PROVE PhaseOK'
  BY <1>2, <1>17 DEF Chk, control
<1>18. CASE SuiteThrows
  BY <1>2, <1>18 DEF SuiteThrows, control
<1> QED BY <1>3, <1>4, <1>5, <1>6, <1>7, <1>8, <1>9, <1>10, <1>11, <1>12, <1>13, <1>14, <1>15, <1>16, <1>17, <1>18 DEF Next

---------------------------------------------------------------------------
(* The tally.                                                              *)

(* A line more is a cross more, or none.                                   *)
LEMMA MarkAdded ==
  ASSUME marks \in Seq(BOOLEAN), NEW b \in BOOLEAN, marks' = Append(marks, b)
  PROVE  /\ marks' \in Seq(BOOLEAN)
         /\ Cardinality(Crosses) \in Nat
         /\ b => Crosses' = Crosses
         /\ ~ b => Crosses' # {} /\ Cardinality(Crosses') = Cardinality(Crosses) + 1
<1> DEFINE n == Len(marks)
<1>1. /\ n \in Nat /\ DOMAIN marks = 1 .. n /\ DOMAIN marks' = 1 .. n + 1 /\ marks' \in Seq(BOOLEAN)
      /\ marks'[n + 1] = b /\ \A i \in 1 .. n : marks'[i] = marks[i]
  BY AppendProperties
<1>2. Crosses \subseteq 1 .. n
  BY <1>1 DEF Crosses
<1>3. IsFiniteSet(Crosses) /\ Cardinality(Crosses) \in Nat /\ n + 1 \notin Crosses
  <2>1. IsFiniteSet(1 .. n)
    BY <1>1, FS_Interval
  <2>2. IsFiniteSet(Crosses)
    BY <1>2, <2>1, FS_Subset
  <2> QED BY <1>1, <1>2, <2>2, FS_CardinalityType
<1> HIDE DEF n
<1>4. \A i \in 1 .. n + 1 : i = n + 1 \/ i \in 1 .. n
  BY <1>1
<1>5. b => Crosses' = Crosses
  BY <1>1, <1>4 DEF Crosses
<1>6. ~ b => Crosses' = Crosses \cup {n + 1}
  BY <1>1, <1>4 DEF Crosses
<1>7. Cardinality(Crosses \cup {n + 1}) = Cardinality(Crosses) + 1
  BY <1>3, FS_AddElement
<1> QED BY <1>1, <1>3, <1>5, <1>6, <1>7

(* Every step of a suite keeps the tally.                                  *)
LEMMA TallyStep ==
  ASSUME TallyOK, [Next]_vars
  PROVE  TallyOK'
<1>1. /\ pass \in Nat /\ fail \in Nat /\ total \in Nat /\ snapshot \in Nat /\ marks \in Seq(BOOLEAN)
      /\ total <= pass + fail /\ pass + fail <= total + Cardinality(Crosses)
      /\ pc = "test" => (snapshot = 0) = (Crosses = {}) /\ Cardinality(Crosses) <= snapshot /\ snapshot <= fail
      /\ pc # "test" => (fail = 0) = (Crosses = {}) /\ Cardinality(Crosses) <= fail
  BY DEF TallyOK
<1>2. Cardinality(Crosses) \in Nat
  <2>1. Len(marks) \in Nat /\ Crosses \subseteq 1 .. Len(marks)
    BY <1>1 DEF Crosses
  <2>2. IsFiniteSet(1 .. Len(marks))
    BY <2>1, FS_Interval
  <2>3. IsFiniteSet(Crosses)
    BY <2>1, <2>2, FS_Subset
  <2> QED BY <2>3, FS_CardinalityType
<1>3. marks' = marks => Crosses' = Crosses
  BY DEF Crosses
<1> HIDE DEF Crosses
<1>4. CASE UNCHANGED tally /\ pc # "test" /\ pc' # "test"
  BY <1>1, <1>3, <1>4 DEF TallyOK, tally
<1>5. CASE UNCHANGED vars
  BY <1>1, <1>3, <1>5 DEF TallyOK, tally, vars
<1>6. CASE BeginRun
  <2>1. snapshot' = fail /\ pc # "test" /\ pc' = "test" /\ UNCHANGED <<pass, fail, total, marks>>
    BY <1>6 DEF BeginRun
  <2> QED BY <1>1, <1>2, <1>3, <2>1 DEF TallyOK
<1>7. ASSUME NEW holds \in BOOLEAN, Chk(holds) PROVE TallyOK'
  <2>1. /\ pc = "test" /\ pc' = "test" /\ UNCHANGED <<snapshot, marks>> /\ total' = total + 1
        /\ (pass' = pass + 1 /\ fail' = fail) \/ (fail' = fail + 1 /\ pass' = pass)
    BY <1>7 DEF Chk
  <2>2. Crosses' = Crosses /\ marks' \in Seq(BOOLEAN)
    BY <1>1, <1>3, <2>1
  <2>3. CASE pass' = pass + 1 /\ fail' = fail
    BY <1>1, <1>2, <2>1, <2>2, <2>3 DEF TallyOK
  <2>4. CASE fail' = fail + 1 /\ pass' = pass
    BY <1>1, <1>2, <2>1, <2>2, <2>4 DEF TallyOK
  <2> QED BY <2>1, <2>3, <2>4
<1>8. CASE EndRun
  <2>1. pc = "test" /\ pc' = "suite" /\ marks' = Append(marks, fail = snapshot) /\ UNCHANGED <<pass, fail, total, snapshot>>
    BY <1>8 DEF EndRun
  <2>2. /\ marks' \in Seq(BOOLEAN)
        /\ fail = snapshot => Crosses' = Crosses
        /\ fail # snapshot => Crosses' # {} /\ Cardinality(Crosses') = Cardinality(Crosses) + 1
    <3>1. (fail = snapshot) \in BOOLEAN
      OBVIOUS
    <3> QED BY <1>1, <2>1, <3>1, MarkAdded
  <2>3. CASE fail = snapshot
    BY <1>1, <1>2, <2>1, <2>2, <2>3 DEF TallyOK
  <2>4. CASE fail # snapshot
    BY <1>1, <1>2, <2>1, <2>2, <2>4 DEF TallyOK
  <2> QED BY <2>3, <2>4
<1>9. CASE RunThrows
  <2>1. pc = "test" /\ pc' = "suite" /\ fail' = fail + 1 /\ marks' = Append(marks, FALSE) /\ UNCHANGED <<pass, total, snapshot>>
    BY <1>9 DEF RunThrows
  <2>2. marks' \in Seq(BOOLEAN) /\ Crosses' # {} /\ Cardinality(Crosses') = Cardinality(Crosses) + 1
    BY <1>1, <2>1, MarkAdded
  <2> QED BY <1>1, <1>2, <2>1, <2>2 DEF TallyOK
<1>10. ASSUME NEW f \in Pending, Registrar(f) PROVE UNCHANGED tally /\ pc # "test" /\ pc' # "test"
  BY <1>10 DEF Registrar
<1>11. CASE PrintUsage \/ PrintSuiteList \/ PrintAllSuites
  BY <1>4, <1>11 DEF PrintUsage, PrintSuiteList, PrintAllSuites, Finish, RunSuites
<1>12. CASE BeginScan \/ ScanExact \/ ScanCategory \/ ScanOther \/ ScanEnd
  BY <1>4, <1>12 DEF BeginScan, ScanExact, ScanCategory, ScanOther, ScanEnd, Finish, RunSuites
<1>13. CASE StartSuite \/ EndSuite \/ SuiteThrows \/ EndSuites
  BY <1>4, <1>13 DEF StartSuite, EndSuite, SuiteThrows, EndSuites, Finish
<1> QED BY <1>4, <1>5, <1>6, <1>7, <1>8, <1>9, <1>10, <1>11, <1>12, <1>13 DEF Next

---------------------------------------------------------------------------
(* What is asked for.                                                      *)

(* A suite's category and id are those of the tree.                        *)
LEMMA SuiteFacts ==
  ASSUME RegistryOK, IdsOK, NEW i \in DOMAIN registry
  PROVE  /\ registry[i].category \in Categories(tool)
         /\ registry[i].category = <<registry[i].category[1]>>
         /\ registry[i].name \notin Categories(tool) /\ registry[i].name \notin Ids(tool)
         /\ registry[i].id \in Ids(tool)
         /\ \E a, b : registry[i].id = <<a, b>>
<1>1. PICK f \in Range(Files[tool]) : registry[i].category = f.category /\ registry[i].name = Prettify(f.name)
  BY DEF RegistryOK
<1>2. tool \in DOMAIN Files
  BY DEF RegistryOK
<1> DEFINE c == registry[i].category
<1>3. c \in Categories(tool)
  BY <1>1 DEF Categories
<1>4. c = <<c[1]>>
  BY <1>2, <1>3, SuiteTree
<1>5. \A g \in Range(Files[tool]) : Prettify(g.name) \notin Categories(tool) \cup Ids(tool) \cup Help \cup {List}
  BY <1>2, SuiteTree
<1>6. registry[i].name \notin Categories(tool) /\ registry[i].name \notin Ids(tool)
  BY <1>1, <1>5
<1>7. PICK n \in 1 .. counters[c] : registry[i].id = IdOf(c, n)
  BY DEF IdsOK
<1>8. Len(registry) \in Nat /\ Len(registry) <= Len(Files[tool]) /\ Len(Files[tool]) \in Nat
  BY RegistrySize DEF RegistryOK
<1>9. counters[c] \in 0 .. Len(registry)
  BY <1>3 DEF IdsOK
<1> HIDE DEF c
<1>10. n \in 1 .. Len(Files[tool])
  BY <1>8, <1>9
<1>11. registry[i].id \in Ids(tool)
  BY <1>3, <1>7, <1>10 DEF Ids
<1>12. \E a, b : registry[i].id = <<a, b>>
  BY <1>7 DEF IdOf
<1> QED BY <1>3, <1>4, <1>6, <1>11, <1>12 DEF c

(* Only itself is shown like a single word.                                *)
LEMMA PrettifyWord ==
  ASSUME NEW r, r \in Seq(Range(r)), NEW c, c = <<c[1]>>
  PROVE  Prettify(r) = c <=> r = c
<1>1. ASSUME r = c PROVE Prettify(r) = c
  <2>1. DOMAIN r = {1} /\ r[1] = c[1]
    BY <1>1
  <2>2. Prettify(r) = [k \in {1} |-> c[1]]
    BY <2>1 DEF Prettify
  <2>3. <<c[1]>> = [k \in {1} |-> c[1]]
    OBVIOUS
  <2> QED BY <2>2, <2>3
<1>2. ASSUME Prettify(r) = c PROVE r = c
  <2>1. DOMAIN Prettify(r) = DOMAIN r /\ (1 \in DOMAIN r => Prettify(r)[1] = r[1])
    <3>1. \A k \in DOMAIN r : Prettify(r)[k] = IF k > 1 /\ r[k] = "_" THEN " " ELSE r[k]
      BY DEF Prettify
    <3>2. ~ (1 > 1)
      OBVIOUS
    <3>3. DOMAIN Prettify(r) = DOMAIN r
      BY DEF Prettify
    <3> QED BY <3>1, <3>2, <3>3
  <2>2. Prettify(r) = <<c[1]>>
    BY <1>2
  <2>3. DOMAIN r = {1}
    BY <2>1, <2>2
  <2>4. r[1] = c[1]
    BY <2>1, <2>2, <2>3
  <2>5. Len(r) = 1
    BY <2>3
  <2> QED BY <2>4, <2>5
<1> QED BY <1>1, <1>2

(* The scan recognises what is asked for; a name or an id is that of one   *)
(* suite, and not of a category.                                           *)
LEMMA AskedFor ==
  ASSUME RegistryOK, IdsOK, requested # <<>>, NEW i \in 1 .. Len(registry)
  PROVE  /\ registry[i] \in Asked <=> IsExact(registry[i]) \/ IsCategory(registry[i])
         /\ IsExact(registry[i]) => \A j \in 1 .. Len(registry) : registry[j] \in Asked => j = i
<1>1. DOMAIN registry = 1 .. Len(registry)
  BY DEF RegistryOK
<1>2. requested \in Seq(Range(requested))
  BY RequestAssumption DEF RegistryOK
<1>3. ASSUME NEW j \in 1 .. Len(registry)
      PROVE  /\ IsCategory(registry[j]) <=> InCategory(registry[j])
             /\ registry[j] \in Asked <=> IsExact(registry[j]) \/ IsCategory(registry[j])
  <2>1. registry[j].category = <<registry[j].category[1]>> /\ registry[j].category \in Categories(tool)
    BY <1>1, SuiteFacts
  <2>2. IsCategory(registry[j]) <=> requested = registry[j].category
    BY <1>2, <2>1, PrettifyWord DEF IsCategory
  <2>3. InCategory(registry[j]) <=> requested = registry[j].category
    BY <2>1 DEF InCategory, Categories
  <2>4. registry[j] \in Range(registry)
    BY <1>1 DEF Range
  <2> QED BY <2>2, <2>3, <2>4 DEF Asked, IsExact, Named
<1>4. ASSUME IsExact(registry[i]), NEW j \in 1 .. Len(registry), registry[j] \in Asked
      PROVE  j = i
  <2> DEFINE p == Prettify(requested)
  <2>1. p = registry[i].name \/ p = registry[i].id
    BY <1>4 DEF IsExact
  <2>2. p = registry[j].name \/ p = registry[j].id \/ p = registry[j].category
    BY <1>3, <1>4 DEF IsExact, IsCategory
  <2> HIDE DEF p
  <2>3. /\ registry[i].name \notin Categories(tool) /\ registry[i].name \notin Ids(tool)
        /\ registry[i].id \in Ids(tool) /\ \E a, b : registry[i].id = <<a, b>>
    BY <1>1, SuiteFacts
  <2>4. /\ registry[j].name \notin Categories(tool) /\ registry[j].name \notin Ids(tool)
        /\ registry[j].id \in Ids(tool)
        /\ registry[j].category \in Categories(tool)
        /\ registry[j].category = <<registry[j].category[1]>>
    BY <1>1, SuiteFacts
  <2>5. registry[i].id # registry[j].category
    <3>1. \A a, b, d : <<a, b>> # <<d>>
      OBVIOUS
    <3> QED BY <2>3, <2>4, <3>1
  <2>6. p = registry[i].name /\ p = registry[j].name => j = i
    BY <1>1 DEF RegistryOK
  <2>7. p = registry[i].id /\ p = registry[j].id => j = i
    BY <1>1 DEF IdsOK
  <2> QED BY <2>1, <2>2, <2>3, <2>4, <2>5, <2>6, <2>7
<1> QED BY <1>3, <1>4

---------------------------------------------------------------------------
(* What is run.                                                            *)

(* RunOK of a state given by its values, over a registry that stands.      *)
RunHolds(r, t, p, where, next, ex) ==
  LET planned == r \o (IF p \in {"suite", "test"} THEN Tail(t) ELSE t)
      chosen == Selected(registry, Asked)
  IN  /\ r \in Seq(Range(registry)) /\ t \in Seq(Range(registry))
      /\ p \in {"scan"} \cup Running => requested \notin Help \cup {List}
      /\ p = "scan" => IF tool = "tests" THEN t = <<>> ELSE r = <<>>
      /\ p = "scan" \/ (p \in Running /\ next = "scan") =>
           /\ requested # <<>> /\ where \in 1 .. Len(registry) + 1
           /\ planned = UpTo(registry, Asked)[where-1]
      /\ p \in Running => planned # <<>>
      /\ p \in Running /\ next = "scan" => tool = "tests" /\ t # <<>>
      /\ p \in Running /\ next # "scan" => planned = chosen
      /\ p \in {"suite", "test"} => t # <<>>
      /\ p = "exit" /\ requested \notin Help \cup {List} =>
           r = chosen /\ ex = IF r = <<>> THEN 1 ELSE 0

(* It is RunOK, before a step and after it.                                *)
LEMMA RunHoldsIsRunOK ==
  /\ RunOK <=> RunHolds(ran, todo, pc, at, after, exit)
  /\ tool' = tool /\ requested' = requested /\ registry' = registry
       => (RunHolds(ran', todo', pc', at', after', exit') <=> RunOK')
<1>1. RunOK <=> RunHolds(ran, todo, pc, at, after, exit)
  BY DEF RunOK, RunHolds, Planned
<1>2. ASSUME tool' = tool, requested' = requested, registry' = registry
      PROVE  RunHolds(ran', todo', pc', at', after', exit') <=> RunOK'
  <2>1. /\ Selected(registry, Asked)' = Selected(registry, Asked)
        /\ UpTo(registry, Asked)' = UpTo(registry, Asked)
    BY <1>2, Same
  <2> DEFINE sel == Selected(registry, Asked)
             upto == UpTo(registry, Asked)
  <2>2. RunHolds(ran', todo', pc', at', after', exit') <=>
          LET planned == ran' \o (IF pc' \in {"suite", "test"} THEN Tail(todo') ELSE todo')
          IN  /\ ran' \in Seq(Range(registry)) /\ todo' \in Seq(Range(registry))
              /\ pc' \in {"scan"} \cup Running => requested \notin Help \cup {List}
              /\ pc' = "scan" => IF tool = "tests" THEN todo' = <<>> ELSE ran' = <<>>
              /\ pc' = "scan" \/ (pc' \in Running /\ after' = "scan") =>
                   /\ requested # <<>> /\ at' \in 1 .. Len(registry) + 1
                   /\ planned = upto[at'-1]
              /\ pc' \in Running => planned # <<>>
              /\ pc' \in Running /\ after' = "scan" => tool = "tests" /\ todo' # <<>>
              /\ pc' \in Running /\ after' # "scan" => planned = sel
              /\ pc' \in {"suite", "test"} => todo' # <<>>
              /\ pc' = "exit" /\ requested \notin Help \cup {List} =>
                   ran' = sel /\ exit' = IF ran' = <<>> THEN 1 ELSE 0
    BY DEF RunHolds
  <2>3. RunOK' <=>
          LET planned == ran' \o (IF pc' \in {"suite", "test"} THEN Tail(todo') ELSE todo')
          IN  /\ ran' \in Seq(Range(registry')) /\ todo' \in Seq(Range(registry'))
              /\ pc' \in {"scan"} \cup Running => requested' \notin Help \cup {List}
              /\ pc' = "scan" => IF tool' = "tests" THEN todo' = <<>> ELSE ran' = <<>>
              /\ pc' = "scan" \/ (pc' \in Running /\ after' = "scan") =>
                   /\ requested' # <<>> /\ at' \in 1 .. Len(registry') + 1
                   /\ planned = UpTo(registry, Asked)'[at'-1]
              /\ pc' \in Running => planned # <<>>
              /\ pc' \in Running /\ after' = "scan" => tool' = "tests" /\ todo' # <<>>
              /\ pc' \in Running /\ after' # "scan" => planned = Selected(registry, Asked)'
              /\ pc' \in {"suite", "test"} => todo' # <<>>
              /\ pc' = "exit" /\ requested' \notin Help \cup {List} =>
                   ran' = Selected(registry, Asked)' /\ exit' = IF ran' = <<>> THEN 1 ELSE 0
    BY DEF RunOK, Planned
  <2> HIDE DEF sel, upto
  <2> QED BY <1>2, <2>1, <2>2, <2>3 DEF sel, upto
<1> QED BY <1>1, <1>2

(* Every step keeps to what was asked for.                                 *)
LEMMA RunStep ==
  ASSUME RegistryOK, IdsOK, PhaseOK, RunOK, [Next]_vars
  PROVE  RunOK'
<1> DEFINE R == Range(registry)
           n == Len(registry)
           u == UpTo(registry, Asked)
           sel == Selected(registry, Asked)
           Holds(r, t, p, where, next, ex) ==
             LET planned == r \o (IF p \in {"suite", "test"} THEN Tail(t) ELSE t)
             IN  /\ r \in Seq(R) /\ t \in Seq(R)
                 /\ p \in {"scan"} \cup Running => requested \notin Help \cup {List}
                 /\ p = "scan" => IF tool = "tests" THEN t = <<>> ELSE r = <<>>
                 /\ p = "scan" \/ (p \in Running /\ next = "scan") =>
                      /\ requested # <<>> /\ where \in 1 .. n + 1
                      /\ planned = u[where-1]
                 /\ p \in Running => planned # <<>>
                 /\ p \in Running /\ next = "scan" => tool = "tests" /\ t # <<>>
                 /\ p \in Running /\ next # "scan" => planned = sel
                 /\ p \in {"suite", "test"} => t # <<>>
                 /\ p = "exit" /\ requested \notin Help \cup {List} =>
                      r = sel /\ ex = IF r = <<>> THEN 1 ELSE 0
           Goal == Holds(ran', todo', pc', at', after', exit')
           Before == Holds(ran, todo, pc, at, after, exit)
<1>1. /\ registry \in Seq(R) /\ DOMAIN registry = 1 .. n /\ n \in Nat
      /\ \A i \in 1 .. n : registry[i] \in R
  <2>1. registry \in Seq(R)
    BY DEF RegistryOK
  <2> HIDE DEF R
  <2> QED BY <2>1
<1>2. /\ sel = u[n] /\ u[0] = <<>> /\ u \in [0 .. n -> Seq(R)]
      /\ \A i \in 1 .. n : u[i] = IF registry[i] \in Asked THEN Append(u[i-1], registry[i]) ELSE u[i-1]
  BY <1>1, SelectedSteps
<1>3. Before
  <2>1. RunHolds(ran, todo, pc, at, after, exit)
    BY RunHoldsIsRunOK
  <2> QED BY <2>1 DEF RunHolds
<1>4. tool' = tool /\ requested' = requested
  BY Frozen
<1>5. ASSUME registry' = registry, Goal PROVE RunOK'
  <2>1. RunHolds(ran', todo', pc', at', after', exit')
    BY <1>5 DEF RunHolds
  <2> QED BY <1>4, <1>5, <2>1, RunHoldsIsRunOK
<1> HIDE DEF R, u, sel
<1>6. CASE UNCHANGED <<ran, todo, at, after, exit, registry>> /\ (UNCHANGED pc \/ {pc, pc'} \subseteq {"suite", "test"})
  <2>1. pc' = pc \/ (pc \in {"suite", "test"} /\ pc' \in {"suite", "test"})
    BY <1>6
  <2>2. Goal
    <3>1. CASE pc' = pc
      <4>1. Goal <=> Before
        BY <1>6, <3>1
      <4> QED BY <1>3, <4>1
    <3>2. CASE pc \in {"suite", "test"} /\ pc' \in {"suite", "test"}
      BY <1>3, <1>6, <3>2 DEF Running
    <3> QED BY <2>1, <3>1, <3>2
  <2> HIDE DEF Goal
  <2> QED BY <1>5, <1>6, <2>2
<1>7. ASSUME NEW f \in Pending, Registrar(f) PROVE RunOK'
  <2>1. ran' = <<>> /\ todo' = <<>> /\ pc' = "static"
    BY <1>7 DEF Registrar, control, PhaseOK
  <2> QED BY <2>1 DEF RunOK, Running
<1>8. CASE PrintUsage \/ PrintSuiteList
  <2>1. /\ UNCHANGED <<ran, todo, registry>> /\ pc' = "exit" /\ requested \in Help \cup {List}
    BY <1>8 DEF PrintUsage, PrintSuiteList, Finish, control
  <2>2. Goal
    BY <1>3, <2>1 DEF Running
  <2> HIDE DEF Goal
  <2> QED BY <1>5, <2>1, <2>2
<1>9. CASE PrintAllSuites
  <2>1. /\ registry' = registry /\ ran' = <<>> /\ todo' = registry /\ after' = "summary" /\ pc' = "suites"
        /\ requested = <<>> /\ Pending = {}
    BY <1>9 DEF PrintAllSuites, RunSuites, PhaseOK
  <2>2. sel = registry
    <3>1. Asked = R
      BY <2>1 DEF Asked, R
    <3> QED BY <1>1, <3>1, SelectedAll DEF sel
  <2>3. registry # <<>>
    <3>1. Files[tool] # <<>> /\ Files[tool] \in Seq(Range(Files[tool]))
      BY SuiteTree DEF RegistryOK
    <3>2. 1 \in DOMAIN Files[tool]
      BY <3>1
    <3>3. Files[tool][1] \in Range(Files[tool])
      BY <3>2 DEF Range
    <3>4. PICK s \in Range(registry) : s.category = Files[tool][1].category
      BY <2>1, <3>3 DEF Pending
    <3> QED BY <3>4 DEF Range
  <2>4. <<>> \o registry = registry
    BY <1>1, ConcatEmptySeq
  <2>5. requested \notin Help \cup {List}
    <3>1. \A a \in Help \cup {List} : a # <<>>
      BY DEF Help, List
    <3> QED BY <2>1, <3>1
  <2>6. Goal
    <3>1. <<>> \in Seq(R)
      OBVIOUS
    <3> QED BY <1>1, <2>1, <2>2, <2>3, <2>4, <2>5, <3>1 DEF Running
  <2> HIDE DEF Goal
  <2> QED BY <1>5, <2>1, <2>6
<1>10. CASE BeginScan
  <2>1. /\ registry' = registry /\ ran' = <<>> /\ todo' = <<>> /\ at' = 1 /\ pc' = "scan"
        /\ requested # <<>> /\ requested \notin Help \cup {List}
    BY <1>10 DEF BeginScan, PhaseOK
  <2>2. Goal
    <3>1. <<>> \in Seq(R) /\ <<>> \o <<>> = <<>>
      OBVIOUS
    <3>2. 1 \in 1 .. n + 1
      BY <1>1
    <3> QED BY <1>2, <2>1, <3>1, <3>2 DEF Running
  <2> HIDE DEF Goal
  <2> QED BY <1>5, <2>1, <2>2
<1>11. ASSUME pc = "scan"
       PROVE  /\ ran \in Seq(R) /\ todo \in Seq(R) /\ requested \notin Help \cup {List} /\ requested # <<>>
              /\ IF tool = "tests" THEN todo = <<>> ELSE ran = <<>>
              /\ at \in 1 .. n + 1 /\ ran \o todo = u[at-1]
              /\ ran \o <<>> = ran /\ <<>> \o todo = todo
  BY <1>3, <1>11, ConcatEmptySeq
<1>12. ASSUME pc = "scan", at <= n
       PROVE  /\ at \in 1 .. n /\ at + 1 \in 1 .. n + 1 /\ (at + 1) - 1 = at
              /\ registry[at] \in Asked <=> IsExact(registry[at]) \/ IsCategory(registry[at])
  <2>1. at \in 1 .. n
    BY <1>1, <1>11, <1>12
  <2> QED BY <1>1, <1>11, <1>12, <2>1, AskedFor DEF n
<1>13. CASE ScanExact
  <2>1. /\ pc = "scan" /\ at <= n /\ IsExact(registry[at]) /\ registry' = registry
        /\ ran' = ran /\ todo' = <<registry[at]>> /\ after' = "end" /\ pc' = "suites"
    BY <1>13 DEF ScanExact, RunSuites, n
  <2>2. sel = <<registry[at]>> /\ u[at-1] = <<>>
    <3>1. \A j \in 1 .. Len(registry) : registry[j] \in Asked => j = at
      BY <1>11, <1>12, <2>1, AskedFor DEF n
    <3> QED BY <1>1, <1>12, <2>1, <3>1, SelectedOne DEF sel, u, n
  <2>3. ran = <<>>
    <3>1. ran \o todo = <<>> /\ ran \in Seq(R) /\ todo \in Seq(R)
      BY <1>11, <2>1, <2>2
    <3> QED BY <3>1
  <2>4. registry[at] \in R
    BY <1>1, <1>12, <2>1
  <2>5. Goal
    <3>1. <<registry[at]>> \in Seq(R) /\ <<registry[at]>> # <<>> /\ <<>> \in Seq(R) /\ <<>> \o <<registry[at]>> = <<registry[at]>>
      BY <2>4
    <3> QED BY <1>11, <2>1, <2>2, <2>3, <3>1 DEF Running
  <2> HIDE DEF Goal
  <2> QED BY <1>5, <2>1, <2>5
<1>14. CASE ScanCategory
  <2>1. /\ pc = "scan" /\ at <= n /\ IsCategory(registry[at]) /\ registry' = registry /\ ran' = ran /\ at' = at + 1
        /\ tool = "tests" => todo' = <<registry[at]>> /\ after' = "scan" /\ pc' = "suites"
        /\ tool # "tests" => todo' = Append(todo, registry[at]) /\ after' = after /\ pc' = "scan"
    BY <1>14 DEF ScanCategory, RunSuites, n
  <2>2. registry[at] \in R
    BY <1>1, <1>12, <2>1
  <2>3. u[at] = Append(ran \o todo, registry[at])
    BY <1>2, <1>11, <1>12, <2>1
  <2>4. CASE tool = "tests"
    <3>1. /\ ran \o <<registry[at]>> = Append(ran, registry[at]) /\ Append(ran, registry[at]) # <<>>
          /\ <<registry[at]>> \in Seq(R) /\ <<registry[at]>> # <<>>
      <4>1. ran \in Seq(R) /\ todo \in Seq(R)
        BY <1>11, <2>1
      <4>2. <<registry[at]>> \in Seq(R) /\ <<registry[at]>> # <<>>
        BY <2>2
      <4> HIDE DEF R, Goal
      <4> QED BY <2>2, <4>1, <4>2, AddLast
    <3>2. Goal
      BY <1>11, <1>12, <2>1, <2>3, <2>4, <3>1 DEF Running
    <3> HIDE DEF Goal
    <3> QED BY <1>5, <2>1, <3>2
  <2>5. CASE tool # "tests"
    <3>1. ran \o Append(todo, registry[at]) = Append(ran \o todo, registry[at]) /\ Append(todo, registry[at]) \in Seq(R)
      <4>1. ran \in Seq(R) /\ todo \in Seq(R)
        BY <1>11, <2>1
      <4> HIDE DEF R, Goal
      <4> QED BY <2>2, <4>1, AddLast
    <3>2. Goal
      BY <1>11, <1>12, <2>1, <2>3, <2>5, <3>1 DEF Running
    <3> HIDE DEF Goal
    <3> QED BY <1>5, <2>1, <3>2
  <2> QED BY <2>4, <2>5
<1>15. CASE ScanOther
  <2>1. /\ pc = "scan" /\ pc' = "scan" /\ at <= n /\ registry' = registry /\ UNCHANGED <<ran, todo>> /\ at' = at + 1
        /\ ~ IsExact(registry[at]) /\ ~ IsCategory(registry[at])
    BY <1>15 DEF ScanOther, n
  <2>2. u[at] = u[at-1]
    BY <1>2, <1>12, <2>1
  <2>3. Goal
    BY <1>11, <1>12, <2>1, <2>2 DEF Running
  <2> HIDE DEF Goal
  <2> QED BY <1>5, <2>1, <2>3
<1>16. CASE ScanEnd
  <2>1. /\ pc = "scan" /\ at > n /\ registry' = registry /\ ran' = ran
        /\ FoundCategory => todo' = todo /\ after' = "summary" /\ pc' = "suites"
        /\ ~ FoundCategory => todo' = todo /\ pc' = "exit" /\ exit' = 1
    BY <1>16 DEF ScanEnd, RunSuites, Finish, n
  <2>2. ran \o todo = sel
    <3>1. at - 1 = n
      BY <1>1, <1>11, <2>1
    <3> QED BY <1>2, <1>11, <2>1, <3>1
  <2>3. ran \o todo = IF tool = "tests" THEN ran ELSE todo
    BY <1>11, <2>1
  <2>4. FoundCategory <=> ran \o todo # <<>>
    BY <2>3 DEF FoundCategory
  <2>5. ~ FoundCategory => ran = <<>>
    BY <1>11, <2>1 DEF FoundCategory
  <2>6. Goal
    <3>1. CASE FoundCategory
      BY <1>11, <2>1, <2>2, <2>4, <3>1 DEF Running
    <3>2. CASE ~ FoundCategory
      BY <1>11, <2>1, <2>2, <2>4, <2>5, <3>2 DEF Running
    <3> QED BY <3>1, <3>2
  <2> HIDE DEF Goal
  <2> QED BY <1>5, <2>1, <2>6
<1>17. CASE StartSuite
  <2>1. /\ pc = "suites" /\ pc' = "suite" /\ todo # <<>> /\ ran' = Append(ran, Head(todo))
        /\ UNCHANGED <<todo, at, after, registry>>
    BY <1>17 DEF StartSuite, control
  <2>2. ran \in Seq(R) /\ todo \in Seq(R)
    BY <1>3
  <2>3. Append(ran, Head(todo)) \in Seq(R) /\ Append(ran, Head(todo)) \o Tail(todo) = ran \o todo
    BY <2>1, <2>2, MoveHead
  <2>4. Goal
    BY <1>3, <2>1, <2>3 DEF Running
  <2> HIDE DEF Goal
  <2> QED BY <1>5, <2>1, <2>4
<1>18. CASE EndSuite
  <2>1. /\ pc = "suite" /\ todo' = Tail(todo) /\ UNCHANGED <<ran, at, after, registry>>
        /\ pc' = IF todo' = <<>> /\ after = "scan" THEN "scan" ELSE "suites"
    BY <1>18 DEF EndSuite
  <2>2. todo \in Seq(R) /\ todo # <<>>
    BY <1>3, <2>1
  <2>3. Tail(todo) \in Seq(R)
    BY <2>2
  <2>4. Goal
    BY <1>3, <2>1, <2>3 DEF Running
  <2> HIDE DEF Goal
  <2> QED BY <1>5, <2>1, <2>4
<1>19. CASE EndSuites
  <2>1. pc = "suites" /\ todo = <<>> /\ pc' = "exit" /\ exit' = 0 /\ UNCHANGED <<ran, todo, registry>>
    BY <1>19 DEF EndSuites, Finish, control
  <2>2. ran \in Seq(R)
    BY <1>3
  <2>3. ran \o <<>> = ran
    BY <2>2, ConcatEmptySeq
  <2>4. Goal
    BY <1>3, <2>1, <2>3 DEF Running
  <2> HIDE DEF Goal
  <2> QED BY <1>5, <2>1, <2>4
<1>20. CASE BeginRun \/ EndRun \/ RunThrows
  BY <1>6, <1>20 DEF BeginRun, EndRun, RunThrows, control
<1>21. ASSUME NEW holds, Chk(holds) PROVE RunOK'
  BY <1>6, <1>21 DEF Chk, control
<1>22. CASE UNCHANGED vars
  BY <1>6, <1>22 DEF vars, control
<1>23. CASE SuiteThrows
  <2>1. pc' = "terminated" /\ UNCHANGED <<ran, todo, registry>>
    BY <1>23 DEF SuiteThrows, control
  <2>2. Goal
    BY <1>3, <2>1 DEF Running
  <2> HIDE DEF Goal
  <2> QED BY <1>5, <2>1, <2>2
<1> QED
  BY <1>7, <1>8, <1>9, <1>10, <1>13, <1>14, <1>15, <1>16, <1>17, <1>18, <1>19, <1>20, <1>21, <1>22, <1>23 DEF Next

---------------------------------------------------------------------------
(* What is listed.                                                         *)

(* A heading and what is under it.                                         *)
Group(s, c) == [category |-> c, suites |-> s]

Groups == [category : Categories(tool), suites : Seq(Range(registry))]

(* One more suite goes under the last heading, or under one of its own.    *)
Regroup(v, s) ==
  IF v = <<>> \/ Last(v).category # s.category
  THEN Append(v, Group(<<s>>, s.category))
  ELSE [v EXCEPT ![Len(v)].suites = Append(@, s)]

(* The list when k suites have been looked at.                             *)
GroupedUpTo ==
  CHOOSE f : f = [i \in 0 .. Len(registry) |-> IF i = 0 THEN <<>> ELSE Regroup(f[i-1], registry[i])]

(* A suite more is still a list of headings and suites.                    *)
LEMMA RegroupType ==
  ASSUME NEW v \in Seq(Groups), NEW s \in Range(registry), s.category \in Categories(tool)
  PROVE  /\ Regroup(v, s) \in Seq(Groups) /\ Regroup(v, s) # <<>>
         /\ IF v = <<>> \/ v[Len(v)].category # s.category
            THEN /\ Len(Regroup(v, s)) = Len(v) + 1
                 /\ Regroup(v, s)[Len(v) + 1] = Group(<<s>>, s.category)
                 /\ \A j \in 1 .. Len(v) : Regroup(v, s)[j] = v[j]
            ELSE /\ Len(Regroup(v, s)) = Len(v)
                 /\ Regroup(v, s)[Len(v)] = Group(Append(v[Len(v)].suites, s), s.category)
                 /\ \A j \in 1 .. Len(v) : j # Len(v) => Regroup(v, s)[j] = v[j]
<1> DEFINE R == Range(registry)
           C == Categories(tool)
           m == Len(v)
<1>1. v \in Seq(Groups) /\ m \in Nat /\ \A j \in 1 .. m : v[j] \in Groups
  OBVIOUS
<1>2. \A j \in 1 .. m : v[j].category \in C /\ v[j].suites \in Seq(R) /\ v[j] = Group(v[j].suites, v[j].category)
  BY <1>1 DEF Groups, Group
<1>3. ASSUME NEW q \in Seq(R), NEW c \in C PROVE Group(q, c) \in Groups
  BY DEF Group, Groups
<1>4. Last(v) = v[m]
  BY DEF Last
<1>5. CASE v = <<>> \/ v[m].category # s.category
  <2>1. Group(<<s>>, s.category) \in Groups
    <3>1. <<s>> \in Seq(R)
      OBVIOUS
    <3> HIDE DEF R
    <3> QED BY <3>1, <1>3
  <2>2. Regroup(v, s) = Append(v, Group(<<s>>, s.category))
    BY <1>4, <1>5 DEF Regroup
  <2> QED BY <1>1, <1>5, <2>1, <2>2, AppendProperties
<1>6. CASE ~ (v = <<>> \/ v[m].category # s.category)
  <2>1. m \in 1 .. m
    BY <1>1, <1>6
  <2>2. v[m].suites \in Seq(R) /\ v[m].category = s.category
    BY <1>2, <1>6, <2>1
  <2>3. Append(v[m].suites, s) \in Seq(R)
    BY <2>2
  <2>4. Regroup(v, s) = [v EXCEPT ![m] = [v[m] EXCEPT !.suites = Append(v[m].suites, s)]]
    BY <1>4, <1>6 DEF Regroup
  <2>5. [v[m] EXCEPT !.suites = Append(v[m].suites, s)] = Group(Append(v[m].suites, s), s.category)
    <3>1. \A g \in Groups : \A q : [g EXCEPT !.suites = q] = Group(q, g.category)
      BY DEF Group, Groups
    <3>2. v[m] \in Groups
      BY <1>1, <2>1
    <3> HIDE DEF m
    <3> QED BY <3>1, <3>2, <2>2
  <2>6. Regroup(v, s) = [v EXCEPT ![m] = Group(Append(v[m].suites, s), s.category)]
    BY <2>4, <2>5
  <2>7. Group(Append(v[m].suites, s), s.category) \in Groups
    BY <1>3, <2>3
  <2>8. /\ Regroup(v, s) \in Seq(Groups) /\ Len(Regroup(v, s)) = m
        /\ Regroup(v, s)[m] = Group(Append(v[m].suites, s), s.category)
        /\ \A j \in 1 .. m : j # m => Regroup(v, s)[j] = v[j]
    <3> DEFINE g == Group(Append(v[m].suites, s), s.category)
    <3>1. g \in Groups /\ Regroup(v, s) = [v EXCEPT ![m] = g]
      BY <2>6, <2>7
    <3> HIDE DEF g
    <3>2. [v EXCEPT ![m] = g] \in Seq(Groups) /\ Len([v EXCEPT ![m] = g]) = m
      BY <2>1, <3>1, ExceptSeq
    <3>3. [v EXCEPT ![m] = g][m] = g /\ \A j \in 1 .. m : j # m => [v EXCEPT ![m] = g][j] = v[j]
      BY <1>1, <2>1
    <3> QED BY <3>1, <3>2, <3>3 DEF g
  <2> QED BY <1>1, <1>6, <2>1, <2>8
<1> QED BY <1>5, <1>6

(* The list grows suite by suite.                                          *)
LEMMA GroupedSteps ==
  ASSUME RegistryOK
  PROVE  /\ Grouped = GroupedUpTo[Len(registry)]
         /\ GroupedUpTo \in [0 .. Len(registry) -> Seq(Groups)]
         /\ GroupedUpTo[0] = <<>>
         /\ \A i \in 1 .. Len(registry) : GroupedUpTo[i] = Regroup(GroupedUpTo[i-1], registry[i])
<1> DEFINE n == Len(registry)
           V == Seq(Groups)
           Step(f, i) == IF i = 0 THEN <<>> ELSE Regroup(f[i-1], registry[i])
           Solves(f) == f = [i \in 0 .. n |-> Step(f, i)]
           step == [i \in 1 .. n |-> [v \in V |-> Regroup(v, registry[i])]]
<1>1. n \in Nat /\ <<>> \in V /\ DOMAIN registry = 1 .. n
  BY DEF RegistryOK
<1>2. \A i \in 1 .. n : registry[i] \in Range(registry) /\ registry[i].category \in Categories(tool)
  BY <1>1 DEF RegistryOK, Range, Categories
<1>3. \A i \in 1 .. n, v \in V : Regroup(v, registry[i]) \in V
  BY <1>2, RegroupType
<1>4. step \in [1 .. n -> [V -> V]]
  BY <1>3
<1>5. \A i \in 1 .. n, v \in V : step[i][v] = Regroup(v, registry[i])
  OBVIOUS
<1> HIDE DEF step, n, V
<1>6. PICK f : Follows(f, n, V, <<>>, step)
  <2>1. n \in Nat
    BY <1>1
  <2>2. <<>> \in V
    BY <1>1
  <2> QED BY <2>1, <2>2, <1>4, RangeRecursion
<1>7. \A i \in 1 .. n : f[i] = Regroup(f[i-1], registry[i])
  <2> SUFFICES ASSUME NEW i \in 1 .. n PROVE f[i] = Regroup(f[i-1], registry[i])
    OBVIOUS
  <2>1. f[i-1] \in V
    BY <1>1, <1>6 DEF Follows
  <2> QED BY <2>1, <1>5, <1>6 DEF Follows
<1>8. Solves(f)
  <2>1. \A i \in 0 .. n : f[i] = Step(f, i)
    <3>1. \A i \in 0 .. n : i = 0 \/ i \in 1 .. n
      BY <1>1
    <3>2. f[0] = <<>>
      BY <1>6 DEF Follows
    <3> QED BY <3>1, <3>2, <1>7
  <2>2. f = [i \in 0 .. n |-> f[i]]
    BY <1>6 DEF Follows
  <2> HIDE DEF Step
  <2> QED BY <2>1, <2>2
<1>9. GroupedUpTo = CHOOSE g : Solves(g)
  BY DEF GroupedUpTo, n
<1> DEFINE u == GroupedUpTo
<1> HIDE DEF Solves
<1>10. Solves(u)
  BY <1>8, <1>9
<1> HIDE DEF u
<1>11. u = [i \in 0 .. n |-> Step(u, i)]
  BY <1>10 DEF Solves
<1>12. \A i \in 0 .. n : u[i] = Step(u, i)
  <2> HIDE DEF Step
  <2> QED BY <1>11
<1>13. u[0] = <<>> /\ \A i \in 1 .. n : u[i] = Regroup(u[i-1], registry[i])
  BY <1>1, <1>12
<1> DEFINE T == {i \in 0 .. n : u[i] \in V}
<1>14. \A i \in 0 .. n : i \in T
  <2>1. 0 \in T
    BY <1>1, <1>13
  <2>2. ASSUME NEW i \in 1 .. n, i - 1 \in T PROVE i \in T
    BY <2>2, <1>1, <1>3, <1>13
  <2> HIDE DEF T
  <2> QED BY <2>1, <2>2, <1>1, RangeInduction
<1>15. u \in [0 .. n -> V]
  <2>1. u = [i \in 0 .. n |-> u[i]]
    <3> HIDE DEF Step
    <3> QED BY <1>11
  <2> QED BY <2>1, <1>14
<1>16. Grouped = u[n]
  <2> DEFINE Own(h, i) == IF i = 0 THEN <<>>
                          ELSE IF h[i-1] = <<>> \/ Last(h[i-1]).category # registry[i].category
                          THEN Append(h[i-1], [category |-> registry[i].category, suites |-> <<registry[i]>>])
                          ELSE [h[i-1] EXCEPT ![Len(h[i-1])].suites = Append(@, registry[i])]
  <2>1. \A h, i : Own(h, i) = Step(h, i)
    BY DEF Regroup, Group
  <2>2. Grouped = (CHOOSE g : g = [i \in 0 .. n |-> Own(g, i)])[n]
    BY DEF Grouped, n
  <2>3. u = CHOOSE g : g = [i \in 0 .. n |-> Step(g, i)]
    BY <1>9 DEF Solves, u
  <2> HIDE DEF Own, Step
  <2>4. \A g : [i \in 0 .. n |-> Own(g, i)] = [i \in 0 .. n |-> Step(g, i)]
    BY <2>1
  <2>5. (CHOOSE g : g = [i \in 0 .. n |-> Own(g, i)]) = CHOOSE g : g = [i \in 0 .. n |-> Step(g, i)]
    BY <2>4
  <2> QED BY <2>2, <2>3, <2>5
<1> QED BY <1>13, <1>15, <1>16 DEF u, n, V

(* Those of the registry in a category.                                    *)
InIt(c) == {s \in Range(registry) : s.category = c}

(* v lists k suites: the last of them under the last heading, no heading   *)
(* twice, and under each what there is of its category.                    *)
ListsThem(v, k) ==
  /\ k # 0 => v # <<>> /\ v[Len(v)].category = registry[k].category
  /\ \A j \in 1 .. Len(v) : v[j].suites = UpTo(registry, InIt(v[j].category))[k]
  /\ \A i, j \in 1 .. Len(v) : i # j => v[i].category # v[j].category
  /\ \A j \in 1 .. Len(v) : \E i \in 1 .. k : registry[i].category = v[j].category
  /\ \A i \in 1 .. k : \E j \in 1 .. Len(v) : v[j].category = registry[i].category

(* In link order a category that has ended does not come again, so no      *)
(* heading does.                                                           *)
LEMMA GroupedLists ==
  ASSUME RegistryOK, \A i \in DOMAIN registry : registry[i].category = Files[tool][i].category
  PROVE  Grouped \in Seq(Groups) /\ ListsThem(Grouped, Len(registry))
<1> DEFINE R == Range(registry)
           n == Len(registry)
           u == GroupedUpTo
           T == {k \in 0 .. n : ListsThem(u[k], k)}
<1>1. n \in Nat /\ DOMAIN registry = 1 .. n /\ registry \in Seq(R) /\ \A i \in 1 .. n : registry[i] \in R
  <2>1. registry \in Seq(R) /\ n \in Nat /\ DOMAIN registry = 1 .. n
    BY DEF RegistryOK
  <2> QED BY <2>1 DEF Range
<1>2. \A i \in 1 .. n : registry[i].category \in Categories(tool)
  BY <1>1 DEF RegistryOK, Categories
<1>3. /\ Grouped = u[n] /\ u \in [0 .. n -> Seq(Groups)] /\ u[0] = <<>>
      /\ \A i \in 1 .. n : u[i] = Regroup(u[i-1], registry[i])
  BY GroupedSteps
<1>4. \A i, j, k \in 1 .. n : i < j /\ j < k /\ registry[i].category = registry[k].category
        => registry[j].category = registry[i].category
  <2>1. tool \in DOMAIN Files /\ Len(registry) <= Len(Files[tool]) /\ Len(Files[tool]) \in Nat /\ DOMAIN Files[tool] = 1 .. Len(Files[tool])
    BY RegistrySize DEF RegistryOK
  <2>2. 1 .. n \subseteq DOMAIN Files[tool]
    BY <1>1, <2>1
  <2>3. \A i, j, k \in DOMAIN Files[tool] :
          i < j /\ j < k /\ Files[tool][i].category = Files[tool][k].category
            => Files[tool][j].category = Files[tool][i].category
    BY <2>1, SuiteTree
  <2>4. \A i \in 1 .. n : registry[i].category = Files[tool][i].category
    BY <1>1
  <2> HIDE DEF n
  <2> QED BY <2>2, <2>3, <2>4
<1>5. ASSUME NEW c
      PROVE  \A i \in 1 .. n : /\ UpTo(registry, InIt(c))[i-1] \in Seq(R)
                               /\ registry[i].category = c => UpTo(registry, InIt(c))[i] = Append(UpTo(registry, InIt(c))[i-1], registry[i])
                               /\ registry[i].category # c => UpTo(registry, InIt(c))[i] = UpTo(registry, InIt(c))[i-1]
  <2> DEFINE w == UpTo(registry, InIt(c))
  <2>1. w \in [0 .. n -> Seq(R)] /\ \A i \in 1 .. n : w[i] = IF registry[i] \in InIt(c) THEN Append(w[i-1], registry[i]) ELSE w[i-1]
    <3> DEFINE S == InIt(c)
    <3> HIDE DEF S
    <3>1. UpTo(registry, S) \in [0 .. n -> Seq(R)]
      BY <1>1, SelectedSteps
    <3>2. \A i \in 1 .. n : UpTo(registry, S)[i] = IF registry[i] \in S THEN Append(UpTo(registry, S)[i-1], registry[i])
                                                    ELSE UpTo(registry, S)[i-1]
      BY <1>1, SelectedSteps
    <3> QED BY <3>1, <3>2 DEF S
  <2>2. \A i \in 1 .. n : registry[i] \in InIt(c) <=> registry[i].category = c
    BY <1>1 DEF InIt
  <2>3. \A i \in 1 .. n : i - 1 \in 0 .. n
    BY <1>1
  <2> HIDE DEF w
  <2>4. \A i \in 1 .. n : /\ w[i-1] \in Seq(R)
                          /\ registry[i].category = c => w[i] = Append(w[i-1], registry[i])
                          /\ registry[i].category # c => w[i] = w[i-1]
    BY <2>1, <2>2, <2>3
  <2> QED BY <2>4 DEF w
<1>6. 0 \in T
  <2>1. u[0] = <<>> /\ Len(u[0]) = 0
    BY <1>3
  <2> HIDE DEF u
  <2> QED BY <1>1, <2>1 DEF ListsThem
<1>7. ASSUME NEW k \in 1 .. n, k - 1 \in T PROVE k \in T
  <2> DEFINE v == u[k-1]
             s == registry[k]
             c == s.category
             m == Len(v)
             w == u[k]
  <2>1. /\ v \in Seq(Groups) /\ m \in Nat /\ ListsThem(v, k - 1) /\ w = Regroup(v, s)
        /\ s \in R /\ c \in Categories(tool) /\ k \in 0 .. n /\ k # 0
    BY <1>1, <1>2, <1>3, <1>7
  <2> HIDE DEF u
  <2>2. /\ \A j \in 1 .. m : v[j].suites = UpTo(registry, InIt(v[j].category))[k-1]
        /\ \A i, j \in 1 .. m : i # j => v[i].category # v[j].category
        /\ \A j \in 1 .. m : \E i \in 1 .. k - 1 : registry[i].category = v[j].category
        /\ \A i \in 1 .. k - 1 : \E j \in 1 .. m : v[j].category = registry[i].category
        /\ k - 1 # 0 => v # <<>> /\ v[m].category = registry[k-1].category
    BY <2>1 DEF ListsThem
  <2>3. \A i \in 1 .. k : i = k \/ i \in 1 .. k - 1
    OBVIOUS
  <2>4. 1 .. k - 1 \subseteq 1 .. k /\ 1 .. k \subseteq 1 .. n /\ k \in 1 .. k
    BY <1>1
  <2>5. CASE v = <<>> \/ v[m].category # c
    <3>1. /\ Len(w) = m + 1 /\ w[m + 1] = Group(<<s>>, c) /\ \A j \in 1 .. m : w[j] = v[j]
          /\ w # <<>>
      <4> HIDE DEF v, s, w
      <4> QED BY <2>1, <2>5, RegroupType
    <3>2. w[m + 1].suites = <<s>> /\ w[m + 1].category = c
      BY <3>1 DEF Group
    <3>3. \A i \in 1 .. k - 1 : registry[i].category # c
      <4> SUFFICES ASSUME NEW i \in 1 .. k - 1, registry[i].category = c PROVE FALSE
        OBVIOUS
      <4>1. k - 1 # 0 /\ k - 1 \in 1 .. n /\ i \in 1 .. n
        BY <1>1
      <4>2. registry[k-1].category # c
        BY <2>2, <2>5, <4>1
      <4>3. i < k - 1
        BY <4>1, <4>2
      <4>4. k - 1 < k /\ registry[i].category = registry[k].category
        OBVIOUS
      <4> QED BY <1>4, <4>1, <4>2, <4>3, <4>4
    <3>4. \A j \in 1 .. m : v[j].category # c
      BY <2>2, <3>3
    <3>5. UpTo(registry, InIt(c))[k] = <<s>>
      <4>1. \A i \in 1 .. k - 1 : registry[i] \notin InIt(c)
        BY <3>3 DEF InIt
      <4>2. k - 1 \in 0 .. n
        BY <1>1
      <4>3. UpTo(registry, InIt(c))[k-1] = <<>>
        BY <1>1, <4>1, <4>2, UpToNone
      <4>4. UpTo(registry, InIt(c))[k] = Append(<<>>, s)
        BY <1>5, <4>3
      <4> QED BY <4>4
    <3>6. \A j \in 1 .. m : v[j].suites = UpTo(registry, InIt(v[j].category))[k]
      <4> SUFFICES ASSUME NEW j \in 1 .. m PROVE v[j].suites = UpTo(registry, InIt(v[j].category))[k]
        OBVIOUS
      <4>1. UpTo(registry, InIt(v[j].category))[k] = UpTo(registry, InIt(v[j].category))[k-1]
        BY <1>5, <3>4
      <4> QED BY <2>2, <4>1
    <3> HIDE DEF v, w, s, c, m
    <3>7. \A j \in 1 .. m + 1 : j = m + 1 \/ j \in 1 .. m
      BY <2>1
    <3>8. \A j \in 1 .. m + 1 : w[j].suites = UpTo(registry, InIt(w[j].category))[k]
      BY <3>1, <3>2, <3>5, <3>6, <3>7
    <3>9. \A i, j \in 1 .. m + 1 : i # j => w[i].category # w[j].category
      <4> SUFFICES ASSUME NEW i \in 1 .. m + 1, NEW j \in 1 .. m + 1, i # j
                   PROVE  w[i].category # w[j].category
        OBVIOUS
      <4>1. CASE i \in 1 .. m /\ j \in 1 .. m
        <5>1. w[i] = v[i] /\ w[j] = v[j]
          BY <4>1, <3>1
        <5>2. v[i].category # v[j].category
          BY <4>1, <2>2
        <5> QED BY <5>1, <5>2
      <4>2. CASE i = m + 1
        BY <4>2, <3>1, <3>2, <3>4, <3>7
      <4>3. CASE j = m + 1
        BY <4>3, <3>1, <3>2, <3>4, <3>7
      <4> QED BY <4>1, <4>2, <4>3, <3>7
    <3>10. \A j \in 1 .. m + 1 : \E i \in 1 .. k : registry[i].category = w[j].category
      <4> SUFFICES ASSUME NEW j \in 1 .. m + 1 PROVE \E i \in 1 .. k : registry[i].category = w[j].category
        OBVIOUS
      <4>1. CASE j = m + 1
        BY <4>1, <2>4, <3>2 DEF c, s
      <4>2. CASE j \in 1 .. m
        <5>1. w[j] = v[j]
          BY <4>2, <3>1
        <5>2. PICK i \in 1 .. k - 1 : registry[i].category = v[j].category
          BY <4>2, <2>2
        <5>3. i \in 1 .. k
          BY <2>4
        <5> QED BY <5>1, <5>2, <5>3
      <4> QED BY <4>1, <4>2, <3>7
    <3>11. \A i \in 1 .. k : \E j \in 1 .. m + 1 : w[j].category = registry[i].category
      <4> SUFFICES ASSUME NEW i \in 1 .. k PROVE \E j \in 1 .. m + 1 : w[j].category = registry[i].category
        OBVIOUS
      <4>1. CASE i = k
        <5>1. m + 1 \in 1 .. m + 1
          BY <2>1
        <5> QED BY <4>1, <5>1, <3>2 DEF c, s
      <4>2. CASE i \in 1 .. k - 1
        <5>1. PICK j \in 1 .. m : v[j].category = registry[i].category
          BY <2>2, <4>2
        <5>2. j \in 1 .. m + 1
          BY <2>1
        <5> QED BY <5>1, <5>2, <3>1
      <4> QED BY <2>3, <4>1, <4>2
    <3>12. ListsThem(w, k)
      BY <3>1, <3>2, <3>8, <3>9, <3>10, <3>11 DEF ListsThem, c, s
    <3> QED BY <2>1, <3>12 DEF w
  <2>6. CASE ~ (v = <<>> \/ v[m].category # c)
    <3>1. /\ Len(w) = m /\ w[m] = Group(Append(v[m].suites, s), c) /\ \A j \in 1 .. m : j # m => w[j] = v[j]
          /\ w # <<>>
      <4> HIDE DEF v, s, w
      <4> QED BY <2>1, <2>6, RegroupType
    <3>2. m \in 1 .. m
      BY <2>1, <2>6
    <3>3. w[m].suites = Append(v[m].suites, s) /\ w[m].category = c /\ v[m].category = c
      <4>1. v[m].category = c
        BY <2>6
      <4> HIDE DEF v, w, s, c
      <4> QED BY <3>1, <4>1 DEF Group
    <3>4. \A j \in 1 .. m : j # m => v[j].category # c
      <4>1. \A i, j \in 1 .. m : i # j => v[i].category # v[j].category
        BY <2>2
      <4>2. v[m].category = c
        BY <3>3
      <4> HIDE DEF v, c, m
      <4> QED BY <3>2, <4>1, <4>2
    <3>5. UpTo(registry, InIt(c))[k] = Append(v[m].suites, s)
      <4>1. v[m].suites = UpTo(registry, InIt(c))[k-1]
        <5>1. \A j \in 1 .. m : v[j].suites = UpTo(registry, InIt(v[j].category))[k-1]
          BY <2>2
        <5>2. v[m].suites = UpTo(registry, InIt(v[m].category))[k-1]
          <6> HIDE DEF v, c, m
          <6> QED BY <3>2, <5>1
        <5>3. v[m].category = c
          BY <3>3
        <5> HIDE DEF v, c, m
        <5> QED BY <5>2, <5>3
      <4> QED BY <1>5, <4>1
    <3>6. \A j \in 1 .. m : j # m => v[j].suites = UpTo(registry, InIt(v[j].category))[k]
      <4> SUFFICES ASSUME NEW j \in 1 .. m, j # m PROVE v[j].suites = UpTo(registry, InIt(v[j].category))[k]
        OBVIOUS
      <4>1. UpTo(registry, InIt(v[j].category))[k] = UpTo(registry, InIt(v[j].category))[k-1]
        BY <1>5, <3>4
      <4> QED BY <2>2, <4>1
    <3> HIDE DEF v, w, s, c, m
    <3>7. \A j \in 1 .. m : w[j].category = v[j].category
      BY <3>1, <3>3
    <3>8. \A j \in 1 .. m : w[j].suites = UpTo(registry, InIt(w[j].category))[k]
      BY <3>1, <3>3, <3>5, <3>6
    <3>9. \A i, j \in 1 .. m : i # j => w[i].category # w[j].category
      BY <2>2, <3>7
    <3>10. \A j \in 1 .. m : \E i \in 1 .. k : registry[i].category = w[j].category
      BY <2>2, <2>4, <3>7
    <3>11. \A i \in 1 .. k : \E j \in 1 .. m : w[j].category = registry[i].category
      <4> SUFFICES ASSUME NEW i \in 1 .. k PROVE \E j \in 1 .. m : w[j].category = registry[i].category
        OBVIOUS
      <4>1. CASE i = k
        BY <4>1, <3>2, <3>3 DEF c, s
      <4>2. CASE i \in 1 .. k - 1
        BY <4>2, <2>2, <3>7
      <4> QED BY <2>3, <4>1, <4>2
    <3>12. ListsThem(w, k)
      BY <3>1, <3>3, <3>8, <3>9, <3>10, <3>11 DEF ListsThem, c, s
    <3> QED BY <2>1, <3>12 DEF w
  <2> QED BY <2>5, <2>6
<1> HIDE DEF T
<1>8. \A k \in 0 .. n : k \in T
  BY <1>1, <1>6, <1>7, RangeInduction
<1>9. n \in T /\ n \in 0 .. n
  BY <1>1, <1>8
<1>10. ListsThem(u[n], n)
  BY <1>9 DEF T
<1> HIDE DEF u, n
<1>11. u[n] \in Seq(Groups)
  BY <1>3, <1>9
<1> QED BY <1>3, <1>10, <1>11 DEF n

---------------------------------------------------------------------------
(* The theorems.                                                           *)

(* Before anything is registered.                                          *)
LEMMA InitSInv == Init => SInv
<1> SUFFICES ASSUME Init PROVE SInv
  OBVIOUS
<1> USE DEF Init
<1>1. DOMAIN registry = {} /\ Range(registry) = {} /\ Len(registry) = 0 /\ \A X : <<>> \in Seq(X)
  BY DEF Range
<1>2. RegistryOK
  BY <1>1 DEF RegistryOK
<1>3. IdsOK
  BY <1>1 DEF IdsOK
<1>4. PhaseOK
  BY DEF PhaseOK, Running
<1>5. RunOK
  BY <1>1 DEF RunOK, Running
<1>6. TallyOK
  <2>1. Crosses = {}
    BY DEF Crosses
  <2>2. Cardinality(Crosses) = 0
    BY <2>1, FS_EmptySet
  <2> QED BY <1>1, <2>1, <2>2 DEF TallyOK
<1> QED BY <1>2, <1>3, <1>4, <1>5, <1>6 DEF SInv

(* The invariant of the two runners.                                       *)
THEOREM SuitesInvariant == Spec => []SInv
<1>1. SInv /\ [Next]_vars => SInv'
  <2> SUFFICES ASSUME SInv, [Next]_vars PROVE SInv'
    OBVIOUS
  <2>1. RegistryOK'
    BY RegistryStep DEF SInv
  <2>2. IdsOK'
    BY <2>1, IdsStep DEF SInv
  <2> QED BY <2>1, <2>2, PhaseStep, RunStep, TallyStep DEF SInv
<1> QED BY <1>1, InitSInv, PTL DEF Spec

(* In whatever order the files register, an id names one suite, and so does*)
(* a name (registry.h:40-63).                                              *)
THEOREM IdsDistinctCorrect == Spec => []IdsAreDistinct
<1>1. SInv => IdsAreDistinct
  BY DEF SInv, RegistryOK, IdsOK, IdsAreDistinct
<1> QED BY <1>1, SuitesInvariant, PTL

(* Every call runs what its argument asks for, each suite once and in the  *)
(* registry's order, and says by its status whether there was any          *)
(* (example_main.cpp:9-57, test_main.cpp:7-60).                            *)
THEOREM RunsCorrect == Spec => []RunsWhatWasAsked
<1>1. SInv => RunsWhatWasAsked
  BY DEF SInv, PhaseOK, RunOK, RunsWhatWasAsked, Asked
<1> QED BY <1>1, SuitesInvariant, PTL

(* What list prints when the files registered in link order has a heading  *)
(* for every category, each once, with all its suites under it.            *)
THEOREM ListedOnceCorrect == Spec => []CategoriesListedOnce
<1>1. SInv => CategoriesListedOnce
  <2> SUFFICES ASSUME SInv, listed # <<>>,
                      \A i \in DOMAIN registry : registry[i].category = Files[tool][i].category
               PROVE  /\ Len(listed) = Cardinality(Categories(tool))
                      /\ \A g \in Range(listed) :
                           g.suites = Selected(registry, {s \in Range(registry) : s.category = g.category})
    BY DEF CategoriesListedOnce
  <2>1. listed = Grouped /\ Pending = {} /\ RegistryOK
    BY DEF SInv, PhaseOK
  <2> DEFINE m == Len(listed)
             n == Len(registry)
             head == [j \in 1 .. m |-> listed[j].category]
             C == Categories(tool)
  <2>2. /\ listed \in Seq(Groups) /\ m \in Nat /\ DOMAIN listed = 1 .. m
        /\ \A j \in 1 .. m : listed[j].suites = UpTo(registry, InIt(listed[j].category))[n]
        /\ \A i, j \in 1 .. m : i # j => listed[i].category # listed[j].category
        /\ \A i \in 1 .. n : \E j \in 1 .. m : listed[j].category = registry[i].category
    <3>1. listed \in Seq(Groups) /\ ListsThem(listed, n)
      BY <2>1, GroupedLists
    <3>2. m \in Nat /\ DOMAIN listed = 1 .. m
      BY <3>1
    <3> QED BY <3>1, <3>2 DEF ListsThem
  <2>3. registry \in Seq(Range(registry)) /\ n \in Nat /\ DOMAIN registry = 1 .. n
    BY <2>1 DEF RegistryOK
  <2>4. ASSUME NEW g \in Range(listed)
        PROVE  g.suites = Selected(registry, {s \in Range(registry) : s.category = g.category})
    <3>1. PICK j \in 1 .. m : listed[j] = g
      BY <2>2 DEF Range
    <3>2. g.suites = UpTo(registry, InIt(g.category))[n]
      BY <2>2, <3>1
    <3>3. Selected(registry, InIt(g.category)) = UpTo(registry, InIt(g.category))[n]
      BY <2>3, SelectedSteps
    <3> QED BY <3>2, <3>3 DEF InIt
  <2>5. \A j \in 1 .. m : listed[j].category \in C
    <3>1. \A j \in 1 .. m : listed[j] \in Groups
      BY <2>2
    <3> QED BY <3>1 DEF Groups
  <2>6. \A c \in C : \E j \in 1 .. m : listed[j].category = c
    <3> SUFFICES ASSUME NEW c \in C PROVE \E j \in 1 .. m : listed[j].category = c
      OBVIOUS
    <3>1. PICK f \in Range(Files[tool]) : f.category = c
      BY DEF Categories
    <3>2. PICK s \in Range(registry) : s.category = c
      BY <2>1, <3>1 DEF Pending
    <3>3. PICK i \in 1 .. n : registry[i] = s
      BY <2>3 DEF Range
    <3> QED BY <2>2, <3>2, <3>3
  <2>7. head \in Bijection(1 .. m, C)
    <3> HIDE DEF m, C
    <3>1. head \in [1 .. m -> C]
      BY <2>5
    <3>2. \A j \in 1 .. m : head[j] = listed[j].category
      OBVIOUS
    <3> HIDE DEF head
    <3>3. \A i, j \in 1 .. m : i # j => head[i] # head[j]
      BY <2>2, <3>2
    <3>4. \A c \in C : \E j \in 1 .. m : head[j] = c
      BY <2>6, <3>2
    <3> QED BY <3>1, <3>3, <3>4 DEF Bijection, Injection, Surjection, IsInjective
  <2>8. m = Cardinality(C)
    <3> HIDE DEF m, C, head
    <3>1. IsFiniteSet(1 .. m) /\ Cardinality(1 .. m) = m
      BY <2>2, FS_Interval
    <3>2. ExistsBijection(1 .. m, C)
      BY <2>7 DEF ExistsBijection
    <3> QED BY <3>1, <3>2, FS_Bijection
  <2> QED BY <2>4, <2>8
<1> QED BY <1>1, SuitesInvariant, PTL

(* The counts a test run ends with are those of its lines (macros.h:10-13, *)
(* helpers.h:148-153).                                                     *)
THEOREM TallyCorrect == Spec => []TallyIsTrue
<1>1. SInv => TallyIsTrue
  <2> SUFFICES ASSUME SInv, pc \in {"suite", "exit"} PROVE TallyIsTrue
    BY DEF TallyIsTrue
  <2>1. /\ marks \in Seq(BOOLEAN)
        /\ (fail = 0) = (Crosses = {}) /\ Cardinality(Crosses) <= fail
        /\ total <= pass + fail /\ pass + fail <= total + Cardinality(Crosses)
    BY DEF SInv, TallyOK
  <2>2. Len(marks) \in Nat /\ Crosses \subseteq 1 .. Len(marks)
    BY <2>1 DEF Crosses
  <2>3. IsFiniteSet(1 .. Len(marks))
    BY <2>2, FS_Interval
  <2>4. IsFiniteSet(Crosses)
    BY <2>2, <2>3, FS_Subset
  <2>5. Crosses = {} <=> Cardinality(Crosses) = 0
    BY <2>4, FS_EmptySet
  <2> QED BY <2>1, <2>5 DEF TallyIsTrue, Crosses
<1> QED BY <1>1, SuitesInvariant, PTL

=============================================================================
