------------------------------- MODULE MCRegression ------------------------------
(* Three methods, one of two words; three tagged folders, one with a suffix. *)
EXTENDS Regression

PushBack == <<Text("P", 1), Text("B", 1)>>
Pop      == <<Text("P", 2)>>
Reset    == <<Text("R", 1)>>

MCSpelling == <<Pop, PushBack, Reset>>

Entry(name, iter, ns) == [name |-> name, iter |-> iter, ns |-> ns]

MCResults ==
  [custom |-> {<<Entry(Reset, 1, 200), Entry(PushBack, 1, 200), Entry(PushBack, 2, 300), Entry(Pop, 1, 0)>>,
               <<Entry(PushBack, 1, 201), Entry(Reset, 1, 0)>>},
   google |-> {<<Entry(Reset, 1, 200), Entry(PushBack, 1, 200), Entry(Pop, 1, 0)>>,
               <<Entry(PushBack, 2, 201), Entry(Pop, 1, 5)>>}]

V1  == Tag(1, 0)
V1r == Tag(1, 1)
V2  == Tag(2, 0)

MCDirectories ==
  LET with(t) == {File(r) : r \in MCResults[t]} \cup {Missing}
  IN  [t \in {"custom", "google"} |->
         [{V1, V1r} -> with(t)]
           \cup [{V1, Text("o", 1)} -> {File(r) : r \in MCResults[t]}]
           \cup [{V1, Tag(-1, 1)} -> with(t)]
           \cup {<<>>}]

MCNewFolders == {V2}

MCCommandLines ==
  {<<Command("list")>>, <<Command("help")>>, <<Command("methods")>>, <<Command("methods"), V1>>,
   <<>>, <<V1>>, <<V1, V2>>, <<V2, V1>>, <<V1, V1>>, <<V1r>>, <<Id("P", 2)>>, <<V1, Id("P", 2)>>,
   PushBack, <<V1>> \o PushBack, <<V1, V1>> \o PushBack, <<V2, V1, Id("R", 1)>>}
=============================================================================
