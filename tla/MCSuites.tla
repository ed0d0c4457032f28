--------------------------------- MODULE MCSuites --------------------------------
(* Four files of each tool, in two and three categories.                   *)
EXTENDS Suites, TLC

File(c, n) == [category |-> <<c>>, name |-> n]

MCFiles ==
  [tests    |-> <<File("lifecycle", <<"construction">>), File("lifecycle", <<"move", "_", "semantics">>),
                  File("unit", <<"allocate">>), File("unit", <<"allocate", "_", "batch">>)>>,
   examples |-> <<File("advanced", <<"reset", "_", "cycle">>), File("misuse", <<"double", "_", "free">>), File("misuse", <<"out", "_", "of", "_", "space">>),
                  File("quickstart", <<"basic", "_", "usage">>)>>]

MCLetter == (<<"lifecycle">> :> "l") @@ (<<"unit">> :> "u") @@ (<<"misuse">> :> "m")
              @@ (<<"quickstart">> :> "q") @@ (<<"advanced">> :> "a")

MCNumeral == [n \in 1 .. 4 |-> ToString(n)]

Common == {<<>>, <<"-h">>, <<"list">>, <<"nothing">>}

MCRequests ==
  [tests    |-> Common \cup {<<"unit">>, <<"lifecycle">>, <<"u", "2">>, <<"l", "1">>, <<"l", "3">>,
                             <<"allocate">>, <<"allocate", "_", "batch">>, <<"allocate", " ", "batch">>},
   examples |-> Common \cup {<<"misuse">>, <<"advanced">>, <<"m", "1">>, <<"q", "1">>, <<"q", "2">>,
                             <<"double", "_", "free">>, <<"out", "_", "of", " ", "space">>}]
=============================================================================
