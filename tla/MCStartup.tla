------------------------------ MODULE MCStartup ------------------------------
(* Words, command lines and addresses for Startup. *)
EXTENDS Startup, TLC

MCWords == STRING
MCSizeText ==
  "0" :> 0 @@ "1" :> 1 @@ "2" :> 2 @@ "3" :> 3 @@ "5" :> 5 @@ "10" :> 10 @@ "30" :> 30
    @@ "100" :> 100 @@ "1000" :> 1000 @@ "2000" :> 2000 @@ "0x2" :> 2
MCStoulText ==
  "0" :> 0 @@ "1" :> 1 @@ "2" :> 2 @@ "6" :> 6 @@ "0x2" :> 0 @@ "2x" :> 2
    @@ "-1" :> -1 @@ "-2000" :> -2000
MCDoubleText == "1.0" :> 10 @@ "0.5" :> 5 @@ "0.8" :> 8 @@ "2" :> 20

\* Texts: List(<<a, b>>) is a,b and a client's sizes are one piece.
List(ws) == [i \in DOMAIN ws |-> <<ws[i]>>]
Set(option, style, text) == [option |-> option, style |-> style, text |-> text]
Flag(option) == Set(option, "flag", Word("true"))

\* The settings of a run: tiers, patterns, the clients' sizes and the server's.
Setup(style, tiers, patterns, clientSizes, sizes) ==
  << Set("num-tiers", style, Word(tiers)), Set("patterns", style, List(patterns)),
     Set("client-tier-sizes", style, clientSizes), Set("mem-sizes", style, List(sizes)),
     Set("running-time", IF style = "equals" THEN "equals" ELSE "next", Word("1")) >>

TwoClients(style) ==
  Setup(style, "3", <<"uniform", "hot">>, << <<"1", "1", "0">>, <<"2", "0", "1">> >>,
        <<"3", "1", "2">>)
OneClient(pattern, tiers, clientSizes, sizes) ==
  Setup("next", tiers, <<pattern>>, <<clientSizes>>, sizes)
Both(first, second) ==
  Setup("next", "3", <<"uniform", "zipfian">>, <<first, second>>, <<"2", "2", "2">>)

MCSpellings ==
  {TwoClients(style) : style \in {"equals", "next", "short", "rest"}}
  \cup
  {TwoClients("next") \o extra : extra \in
     { <<Flag("cache-ring"), Set("cache-ring", "equals", Word("f"))>>,
       <<Flag("cache-ring"), Set("policy-type", "next", Word("hybrid"))>>,
       <<Set("ratio", "rest", Word("0.8")), Set("policy-type", "equals", Word("frequency"))>>,
       <<Set("num-tiers", "rest", Word("5"))>>, <<Set("num-tiers", "equals", Word("2"))>>,
       <<Set("policy-type", "next", Word("fifo"))>>,
       <<Set("patterns", "next", List(<<"uniform", "">>))>>,
       <<Set("buffer-size", "equals", Word("2000"))>>, <<Set("buffer-size", "next", Word("-1"))>>,
       <<Set("mem-sizes", "next", List(<<"1", "">>))>>, <<Set("mem-sizes", "next", List(<<"">>))>>,
       <<Flag("help")>> } }
  \cup
  { SubSeq(TwoClients("next"), 1, n) : n \in 0 .. 4 }
  \cup
  { SelectSeq(TwoClients("equals"), LAMBDA s : s.option # missing) :
      missing \in {"patterns", "mem-sizes"} }
  \cup
  { << Set("mem-sizes", "rest", List(<<"2">>)), Set("patterns", "short", List(<<"hot">>)),
       Set("client-tier-sizes", "equals", << <<"0", "2", "">> >>),
       Set("num-tiers", "short", Word("2")), Set("mem-sizes", "equals", List(<<"0x2", "1", "">>)),
       Set("running-time", "next", Word("1")), Set("num-tiers", "rest", Word("3")) >> }
  \cup
  { OneClient("uniform", "2", sizes, <<"2", "1">>) : sizes \in {<<"2", "0">>, <<"1", "1">>, <<"0", "0">>} }
  \cup
  { OneClient("hot", "3", sizes, <<"6", "2", "1">>) :
      sizes \in {<<"6", "0", "0">>, <<"0", "0", "0">>, <<"0x2", "2x", "0">>, <<"1", "">>,
                 <<"1", "x", "1">>, <<"-2000", "0", "0">>} }
  \cup
  { OneClient("skewed", "3", <<"1", "1", "1">>, <<"2", "2", "2">>) }
  \cup
  { Both(<<"1", "0", "1">>, <<"0", "0", "0">>), Both(<<"0", "0", "0">>, <<"0", "2", "0">>),
    Both(<<"2", "0", "0">>, <<"-1", "0", "1">>), Both(<<"0", "-1", "0">>, <<"0", "2", "0">>),
    Both(<<"1", "0", "1">>, <<"2", "0", "0">>) }
  \cup
  { Append(Both(first, second), Flag("cache-ring")) :
      first \in { <<"2", "0", "0">>, <<"-1", "0", "1">> },
      second \in { <<"-1", "0", "1">>, <<"0", "1", "1">>, <<"2", "0", "0">> } }

Letter(l) == Group(<<l>>, <<>>)

MCOtherArgvs ==
  { Spelled(TwoClients("next")) \o more : more \in
      { <<Long("cache-ring", NoText), Plain(Word("false"))>>,
        <<DashDash, Long("num-tiers", Word("2")), Plain(Word("x"))>>,
        <<Malformed>>, <<Long("hot-access-cnt", NoText), Plain(Word("10"))>>,
        <<Long("output", NoText)>>, <<Long("output", NoText), Long("help", NoText)>>,
        <<Group(<<"b", "x">>, <<Word("5")>>)>>,
        <<Group(<<"h", "t">>, <<Word("t")>>), Plain(Word("3"))>>,
        <<Letter("m"), Plain(Word("100"))>> } }

\* Two tiers, and clients that fit into them.
TwoTierSetup == {OneClient("uniform", "2", <<"1", "1">>, <<"2", "1">>)}
ThreeTierSetup == {TwoClients("next")}
NoArgvs == {}

MCBases == {4, 7, 10, 12}

=============================================================================
