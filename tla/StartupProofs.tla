---------------------------- MODULE StartupProofs ----------------------------
(***************************************************************************)
(* Whatever the command line says and whatever sums wrap, the program that *)
(* comes to serve requests has a table that fits its tiers, its memory and *)
(* its clients.                                                            *)
(***************************************************************************)
EXTENDS Startup, Recursion, SequenceTheorems

(* The inductive invariant                                                 *)

ParseStages == {"args", "parsed"}
EarlyStages == {"args", "parsed", "server", "clients", "validate"}
FittedStages == {"construct", "allocate", "content", "fill", "serve"}
BuiltStages == FittedStages \ {"construct"}
FilledStages == {"fill", "serve"}
EndStages == {"threw", "exit", "crashed", "asserted"}
StageInv == stage \in EarlyStages \cup FittedStages \cup EndStages

\* What an option holds, by its kind.
ValueFits(o, value) ==
  /\ o \in SizeOptions => value \in 0 .. SizeMax
  /\ o \in FlagOptions => value \in BOOLEAN
  /\ o \in SizeListOptions => value \in Seq(0 .. SizeMax)
  /\ o \in TextListOptions => value \in Seq(Pieces) \ {<<>>}

ArgsInv ==
  /\ argv \in Seq(ArgElements)
  /\ current \in 1 .. Len(argv) + 1 /\ letter \in Nat \ {0}
  /\ letter > 1 => current <= Len(argv) /\ Arg.kind = "group" /\ letter <= Len(Arg.letters)
  /\ count \in [Options -> Nat]
  /\ DOMAIN stored \subseteq Options
  /\ \A o \in DOMAIN stored : ValueFits(o, stored[o])
  /\ stage \notin {"args", "threw"} => DOMAIN Default \subseteq DOMAIN stored

ClientConfigs == [pattern : Patterns, sizes : [1 .. numTiers -> 0 .. SizeMax]]

ConfigInv ==
  /\ numTiers \in {0, 2, 3} /\ capacity \in [Layers -> 0 .. SizeMax]
  /\ useRing \in BOOLEAN /\ exitCode \in {0, 1, 134}
  /\ clients \in Seq(ClientConfigs)
  /\ stage \in ParseStages \cup {"server"} => clients = <<>>
  /\ stage = "clients" /\ clients # <<>> => Len(clients) <= Len(stored["patterns"])
  /\ stage \in {"server", "clients", "validate"} \cup FittedStages => numTiers \in {2, 3}
  /\ stage \in {"clients", "validate"} \cup FittedStages =>
       (numTiers = 2 => capacity["remote"] = 0)
  /\ stage \in {"validate"} \cup FittedStages => clients # <<>>
  /\ stage \in FittedStages => \A i \in 1 .. numTiers : TierTotal(i) <= TierLimit(i)

LoadInv ==
  /\ load \in [Layers -> 0 .. SizeMax]
  /\ \A i \in DOMAIN basePageId : basePageId[i] \in 0 .. SizeMax
  /\ stage \in BuiltStages =>
       /\ basePageId = [i \in DOMAIN clients |-> WrappedSum(AllPages, i - 1)]
       /\ load = [l \in Layers |-> WrappedSum(AllPagesIn(l), Len(clients))]

\* The regions are apart, and together they are the memory.
Allocated == {l \in Layers : region[l] # 0}
Turn(l) == CASE l = "local" -> 1 [] l = "remote" -> 2 [] OTHER -> 3

MemoryInv ==
  /\ tier \in 1 .. 3 /\ region \in [Layers -> Nat]
  /\ stage \in BuiltStages => (numTiers = 2 => tier # 2 /\ region["remote"] = 0)
  /\ \A l, k \in Allocated : l # k => Addresses(l) \cap Addresses(k) = {}
  /\ stage # "exit" => mapped = UNION {Addresses(l) : l \in Allocated}
  /\ stage = "exit" /\ exitCode = 0 => mapped = {}
  /\ stage \in ParseStages \cup {"server", "clients", "validate", "construct"} =>
       tier = 1 /\ Allocated = {}
  /\ stage = "allocate" => \A l \in Allocated : Turn(l) < tier
  /\ stage \in {"allocate", "content", "fill", "serve"} => \A l \in Allocated : load[l] > 0

ContentInv ==
  /\ stage \in ParseStages \cup {"server", "clients", "validate", "construct", "allocate"} =>
       written = {}
  /\ stage = "content" =>
       LET done == {l \in Tiers : Turn(l) < tier}
       IN  /\ written = UNION {Addresses(l) : l \in done}
           /\ \A l \in done : load[l] > 0 => region[l] # 0
  /\ stage \in FilledStages =>
       /\ written = UNION {Addresses(l) : l \in Tiers}
       /\ \A l \in Tiers : load[l] > 0 => region[l] # 0

\* The pages of a client lie in the table from its base on, tier by tier, and
\* the addresses of a tier are taken in order.
Base(i) == WrappedSum(AllPages, i - 1)
Offset(c, l) ==
  CASE l = "local" -> 0
    [] l = "remote" -> PagesIn(c, "local")
    [] OTHER -> PagesIn(c, "local") + PagesIn(c, "remote")
Held(l) == region[l] .. region[l] + placed[l] - 1

RangesInv ==
  \A i \in 1 .. filledFor : 
    /\ Base(i) + PagesOf(clients[i]) <= Len(table)
    /\ \A l \in Layers : \A k \in 1 .. PagesIn(clients[i], l) :
         table[Base(i) + Offset(clients[i], l) + k].layer = l

AddressInv ==
  /\ \A p \in DOMAIN table : table[p].addr \in Held(table[p].layer)
  /\ \A p, q \in DOMAIN table :
       p # q /\ table[p].layer = table[q].layer => table[p].addr # table[q].addr
  /\ \A l \in Layers : \A a \in Held(l) : \E p \in PagesWith(l) : table[p].addr = a

Filled ==
  /\ Len(table) = WrappedSum(AllPages, filledFor)
  /\ Len(table) = placed["local"] + placed["remote"] + placed["pmem"]
  /\ \A l \in Layers : placed[l] = WrappedSum(AllPagesIn(l), filledFor)
  /\ numTiers = 2 => placed["remote"] = 0
  /\ RangesInv /\ AddressInv

TableInv ==
  /\ table \in Seq(Entry) /\ Len(table) <= TableLimit
  /\ placed \in [Layers -> 0 .. TableLimit]
  /\ filledFor \in 0 .. Len(clients)
  /\ stage \notin FilledStages \cup EndStages =>
       table = <<>> /\ filledFor = 0 /\ placed = [l \in Layers |-> 0]
  /\ stage \in FilledStages => Filled

ReachInv ==
  /\ reach \in Seq(SUBSET Nat)
  /\ stage \notin {"serve"} \cup EndStages => last = None /\ advised = {}
  /\ stage \notin FilledStages \cup EndStages => reach = <<>>
  /\ reach # <<>> /\ stage \in FilledStages => filledFor = Len(clients)
  /\ stage = "fill" => Len(reach) < Len(clients)
  /\ stage = "serve" => Len(reach) = Len(clients) /\ filledFor = Len(clients)
  /\ stage \in FilledStages =>
       \A i \in DOMAIN reach : 
         PagesOf(clients[i]) > 0 => reach[i] \subseteq 0 .. PagesOf(clients[i]) - 1

StartupInv ==
  /\ StageInv /\ ArgsInv /\ ConfigInv /\ LoadInv /\ MemoryInv /\ ContentInv /\ TableInv /\ ReachInv
  /\ OwnPagesOnly /\ AdviceCoversTiers

-----------------------------------------------------------------------------
(* Sums                                                                    *)

LEMMA SizeFacts == SizeMax \in Nat /\ SizeMod \in Nat \ {0} /\ SizeMod = SizeMax + 1
BY OptionValuesAssumption DEF SizeMod

\* WrappedSum adds one number after the other.
LEMMA SumSteps ==
  ASSUME NEW m \in Nat, NEW f \in [1 .. m -> Nat]
  PROVE  /\ WrappedSum(f, 0) = 0
         /\ \A n \in 0 .. m - 1 : WrappedSum(f, n + 1) = (WrappedSum(f, n) + f[n + 1]) % SizeMod
         /\ \A n \in 0 .. m : WrappedSum(f, n) \in 0 .. SizeMax
<1> DEFINE D == 0 .. SizeMax
           more(k) == IF k < m THEN f[k + 1] ELSE 0
           add == [k \in Nat |-> [d \in D |-> (d + more(k)) % SizeMod]]
<1>1. 0 \in D /\ add \in [Nat -> [D -> D]]
  <2>1. ASSUME NEW k \in Nat, NEW d \in D PROVE (d + more(k)) % SizeMod \in D
    <3>1. d \in Nat /\ more(k) \in Nat
      BY SizeFacts
    <3> HIDE DEF more
    <3> QED BY <3>1, SizeFacts
  <2> HIDE DEF more
  <2> QED BY <2>1, SizeFacts
<1>2. PICK w \in [0 .. m -> D] : Follows(w, 0, add, m)
  <2> HIDE DEF D, add
  <2> QED BY <1>1, SomeWay
<1> HIDE DEF add
<1>3. w[0] = 0
  BY <1>2 DEF Follows
<1>4. ASSUME NEW k \in 0 .. m - 1 PROVE w[k + 1] = (w[k] + f[k + 1]) % SizeMod
  <2>1. k \in Nat /\ w[k] \in D /\ w[k + 1] = add[k][w[k]]
    BY <1>2 DEF Follows
  <2> QED BY <2>1 DEF add
<1>5. ASSUME NEW n \in 0 .. m PROVE WrappedSum(f, n) = w[n]
  <2> DEFINE Is(v) == v = [i \in 0 .. n |-> IF i = 0 THEN 0 ELSE (v[i - 1] + f[i]) % SizeMod]
             sum == CHOOSE v : Is(v)
             S == {k \in Nat : k <= n => sum[k] = w[k]}
  <2>1. WrappedSum(f, n) = sum[n]
    BY DEF WrappedSum
  <2>2. Is([i \in 0 .. n |-> w[i]])
    <3>1. ASSUME NEW i \in 1 .. n PROVE w[i] = (w[i - 1] + f[i]) % SizeMod
      <4>1. i - 1 \in 0 .. m - 1 /\ (i - 1) + 1 = i
        OBVIOUS
      <4> QED BY <1>4, <4>1
    <3> QED BY <1>3, <3>1
  <2>3. Is(sum)
    <3> HIDE DEF Is
    <3> QED BY <2>2
  <2>4. sum[0] = 0 /\ \A i \in 1 .. n : sum[i] = (sum[i - 1] + f[i]) % SizeMod
    <3> HIDE DEF sum
    <3> QED BY <2>3
  <2>5. 0 \in S
    BY <1>3, <2>4
  <2>6. ASSUME NEW k \in Nat, k \in S PROVE k + 1 \in S
    <3> HIDE DEF sum
    <3>1. CASE k + 1 <= n
      <4>1. sum[k] = w[k] /\ k + 1 \in 1 .. n /\ k \in 0 .. m - 1 /\ k + 1 - 1 = k
        BY <2>6, <3>1
      <4>2. sum[k + 1] = (sum[k] + f[k + 1]) % SizeMod
        BY <2>4, <4>1
      <4> QED BY <1>4, <4>1, <4>2
    <3> QED BY <3>1
  <2> HIDE DEF S
  <2>7. Nat \subseteq S
    BY <2>5, <2>6, Induction
  <2> HIDE DEF sum
  <2> QED BY <2>1, <2>7 DEF S
<1> QED BY <1>3, <1>4, <1>5

-----------------------------------------------------------------------------
(* The command line                                                        *)

LEMMA SeqMember == ASSUME NEW S, NEW s \in Seq(S), NEW i \in 1 .. Len(s) PROVE s[i] \in S
OBVIOUS

LEMMA WordIsText == ASSUME NEW w \in Words PROVE Word(w) \in Texts
<1>1. <<w>> \in Pieces
  BY DEF Pieces
<1>2. << <<w>> >> \in Seq(Pieces) /\ << <<w>> >> # <<>>
  BY <1>1
<1> QED BY <1>2 DEF Word, Texts

LEMMA ItemsFit ==
  ASSUME NEW S, NEW s \in Seq(S), s # <<>>, NEW empty
  PROVE  Items(s, empty) \in Seq(S) /\ (s # <<empty>> => Items(s, empty) # <<>>)
<1> DEFINE n == Len(s)
<1>1. n \in Nat /\ n # 0 /\ (s[n] = empty /\ s # <<empty>> => n # 1)
  OBVIOUS
<1>2. CASE s[n] # empty
  BY <1>2 DEF Items
<1>3. CASE s[n] = empty
  <2>1. Items(s, empty) = SubSeq(s, 1, n - 1)
    BY <1>3 DEF Items
  <2>2. \A i \in 1 .. n - 1 : s[i] \in S
    OBVIOUS
  <2> HIDE DEF n
  <2>3. n - 1 \in Nat /\ (s # <<empty>> => 1 <= n - 1)
    BY <1>1, <1>3
  <2>4. SubSeq(s, 1, n - 1) \in Seq(S) /\ (s # <<empty>> => Len(SubSeq(s, 1, n - 1)) = n - 1)
    BY <2>2, <2>3, SubSeqProperties
  <2>5. s # <<empty>> => SubSeq(s, 1, n - 1) # <<>>
    <3>1. s # <<empty>> => Len(SubSeq(s, 1, n - 1)) # 0 /\ Len(<<>>) = 0
      BY <2>3, <2>4
    <3> QED BY <3>1
  <2> QED BY <2>1, <2>4, <2>5
<1> QED BY <1>2, <1>3

LEMMA ElementsFit ==
  ASSUME NEW text \in Texts
  PROVE  Elements(text) \in Seq(Pieces) \ {<<>>}
<1>1. text \in Seq(Pieces) /\ text # <<>>
  BY DEF Texts
<1> QED BY <1>1, ItemsFit DEF Elements

\* The kinds of options have nothing in common.
LEMMA KindsApart ==
  /\ SizeOptions \cap (DoubleOptions \cup FlagOptions \cup TextOptions \cup ListOptions) = {}
  /\ DoubleOptions \cap (FlagOptions \cup TextOptions \cup ListOptions) = {}
  /\ FlagOptions \cap (TextOptions \cup ListOptions) = {}
  /\ TextOptions \cap ListOptions = {}
  /\ TextListOptions \cap SizeListOptions = {}
  /\ ListOptions = TextListOptions \cup SizeListOptions
BY DEF SizeOptions, DoubleOptions, FlagOptions, TextOptions, ListOptions, TextListOptions,
   SizeListOptions

\* A text that can be read gives a value of the option's type.
LEMMA ValueHasType ==
  ASSUME NEW o \in Options, NEW text \in Texts, Reads(o, text), NEW old,
         o \in SizeListOptions => old \in Seq(0 .. SizeMax),
         o \in TextListOptions => old \in Seq(Pieces)
  PROVE  ValueFits(o, Value(o, old, text))
<1>1. CASE o \in SizeOptions
  <2>1. Value(o, old, text) = SizeText[text[1][1]]
    BY <1>1, KindsApart DEF Value
  <2>2. ReadsSize(text[1])
    BY <1>1, KindsApart DEF Reads
  <2>3. Value(o, old, text) \in 0 .. SizeMax
    BY <2>1, <2>2, OptionValuesAssumption DEF ReadsSize, IsInteger
  <2> QED BY <1>1, <2>3, KindsApart DEF ValueFits
<1>2. CASE o \in DoubleOptions \cup TextOptions
  BY <1>2, KindsApart DEF ValueFits
<1>3. CASE o \in FlagOptions
  <2>1. Value(o, old, text) = (text \in TrueTexts)
    BY <1>3, KindsApart DEF Value
  <2>2. Value(o, old, text) \in BOOLEAN
    BY <2>1
  <2> QED BY <1>3, <2>2, KindsApart DEF ValueFits
<1>4. CASE o \in TextListOptions
  <2>1. Value(o, old, text) = old \o Elements(text)
    BY <1>4, KindsApart DEF Value
  <2>2. old \o Elements(text) \in Seq(Pieces) \ {<<>>}
    BY <1>4, ElementsFit
  <2> QED BY <1>4, <2>1, <2>2, KindsApart DEF ValueFits
<1>5. CASE o \in SizeListOptions
  <2> DEFINE numbers == [i \in DOMAIN Elements(text) |-> SizeText[Elements(text)[i][1]]]
  <2>1. Value(o, old, text) = old \o numbers
    BY <1>5, KindsApart DEF Value
  <2>2. \A i \in DOMAIN Elements(text) : ReadsSize(Elements(text)[i])
    BY <1>5, KindsApart DEF Reads
  <2>3. \A i \in DOMAIN Elements(text) : SizeText[Elements(text)[i][1]] \in 0 .. SizeMax
    BY <2>2, OptionValuesAssumption DEF ReadsSize, IsInteger
  <2>4. DOMAIN Elements(text) = 1 .. Len(Elements(text)) /\ Len(Elements(text)) \in Nat
    BY ElementsFit
  <2>5. numbers \in Seq(0 .. SizeMax)
    BY <2>3, <2>4
  <2>6. old \o numbers \in Seq(0 .. SizeMax)
    <3> HIDE DEF numbers
    <3> QED BY <1>5, <2>5
  <2> QED BY <1>5, <2>1, <2>6, KindsApart DEF ValueFits
<1> QED BY <1>1, <1>2, <1>3, <1>4, <1>5 DEF Options, ListOptions

LEMMA ImplicitReads ==
  ASSUME NEW o, HasImplicit(o)
  PROVE  o \in Options /\ ImplicitText \in Texts /\ Reads(o, ImplicitText)
<1>1. o \in FlagOptions /\ o \in Options
  BY DEF HasImplicit, Options
<1>2. ImplicitText \in TrueTexts
  BY DEF ImplicitText, TrueTexts
<1>3. ImplicitText \in Texts
  <2>1. "true" \in Words
    BY DefaultsAssumption
  <2> QED BY <2>1, WordIsText DEF ImplicitText
<1>4. Reads(o, ImplicitText)
  BY <1>1, <1>2, KindsApart DEF Reads
<1> QED BY <1>1, <1>3, <1>4

LEMMA OptionKnown == ASSUME NEW name, Known(name) PROVE OptionOf(name) \in Options
BY DEF Known, OptionOf, Options, ShortName, SizeOptions, DoubleOptions, TextOptions,
   ListOptions, TextListOptions, SizeListOptions, FlagOptions

LEMMA DefaultFits ==
  ASSUME NEW o \in DOMAIN Default
  PROVE  /\ o \in Options \ ListOptions /\ Default[o] \in Texts
         /\ ValueFits(o, Value(o, <<>>, Default[o]))
<1>1. o \in Options \ ListOptions
  BY DEF Default
<1>2. Default[o] \in Texts
  <2>1. Default[o] = Word(DefaultWord(o))
    BY DEF Default
  <2>2. DefaultWord(o) \in Words
    BY DefaultsAssumption
  <2> QED BY <2>1, <2>2, WordIsText
<1>3. Reads(o, Default[o])
  BY DefaultsAssumption
<1> QED BY <1>1, <1>2, <1>3, ValueHasType DEF ListOptions

LEMMA ThrowArgs == ASSUME ArgsInv, Throw PROVE ArgsInv'
BY DEF ArgsInv, Throw, parserVars, Arg

LEMMA ParseOptionArgs ==
  ASSUME ArgsInv, stage = "args", NEW o \in Options, NEW text \in Texts,
         NEW nextArg \in 1 .. Len(argv) + 1, NEW nextLetter \in Nat \ {0},
         nextLetter > 1 => /\ nextArg <= Len(argv) /\ argv[nextArg].kind = "group"
                           /\ nextLetter <= Len(argv[nextArg].letters),
         ParseOption(o, text, nextArg, nextLetter)
  PROVE  ArgsInv'
<1>1. CASE ~Reads(o, text)
  BY <1>1, ThrowArgs DEF ParseOption
<1>2. CASE Reads(o, text)
  <2>1. /\ stored' = Put(o, Value(o, Old(o), text)) /\ count' = [count EXCEPT ![o] = @ + 1]
        /\ current' = nextArg /\ letter' = nextLetter /\ argv' = argv /\ stage' = stage
    BY <1>2 DEF ParseOption
  <2>2. ValueFits(o, Value(o, Old(o), text))
    <3>1. /\ o \in SizeListOptions => Old(o) \in Seq(0 .. SizeMax)
          /\ o \in TextListOptions => Old(o) \in Seq(Pieces)
      <4>1. CASE o \in DOMAIN stored
        <5>1. Old(o) = stored[o] /\ ValueFits(o, stored[o])
          BY <4>1 DEF ArgsInv, Old
        <5> QED BY <5>1 DEF ValueFits
      <4>2. CASE o \notin DOMAIN stored
        BY <4>2 DEF Old
      <4> QED BY <4>1, <4>2
    <3> QED BY <1>2, <3>1, ValueHasType
  <2>3. /\ DOMAIN stored' = DOMAIN stored \cup {o}
        /\ stored'[o] = Value(o, Old(o), text)
        /\ \A x \in DOMAIN stored \ {o} : stored'[x] = stored[x]
    BY <2>1 DEF Put
  <2>4. DOMAIN stored' \subseteq Options /\ \A x \in DOMAIN stored' : ValueFits(x, stored'[x])
    BY <2>2, <2>3 DEF ArgsInv
  <2>5. count' \in [Options -> Nat]
    BY <2>1 DEF ArgsInv
  <2>6. /\ argv' \in Seq(ArgElements) /\ current' \in 1 .. Len(argv') + 1 /\ letter' \in Nat \ {0}
        /\ letter' > 1 => /\ current' <= Len(argv') /\ argv'[current'].kind = "group"
                          /\ letter' <= Len(argv'[current'].letters)
    BY <2>1 DEF ArgsInv
  <2>7. \A x \in DOMAIN stored' : ValueFits(x, stored[x])'
    BY <2>4 DEF ValueFits
  <2> QED BY <2>1, <2>4, <2>5, <2>6, <2>7 DEF ArgsInv, Arg
<1> QED BY <1>1, <1>2

\* What the current element is made of.
LEMMA ElementFacts ==
  ASSUME ArgsInv, current <= Len(argv)
  PROVE  /\ current \in 1 .. Len(argv) /\ Len(argv) \in Nat
         /\ Arg.text \in Texts /\ Arg.value \in Texts \cup {NoText} /\ Arg.rest \in Seq(Texts)
         /\ Arg.letters \in Seq(Words)
         /\ Arg.kind = "group" => Len(Arg.letters) > 0 /\ Len(Arg.rest) = Len(Arg.letters) - 1
         /\ current < Len(argv) => current + 1 \in 1 .. Len(argv) /\ argv[current + 1].text \in Texts
<1>1. current \in 1 .. Len(argv) /\ Len(argv) \in Nat
  BY DEF ArgsInv
<1>2. \A i \in 1 .. Len(argv) : argv[i] \in ArgElements
  BY DEF ArgsInv
<1>3. \A e \in ArgElements :
        /\ e.text \in Texts /\ e.value \in Texts \cup {NoText} /\ e.rest \in Seq(Texts)
        /\ e.letters \in Seq(Words)
        /\ e.kind = "group" => Len(e.letters) > 0 /\ Len(e.rest) = Len(e.letters) - 1
  BY DEF ArgElements
<1> QED BY <1>1, <1>2, <1>3 DEF Arg

LEMMA CheckedArgs ==
  ASSUME ArgsInv, stage = "args", current <= Len(argv), NEW o \in Options, CheckedParseArg(o)
  PROVE  ArgsInv'
<1>1. current \in 1 .. Len(argv) /\ Len(argv) \in Nat
  BY ElementFacts
<1>2. CASE HasImplicit(o)
  <2>1. ParseOption(o, ImplicitText, current + 1, 1) /\ current + 1 \in 1 .. Len(argv) + 1
    BY <1>1, <1>2 DEF CheckedParseArg
  <2> QED BY <1>2, <2>1, ImplicitReads, ParseOptionArgs
<1>3. CASE ~HasImplicit(o) /\ current = Len(argv)
  BY <1>3, ThrowArgs DEF CheckedParseArg
<1>4. CASE ~HasImplicit(o) /\ current # Len(argv)
  <2>1. ParseOption(o, argv[current + 1].text, current + 2, 1)
    BY <1>4 DEF CheckedParseArg
  <2>2. current < Len(argv) /\ current + 2 \in 1 .. Len(argv) + 1
    BY <1>1, <1>4
  <2> QED BY <2>1, <2>2, ElementFacts, ParseOptionArgs
<1> QED BY <1>2, <1>3, <1>4

LEMMA LongArgs == ASSUME ArgsInv, LongOption PROVE ArgsInv'
<1>1. stage = "args" /\ current <= Len(argv)
  BY DEF LongOption, ArgIs
<1>2. CASE ~Known(Arg.name)
  BY <1>2, ThrowArgs DEF LongOption
<1>3. CASE Known(Arg.name) /\ Arg.value # NoText
  <2>1. ParseOption(OptionOf(Arg.name), Arg.value, current + 1, 1)
    BY <1>3 DEF LongOption
  <2>2. Arg.value \in Texts /\ current + 1 \in 1 .. Len(argv) + 1
    BY <1>1, <1>3, ElementFacts
  <2> QED BY <1>1, <1>3, <2>1, <2>2, OptionKnown, ParseOptionArgs
<1>4. CASE Known(Arg.name) /\ Arg.value = NoText
  BY <1>1, <1>4, OptionKnown, CheckedArgs DEF LongOption
<1> QED BY <1>2, <1>3, <1>4

LEMMA GroupArgs == ASSUME ArgsInv, GroupLetter PROVE ArgsInv'
<1>1. stage = "args" /\ current <= Len(argv) /\ Arg.kind = "group"
  BY DEF GroupLetter, ArgIs
<1>2. CASE ~Known(Arg.letters[letter])
  BY <1>2, ThrowArgs DEF GroupLetter
<1>3. CASE Known(Arg.letters[letter])
  <2> DEFINE o == OptionOf(Arg.letters[letter])
  <2>1. o \in Options
    BY <1>3, OptionKnown
  <2>2. /\ Len(Arg.letters) \in Nat /\ letter \in 1 .. Len(Arg.letters)
        /\ current + 1 \in 1 .. Len(argv) + 1 /\ current \in 1 .. Len(argv) + 1
        /\ Arg.rest \in Seq(Texts) /\ Len(Arg.rest) = Len(Arg.letters) - 1
    BY <1>1, ElementFacts DEF ArgsInv
  <2>3. CASE letter = Len(Arg.letters)
    BY <1>1, <1>3, <2>1, <2>3, CheckedArgs DEF GroupLetter
  <2>4. CASE letter # Len(Arg.letters) /\ HasImplicit(o)
    <3>1. ParseOption(o, ImplicitText, current, letter + 1)
      BY <1>3, <2>4 DEF GroupLetter
    <3>2. letter + 1 \in Nat \ {0} /\ letter + 1 <= Len(Arg.letters)
      BY <2>2, <2>4
    <3> HIDE DEF o
    <3> QED BY <1>1, <2>1, <2>2, <2>4, <3>1, <3>2, ImplicitReads, ParseOptionArgs DEF Arg
  <2>5. CASE letter # Len(Arg.letters) /\ ~HasImplicit(o)
    <3>1. ParseOption(o, Arg.rest[letter], current + 1, 1)
      BY <1>3, <2>5 DEF GroupLetter
    <3>2. Arg.rest[letter] \in Texts
      BY <2>2, <2>5
    <3> HIDE DEF o
    <3> QED BY <1>1, <2>1, <2>2, <3>1, <3>2, ParseOptionArgs
  <2> QED BY <2>3, <2>4, <2>5
<1> QED BY <1>2, <1>3

LEMMA PlainArgs == ASSUME ArgsInv, PlainArgument \/ EndOfOptions PROVE ArgsInv'
<1>1. letter = 1
  BY DEF ArgsInv, PlainArgument, EndOfOptions, ArgIs
<1>2. current' \in 1 .. Len(argv) + 1
  BY ElementFacts DEF PlainArgument, EndOfOptions, ArgIs
<1>3. UNCHANGED <<argv, letter, stored, count, stage>>
  BY DEF PlainArgument, EndOfOptions
<1> QED BY <1>1, <1>2, <1>3 DEF ArgsInv, ValueFits, Arg

LEMMA DefaultArgs == ASSUME ArgsInv, ParseDefaults PROVE ArgsInv'
<1>1. /\ UNCHANGED <<argv, current, letter, count>>
      /\ DOMAIN stored' = DOMAIN stored \cup DOMAIN Default
      /\ \A o \in DOMAIN stored : stored'[o] = stored[o]
      /\ \A o \in DOMAIN Default \ DOMAIN stored : stored'[o] = Value(o, <<>>, Default[o])
  BY DEF ParseDefaults
<1>2. \A o \in DOMAIN stored' : ValueFits(o, stored'[o])
  BY <1>1, DefaultFits DEF ArgsInv
<1>3. DOMAIN stored' \subseteq Options
  BY <1>1, DefaultFits DEF ArgsInv
<1>4. \A o \in DOMAIN stored' : ValueFits(o, stored[o])'
  BY <1>2 DEF ValueFits
<1> QED BY <1>1, <1>3, <1>4 DEF ArgsInv, Arg

LEMMA ParserArgs == ArgsInv /\ ParserNext => ArgsInv'
BY LongArgs, GroupArgs, PlainArgs, DefaultArgs, ThrowArgs DEF ParserNext, MalformedArgument

-----------------------------------------------------------------------------
(* The configuration                                                       *)

\* Outside of the parser the arguments rest.
LEMMA ParserRests ==
  ASSUME StartupNext
  PROVE  \/ ParserNext /\ UNCHANGED <<configVars, memoryVars, layoutVars, serveVars>>
         \/ UNCHANGED parserVars /\ stage \notin {"args", "threw"} /\ stage' \notin {"args", "parsed"}
<1>1. CASE ConfigNext /\ UNCHANGED <<memoryVars, layoutVars, serveVars>>
  <2>1. CASE ParseBasicConfig \/ ParseServerConfig
    BY <2>1 DEF ParseBasicConfig, ParseServerConfig, Refuse, Uncaught, Stop, parserVars
  <2>2. CASE ParseClientConfig \/ Validate
    BY <2>2 DEF ParseClientConfig, Validate, Refuse, Uncaught, Stop, parserVars
  <2> QED BY <1>1, <2>1, <2>2 DEF ConfigNext
<1>2. CASE Construct \/ AllocateTier \/ GenerateContent
  BY <1>2 DEF Construct, AllocateTier, GenerateContent, configFrame, parserVars, NextTier, Fail,
     ExitFailure
<1>3. CASE FillClient \/ StartClient \/ LookUp \/ Promote \/ Finish
  BY <1>3 DEF FillClient, StartClient, LookUp, Promote, Finish, configFrame, parserVars, Fail,
     ExitFailure
<1> QED BY <1>1, <1>2, <1>3 DEF StartupNext

LEMMA StepArgs == ArgsInv /\ [StartupNext]_allVars => ArgsInv'
<1> SUFFICES ASSUME ArgsInv, [StartupNext]_allVars PROVE ArgsInv'
  OBVIOUS
<1>1. CASE UNCHANGED allVars
  BY <1>1 DEF ArgsInv, ValueFits, Arg, allVars, parserVars
<1>2. CASE StartupNext
  <2>1. CASE ParserNext
    BY <2>1, ParserArgs
  <2>2. CASE UNCHANGED parserVars /\ stage \notin {"args", "threw"} /\ stage' \notin {"args", "parsed"}
    BY <2>2 DEF ArgsInv, ValueFits, Arg, parserVars
  <2> QED BY <1>2, <2>1, <2>2, ParserRests
<1> QED BY <1>1, <1>2

\* Where the parser can leave the program.
LEMMA ParserStages ==
  ASSUME ParserNext
  PROVE  stage = "args" /\ stage' \in {"args", "parsed", "threw"}
BY DEF ParserNext, LongOption, GroupLetter, PlainArgument, MalformedArgument, EndOfOptions,
   ParseDefaults, ArgIs, Throw, CheckedParseArg, ParseOption

\* The configuration that is read once stays, however the program goes on.
LEMMA ConfigRests ==
  ASSUME ConfigInv, UNCHANGED <<numTiers, capacity, useRing, clients>>, exitCode' \in {0, 1, 134},
         \/ stage' \in EndStages \/ UNCHANGED <<stage, stored>>
         \/ stage \in ParseStages /\ stage' \in ParseStages
         \/ stage \in FittedStages /\ stage' \in FittedStages
  PROVE  ConfigInv'
<1>1. /\ numTiers' \in {0, 2, 3} /\ capacity' \in [Layers -> 0 .. SizeMax]
      /\ useRing' \in BOOLEAN /\ clients' \in Seq(ClientConfigs)'
  BY DEF ConfigInv, ClientConfigs
<1>2. \A i \in 1 .. numTiers : TierTotal(i)' = TierTotal(i) /\ TierLimit(i)' = TierLimit(i)
  BY DEF TierTotal, TierLimit
<1> USE DEF ConfigInv, ParseStages, FittedStages, EndStages
<1>3. /\ stage' \in ParseStages \cup {"server"} => clients' = <<>>
      /\ stage' = "clients" /\ clients' # <<>> => Len(clients') <= Len(stored'["patterns"])
      /\ stage' \in {"server", "clients", "validate"} \cup FittedStages => numTiers' \in {2, 3}
      /\ stage' \in {"clients", "validate"} \cup FittedStages =>
           (numTiers' = 2 => capacity'["remote"] = 0)
      /\ stage' \in {"validate"} \cup FittedStages => clients' # <<>>
  OBVIOUS
<1>4. stage' \in FittedStages => \A i \in 1 .. numTiers' : TierTotal(i)' <= TierLimit(i)'
  BY <1>2
<1> QED BY <1>1, <1>3, <1>4

LEMMA BasicConfig == ASSUME ArgsInv, ConfigInv, ParseBasicConfig PROVE ConfigInv'
<1>1. CASE Refuse \/ Uncaught \/ Stop("exit", 0)
  BY <1>1, ConfigRests DEF Refuse, Uncaught, Stop, EndStages
<1>2. CASE ~(Refuse \/ Uncaught \/ Stop("exit", 0))
  <2>1. /\ numTiers' = stored["num-tiers"] /\ numTiers' \in 2 .. 3
        /\ useRing' = stored["cache-ring"]
        /\ stage = "parsed" /\ stage' = "server" /\ UNCHANGED <<capacity, clients, exitCode>>
    BY <1>2 DEF ParseBasicConfig
  <2>2. numTiers' \in {2, 3}
    BY <2>1
  <2>3. useRing' \in BOOLEAN
    <3>1. "cache-ring" \in DOMAIN stored
      BY <2>1 DEF ArgsInv, Default, Options, FlagOptions, ListOptions, TextListOptions,
         SizeListOptions
    <3>2. ValueFits("cache-ring", stored["cache-ring"])
      BY <3>1 DEF ArgsInv
    <3> QED BY <2>1, <3>2 DEF ValueFits, FlagOptions
  <2>4. clients' = <<>> /\ clients' \in Seq(ClientConfigs)'
    BY <2>1 DEF ConfigInv, ParseStages
  <2> QED BY <2>1, <2>2, <2>3, <2>4 DEF ConfigInv, ParseStages, FittedStages
<1> QED BY <1>1, <1>2

LEMMA ServerConfig == ASSUME ArgsInv, ConfigInv, ParseServerConfig PROVE ConfigInv'
<1>1. CASE Refuse \/ Uncaught
  BY <1>1, ConfigRests DEF Refuse, Uncaught, Stop, EndStages
<1>2. CASE ~(Refuse \/ Uncaught)
  <2> DEFINE sizes == stored["mem-sizes"]
  <2>1. /\ Given("mem-sizes") /\ Len(sizes) = numTiers
        /\ capacity' = [local |-> sizes[1],
                        remote |-> IF numTiers = 3 THEN sizes[2] ELSE 0,
                        pmem |-> sizes[numTiers]]
        /\ stage = "server" /\ stage' = "clients"
        /\ UNCHANGED <<numTiers, useRing, clients, exitCode>>
    BY <1>2 DEF ParseServerConfig
  <2>2. sizes \in Seq(0 .. SizeMax) /\ numTiers \in {2, 3} /\ clients = <<>>
    <3>1. ValueFits("mem-sizes", stored["mem-sizes"])
      BY <2>1 DEF ArgsInv, Given
    <3> QED BY <2>1, <3>1 DEF ValueFits, SizeListOptions, ConfigInv
  <2>3. /\ sizes[1] \in 0 .. SizeMax /\ sizes[2] \in 0 .. SizeMax
        /\ sizes[numTiers] \in 0 .. SizeMax /\ 0 \in 0 .. SizeMax
    <3> HIDE DEF sizes
    <3>1. \A i \in 1 .. Len(sizes) : sizes[i] \in 0 .. SizeMax
      BY <2>2, SeqMember
    <3>2. 1 \in 1 .. Len(sizes) /\ 2 \in 1 .. Len(sizes) /\ numTiers \in 1 .. Len(sizes)
      BY <2>1, <2>2
    <3> QED BY <3>1, <3>2, SizeFacts
  <2> HIDE DEF sizes
  <2>4. capacity' \in [Layers -> 0 .. SizeMax] /\ (numTiers = 2 => capacity'["remote"] = 0)
    BY <2>1, <2>3 DEF Layers
  <2>5. clients' \in Seq(ClientConfigs)'
    BY <2>1, <2>2
  <2> QED BY <2>1, <2>2, <2>4, <2>5 DEF ConfigInv, ParseStages, FittedStages
<1> QED BY <1>1, <1>2

LEMMA ClientConfig == ASSUME ArgsInv, ConfigInv, ParseClientConfig PROVE ConfigInv'
<1>1. CASE Refuse \/ Uncaught
  BY <1>1, ConfigRests DEF Refuse, Uncaught, Stop, EndStages
<1>2. CASE ~(Refuse \/ Uncaught)
  <2> DEFINE patterns == stored["patterns"]
             texts == stored["client-tier-sizes"]
             sizes == Items(texts[Len(clients) + 1], "")
             pattern == patterns[Len(clients) + 1]
             new == [pattern |-> pattern[1], sizes |-> [i \in DOMAIN sizes |-> Stoul(sizes[i])]]
  <2>1. /\ Given("patterns") /\ Given("client-tier-sizes") /\ Len(patterns) = Len(texts)
        /\ stage = "clients" /\ UNCHANGED <<stored, numTiers, capacity, useRing, exitCode>>
    BY <1>2 DEF ParseClientConfig, parserVars, configVars
  <2>2. /\ patterns \in Seq(Pieces) \ {<<>>} /\ texts \in Seq(Pieces)
        /\ numTiers \in {2, 3} /\ clients \in Seq(ClientConfigs)
    <3>1. ValueFits("patterns", patterns) /\ ValueFits("client-tier-sizes", texts)
      BY <2>1 DEF ArgsInv, Given
    <3> QED BY <2>1, <3>1 DEF ValueFits, TextListOptions, ConfigInv
  <2>3. CASE Len(clients) = Len(patterns)
    <3>1. stage' = "validate" /\ clients' = clients
      BY <1>2, <2>1, <2>3 DEF ParseClientConfig, configVars
    <3>2. clients # <<>>
      BY <2>2, <2>3
    <3> QED BY <2>1, <2>2, <3>1, <3>2
        DEF ConfigInv, ClientConfigs, ParseStages, FittedStages
  <2>4. CASE Len(clients) # Len(patterns)
    <3>1. /\ Len(sizes) = numTiers /\ \A i \in DOMAIN sizes : StoulReads(sizes[i])
          /\ pattern \in {<<p>> : p \in Patterns}
          /\ clients' = Append(clients, new) /\ stage' = stage
      BY <1>2, <2>1, <2>4 DEF ParseClientConfig
    <3>2. Len(clients) + 1 \in 1 .. Len(patterns)
      <4> HIDE DEF patterns
      <4>1. Len(clients) \in Nat /\ Len(patterns) \in Nat /\ Len(patterns) # 0
        BY <2>2
      <4>2. Len(clients) <= Len(patterns)
        BY <2>1, <2>2, <4>1 DEF ConfigInv, patterns
      <4> QED BY <2>4, <4>1, <4>2
    <3>3. DOMAIN sizes = 1 .. numTiers
      <4>1. texts[Len(clients) + 1] \in Pieces
        <5> HIDE DEF patterns, texts
        <5> QED BY <2>1, <2>2, <3>2
      <4>2. sizes \in Seq(Words)
        <5> HIDE DEF texts
        <5> QED BY <4>1, ItemsFit DEF Pieces
      <4> HIDE DEF sizes
      <4> QED BY <3>1, <4>2
    <3>4. ASSUME NEW i \in 1 .. numTiers PROVE Stoul(sizes[i]) \in 0 .. SizeMax
      <4>1. sizes[i] \in DOMAIN StoulText
        BY <3>1, <3>3 DEF StoulReads
      <4>2. StoulText[sizes[i]] \in Int
        BY <4>1, OptionValuesAssumption
      <4> HIDE DEF sizes
      <4> QED BY <4>2, SizeFacts DEF Stoul
    <3>5. pattern[1] \in Patterns
      <4> HIDE DEF pattern
      <4>1. PICK p \in Patterns : pattern = <<p>>
        BY <3>1
      <4> QED BY <4>1
    <3> HIDE DEF patterns, texts, sizes, pattern
    <3>6. new \in ClientConfigs
      BY <3>3, <3>4, <3>5 DEF ClientConfigs
    <3>7. Append(clients, new) \in Seq(ClientConfigs)
      BY <2>2, <3>6
    <3>8. Len(clients') <= Len(stored'["patterns"])
      BY <2>1, <2>2, <3>1, <3>2, <3>6 DEF patterns
    <3> QED BY <2>1, <2>2, <3>1, <3>7, <3>8
        DEF ConfigInv, ClientConfigs, ParseStages, FittedStages
  <2> QED BY <2>3, <2>4
<1> QED BY <1>1, <1>2

LEMMA ValidateConfig == ASSUME ConfigInv, Validate PROVE ConfigInv'
<1>1. CASE Refuse
  BY <1>1, ConfigRests DEF Refuse, Stop, EndStages
<1>2. CASE ~Refuse
  <2>1. /\ \A i \in 1 .. numTiers : ~(TierTotal(i) > TierLimit(i))
        /\ stage = "validate" /\ stage' = "construct" /\ UNCHANGED configVars
    BY <1>2 DEF Validate
  <2>2. numTiers \in {2, 3} /\ clients # <<>> /\ clients \in Seq(ClientConfigs)
    BY <2>1 DEF ConfigInv
  <2>3. ASSUME NEW i \in 1 .. numTiers PROVE TierTotal(i) <= TierLimit(i)
    <3> DEFINE f == [c \in DOMAIN clients |-> clients[c].sizes[i]]
    <3>1. Len(clients) \in Nat /\ f \in [1 .. Len(clients) -> Nat]
      <4>1. \A c \in 1 .. Len(clients) : clients[c] \in ClientConfigs
        BY <2>2, SeqMember
      <4>2. \A c \in 1 .. Len(clients) : clients[c].sizes[i] \in 0 .. SizeMax
        BY <4>1 DEF ClientConfigs
      <4> QED BY <2>2, <4>2
    <3>2. TierTotal(i) \in Nat
      <4> HIDE DEF f
      <4>1. WrappedSum(f, Len(clients)) \in 0 .. SizeMax
        BY <3>1, SumSteps
      <4> QED BY <4>1 DEF TierTotal, f
    <3>3. TierLimit(i) \in Nat
      BY <2>2 DEF TierLimit, ConfigInv, Layers
    <3> QED BY <2>1, <3>2, <3>3
  <2> QED BY <2>1, <2>2, <2>3 DEF ConfigInv, ClientConfigs, TierTotal, TierLimit, ParseStages,
      FittedStages, configVars
<1> QED BY <1>1, <1>2

\* main() behind the configuration.
Later == Construct \/ AllocateTier \/ GenerateContent \/ FillClient \/ StartClient
           \/ LookUp \/ Promote \/ Finish

LEMMA LaterFrame ==
  ASSUME Later
  PROVE  /\ stage \in FittedStages /\ stage' \in FittedStages \cup EndStages
         /\ UNCHANGED <<parserVars, numTiers, capacity, useRing, policy, clients>>
         /\ exitCode' \in {exitCode, 1}
BY DEF Later, Construct, AllocateTier, GenerateContent, FillClient, StartClient, LookUp,
   Promote, Finish, FittedStages, EndStages, Fail, ExitFailure, NextTier, configFrame, configVars

LEMMA StepConfig == ArgsInv /\ ConfigInv /\ [StartupNext]_allVars => ConfigInv'
<1> SUFFICES ASSUME ArgsInv, ConfigInv, [StartupNext]_allVars PROVE ConfigInv'
  OBVIOUS
<1>1. CASE UNCHANGED allVars
  <2>1. exitCode \in {0, 1, 134}
    BY DEF ConfigInv
  <2> QED BY <1>1, <2>1, ConfigRests DEF allVars, parserVars, configVars
<1>2. CASE ParserNext /\ UNCHANGED configVars
  <2>1. exitCode \in {0, 1, 134}
    BY DEF ConfigInv
  <2> QED BY <1>2, <2>1, ParserStages, ConfigRests DEF ParseStages, EndStages, configVars
<1>3. CASE Later
  <2>1. exitCode' \in {0, 1, 134}
    BY <1>3, LaterFrame DEF ConfigInv
  <2> QED BY <1>3, <2>1, LaterFrame, ConfigRests
<1> QED BY <1>1, <1>2, <1>3, BasicConfig, ServerConfig, ClientConfig, ValidateConfig
    DEF StartupNext, ConfigNext, Later

-----------------------------------------------------------------------------
(* The pages of the clients                                                *)

LEMMA ClientFacts ==
  ASSUME ConfigInv, numTiers \in {2, 3}
  PROVE  /\ Len(clients) \in Nat /\ DOMAIN clients = 1 .. Len(clients)
         /\ \A i \in DOMAIN clients :
              /\ clients[i] \in ClientConfigs /\ PagesOf(clients[i]) \in Nat
              /\ \A l \in Layers : PagesIn(clients[i], l) \in Nat
         /\ AllPages \in [1 .. Len(clients) -> Nat]
         /\ \A l \in Layers : AllPagesIn(l) \in [1 .. Len(clients) -> Nat]
<1>1. Len(clients) \in Nat /\ DOMAIN clients = 1 .. Len(clients)
  BY DEF ConfigInv
<1>2. ASSUME NEW i \in DOMAIN clients PROVE clients[i] \in ClientConfigs
  BY <1>1, SeqMember DEF ConfigInv
<1>3. ASSUME NEW c \in ClientConfigs, NEW l \in Layers PROVE PagesIn(c, l) \in Nat
  <2>1. \A k \in 1 .. numTiers : c.sizes[k] \in 0 .. SizeMax
    BY DEF ClientConfigs
  <2>2. c.sizes[1] \in Nat /\ c.sizes[2] \in Nat /\ c.sizes[numTiers] \in Nat
    BY <2>1, SizeFacts
  <2> QED BY <2>2 DEF PagesIn
<1>4. ASSUME NEW c \in ClientConfigs PROVE PagesOf(c) \in Nat
  <2>1. PagesIn(c, "local") \in Nat /\ PagesIn(c, "remote") \in Nat /\ PagesIn(c, "pmem") \in Nat
    BY <1>3 DEF Layers
  <2> QED BY <2>1 DEF PagesOf
<1> QED BY <1>1, <1>2, <1>3, <1>4 DEF AllPages, AllPagesIn

\* The sums that the constructors take and the table is filled by.
LEMMA SumFacts ==
  ASSUME ConfigInv, numTiers \in {2, 3}
  PROVE  /\ WrappedSum(AllPages, 0) = 0
         /\ \A l \in Layers : WrappedSum(AllPagesIn(l), 0) = 0
         /\ \A n \in 0 .. Len(clients) :
              /\ WrappedSum(AllPages, n) \in 0 .. SizeMax
              /\ \A l \in Layers : WrappedSum(AllPagesIn(l), n) \in 0 .. SizeMax
         /\ \A n \in 0 .. Len(clients) - 1 :
              /\ WrappedSum(AllPages, n + 1)
                   = (WrappedSum(AllPages, n) + PagesOf(clients[n + 1])) % SizeMod
              /\ \A l \in Layers :
                   WrappedSum(AllPagesIn(l), n + 1)
                     = (WrappedSum(AllPagesIn(l), n) + PagesIn(clients[n + 1], l)) % SizeMod
<1>1. /\ Len(clients) \in Nat /\ DOMAIN clients = 1 .. Len(clients)
      /\ AllPages \in [1 .. Len(clients) -> Nat]
      /\ \A l \in Layers : AllPagesIn(l) \in [1 .. Len(clients) -> Nat]
  BY ClientFacts
<1>2. /\ \A i \in 1 .. Len(clients) : AllPages[i] = PagesOf(clients[i])
      /\ \A l \in Layers : \A i \in 1 .. Len(clients) : AllPagesIn(l)[i] = PagesIn(clients[i], l)
  BY <1>1 DEF AllPages, AllPagesIn
<1>3. \A n \in 0 .. Len(clients) - 1 : n + 1 \in 1 .. Len(clients)
  BY <1>1
<1>4. /\ WrappedSum(AllPages, 0) = 0
      /\ \A n \in 0 .. Len(clients) - 1 :
           WrappedSum(AllPages, n + 1) = (WrappedSum(AllPages, n) + AllPages[n + 1]) % SizeMod
      /\ \A n \in 0 .. Len(clients) : WrappedSum(AllPages, n) \in 0 .. SizeMax
  BY <1>1, SumSteps
<1>5. ASSUME NEW l \in Layers
      PROVE  /\ WrappedSum(AllPagesIn(l), 0) = 0
             /\ \A n \in 0 .. Len(clients) - 1 :
                  WrappedSum(AllPagesIn(l), n + 1)
                    = (WrappedSum(AllPagesIn(l), n) + AllPagesIn(l)[n + 1]) % SizeMod
             /\ \A n \in 0 .. Len(clients) : WrappedSum(AllPagesIn(l), n) \in 0 .. SizeMax
  BY <1>1, SumSteps
<1> QED BY <1>2, <1>3, <1>4, <1>5

LEMMA ClientsRest ==
  ASSUME UNCHANGED <<numTiers, clients>>
  PROVE  /\ AllPages' = AllPages /\ \A l \in Layers : AllPagesIn(l)' = AllPagesIn(l)
         /\ \A i \in DOMAIN clients :
              /\ PagesOf(clients[i])' = PagesOf(clients[i])
              /\ \A l \in Layers : PagesIn(clients[i], l)' = PagesIn(clients[i], l)
         /\ \A n : /\ WrappedSum(AllPages, n)' = WrappedSum(AllPages, n)
                   /\ \A l \in Layers :
                        WrappedSum(AllPagesIn(l), n)' = WrappedSum(AllPagesIn(l), n)
BY DEF AllPages, AllPagesIn, PagesOf, PagesIn

\* Before main() builds the table nothing but the configuration changes.
LEMMA EarlyFrame ==
  ASSUME ConfigNext /\ UNCHANGED <<memoryVars, layoutVars, serveVars>>
  PROVE  /\ stage \in EarlyStages
         /\ stage' \in EarlyStages \cup {"construct", "threw", "exit"}
BY ParserStages DEF ConfigNext, ParseBasicConfig, ParseServerConfig, ParseClientConfig, Validate,
   Refuse, Uncaught, Stop, EarlyStages

LEMMA LoadRests ==
  ASSUME LoadInv, UNCHANGED <<load, basePageId>>,
         \/ stage' \notin BuiltStages
         \/ stage \in BuiltStages /\ UNCHANGED <<numTiers, clients>>
  PROVE  LoadInv'
<1>1. load' \in [Layers -> 0 .. SizeMax] /\ \A i \in DOMAIN basePageId' : basePageId'[i] \in 0 .. SizeMax
  BY DEF LoadInv
<1>2. CASE stage' \notin BuiltStages
  BY <1>1, <1>2 DEF LoadInv, BuiltStages, FittedStages
<1>3. CASE stage \in BuiltStages /\ UNCHANGED <<numTiers, clients>>
  <2>1. /\ basePageId' = [i \in DOMAIN clients' |-> WrappedSum(AllPages', i - 1)]
        /\ load' = [l \in Layers |-> WrappedSum(AllPagesIn(l)', Len(clients'))]
    BY <1>3, ClientsRest DEF LoadInv
  <2> QED BY <1>1, <2>1 DEF LoadInv
<1> QED BY <1>2, <1>3

LEMMA ConstructLoad == ASSUME ConfigInv, Construct PROVE LoadInv'
<1>1. /\ basePageId' = [i \in DOMAIN clients |-> WrappedSum(AllPages, i - 1)]
      /\ load' = [l \in Layers |-> WrappedSum(AllPagesIn(l), Len(clients))]
      /\ stage = "construct" /\ UNCHANGED <<numTiers, clients>>
  BY DEF Construct, configFrame, configVars
<1>2. numTiers \in {2, 3}
  BY <1>1 DEF ConfigInv, FittedStages
<1>3. \A i \in DOMAIN clients : i - 1 \in 0 .. Len(clients)
  BY <1>2, ClientFacts
<1>4. load' \in [Layers -> 0 .. SizeMax] /\ \A i \in DOMAIN basePageId' : basePageId'[i] \in 0 .. SizeMax
  <2>1. Len(clients) \in 0 .. Len(clients)
    BY <1>2, ClientFacts
  <2> QED BY <1>1, <1>2, <1>3, <2>1, SumFacts
<1>5. /\ basePageId' = [i \in DOMAIN clients' |-> WrappedSum(AllPages', i - 1)]
      /\ load' = [l \in Layers |-> WrappedSum(AllPagesIn(l)', Len(clients'))]
  BY <1>1, ClientsRest
<1> QED BY <1>4, <1>5 DEF LoadInv

\* All but Construct leave the sums alone.
LEMMA LaterLoad ==
  ASSUME Later, ~Construct
  PROVE  /\ stage \in BuiltStages /\ stage' \in BuiltStages \cup EndStages
         /\ UNCHANGED <<load, basePageId>>
BY DEF Later, AllocateTier, GenerateContent, FillClient, StartClient, LookUp, Promote, Finish,
   BuiltStages, FittedStages, EndStages, Fail, ExitFailure, NextTier, memoryVars, layoutVars

LEMMA StepLoad == ConfigInv /\ LoadInv /\ [StartupNext]_allVars => LoadInv'
<1> SUFFICES ASSUME ConfigInv, LoadInv, [StartupNext]_allVars PROVE LoadInv'
  OBVIOUS
<1>1. CASE UNCHANGED allVars
  BY <1>1, LoadRests DEF allVars, memoryVars, layoutVars, configVars
<1>2. CASE ConfigNext /\ UNCHANGED <<memoryVars, layoutVars, serveVars>>
  <2>1. stage' \notin BuiltStages
    BY <1>2, EarlyFrame DEF EarlyStages, BuiltStages, FittedStages
  <2> QED BY <1>2, <2>1, LoadRests DEF memoryVars, layoutVars
<1>3. CASE Later /\ ~Construct
  <2>1. stage' \in BuiltStages \/ stage' \notin BuiltStages
    OBVIOUS
  <2> QED BY <1>3, <2>1, LaterLoad, LaterFrame, LoadRests
<1> QED BY <1>1, <1>2, <1>3, ConstructLoad DEF StartupNext, Later

-----------------------------------------------------------------------------
(* The memory                                                              *)

LEMMA TurnFacts ==
  ASSUME NEW t \in 1 .. 3
  PROVE  /\ LayerOrder[t] \in Layers /\ Turn(LayerOrder[t]) = t
         /\ \A l \in Layers : Turn(l) \in 1 .. 3 /\ (Turn(l) = t => l = LayerOrder[t])
BY DEF LayerOrder, Layers, Turn

LEMMA NextTurn ==
  ASSUME tier \in 1 .. 3, numTiers = 2 => tier # 2, NEW following, NextTier(following)
  PROVE  /\ tier' \in 1 .. 3 /\ (numTiers = 2 => tier' # 2)
         /\ \/ tier = 3 /\ tier' = 1 /\ stage' = following
            \/ /\ tier < 3 /\ tier' = (IF numTiers = 2 THEN 3 ELSE tier + 1)
               /\ tier' > tier /\ stage' = stage
BY DEF NextTier

\* Nothing is allocated before its turn.
LEMMA EarlyMemory ==
  ASSUME MemoryInv, stage \in EarlyStages \cup {"construct"},
         stage' \in EarlyStages \cup {"construct", "allocate", "threw", "exit"},
         UNCHANGED <<tier, region, mapped>>
  PROVE  MemoryInv'
<1>1. tier = 1 /\ Allocated = {} /\ mapped = {}
  BY DEF MemoryInv, EarlyStages, ParseStages
<1>2. Allocated' = {} /\ Allocated' = {l \in Layers : region'[l] # 0}
  BY <1>1 DEF Allocated
<1>3. region'["remote"] = 0 /\ region' \in [Layers -> Nat]
  BY <1>2 DEF Layers, MemoryInv
<1>4. UNION {Addresses(l)' : l \in Allocated'} = {}
  BY <1>2
<1> QED BY <1>1, <1>2, <1>3, <1>4 DEF MemoryInv, EarlyStages

\* What is allocated stays while the program goes on.
LEMMA LateMemory ==
  ASSUME MemoryInv, stage \in {"content", "fill", "serve"},
         stage' \in {"content", "fill", "serve", "threw", "crashed", "asserted"},
         UNCHANGED <<load, region, mapped, numTiers>>, tier' \in 1 .. 3,
         numTiers = 2 => tier' # 2
  PROVE  MemoryInv'
<1>1. Allocated' = Allocated /\ \A l \in Layers : Addresses(l)' = Addresses(l)
  BY DEF Allocated, Addresses
<1>2. mapped = UNION {Addresses(l) : l \in Allocated} /\ Allocated \subseteq Layers
  BY DEF MemoryInv, Allocated
<1>3. mapped' = UNION {Addresses(l)' : l \in Allocated'}
  BY <1>1, <1>2
<1>4. \A l, k \in Allocated' : l # k => Addresses(l)' \cap Addresses(k)' = {}
  BY <1>1, <1>2 DEF MemoryInv
<1> QED BY <1>1, <1>3, <1>4 DEF MemoryInv, ParseStages, BuiltStages, FittedStages

LEMMA AllocateMemory == ASSUME ConfigInv, LoadInv, MemoryInv, AllocateTier PROVE MemoryInv'
<1> PICK l : l = LayerOrder[tier]
  OBVIOUS
<1>1. /\ stage = "allocate" /\ tier \in 1 .. 3 /\ region \in [Layers -> Nat]
      /\ numTiers \in {2, 3} /\ (numTiers = 2 => tier # 2 /\ region["remote"] = 0)
      /\ mapped = UNION {Addresses(k) : k \in Allocated}
      /\ \A k \in Allocated : Turn(k) < tier /\ load[k] > 0
      /\ UNCHANGED <<load, numTiers>> /\ load \in [Layers -> 0 .. SizeMax]
  BY DEF AllocateTier, MemoryInv, ConfigInv, LoadInv, BuiltStages, FittedStages, ExitFailure,
     configFrame, configVars, memoryVars
<1>2. /\ l \in Layers /\ l \notin Allocated /\ Turn(l) = tier
      /\ \A k \in Layers : Turn(k) \in 1 .. 3
  BY <1>1, TurnFacts DEF Allocated
<1>3. \A k, m \in Allocated : k # m => Addresses(k) \cap Addresses(m) = {}
  BY DEF MemoryInv
<1>4. CASE ExitFailure
  <2>1. Allocated' = Allocated /\ \A k \in Layers : Addresses(k)' = Addresses(k)
    BY <1>4 DEF Allocated, Addresses, ExitFailure, memoryVars
  <2> QED BY <1>1, <1>3, <1>4, <2>1 DEF ExitFailure, memoryVars, MemoryInv, ParseStages,
      BuiltStages, FittedStages, Allocated
<1>5. ASSUME load[l] > 0, NEW b \in Bases, (b .. b + load[l] - 1) \cap mapped = {},
             region' = [region EXCEPT ![l] = b], mapped' = mapped \cup (b .. b + load[l] - 1),
             NextTier("content")
      PROVE  MemoryInv'
  <2>1. b \in Nat \ {0}
    BY StartupAssumption
  <2>2. Allocated' = Allocated \cup {l} /\ region' \in [Layers -> Nat]
    BY <1>1, <1>2, <1>5, <2>1 DEF Allocated
  <2> DEFINE new == b .. b + load[l] - 1
  <2>3. /\ Addresses(l)' = new
        /\ \A k \in Allocated : Addresses(k)' = Addresses(k)
    <3>1. region'[l] = b /\ load' = load
      BY <1>1, <1>2, <1>5
    <3>2. \A k \in Allocated : region'[k] = region[k]
      BY <1>1, <1>2, <1>5 DEF Allocated
    <3> QED BY <3>1, <3>2 DEF Addresses
  <2> HIDE DEF new
  <2>4. mapped' = UNION {Addresses(k)' : k \in Allocated'}
    <3>1. mapped' = mapped \cup new
      BY <1>5 DEF new
    <3>2. \A a : a \in mapped <=> \E k \in Allocated : a \in Addresses(k)
      BY <1>1
    <3>3. \A a : a \in mapped' <=> \E k \in Allocated \cup {l} : a \in Addresses(k)'
      BY <2>3, <3>1, <3>2
    <3> QED BY <2>2, <3>3
  <2>5. \A k, m \in Allocated' : k # m => Addresses(k)' \cap Addresses(m)' = {}
    <3>1. \A k \in Allocated : Addresses(k) \cap new = {}
      BY <1>1, <1>5 DEF new
    <3>2. ASSUME NEW k \in Allocated \cup {l}, NEW m \in Allocated \cup {l}, k # m
          PROVE  Addresses(k)' \cap Addresses(m)' = {}
      <4>1. CASE k = l
        BY <2>3, <3>1, <3>2, <4>1
      <4>2. CASE m = l
        BY <2>3, <3>1, <3>2, <4>2
      <4>3. CASE k # l /\ m # l
        BY <1>3, <2>3, <3>2, <4>3
      <4> QED BY <4>1, <4>2, <4>3
    <3> QED BY <2>2, <3>2
  <2>6. /\ tier' \in 1 .. 3 /\ (numTiers = 2 => tier' # 2)
        /\ \/ stage' = "content" \/ (stage' = stage /\ tier' > tier)
    BY <1>1, <1>5, NextTurn
  <2>7. numTiers = 2 => region'["remote"] = 0
    <3>1. numTiers = 2 => l # "remote"
      BY <1>1, <1>2 DEF Turn
    <3> QED BY <1>1, <1>5, <3>1 DEF Layers
  <2>8. stage' = stage => \A k \in Allocated' : Turn(k) < tier'
    <3>1. \A k \in Allocated \cup {l} : Turn(k) \in 1 .. 3 /\ Turn(k) <= tier
      BY <1>1, <1>2 DEF Allocated
    <3> QED BY <1>1, <2>2, <2>6, <3>1
  <2>9. \A k \in Allocated' : load'[k] > 0
    BY <1>1, <1>5, <2>2
  <2> QED BY <1>1, <2>2, <2>4, <2>5, <2>6, <2>7, <2>8, <2>9
      DEF MemoryInv, ParseStages, BuiltStages, FittedStages
<1>6. CASE NextTier("content") /\ UNCHANGED <<region, mapped>>
  <2>1. Allocated' = Allocated /\ \A k \in Layers : Addresses(k)' = Addresses(k)
    BY <1>1, <1>6 DEF Allocated, Addresses
  <2>2. /\ tier' \in 1 .. 3 /\ (numTiers = 2 => tier' # 2)
        /\ \/ stage' = "content" \/ (stage' = stage /\ tier' > tier)
    BY <1>1, <1>6, NextTurn
  <2>3. stage' = stage => \A k \in Allocated' : Turn(k) < tier'
    BY <1>1, <2>1, <2>2, TurnFacts DEF Allocated
  <2>4. mapped' = UNION {Addresses(k)' : k \in Allocated'}
    BY <1>1, <1>6, <2>1 DEF Allocated
  <2>5. \A k, m \in Allocated' : k # m => Addresses(k)' \cap Addresses(m)' = {}
    BY <1>3, <2>1 DEF Allocated
  <2> QED BY <1>1, <1>6, <2>1, <2>2, <2>3, <2>4, <2>5
      DEF MemoryInv, ParseStages, BuiltStages, FittedStages
<1> QED BY <1>4, <1>5, <1>6 DEF AllocateTier

LEMMA FinishMemory == ASSUME MemoryInv, Finish PROVE MemoryInv'
<1>1. /\ stage = "serve" /\ stage' = "exit" /\ UNCHANGED <<tier, load, region, numTiers>>
      /\ mapped' = mapped \ UNION {Addresses(l) : l \in Allocated}
  BY DEF Finish, configFrame, configVars, Allocated
<1>2. mapped' = {}
  BY <1>1 DEF MemoryInv
<1>3. Allocated' = Allocated /\ \A l \in Layers : Addresses(l)' = Addresses(l)
  BY <1>1 DEF Allocated, Addresses
<1> QED BY <1>1, <1>2, <1>3 DEF MemoryInv, Allocated, ParseStages, BuiltStages, FittedStages

LEMMA StepMemory == ConfigInv /\ LoadInv /\ MemoryInv /\ [StartupNext]_allVars => MemoryInv'
<1> SUFFICES ASSUME ConfigInv, LoadInv, MemoryInv, [StartupNext]_allVars PROVE MemoryInv'
  OBVIOUS
<1>1. CASE UNCHANGED allVars
  <2>1. Allocated' = Allocated /\ \A l \in Layers : Addresses(l)' = Addresses(l)
    BY <1>1 DEF Allocated, Addresses, allVars, memoryVars
  <2> QED BY <1>1, <2>1 DEF MemoryInv, Allocated, allVars, memoryVars, configVars
<1>2. CASE ConfigNext /\ UNCHANGED <<memoryVars, layoutVars, serveVars>>
  BY <1>2, EarlyFrame, EarlyMemory DEF memoryVars
<1>3. CASE Construct
  BY <1>3, EarlyMemory DEF Construct
<1>4. CASE GenerateContent
  <2>1. /\ stage = "content" /\ UNCHANGED <<load, region, mapped, numTiers>>
        /\ \/ stage' = "crashed" /\ UNCHANGED tier
           \/ NextTier("fill")
    BY <1>4 DEF GenerateContent, Fail, memoryVars, configFrame, configVars
  <2>2. tier \in 1 .. 3 /\ (numTiers = 2 => tier # 2)
    BY <2>1 DEF MemoryInv, BuiltStages, FittedStages
  <2>3. /\ stage' \in {"content", "fill", "crashed"} /\ tier' \in 1 .. 3
        /\ numTiers = 2 => tier' # 2
    BY <2>1, <2>2, NextTurn
  <2> QED BY <2>1, <2>3, LateMemory
<1>5. CASE FillClient \/ StartClient \/ LookUp \/ Promote
  <2>1. /\ stage \in {"fill", "serve"} /\ stage' \in {"fill", "serve", "threw", "asserted"}
        /\ UNCHANGED <<tier, load, region, mapped, numTiers>>
    BY <1>5 DEF FillClient, StartClient, LookUp, Promote, Fail, memoryVars, configFrame, configVars
  <2>2. tier \in 1 .. 3 /\ (numTiers = 2 => tier # 2)
    BY <2>1 DEF MemoryInv, BuiltStages, FittedStages
  <2> QED BY <2>1, <2>2, LateMemory
<1> QED BY <1>1, <1>2, <1>3, <1>4, <1>5, AllocateMemory, FinishMemory DEF StartupNext

\* The content stays as it is.
LEMMA ContentRests ==
  ASSUME ContentInv, UNCHANGED <<written, load, region, numTiers>>,
         \/ stage' \in EndStages
         \/ stage' \in EarlyStages \cup {"construct", "allocate"}
              /\ stage \in EarlyStages \cup {"construct", "allocate"}
         \/ UNCHANGED <<stage, tier>>
         \/ stage \in FilledStages /\ stage' \in FilledStages
  PROVE  ContentInv'
<1>1. Tiers' = Tiers /\ Tiers \subseteq Layers /\ \A l \in Layers : Addresses(l)' = Addresses(l)
  BY DEF Tiers, Addresses, Layers
<1>2. CASE stage' \in EndStages
  BY <1>2 DEF ContentInv, EndStages, ParseStages, FilledStages
<1>3. CASE /\ stage' \in EarlyStages \cup {"construct", "allocate"}
           /\ stage \in EarlyStages \cup {"construct", "allocate"}
  BY <1>3 DEF ContentInv, EarlyStages, ParseStages, FilledStages
<1>4. CASE stage \in FilledStages /\ stage' \in FilledStages
  <2>1. written = UNION {Addresses(l) : l \in Tiers} /\ \A l \in Tiers : load[l] > 0 => region[l] # 0
    BY <1>4 DEF ContentInv
  <2>2. written' = UNION {Addresses(l)' : l \in Tiers'}
    BY <1>1, <2>1
  <2> QED BY <1>1, <1>4, <2>1, <2>2 DEF ContentInv, ParseStages, FilledStages
<1>5. CASE stage = "content" /\ UNCHANGED <<stage, tier>>
  <2> DEFINE done == {l \in Tiers : Turn(l) < tier}
  <2>1. written = UNION {Addresses(l) : l \in done} /\ \A l \in done : load[l] > 0 => region[l] # 0
    BY <1>5 DEF ContentInv
  <2>2. done' = done /\ done \subseteq Layers
    BY <1>1, <1>5
  <2>3. written' = UNION {Addresses(l)' : l \in done'}
    BY <1>1, <2>1, <2>2
  <2>4. \A l \in done' : load'[l] > 0 => region'[l] # 0
    BY <2>1, <2>2
  <2> QED BY <1>5, <2>3, <2>4 DEF ContentInv, ParseStages, FilledStages
<1>6. CASE UNCHANGED stage /\ stage \notin FilledStages \cup {"content"}
  BY <1>6 DEF ContentInv, FilledStages
<1> QED BY <1>2, <1>3, <1>4, <1>5, <1>6

LEMMA AllocateContent == ASSUME ConfigInv, MemoryInv, ContentInv, AllocateTier PROVE ContentInv'
<1>1. /\ stage = "allocate" /\ written' = written /\ written = {} /\ numTiers' = numTiers
      /\ tier \in 1 .. 3 /\ (numTiers = 2 => tier # 2)
  BY DEF AllocateTier, ContentInv, MemoryInv, BuiltStages, FittedStages, ExitFailure, memoryVars,
     configFrame, configVars
<1>2. \/ stage' \in {"exit", "allocate"}
      \/ stage' = "content" /\ tier' = 1
  BY <1>1, NextTurn DEF AllocateTier, ExitFailure
<1>3. CASE stage' = "content" /\ tier' = 1
  <2>1. {l \in Tiers' : Turn(l) < tier'} = {}
    BY <1>3 DEF Turn
  <2> QED BY <1>1, <1>3, <2>1 DEF ContentInv, ParseStages, FilledStages
<1> QED BY <1>1, <1>2, <1>3 DEF ContentInv, ParseStages, FilledStages

LEMMA GenerateStep ==
  ASSUME ConfigInv, LoadInv, MemoryInv, ContentInv, GenerateContent
  PROVE  ContentInv'
<1> PICK l : l = LayerOrder[tier]
  OBVIOUS
<1>1. /\ stage = "content" /\ tier \in 1 .. 3 /\ (numTiers = 2 => tier # 2)
      /\ numTiers \in {2, 3} /\ load \in [Layers -> 0 .. SizeMax]
  BY DEF GenerateContent, MemoryInv, ConfigInv, LoadInv, BuiltStages, FittedStages
<1>2. l \in Tiers /\ l \in Layers /\ Turn(l) = tier /\ Tiers \subseteq Layers
  <2>1. l \in Layers /\ Turn(l) = tier
    BY <1>1, TurnFacts
  <2>2. numTiers = 2 => l # "remote"
    BY <1>1, <2>1 DEF Turn
  <2> QED BY <2>1, <2>2 DEF Tiers, Layers
<1>3. CASE load[l] > 0 /\ region[l] = 0
  BY <1>3, ContentRests DEF GenerateContent, Fail, EndStages, memoryVars, configFrame, configVars
<1>4. CASE ~(load[l] > 0 /\ region[l] = 0)
  <2> DEFINE done == {k \in Tiers : Turn(k) < tier}
  <2>1. /\ written' = written \cup Addresses(l) /\ NextTier("fill")
        /\ UNCHANGED <<load, region, numTiers>>
    BY <1>4 DEF GenerateContent, configFrame, configVars
  <2>2. /\ written = UNION {Addresses(k) : k \in done}
        /\ \A k \in done : load[k] > 0 => region[k] # 0
    BY <1>1 DEF ContentInv
  <2>3. Tiers' = Tiers /\ \A k \in Layers : Addresses(k)' = Addresses(k)
    BY <2>1 DEF Tiers, Addresses
  <2>4. /\ \A a : a \in written' <=> \E k \in done \cup {l} : a \in Addresses(k)'
        /\ \A k \in done \cup {l} : load'[k] > 0 => region'[k] # 0
    <3>1. done \subseteq Layers
      BY <1>2
    <3> HIDE DEF done
    <3>2. \A a : a \in written <=> \E k \in done : a \in Addresses(k)
      BY <2>2
    <3> QED BY <1>2, <1>4, <2>1, <2>2, <2>3, <3>1, <3>2
  <2>5. written' = UNION {Addresses(k)' : k \in done \cup {l}}
    <3> HIDE DEF done
    <3> QED BY <2>4
  <2>6. \/ tier = 3 /\ tier' = 1 /\ stage' = "fill"
        \/ tier < 3 /\ tier' = (IF numTiers = 2 THEN 3 ELSE tier + 1) /\ stage' = "content"
    BY <1>1, <2>1, NextTurn
  <2>7. CASE stage' = "fill"
    <3>1. done \cup {l} = Tiers'
      BY <1>1, <1>2, <2>3, <2>6, <2>7 DEF Turn, Tiers, Layers
    <3> HIDE DEF done
    <3> QED BY <2>4, <2>5, <2>7, <3>1 DEF ContentInv, ParseStages, FilledStages
  <2>8. CASE stage' = "content"
    <3>1. done \cup {l} = {k \in Tiers' : Turn(k) < tier'}
      BY <1>1, <1>2, <2>3, <2>6, <2>8 DEF Turn, Tiers, Layers
    <3> HIDE DEF done
    <3> QED BY <2>4, <2>5, <2>8, <3>1 DEF ContentInv, ParseStages, FilledStages
  <2> QED BY <2>6, <2>7, <2>8
<1> QED BY <1>3, <1>4

LEMMA StepContent ==
  ConfigInv /\ LoadInv /\ MemoryInv /\ ContentInv /\ [StartupNext]_allVars => ContentInv'
<1> SUFFICES ASSUME ConfigInv, LoadInv, MemoryInv, ContentInv, [StartupNext]_allVars
             PROVE  ContentInv'
  OBVIOUS
<1>1. CASE UNCHANGED allVars
  BY <1>1, ContentRests DEF allVars, memoryVars, configVars
<1>2. CASE ConfigNext /\ UNCHANGED <<memoryVars, layoutVars, serveVars>>
  <2>1. written = {} /\ written' = written
    BY <1>2, EarlyFrame DEF ContentInv, EarlyStages, ParseStages, memoryVars
  <2> QED BY <1>2, <2>1, EarlyFrame DEF ContentInv, EarlyStages, ParseStages, FilledStages
<1>3. CASE Construct
  BY <1>3 DEF Construct, ContentInv, ParseStages, FilledStages
<1>4. CASE FillClient \/ StartClient \/ LookUp \/ Promote \/ Finish
  <2>1. /\ stage \in FilledStages /\ stage' \in FilledStages \cup EndStages
        /\ UNCHANGED <<written, load, region, numTiers>>
    BY <1>4 DEF FillClient, StartClient, LookUp, Promote, Finish, Fail, memoryVars, configFrame,
       configVars, FilledStages, EndStages
  <2> QED BY <2>1, ContentRests
<1> QED BY <1>1, <1>2, <1>3, <1>4, AllocateContent, GenerateStep DEF StartupNext

-----------------------------------------------------------------------------
(* The table                                                               *)

LEMMA FilledRests ==
  ASSUME ConfigInv, numTiers \in {2, 3}, TableInv, Filled,
         UNCHANGED <<table, placed, filledFor, region, numTiers, clients>>
  PROVE  Filled'
<1>1. /\ Len(table') = WrappedSum(AllPages, filledFor)'
      /\ \A l \in Layers : placed'[l] = WrappedSum(AllPagesIn(l), filledFor)'
  BY ClientsRest DEF Filled
<1>2. RangesInv'
  <2>1. ASSUME NEW i \in 1 .. filledFor
        PROVE  /\ i \in DOMAIN clients /\ Base(i)' = Base(i)
               /\ PagesOf(clients[i])' = PagesOf(clients[i])
               /\ \A l \in Layers : /\ PagesIn(clients[i], l)' = PagesIn(clients[i], l)
                                    /\ Offset(clients[i], l)' = Offset(clients[i], l)
    <3>1. i \in DOMAIN clients
      BY ClientFacts DEF TableInv
    <3>2. "local" \in Layers /\ "remote" \in Layers
      BY DEF Layers
    <3> QED BY <3>1, <3>2, ClientsRest DEF Base, Offset
  <2> QED BY <2>1 DEF Filled, RangesInv
<1>3. AddressInv'
  <2>1. \A l \in Layers : Held(l)' = Held(l) /\ PagesWith(l)' = PagesWith(l)
    BY DEF Held, PagesWith
  <2>2. \A p \in DOMAIN table : table[p].layer \in Layers
    <3>1. DOMAIN table = 1 .. Len(table) /\ table \in Seq(Entry)
      BY DEF TableInv
    <3>2. \A p \in DOMAIN table : table[p] \in Entry
      BY <3>1, SeqMember
    <3> QED BY <3>2 DEF Entry
  <2> QED BY <2>1, <2>2 DEF Filled, AddressInv
<1> QED BY <1>1, <1>2, <1>3 DEF Filled

\* The table is empty when the filling begins.
LEMMA FilledFirst ==
  ASSUME ConfigInv, numTiers \in {2, 3}, region \in [Layers -> Nat],
         table = <<>>, filledFor = 0, placed = [l \in Layers |-> 0]
  PROVE  Filled
<1>1. Len(table) = 0 /\ DOMAIN table = {} /\ \A l \in Layers : placed[l] = 0
  OBVIOUS
<1>2. /\ Len(table) = placed["local"] + placed["remote"] + placed["pmem"]
      /\ numTiers = 2 => placed["remote"] = 0
  BY <1>1 DEF Layers
<1>3. \A l \in Layers : Held(l) = {}
  BY <1>1 DEF Held
<1>4. RangesInv /\ AddressInv
  BY <1>1, <1>3 DEF RangesInv, AddressInv
<1> QED BY <1>1, <1>2, <1>4, SumFacts DEF Filled

LEMMA TwoParts ==
  ASSUME NEW S, NEW t \in Seq(S), NEW u \in Seq(S), NEW all, all = t \o u
  PROVE  /\ all \in Seq(S) /\ Len(all) = Len(t) + Len(u)
         /\ \A k \in 1 .. Len(t) : all[k] = t[k]
         /\ \A k \in 1 .. Len(u) : all[Len(t) + k] = u[k]
OBVIOUS

LEMMA ThreeParts ==
  ASSUME NEW S, NEW t \in Seq(S), NEW u \in Seq(S), NEW v \in Seq(S), NEW w \in Seq(S),
         NEW all, all = t \o u \o v \o w
  PROVE  /\ all \in Seq(S) /\ Len(all) = Len(t) + Len(u) + Len(v) + Len(w)
         /\ \A k \in 1 .. Len(t) : all[k] = t[k]
         /\ \A k \in 1 .. Len(u) : all[Len(t) + k] = u[k]
         /\ \A k \in 1 .. Len(v) : all[Len(t) + Len(u) + k] = v[k]
         /\ \A k \in 1 .. Len(w) : all[Len(t) + Len(u) + Len(v) + k] = w[k]
<1>1. Len(t) \in Nat /\ Len(u) \in Nat /\ Len(v) \in Nat /\ Len(w) \in Nat
  OBVIOUS
<1>2. PICK a : a = t \o u
  OBVIOUS
<1>3. PICK b : b = a \o v
  OBVIOUS
<1>4. all = b \o w
  BY <1>2, <1>3
<1>5. /\ a \in Seq(S) /\ Len(a) = Len(t) + Len(u)
      /\ \A k \in 1 .. Len(t) : a[k] = t[k]
      /\ \A k \in 1 .. Len(u) : a[Len(t) + k] = u[k]
  BY <1>2, TwoParts
<1>6. /\ b \in Seq(S) /\ Len(b) = Len(a) + Len(v)
      /\ \A k \in 1 .. Len(a) : b[k] = a[k]
      /\ \A k \in 1 .. Len(v) : b[Len(a) + k] = v[k]
  <2>1. a \in Seq(S)
    BY <1>5
  <2> QED BY ONLY <1>3, <2>1, v \in Seq(S), TwoParts
<1>7. /\ all \in Seq(S) /\ Len(all) = Len(b) + Len(w)
      /\ \A k \in 1 .. Len(b) : all[k] = b[k]
      /\ \A k \in 1 .. Len(w) : all[Len(b) + k] = w[k]
  <2>1. b \in Seq(S)
    BY <1>6
  <2> QED BY ONLY <1>4, <2>1, w \in Seq(S), TwoParts
<1>8. Len(b) = Len(t) + Len(u) + Len(v) /\ Len(all) = Len(t) + Len(u) + Len(v) + Len(w)
  BY <1>1, <1>5, <1>6, <1>7
<1>9. \A k \in 1 .. Len(t) : all[k] = t[k]
  <2>1. \A k \in 1 .. Len(t) : k \in 1 .. Len(a) /\ k \in 1 .. Len(b)
    BY <1>1, <1>5, <1>6
  <2> QED BY <1>5, <1>6, <1>7, <2>1
<1>10. \A k \in 1 .. Len(u) : all[Len(t) + k] = u[k]
  <2>1. \A k \in 1 .. Len(u) : Len(t) + k \in 1 .. Len(a) /\ Len(t) + k \in 1 .. Len(b)
    BY <1>1, <1>5, <1>6
  <2> QED BY <1>5, <1>6, <1>7, <2>1
<1>11. \A k \in 1 .. Len(v) : all[Len(t) + Len(u) + k] = v[k]
  <2>1. \A k \in 1 .. Len(v) : Len(a) + k \in 1 .. Len(b) /\ Len(a) + k = Len(t) + Len(u) + k
    BY <1>1, <1>5, <1>6
  <2> QED BY <1>6, <1>7, <2>1
<1>12. \A k \in 1 .. Len(w) : all[Len(t) + Len(u) + Len(v) + k] = w[k]
  BY <1>7, <1>8
<1> QED BY <1>7, <1>8, <1>9, <1>10, <1>11, <1>12

\* The three parts of a client's pages are one after the other and are all of them.
Parts(c) ==
  /\ PagesOf(c) = PagesIn(c, "local") + PagesIn(c, "remote") + PagesIn(c, "pmem")
  /\ \A l \in Layers : /\ Offset(c, l) \in Nat /\ PagesIn(c, l) <= PagesOf(c)
                       /\ Offset(c, l) + PagesIn(c, l) <= PagesOf(c)
  /\ \A j \in 1 .. PagesOf(c) : \E l \in Layers : \E k \in 1 .. PagesIn(c, l) :
       j = Offset(c, l) + k
  /\ \A l, m \in Layers : \A k \in 1 .. PagesIn(c, l) : \A h \in 1 .. PagesIn(c, m) :
       Offset(c, l) + k = Offset(c, m) + h => l = m /\ k = h

LEMMA OffsetFacts ==
  ASSUME NEW c, \A l \in Layers : PagesIn(c, l) \in Nat
  PROVE  Parts(c)
<1>1. /\ PagesIn(c, "local") \in Nat /\ PagesIn(c, "remote") \in Nat
      /\ PagesIn(c, "pmem") \in Nat
  BY DEF Layers
<1>2. /\ Offset(c, "local") = 0 /\ Offset(c, "remote") = PagesIn(c, "local")
      /\ Offset(c, "pmem") = PagesIn(c, "local") + PagesIn(c, "remote")
  BY DEF Offset
<1>3. PagesOf(c) = PagesIn(c, "local") + PagesIn(c, "remote") + PagesIn(c, "pmem")
  BY DEF PagesOf
<1>4. \A l \in Layers : /\ Offset(c, l) \in Nat /\ PagesIn(c, l) <= PagesOf(c)
                        /\ Offset(c, l) + PagesIn(c, l) <= PagesOf(c)
  BY <1>1, <1>2, <1>3 DEF Layers
<1>5. ASSUME NEW j \in 1 .. PagesOf(c)
      PROVE  \E l \in Layers : \E k \in 1 .. PagesIn(c, l) : j = Offset(c, l) + k
  <2>1. CASE j <= PagesIn(c, "local")
    <3>1. j \in 1 .. PagesIn(c, "local") /\ j = Offset(c, "local") + j
      BY <1>1, <1>2, <2>1
    <3> QED BY <3>1 DEF Layers
  <2>2. CASE PagesIn(c, "local") < j /\ j <= PagesIn(c, "local") + PagesIn(c, "remote")
    <3> DEFINE k == j - PagesIn(c, "local")
    <3>1. k \in 1 .. PagesIn(c, "remote") /\ j = Offset(c, "remote") + k
      BY <1>1, <1>2, <2>2
    <3> HIDE DEF k
    <3> QED BY <3>1 DEF Layers
  <2>3. CASE j > PagesIn(c, "local") + PagesIn(c, "remote")
    <3> DEFINE k == j - (PagesIn(c, "local") + PagesIn(c, "remote"))
    <3>1. k \in 1 .. PagesIn(c, "pmem") /\ j = Offset(c, "pmem") + k
      BY <1>1, <1>2, <1>3, <2>3
    <3> HIDE DEF k
    <3> QED BY <3>1 DEF Layers
  <2> QED BY <1>1, <2>1, <2>2, <2>3
<1>6. ASSUME NEW l \in Layers, NEW m \in Layers, NEW k \in 1 .. PagesIn(c, l),
             NEW h \in 1 .. PagesIn(c, m), Offset(c, l) + k = Offset(c, m) + h
      PROVE  l = m /\ k = h
  BY <1>1, <1>2, <1>6 DEF Layers
<1> QED BY <1>3, <1>4, <1>5, <1>6 DEF Parts

\* What filling in a client adds to the table, and where.
LEMMA FillFacts ==
  ASSUME ConfigInv, MemoryInv, TableInv, FillClient, filledFor' # filledFor,
         NEW c, c = clients[filledFor + 1]
  PROVE  /\ stage = "fill" /\ numTiers \in {2, 3} /\ filledFor' = filledFor + 1
         /\ filledFor \in 0 .. Len(clients) - 1 /\ filledFor + 1 \in DOMAIN clients
         /\ UNCHANGED <<region, numTiers, clients, stage>>
         /\ \A l \in Layers : PagesIn(c, l) \in Nat
         /\ PagesOf(c) \in Nat /\ Len(table) \in Nat /\ Len(table) + PagesOf(c) <= TableLimit
         /\ placed' = [l \in Layers |-> placed[l] + PagesIn(c, l)]
         /\ table' \in Seq(Entry) /\ Len(table') = Len(table) + PagesOf(c)
         /\ \A p \in 1 .. Len(table) : table'[p] = table[p]
         /\ \A l \in Layers : \A k \in 1 .. PagesIn(c, l) :
              table'[Len(table) + Offset(c, l) + k]
                = [layer |-> l, addr |-> region[l] + placed[l] + k - 1]
<1>1. /\ stage = "fill" /\ filledFor < Len(clients) /\ filledFor' = filledFor + 1
      /\ ~(Len(table) + PagesOf(c) > TableLimit)
      /\ table' = table \o Entries(c, "local") \o Entries(c, "remote") \o Entries(c, "pmem")
      /\ placed' = [l \in Layers |-> placed[l] + PagesIn(c, l)]
      /\ UNCHANGED <<region, numTiers, clients, stage>>
  BY DEF FillClient, Fail, layoutVars, memoryVars, configFrame, configVars
<1>2. numTiers \in {2, 3} /\ region \in [Layers -> Nat] /\ filledFor \in Nat /\ Len(clients) \in Nat
  BY <1>1 DEF ConfigInv, MemoryInv, TableInv, FittedStages
<1>3. filledFor \in 0 .. Len(clients) - 1 /\ filledFor + 1 \in DOMAIN clients
  BY <1>1, <1>2, ClientFacts
<1>4. PagesOf(c) \in Nat /\ \A l \in Layers : PagesIn(c, l) \in Nat
  BY <1>2, <1>3, ClientFacts
<1>5. Len(table) \in Nat /\ Len(table) + PagesOf(c) <= TableLimit /\ table \in Seq(Entry)
  BY <1>1, <1>4, StartupAssumption DEF TableInv
<1>6. ASSUME NEW l \in Layers
      PROVE  /\ Entries(c, l) \in Seq(Entry) /\ Len(Entries(c, l)) = PagesIn(c, l)
             /\ \A k \in 1 .. PagesIn(c, l) :
                  Entries(c, l)[k] = [layer |-> l, addr |-> region[l] + placed[l] + k - 1]
  <2>1. PagesIn(c, l) \in Nat /\ region[l] \in Nat /\ placed[l] \in Nat
    BY <1>2, <1>4, StartupAssumption DEF TableInv
  <2> DEFINE entry(k) == [layer |-> l, addr |-> region[l] + placed[l] + k - 1]
  <2>2. \A k \in 1 .. PagesIn(c, l) : entry(k) \in Entry
    BY <2>1 DEF Entry
  <2>3. Entries(c, l) = [k \in 1 .. PagesIn(c, l) |-> entry(k)]
    BY DEF Entries
  <2> HIDE DEF entry
  <2>4. /\ Entries(c, l) \in Seq(Entry) /\ Len(Entries(c, l)) = PagesIn(c, l)
        /\ \A k \in 1 .. PagesIn(c, l) : Entries(c, l)[k] = entry(k)
    BY <2>1, <2>2, <2>3
  <2> QED BY <2>4 DEF entry
<1>7. /\ Entries(c, "local") \in Seq(Entry) /\ Len(Entries(c, "local")) = PagesIn(c, "local")
      /\ Entries(c, "remote") \in Seq(Entry) /\ Len(Entries(c, "remote")) = PagesIn(c, "remote")
      /\ Entries(c, "pmem") \in Seq(Entry) /\ Len(Entries(c, "pmem")) = PagesIn(c, "pmem")
      /\ PagesIn(c, "local") \in Nat /\ PagesIn(c, "remote") \in Nat /\ PagesIn(c, "pmem") \in Nat
  BY <1>4, <1>6 DEF Layers
<1>8. /\ table' \in Seq(Entry) /\ Len(table') = Len(table) + PagesOf(c)
      /\ \A p \in 1 .. Len(table) : table'[p] = table[p]
      /\ \A k \in 1 .. PagesIn(c, "local") : table'[Len(table) + k] = Entries(c, "local")[k]
      /\ \A k \in 1 .. PagesIn(c, "remote") :
           table'[Len(table) + PagesIn(c, "local") + k] = Entries(c, "remote")[k]
      /\ \A k \in 1 .. PagesIn(c, "pmem") :
           table'[Len(table) + PagesIn(c, "local") + PagesIn(c, "remote") + k]
             = Entries(c, "pmem")[k]
  <2>1. PagesOf(c) = PagesIn(c, "local") + PagesIn(c, "remote") + PagesIn(c, "pmem")
    BY DEF PagesOf
  <2> DEFINE u == Entries(c, "local")
             v == Entries(c, "remote")
             w == Entries(c, "pmem")
  <2>2. u \in Seq(Entry) /\ v \in Seq(Entry) /\ w \in Seq(Entry) /\ table' = table \o u \o v \o w
    BY <1>1, <1>7
  <2> HIDE DEF u, v, w
  <2>3. /\ table' \in Seq(Entry) /\ Len(table') = Len(table) + Len(u) + Len(v) + Len(w)
        /\ \A k \in 1 .. Len(table) : table'[k] = table[k]
        /\ \A k \in 1 .. Len(u) : table'[Len(table) + k] = u[k]
        /\ \A k \in 1 .. Len(v) : table'[Len(table) + Len(u) + k] = v[k]
        /\ \A k \in 1 .. Len(w) : table'[Len(table) + Len(u) + Len(v) + k] = w[k]
    BY <1>5, <2>2, ThreeParts
  <2>4. /\ Len(u) = PagesIn(c, "local") /\ Len(v) = PagesIn(c, "remote")
        /\ Len(w) = PagesIn(c, "pmem")
    BY <1>7 DEF u, v, w
  <2>5. Len(table') = Len(table) + PagesOf(c)
    <3>1. /\ Len(table) \in Nat /\ PagesIn(c, "local") \in Nat /\ PagesIn(c, "remote") \in Nat
          /\ PagesIn(c, "pmem") \in Nat
          /\ PagesOf(c) = PagesIn(c, "local") + PagesIn(c, "remote") + PagesIn(c, "pmem")
      BY <1>5, <1>7, <2>1
    <3>2. Len(table') = Len(table) + Len(u) + Len(v) + Len(w)
      BY <2>3
    <3> QED BY ONLY <2>4, <3>1, <3>2
  <2>6. /\ \A k \in 1 .. PagesIn(c, "local") : table'[Len(table) + k] = u[k]
        /\ \A k \in 1 .. PagesIn(c, "remote") :
             table'[Len(table) + PagesIn(c, "local") + k] = v[k]
        /\ \A k \in 1 .. PagesIn(c, "pmem") :
             table'[Len(table) + PagesIn(c, "local") + PagesIn(c, "remote") + k] = w[k]
    <3>1. \A k \in 1 .. PagesIn(c, "local") : table'[Len(table) + k] = u[k]
      BY ONLY <2>3, <2>4
    <3>2. \A k \in 1 .. PagesIn(c, "remote") :
            table'[Len(table) + PagesIn(c, "local") + k] = v[k]
      BY ONLY <2>3, <2>4
    <3>3. \A k \in 1 .. PagesIn(c, "pmem") :
            table'[Len(table) + PagesIn(c, "local") + PagesIn(c, "remote") + k] = w[k]
      BY ONLY <2>3, <2>4
    <3> QED BY ONLY <3>1, <3>2, <3>3
  <2>7. table' \in Seq(Entry) /\ \A p \in 1 .. Len(table) : table'[p] = table[p]
    BY ONLY <2>3
  <2> USE DEF u, v, w
  <2> QED BY ONLY <2>5, <2>6, <2>7
<1>9. ASSUME NEW l \in Layers, NEW k \in 1 .. PagesIn(c, l)
      PROVE  table'[Len(table) + Offset(c, l) + k] = Entries(c, l)[k]
  <2>1. CASE l = "local"
    BY <1>5, <1>8, <2>1 DEF Offset
  <2>2. CASE l = "remote"
    BY <1>5, <1>8, <2>2 DEF Offset
  <2>3. CASE l = "pmem"
    <3>1. Len(table) + Offset(c, l) + k
            = Len(table) + PagesIn(c, "local") + PagesIn(c, "remote") + k
      BY <1>5, <1>7, <2>3 DEF Offset
    <3> QED BY <1>8, <2>3, <3>1
  <2> QED BY <2>1, <2>2, <2>3 DEF Layers
<1>10. \A l \in Layers : \A k \in 1 .. PagesIn(c, l) :
         table'[Len(table) + Offset(c, l) + k]
           = [layer |-> l, addr |-> region[l] + placed[l] + k - 1]
  BY <1>6, <1>9
<1> QED BY <1>1, <1>2, <1>3, <1>4, <1>5, <1>8, <1>10

LEMMA RangeFacts ==
  ASSUME NEW r \in Nat, NEW m \in Nat, NEW a
  PROVE  a \in r .. r + m - 1 <=> a \in Nat /\ r <= a /\ a < r + m
OBVIOUS

LEMMA Unwrapped == ASSUME NEW a \in 0 .. SizeMax PROVE a % SizeMod = a
BY SizeFacts

\* The table has grown by a client, and is still filled as it should be.
LEMMA FillStep ==
  ASSUME ConfigInv, MemoryInv, TableInv, FillClient, filledFor' # filledFor
  PROVE  TableInv'
<1> PICK c : c = clients[filledFor + 1]
  OBVIOUS
<1> PICK n : n = filledFor
  OBVIOUS
<1> PICK len : len = Len(table)
  OBVIOUS
<1>1. /\ stage = "fill" /\ numTiers \in {2, 3} /\ filledFor' = n + 1
      /\ n \in 0 .. Len(clients) - 1 /\ n + 1 \in DOMAIN clients
      /\ UNCHANGED <<region, numTiers, clients, stage>>
      /\ \A l \in Layers : PagesIn(c, l) \in Nat
      /\ PagesOf(c) \in Nat /\ len \in Nat /\ len + PagesOf(c) <= TableLimit
      /\ placed' = [l \in Layers |-> placed[l] + PagesIn(c, l)]
      /\ table' \in Seq(Entry) /\ Len(table') = len + PagesOf(c)
      /\ \A p \in 1 .. len : table'[p] = table[p]
      /\ \A l \in Layers : \A k \in 1 .. PagesIn(c, l) :
           table'[len + Offset(c, l) + k]
             = [layer |-> l, addr |-> region[l] + placed[l] + k - 1]
  BY FillFacts
<1>2. /\ Filled /\ table \in Seq(Entry) /\ DOMAIN table = 1 .. len /\ n \in Nat /\ n + 1 \in Nat
      /\ n + 1 - 1 = n
      /\ Len(clients) \in Nat /\ placed \in [Layers -> 0 .. TableLimit]
  BY <1>1, ClientFacts DEF TableInv, FilledStages
<1>3. /\ PagesOf(c) = PagesIn(c, "local") + PagesIn(c, "remote") + PagesIn(c, "pmem")
      /\ \A l \in Layers : /\ Offset(c, l) \in Nat /\ PagesIn(c, l) <= PagesOf(c)
                           /\ Offset(c, l) + PagesIn(c, l) <= PagesOf(c)
      /\ \A j \in 1 .. PagesOf(c) : \E l \in Layers : \E k \in 1 .. PagesIn(c, l) :
           j = Offset(c, l) + k
      /\ \A l, m \in Layers : \A k \in 1 .. PagesIn(c, l) : \A h \in 1 .. PagesIn(c, m) :
           Offset(c, l) + k = Offset(c, m) + h => l = m /\ k = h
  <2>1. \A l \in Layers : PagesIn(c, l) \in Nat
    BY <1>1
  <2>2. Parts(c)
    BY <2>1, OffsetFacts
  <2> QED BY <2>2 DEF Parts
<1>4. \A l \in Layers : /\ placed[l] \in Nat /\ region[l] \in Nat /\ placed[l] <= len
                        /\ placed[l] + PagesIn(c, l) <= TableLimit
                        /\ placed'[l] = placed[l] + PagesIn(c, l)
  <2>1. /\ placed["local"] \in Nat /\ placed["remote"] \in Nat /\ placed["pmem"] \in Nat
        /\ len = placed["local"] + placed["remote"] + placed["pmem"]
    BY <1>2, StartupAssumption DEF Layers, Filled
  <2>2. \A l \in Layers : placed[l] \in Nat /\ placed[l] <= len
    BY <2>1 DEF Layers
  <2>3. \A l \in Layers : region[l] \in Nat
    BY DEF MemoryInv
  <2> QED BY <1>1, <1>3, <2>2, <2>3, StartupAssumption
<1>5. /\ Len(table') = WrappedSum(AllPages, n + 1)
      /\ \A l \in Layers : placed'[l] = WrappedSum(AllPagesIn(l), n + 1)
  <2>1. len = WrappedSum(AllPages, n) /\ \A l \in Layers : placed[l] = WrappedSum(AllPagesIn(l), n)
    BY <1>2 DEF Filled
  <2>2. len + PagesOf(c) \in 0 .. SizeMax /\ \A l \in Layers : placed[l] + PagesIn(c, l) \in 0 .. SizeMax
    BY <1>1, <1>4, StartupAssumption, SizeFacts
  <2>3. /\ WrappedSum(AllPages, n + 1) = (len + PagesOf(c)) % SizeMod
        /\ \A l \in Layers :
             WrappedSum(AllPagesIn(l), n + 1) = (placed[l] + PagesIn(c, l)) % SizeMod
    BY <1>1, <2>1, SumFacts
  <2> QED BY <1>1, <1>4, <2>2, <2>3, Unwrapped
<1>6. /\ Len(table') = WrappedSum(AllPages, filledFor)'
      /\ \A l \in Layers : placed'[l] = WrappedSum(AllPagesIn(l), filledFor)'
  <2>1. AllPages' = AllPages /\ \A l \in Layers : AllPagesIn(l)' = AllPagesIn(l)
    BY <1>1, ClientsRest
  <2>2. filledFor' = n + 1
    BY <1>1
  <2> QED BY <1>5, <2>1, <2>2
<1>7. /\ Len(table') = placed'["local"] + placed'["remote"] + placed'["pmem"]
      /\ numTiers = 2 => placed'["remote"] = 0
  <2>1. len = placed["local"] + placed["remote"] + placed["pmem"]
    BY <1>2 DEF Filled
  <2>2. numTiers = 2 => placed["remote"] = 0 /\ PagesIn(c, "remote") = 0
    BY <1>2 DEF Filled, PagesIn
  <2>3. /\ placed["local"] \in Nat /\ placed["remote"] \in Nat /\ placed["pmem"] \in Nat
        /\ PagesIn(c, "local") \in Nat /\ PagesIn(c, "remote") \in Nat /\ PagesIn(c, "pmem") \in Nat
        /\ placed'["local"] = placed["local"] + PagesIn(c, "local")
        /\ placed'["remote"] = placed["remote"] + PagesIn(c, "remote")
        /\ placed'["pmem"] = placed["pmem"] + PagesIn(c, "pmem")
    BY <1>1, <1>4 DEF Layers
  <2>4. /\ Len(table') = len + PagesOf(c)
        /\ PagesOf(c) = PagesIn(c, "local") + PagesIn(c, "remote") + PagesIn(c, "pmem")
    BY <1>1, <1>3
  <2>5. Len(table') = placed'["local"] + placed'["remote"] + placed'["pmem"]
    <3>1. Len(table') = (placed["local"] + placed["remote"] + placed["pmem"])
                          + (PagesIn(c, "local") + PagesIn(c, "remote") + PagesIn(c, "pmem"))
      BY ONLY <2>1, <2>4
    <3>2. (placed["local"] + placed["remote"] + placed["pmem"])
            + (PagesIn(c, "local") + PagesIn(c, "remote") + PagesIn(c, "pmem"))
          = (placed["local"] + PagesIn(c, "local")) + (placed["remote"] + PagesIn(c, "remote"))
              + (placed["pmem"] + PagesIn(c, "pmem"))
      BY ONLY <2>3
    <3> QED BY ONLY <2>3, <3>1, <3>2
  <2> QED BY <2>2, <2>3, <2>5
<1>8. \A i \in 1 .. n + 1 :
        /\ Base(i) \in Nat /\ i \in DOMAIN clients /\ Base(i)' = Base(i)
        /\ PagesOf(clients[i])' = PagesOf(clients[i])
        /\ \A l \in Layers : /\ PagesIn(clients[i], l)' = PagesIn(clients[i], l)
                             /\ Offset(clients[i], l)' = Offset(clients[i], l)
  <2>1. ASSUME NEW i \in 1 .. n + 1 PROVE i \in DOMAIN clients /\ i - 1 \in 0 .. Len(clients)
    BY <1>1, <1>2, ClientFacts
  <2>2. "local" \in Layers /\ "remote" \in Layers
    BY DEF Layers
  <2>3. \A i \in 0 .. Len(clients) : WrappedSum(AllPages, i) \in Nat
    BY <1>1, SumFacts, SizeFacts
  <2>4. UNCHANGED <<numTiers, clients>>
    BY <1>1
  <2>5. ASSUME NEW i \in 1 .. n + 1
        PROVE  /\ PagesOf(clients[i])' = PagesOf(clients[i])
               /\ \A l \in Layers : PagesIn(clients[i], l)' = PagesIn(clients[i], l)
               /\ WrappedSum(AllPages, i - 1)' = WrappedSum(AllPages, i - 1)
    BY <2>1, <2>4, ClientsRest
  <2>6. ASSUME NEW i \in 1 .. n + 1, NEW l \in Layers
        PROVE  Offset(clients[i], l)' = Offset(clients[i], l)
    BY <2>2, <2>5 DEF Offset
  <2> QED BY <2>1, <2>3, <2>5, <2>6 DEF Base
<1>9. RangesInv'
  <2>1. ASSUME NEW i \in 1 .. n
        PROVE  /\ Base(i) + PagesOf(clients[i]) <= Len(table')
               /\ \A l \in Layers : \A k \in 1 .. PagesIn(clients[i], l) :
                    table'[Base(i) + Offset(clients[i], l) + k].layer = l
    <3>1. /\ Base(i) + PagesOf(clients[i]) <= len
          /\ \A l \in Layers : \A k \in 1 .. PagesIn(clients[i], l) :
               table[Base(i) + Offset(clients[i], l) + k].layer = l
      BY <1>2 DEF Filled, RangesInv
    <3>2. i \in DOMAIN clients /\ Base(i) \in Nat
      <4>1. i \in 1 .. n + 1
        BY <1>2
      <4> QED BY <1>8, <4>1
    <3>3. PagesOf(clients[i]) \in Nat /\ \A l \in Layers : PagesIn(clients[i], l) \in Nat
      BY <1>1, <3>2, ClientFacts
    <3>4. \A l \in Layers : /\ Offset(clients[i], l) \in Nat
                            /\ Offset(clients[i], l) + PagesIn(clients[i], l) <= PagesOf(clients[i])
      BY <3>3, OffsetFacts DEF Parts
    <3>5. ASSUME NEW l \in Layers, NEW k \in 1 .. PagesIn(clients[i], l)
          PROVE  Base(i) + Offset(clients[i], l) + k \in 1 .. len
      <4> PICK o : o = Offset(clients[i], l)
        OBVIOUS
      <4> PICK b : b = Base(i)
        OBVIOUS
      <4>1. /\ o \in Nat /\ o + PagesIn(clients[i], l) <= PagesOf(clients[i])
            /\ b \in Nat /\ b + PagesOf(clients[i]) <= len
            /\ PagesOf(clients[i]) \in Nat /\ PagesIn(clients[i], l) \in Nat /\ len \in Nat
        BY <1>1, <3>1, <3>2, <3>3, <3>4
      <4>2. k \in 1 .. PagesIn(clients[i], l)
        OBVIOUS
      <4>3. b + o + k \in 1 .. len
        BY ONLY <4>1, <4>2
      <4> QED BY <4>3
    <3>6. Base(i) + PagesOf(clients[i]) <= Len(table')
      BY <1>1, <3>1, <3>2, <3>3
    <3>7. ASSUME NEW l \in Layers, NEW k \in 1 .. PagesIn(clients[i], l)
          PROVE  table'[Base(i) + Offset(clients[i], l) + k].layer = l
      <4> PICK p : p = Base(i) + Offset(clients[i], l) + k
        OBVIOUS
      <4>1. p \in 1 .. len /\ table[p].layer = l
        BY <3>1, <3>5
      <4>2. table'[p] = table[p]
        BY <1>1, <4>1
      <4> QED BY <4>1, <4>2
    <3> QED BY <3>6, <3>7
  <2>2. /\ Base(n + 1) + PagesOf(clients[n + 1]) <= Len(table')
        /\ \A l \in Layers : \A k \in 1 .. PagesIn(clients[n + 1], l) :
             table'[Base(n + 1) + Offset(clients[n + 1], l) + k].layer = l
    <3>1. len = WrappedSum(AllPages, n)
      BY <1>2 DEF Filled
    <3>2. Base(n + 1) = len /\ c = clients[n + 1]
      BY <1>2, <3>1 DEF Base
    <3>3. len + PagesOf(c) <= Len(table')
      BY <1>1
    <3>4. ASSUME NEW l \in Layers, NEW k \in 1 .. PagesIn(c, l)
          PROVE  table'[len + Offset(c, l) + k].layer = l
      <4>1. table'[len + Offset(c, l) + k] = [layer |-> l, addr |-> region[l] + placed[l] + k - 1]
        BY <1>1
      <4> QED BY <4>1
    <3> QED BY <3>2, <3>3, <3>4
  <2>3. \A i \in 1 .. n + 1 : i \in 1 .. n \/ i = n + 1
    BY <1>1
  <2>4. \A i \in 1 .. n + 1 :
          /\ Base(i) + PagesOf(clients[i]) <= Len(table')
          /\ \A l \in Layers : \A k \in 1 .. PagesIn(clients[i], l) :
               table'[Base(i) + Offset(clients[i], l) + k].layer = l
    BY <2>1, <2>2, <2>3
  <2> QED BY <1>1, <1>8, <2>4 DEF RangesInv
<1>10. AddressInv'
  <2>10. /\ len \in Nat /\ PagesOf(c) \in Nat
        /\ \A l \in Layers : /\ PagesIn(c, l) \in Nat /\ Offset(c, l) \in Nat
                             /\ Offset(c, l) + PagesIn(c, l) <= PagesOf(c)
                             /\ region[l] \in Nat /\ placed[l] \in Nat
                             /\ placed'[l] = placed[l] + PagesIn(c, l)
    BY <1>1, <1>3, <1>4
  <2>11. /\ region' = region
         /\ \A p \in 1 .. len : table'[p] = table[p]
         /\ \A l \in Layers : \A k \in 1 .. PagesIn(c, l) :
              table'[len + Offset(c, l) + k]
                = [layer |-> l, addr |-> region[l] + placed[l] + k - 1]
    BY <1>1
  <2>1. \A p \in 1 .. len : table[p].layer \in Layers /\ table[p].addr \in Held(table[p].layer)
    <3>1. \A p \in 1 .. len : table[p] \in Entry
      BY <1>2, SeqMember
    <3>2. \A p \in 1 .. len : table[p].addr \in Held(table[p].layer)
      BY <1>2 DEF Filled, AddressInv
    <3> QED BY <3>1, <3>2 DEF Entry
  <2>2. DOMAIN table' = 1 .. len + PagesOf(c)
    BY <1>1
  <2>3. ASSUME NEW p \in DOMAIN table'
        PROVE  \/ p \in 1 .. len
               \/ \E l \in Layers : \E k \in 1 .. PagesIn(c, l) : p = len + Offset(c, l) + k
    <3>1. p \in 1 .. len \/ p - len \in 1 .. PagesOf(c)
      BY <2>10, <2>2
    <3>2. ASSUME NEW l \in Layers, NEW k \in 1 .. PagesIn(c, l), p - len = Offset(c, l) + k
          PROVE  p = len + Offset(c, l) + k
      BY <2>10, <2>2, <3>2
    <3> QED BY <1>3, <3>1, <3>2
  <2>4. \A l \in Layers : \A k \in 1 .. PagesIn(c, l) : len + Offset(c, l) + k \in 1 .. len + PagesOf(c)
    BY <2>10
  <2>5. \A l \in Layers : \A a :
          /\ a \in Held(l) <=> a \in Nat /\ region[l] <= a /\ a < region[l] + placed[l]
          /\ a \in Held(l)' <=>
               a \in Nat /\ region[l] <= a /\ a < region[l] + placed[l] + PagesIn(c, l)
    <3>2. ASSUME NEW l \in Layers
          PROVE  /\ region[l] \in Nat /\ placed[l] \in Nat
                 /\ placed[l] + PagesIn(c, l) \in Nat
                 /\ region[l] + (placed[l] + PagesIn(c, l)) = region[l] + placed[l] + PagesIn(c, l)
                 /\ region'[l] = region[l] /\ placed'[l] = placed[l] + PagesIn(c, l)
      BY <2>10, <2>11
    <3>3. ASSUME NEW l \in Layers, NEW a
          PROVE  a \in Held(l)' <=>
                   a \in Nat /\ region[l] <= a /\ a < region[l] + placed[l] + PagesIn(c, l)
      <4>1. Held(l)' = region[l] .. region[l] + (placed[l] + PagesIn(c, l)) - 1
        BY <3>2 DEF Held
      <4>2. a \in region[l] .. region[l] + (placed[l] + PagesIn(c, l)) - 1 <=>
              a \in Nat /\ region[l] <= a /\ a < region[l] + (placed[l] + PagesIn(c, l))
        BY RangeFacts, <3>2
      <4> QED BY <3>2, <4>1, <4>2
    <3>4. ASSUME NEW l \in Layers, NEW a
          PROVE  a \in Held(l) <=> a \in Nat /\ region[l] <= a /\ a < region[l] + placed[l]
      BY RangeFacts, <3>2 DEF Held
    <3> QED BY <3>3, <3>4
  <2>6. \A l \in Layers : Held(l) \subseteq Held(l)'
    BY <2>10, <2>5
  <2>7. \A p \in DOMAIN table' : /\ table'[p].layer \in Layers
                                 /\ table'[p].addr \in Held(table[p].layer)'
    <3>1. ASSUME NEW l \in Layers, NEW k \in 1 .. PagesIn(c, l)
          PROVE  region[l] + placed[l] + k - 1 \in Held(l)'
      <4> PICK a : a = region[l] + placed[l] + k - 1
        OBVIOUS
      <4>1. region[l] \in Nat /\ placed[l] \in Nat /\ PagesIn(c, l) \in Nat
        BY <2>10
      <4>2. a \in Nat /\ region[l] <= a /\ a < region[l] + placed[l] + PagesIn(c, l)
        BY <4>1
      <4> QED BY <2>5, <4>2
    <3>2. ASSUME NEW p \in DOMAIN table', p \in 1 .. len
          PROVE  table'[p].layer \in Layers /\ table'[p].addr \in Held(table[p].layer)'
      <4> PICK m : m = table[p].layer
        OBVIOUS
      <4>1. table'[p] = table[p] /\ m \in Layers /\ table[p].addr \in Held(m)
        BY <2>11, <2>1, <3>2
      <4>2. table'[p].layer = m /\ table'[p].addr \in Held(m)'
        BY <2>6, <4>1
      <4> QED BY <4>1, <4>2 DEF Held
    <3>3. ASSUME NEW p \in DOMAIN table', NEW l \in Layers, NEW k \in 1 .. PagesIn(c, l),
                 p = len + Offset(c, l) + k
          PROVE  table'[p].layer \in Layers /\ table'[p].addr \in Held(table[p].layer)'
      <4>1. table'[p] = [layer |-> l, addr |-> region[l] + placed[l] + k - 1]
        BY <2>11, <3>3
      <4>2. table'[p].layer = l /\ table'[p].addr = region[l] + placed[l] + k - 1
        BY <4>1
      <4> QED BY <3>1, <4>2 DEF Held
    <3> QED BY <2>3, <3>2, <3>3
  <2>8. ASSUME NEW p \in DOMAIN table', NEW q \in DOMAIN table',
               table'[p].layer = table'[q].layer, table'[p].addr = table'[q].addr
        PROVE  p = q
    <3>1. ASSUME NEW u \in 1 .. len, NEW m \in Layers, NEW h \in 1 .. PagesIn(c, m),
                 table'[u].layer = m
          PROVE  table'[u].addr # region[m] + placed[m] + h - 1
      <4>1. table[u].layer = m /\ table[u].addr \in Held(m) /\ table'[u] = table[u]
        BY <2>11, <2>1, <3>1
      <4>2. table[u].addr <= region[m] + placed[m] - 1 /\ table[u].addr \in Nat
        <5> PICK a : a = table[u].addr
          OBVIOUS
        <5>1. a \in Nat /\ a < region[m] + placed[m] /\ region[m] \in Nat /\ placed[m] \in Nat
          BY <2>10, <2>5, <4>1
        <5> QED BY <5>1
      <4>3. region[m] \in Nat /\ placed[m] \in Nat /\ h \in Int /\ h >= 1
        BY <2>10
      <4> PICK a : a = table[u].addr
        OBVIOUS
      <4> PICK g : g = region[m] + placed[m]
        OBVIOUS
      <4>4. a \in Nat /\ g \in Nat /\ a <= g - 1 /\ h \in Int /\ h >= 1
        BY <4>2, <4>3
      <4>5. a # g + h - 1
        BY ONLY <4>4
      <4> QED BY <4>1, <4>5
    <3>2. ASSUME NEW v \in DOMAIN table', NEW l \in Layers, NEW k \in 1 .. PagesIn(c, l),
                 v = len + Offset(c, l) + k
          PROVE  table'[v].layer = l /\ table'[v].addr = region[l] + placed[l] + k - 1
      <4>1. table'[v] = [layer |-> l, addr |-> region[l] + placed[l] + k - 1]
        BY <2>11, <3>2
      <4> QED BY <4>1
    <3>3. CASE p \in 1 .. len /\ q \in 1 .. len
      <4>1. \A u, v \in DOMAIN table :
              u # v /\ table[u].layer = table[v].layer => table[u].addr # table[v].addr
        BY <1>2 DEF Filled, AddressInv
      <4> QED BY <1>2, <2>11, <2>8, <3>3, <4>1
    <3>4. CASE p \in 1 .. len /\ q \notin 1 .. len
      BY <2>3, <2>8, <3>1, <3>2, <3>4
    <3>5. CASE p \notin 1 .. len /\ q \in 1 .. len
      BY <2>3, <2>8, <3>1, <3>2, <3>5
    <3>6. CASE p \notin 1 .. len /\ q \notin 1 .. len
      <4>1. PICK l \in Layers : \E k \in 1 .. PagesIn(c, l) : p = len + Offset(c, l) + k
        BY <2>3, <3>6
      <4>2. PICK k \in 1 .. PagesIn(c, l) : p = len + Offset(c, l) + k
        BY <4>1
      <4>3. PICK m \in Layers : \E h \in 1 .. PagesIn(c, m) : q = len + Offset(c, m) + h
        BY <2>3, <3>6
      <4>4. PICK h \in 1 .. PagesIn(c, m) : q = len + Offset(c, m) + h
        BY <4>3
      <4>5. l = m /\ region[l] + placed[l] + k - 1 = region[l] + placed[l] + h - 1
        BY <2>8, <3>2, <4>2, <4>4
      <4>6. k = h
        <5>1. l = m /\ k \in 1 .. PagesIn(c, l) /\ h \in 1 .. PagesIn(c, l)
          BY <4>5
        <5>2. k \in Int /\ h \in Int
          BY <2>10, <5>1
        <5> PICK s : s = region[l] + placed[l]
          OBVIOUS
        <5>3. s \in Int /\ s + k - 1 = s + h - 1
          BY <2>10, <4>5
        <5> QED BY ONLY <5>2, <5>3
      <4> QED BY <4>2, <4>4, <4>5, <4>6
    <3> QED BY <3>3, <3>4, <3>5, <3>6
  <2>9. ASSUME NEW l \in Layers, NEW a \in Held(l)'
        PROVE  \E p \in PagesWith(l)' : table'[p].addr = a
    <3>1. CASE a \in Held(l)
      <4>1. PICK p \in PagesWith(l) : table[p].addr = a
        BY <1>2, <3>1 DEF Filled, AddressInv
      <4>2. p \in 1 .. len /\ table[p].layer = l /\ table'[p] = table[p] /\ p \in DOMAIN table'
        BY <1>1, <1>2, <2>2, <4>1 DEF PagesWith
      <4> QED BY <4>1, <4>2 DEF PagesWith
    <3>2. CASE a \notin Held(l)
      <4> PICK k : k = a - (region[l] + placed[l]) + 1
        OBVIOUS
      <4> PICK p : p = len + Offset(c, l) + k
        OBVIOUS
      <4>1. k \in 1 .. PagesIn(c, l) /\ region[l] + placed[l] + k - 1 = a
        <5>1. region[l] \in Nat /\ placed[l] \in Nat /\ PagesIn(c, l) \in Nat
          BY <2>10
        <5>2. /\ a \in Nat /\ region[l] <= a /\ a < region[l] + placed[l] + PagesIn(c, l)
              /\ ~(a < region[l] + placed[l])
          BY <2>5, <3>2
        <5> QED BY <5>1, <5>2
      <4>2. p \in DOMAIN table' /\ table'[p] = [layer |-> l, addr |-> a]
        BY <2>11, <2>2, <2>4, <4>1
      <4>3. table'[p].layer = l /\ table'[p].addr = a
        BY <4>2
      <4> QED BY <4>2, <4>3 DEF PagesWith
    <3> QED BY <3>1, <3>2
  <2> QED BY <2>7, <2>8, <2>9 DEF AddressInv
<1>11. Filled'
  BY <1>1, <1>6, <1>7, <1>9, <1>10 DEF Filled
<1>12. placed' \in [Layers -> 0 .. TableLimit] /\ filledFor' \in 0 .. Len(clients')
  BY <1>1, <1>2, <1>4, StartupAssumption
<1>13. stage' = "fill"
  BY <1>1
<1> QED BY <1>1, <1>11, <1>12, <1>13 DEF TableInv, FilledStages, EndStages

\* Before the filling the table is empty, after the end nobody asks.
LEMMA TableRests ==
  ASSUME ConfigInv, ConfigInv', TableInv, UNCHANGED <<table, placed, filledFor>>,
         \/ stage' = stage /\ UNCHANGED <<region, numTiers, clients>>
         \/ stage \in FilledStages /\ stage' \in FilledStages /\ UNCHANGED <<region, numTiers, clients>>
         \/ stage' \in EndStages /\ UNCHANGED clients
         \/ stage \notin FilledStages \cup EndStages /\ stage' \notin FilledStages
  PROVE  TableInv'
<1>1. /\ table \in Seq(Entry) /\ Len(table) <= TableLimit /\ placed \in [Layers -> 0 .. TableLimit]
      /\ filledFor \in 0 .. Len(clients) /\ Len(clients) \in Nat /\ Len(clients') \in Nat
      /\ \/ stage \in FilledStages \cup EndStages
         \/ table = <<>> /\ filledFor = 0 /\ placed = [l \in Layers |-> 0]
  BY DEF TableInv, ConfigInv
<1>2. CASE stage \in FilledStages /\ stage' \in FilledStages /\ UNCHANGED <<region, numTiers, clients>>
  <2>1. numTiers \in {2, 3}
    BY <1>2 DEF ConfigInv, FilledStages, FittedStages
  <2>2. Filled'
    BY <1>2, <2>1, FilledRests DEF TableInv
  <2> QED BY <1>1, <1>2, <2>2 DEF TableInv
<1>3. CASE stage' \in EndStages /\ UNCHANGED clients
  BY <1>1, <1>3 DEF TableInv, FilledStages, EndStages
<1>4. CASE stage \notin FilledStages \cup EndStages /\ stage' \notin FilledStages
  BY <1>1, <1>4 DEF TableInv
<1>5. CASE stage' = stage /\ stage \in EndStages /\ UNCHANGED clients
  BY <1>1, <1>5 DEF TableInv, FilledStages, EndStages
<1> QED BY <1>2, <1>3, <1>4, <1>5

LEMMA StepTable ==
  ConfigInv /\ ConfigInv' /\ MemoryInv /\ MemoryInv' /\ TableInv /\ [StartupNext]_allVars
    => TableInv'
<1> SUFFICES ASSUME ConfigInv, ConfigInv', MemoryInv, MemoryInv', TableInv, [StartupNext]_allVars
             PROVE  TableInv'
  OBVIOUS
<1>1. CASE UNCHANGED allVars
  BY <1>1, TableRests DEF allVars, memoryVars, layoutVars, configVars
<1>2. CASE ConfigNext /\ UNCHANGED <<memoryVars, layoutVars, serveVars>>
  <2>1. stage \notin FilledStages \cup EndStages /\ stage' \notin FilledStages
    BY <1>2, EarlyFrame DEF EarlyStages, FilledStages, EndStages
  <2> QED BY <1>2, <2>1, TableRests DEF layoutVars
<1>3. CASE Construct \/ AllocateTier
  <2>1. /\ stage \notin FilledStages \cup EndStages /\ stage' \notin FilledStages
        /\ UNCHANGED <<table, placed, filledFor>>
    BY <1>3 DEF Construct, AllocateTier, ExitFailure, NextTier, layoutVars, FilledStages, EndStages
  <2> QED BY <2>1, TableRests
<1>4. CASE GenerateContent
  <2>1. /\ stage = "content" /\ UNCHANGED <<table, placed, filledFor, region, numTiers, clients>>
        /\ stage' \in {"crashed", "content", "fill"}
    BY <1>4 DEF GenerateContent, Fail, NextTier, layoutVars, memoryVars, configFrame, configVars
  <2>2. CASE stage' \in {"crashed", "content"}
    BY <2>1, <2>2, TableRests DEF EndStages
  <2>3. CASE stage' = "fill"
    <3>1. /\ table = <<>> /\ filledFor = 0 /\ placed = [l \in Layers |-> 0]
          /\ numTiers \in {2, 3} /\ region \in [Layers -> Nat]
      BY <2>1 DEF TableInv, FilledStages, EndStages, ConfigInv, FittedStages, MemoryInv
    <3>2. Filled
      BY <3>1, FilledFirst
    <3>3. Filled'
      BY <2>1, <3>1, <3>2, FilledRests
    <3>4. /\ table' \in Seq(Entry) /\ Len(table') <= TableLimit /\ placed' \in [Layers -> 0 .. TableLimit]
          /\ filledFor' \in 0 .. Len(clients')
      BY <2>1 DEF TableInv
    <3> QED BY <2>3, <3>3, <3>4 DEF TableInv, FilledStages
  <2> QED BY <2>1, <2>2, <2>3
<1>5. CASE FillClient
  <2>1. CASE filledFor' # filledFor
    BY <1>5, <2>1, FillStep
  <2>2. CASE filledFor' = filledFor
    <3>1. stage = "fill" /\ filledFor \in Nat
      BY <1>5, StartupAssumption DEF FillClient, TableInv, ConfigInv
    <3>2. /\ stage' \in EndStages /\ UNCHANGED <<table, placed, clients>>
      BY <1>5, <2>2, <3>1 DEF FillClient, Fail, EndStages, layoutVars, configFrame, configVars
    <3> QED BY <2>2, <3>2, TableRests
  <2> QED BY <2>1, <2>2
<1>6. CASE StartClient \/ LookUp \/ Promote \/ Finish
  <2>1. /\ stage \in FilledStages
        /\ stage' \in FilledStages \/ stage' \in EndStages
        /\ UNCHANGED <<table, placed, filledFor, region, numTiers, clients>>
    BY <1>6 DEF StartClient, LookUp, Promote, Finish, layoutVars, memoryVars, configFrame,
       configVars, FilledStages, EndStages
  <2> QED BY <2>1, TableRests
<1> QED BY <1>1, <1>2, <1>3, <1>4, <1>5, <1>6 DEF StartupNext

-----------------------------------------------------------------------------
(* The clients' pages                                                      *)

LEMMA ReachRests ==
  ASSUME ReachInv, UNCHANGED <<reach, last, advised>>,
         \/ stage' = stage /\ UNCHANGED <<clients, filledFor, numTiers>>
         \/ stage \notin FilledStages \cup EndStages /\ stage' \notin FilledStages
         \/ stage' \in EndStages
  PROVE  ReachInv'
<1>1. CASE stage' = stage /\ UNCHANGED <<clients, filledFor, numTiers>>
  <2>1. \A i : PagesOf(clients[i])' = PagesOf(clients[i])
    BY <1>1 DEF PagesOf, PagesIn
  <2> QED BY <1>1, <2>1 DEF ReachInv
<1>2. CASE stage \notin FilledStages \cup EndStages /\ stage' \notin FilledStages
  BY <1>2 DEF ReachInv, FilledStages, EndStages
<1>3. CASE stage' \in EndStages
  BY <1>3 DEF ReachInv, FilledStages, EndStages
<1> QED BY <1>1, <1>2, <1>3

\* A client that has pages is given a generator that stays below their number.
LEMMA StartReach ==
  ASSUME ConfigInv, TableInv, ReachInv, StartClient
  PROVE  ReachInv'
<1> PICK n : n = Len(reach)
  OBVIOUS
<1> PICK c : c = clients[n + 1]
  OBVIOUS
<1>1. /\ stage = "fill" /\ filledFor = Len(clients)
      /\ stage' = (IF n + 1 = Len(clients) THEN "serve" ELSE "fill")
      /\ UNCHANGED <<clients, numTiers, filledFor, last, advised>>
      /\ reach \in Seq(SUBSET Nat) /\ n \in Nat /\ n < Len(clients)
      /\ numTiers \in {2, 3} /\ last = None /\ advised = {}
  BY DEF StartClient, ReachInv, ConfigInv, FittedStages, FilledStages, EndStages, configFrame,
     configVars, layoutVars
<1>2. n + 1 \in DOMAIN clients /\ Len(clients) \in Nat /\ DOMAIN clients = 1 .. Len(clients)
  BY <1>1, ClientFacts
<1>3. PagesOf(c) \in Nat
  BY <1>1, <1>2, ClientFacts
<1>4. PICK g \in Generators(c) : reach' = Append(reach, g)
  BY DEF StartClient
<1>5. g \subseteq Nat /\ (PagesOf(c) > 0 => g \subseteq 0 .. PagesOf(c) - 1)
  BY <1>3, SizeFacts DEF Generators, kSubset
<1>6. /\ reach' \in Seq(SUBSET Nat) /\ Len(reach') = n + 1 /\ DOMAIN reach' = 1 .. n + 1
      /\ \A i \in 1 .. n : reach'[i] = reach[i]
      /\ reach'[n + 1] = g
  BY <1>1, <1>4, <1>5
<1>7. \A i : PagesOf(clients[i])' = PagesOf(clients[i])
  BY <1>1 DEF PagesOf, PagesIn
<1>8. ASSUME NEW i \in DOMAIN reach', PagesOf(clients[i]) > 0
      PROVE  reach'[i] \subseteq 0 .. PagesOf(clients[i]) - 1
  <2>1. CASE i \in 1 .. n
    <3>1. i \in DOMAIN reach /\ reach'[i] = reach[i]
      BY <1>1, <1>6, <2>1
    <3> QED BY <1>1, <1>8, <3>1 DEF ReachInv, FilledStages
  <2>2. CASE i = n + 1
    BY <1>5, <1>6, <1>8, <2>2
  <2> QED BY <1>1, <1>6, <1>8, <2>1, <2>2
<1>9. reach' # <<>>
  BY <1>1, <1>6
<1>10. \A i \in DOMAIN reach' :
         PagesOf(clients[i])' > 0 => reach'[i] \subseteq 0 .. PagesOf(clients[i])' - 1
  BY <1>7, <1>8
<1>11. /\ stage' = "serve" => Len(reach') = Len(clients')
       /\ stage' = "fill" => Len(reach') < Len(clients')
       /\ stage' \in {"fill", "serve"}
  BY <1>1, <1>2, <1>6
<1>12. filledFor' = Len(clients')
  BY <1>1
<1> QED BY <1>1, <1>6, <1>10, <1>11, <1>12 DEF ReachInv, FilledStages, EndStages

LEMMA StepReach ==
  ConfigInv /\ TableInv /\ ReachInv /\ [StartupNext]_allVars => ReachInv'
<1> SUFFICES ASSUME ConfigInv, TableInv, ReachInv, [StartupNext]_allVars PROVE ReachInv'
  OBVIOUS
<1>1. CASE UNCHANGED allVars
  BY <1>1, ReachRests DEF allVars, layoutVars, serveVars, configVars
<1>2. CASE ConfigNext /\ UNCHANGED <<memoryVars, layoutVars, serveVars>>
  <2>1. stage \notin FilledStages \cup EndStages /\ stage' \notin FilledStages
    BY <1>2, EarlyFrame DEF EarlyStages, FilledStages, EndStages
  <2> QED BY <1>2, <2>1, ReachRests DEF serveVars
<1>3. CASE Construct \/ AllocateTier
  <2>1. /\ stage \notin FilledStages \cup EndStages /\ stage' \notin FilledStages
        /\ UNCHANGED <<reach, last, advised>>
    BY <1>3 DEF Construct, AllocateTier, ExitFailure, NextTier, serveVars, FilledStages, EndStages
  <2> QED BY <2>1, ReachRests
<1>4. CASE GenerateContent
  <2>1. /\ stage = "content" /\ UNCHANGED <<reach, last, advised, clients>>
        /\ stage' \in {"crashed", "content", "fill"}
    BY <1>4 DEF GenerateContent, Fail, NextTier, serveVars, configFrame, configVars
  <2>2. reach = <<>> /\ last = None /\ advised = {} /\ Len(reach) = 0
    BY <2>1 DEF ReachInv, FilledStages, EndStages
  <2>3. Len(clients) \in Nat /\ Len(clients) # 0
    BY <2>1 DEF ConfigInv, FittedStages
  <2> QED BY <2>1, <2>2, <2>3 DEF ReachInv, FilledStages, EndStages
<1>5. CASE FillClient
  <2>1. /\ stage = "fill" /\ filledFor < Len(clients) /\ UNCHANGED <<reach, last, advised, clients, numTiers>>
        /\ stage' \in {"fill"} \cup EndStages
    BY <1>5 DEF FillClient, Fail, serveVars, configFrame, configVars, EndStages
  <2>2. reach = <<>>
    <3>1. reach # <<>> => filledFor = Len(clients)
      BY <2>1 DEF ReachInv, FilledStages
    <3>2. filledFor \in Int /\ Len(clients) \in Int
      BY DEF TableInv, ConfigInv
    <3> QED BY <2>1, <3>1, <3>2
  <2> QED BY <2>1, <2>2 DEF ReachInv, FilledStages, EndStages
<1>6. CASE LookUp \/ Promote
  <2>1. /\ stage = "serve" /\ stage' = stage /\ UNCHANGED <<reach, clients, numTiers, filledFor>>
    BY <1>6 DEF LookUp, Promote, serveVars, layoutVars, configFrame, configVars
  <2>2. \A i : PagesOf(clients[i])' = PagesOf(clients[i])
    BY <2>1 DEF PagesOf, PagesIn
  <2> QED BY <2>1, <2>2 DEF ReachInv, FilledStages, EndStages
<1>7. CASE Finish
  BY <1>7, ReachRests DEF Finish, serveVars, EndStages
<1> QED BY <1>1, <1>2, <1>3, <1>4, <1>5, <1>6, <1>7, StartReach DEF StartupNext

\* The page that is looked up for a client is one of its own: its base and the
\* number that was drawn do not wrap.
LEMMA LookUpOwn ==
  ASSUME ConfigInv, LoadInv, TableInv, ReachInv, LookUp
  PROVE  OwnPagesOnly'
<1>1. PICK i \in DOMAIN clients : \E pid \in reach[i] :
        last' = [client |-> i, page |-> (basePageId[i] + pid) % SizeMod]
  BY DEF LookUp
<1>2. PICK pid \in reach[i] : last' = [client |-> i, page |-> (basePageId[i] + pid) % SizeMod]
  BY <1>1
<1>3. stage = "serve" /\ UNCHANGED <<clients, numTiers, basePageId>> /\ numTiers \in {2, 3}
  BY DEF LookUp, ConfigInv, FittedStages, layoutVars, configFrame, configVars
<1>4. /\ Len(reach) = Len(clients) /\ filledFor = Len(clients) /\ Filled
      /\ reach \in Seq(SUBSET Nat) /\ Len(table) <= TableLimit /\ table \in Seq(Entry)
      /\ \A k \in DOMAIN reach :
           PagesOf(clients[k]) > 0 => reach[k] \subseteq 0 .. PagesOf(clients[k]) - 1
  BY <1>3 DEF ReachInv, TableInv, FilledStages
<1>5. DOMAIN clients = 1 .. Len(clients) /\ i \in DOMAIN reach /\ PagesOf(clients[i]) \in Nat
  BY <1>3, <1>4, ClientFacts
<1>6. Base(i) + PagesOf(clients[i]) <= Len(table) /\ basePageId[i] = Base(i)
  BY <1>3, <1>4, <1>5 DEF Filled, RangesInv, LoadInv, BuiltStages, FittedStages, Base
<1>7. Base(i) \in Nat
  <2>1. i - 1 \in 0 .. Len(clients)
    BY <1>5
  <2> QED BY <1>3, <2>1, SumFacts, SizeFacts DEF Base
<1>8. last'.client = i /\ last'.page = (basePageId[i] + pid) % SizeMod
  BY <1>2
<1>9. PagesOf(clients[i])' = PagesOf(clients[i]) /\ OwnPages(i)' = OwnPages(i)
  BY <1>3 DEF OwnPages, PagesOf, PagesIn
<1>10. ASSUME PagesOf(clients[i]) > 0 PROVE last'.page \in OwnPages(i)
  <2>1. pid \in 0 .. PagesOf(clients[i]) - 1
    BY <1>2, <1>4, <1>5, <1>10
  <2>2. Base(i) + pid \in 0 .. SizeMax
    BY <1>4, <1>5, <1>6, <1>7, <2>1, StartupAssumption, SizeFacts
  <2>3. last'.page = basePageId[i] + pid
    BY <1>6, <1>8, <2>2, Unwrapped
  <2> QED BY <2>1, <2>3 DEF OwnPages
<1>11. PagesOf(clients[last.client])' = PagesOf(clients[i])' /\ OwnPages(last.client)' = OwnPages(i)'
  BY <1>8 DEF OwnPages, PagesOf, PagesIn
<1> QED BY <1>8, <1>9, <1>10, <1>11 DEF OwnPagesOnly

LEMMA StepOwnPages ==
  ConfigInv /\ LoadInv /\ TableInv /\ ReachInv /\ OwnPagesOnly /\ [StartupNext]_allVars
    => OwnPagesOnly'
<1> SUFFICES ASSUME ConfigInv, LoadInv, TableInv, ReachInv, OwnPagesOnly, [StartupNext]_allVars
             PROVE  OwnPagesOnly'
  OBVIOUS
<1>1. CASE UNCHANGED <<last, basePageId, clients, numTiers>>
  <2>1. /\ PagesOf(clients[last.client])' = PagesOf(clients[last.client])
        /\ OwnPages(last.client)' = OwnPages(last.client)
    BY <1>1 DEF OwnPages, PagesOf, PagesIn
  <2> QED BY <1>1, <2>1 DEF OwnPagesOnly
<1>2. CASE last' = None
  BY <1>2 DEF OwnPagesOnly
<1>3. CASE UNCHANGED allVars
  BY <1>1, <1>3 DEF allVars, layoutVars, serveVars, configVars
<1>4. CASE ConfigNext /\ UNCHANGED <<memoryVars, layoutVars, serveVars>>
  <2>1. last = None /\ last' = last
    BY <1>4, EarlyFrame DEF ReachInv, EarlyStages, EndStages, serveVars
  <2> QED BY <1>2, <2>1
<1>5. CASE Construct
  <2>1. last = None /\ last' = last
    BY <1>5 DEF Construct, ReachInv, EndStages, serveVars
  <2> QED BY <1>2, <2>1
<1>6. CASE AllocateTier \/ GenerateContent \/ FillClient \/ StartClient \/ Promote \/ Finish
  <2>1. UNCHANGED <<last, basePageId, clients, numTiers>>
    BY <1>6 DEF AllocateTier, GenerateContent, FillClient, StartClient, Promote, Finish, Fail,
       ExitFailure, serveVars, layoutVars, configFrame, configVars
  <2> QED BY <1>1, <2>1
<1> QED BY <1>3, <1>4, <1>5, <1>6, LookUpOwn DEF StartupNext

-----------------------------------------------------------------------------
(* The advice                                                              *)

LEMMA RoundFacts ==
  ASSUME NEW a \in Nat
  PROVE  /\ RoundDown(a) \in Nat /\ RoundDown(a) <= a /\ a < RoundDown(a) + HugePage
         /\ \E k \in Nat : RoundDown(a) = HugePage * k
<1>1. HugePage \in Nat /\ HugePage > 0
  BY StartupAssumption
<1>2. a \div HugePage \in Nat
  BY <1>1
<1>3. HugePage * (a \div HugePage) <= a /\ a < HugePage * (a \div HugePage) + HugePage
  BY <1>1
<1>4. RoundDown(a) = HugePage * (a \div HugePage)
  BY <1>1, <1>2 DEF RoundDown
<1>5. HugePage * (a \div HugePage) \in Nat
  BY <1>1, <1>2
<1> QED BY <1>2, <1>3, <1>4, <1>5

\* Between two multiples of HugePage lies at least one huge page.
LEMMA Multiples ==
  ASSUME NEW i \in Nat, NEW k \in Nat, HugePage * i < HugePage * k
  PROVE  HugePage * i + HugePage <= HugePage * k
<1>1. HugePage \in Nat /\ HugePage > 0
  BY StartupAssumption
<1>2. CASE k <= i
  <2>1. HugePage * k <= HugePage * i /\ HugePage * i \in Nat /\ HugePage * k \in Nat
    BY <1>1, <1>2
  <2> QED BY <2>1
<1>3. CASE i + 1 <= k
  <2>1. HugePage * (i + 1) <= HugePage * k
    BY <1>1, <1>3
  <2>2. HugePage * (i + 1) = HugePage * i + HugePage
    BY <1>1
  <2> QED BY <2>1, <2>2
<1> QED BY <1>2, <1>3

Huge(a) == RoundDown(a) .. RoundDown(a) + HugePage - 1

\* Rounded numbers are a huge page apart, or the same.
LEMMA RoundApart ==
  ASSUME NEW a \in Nat, NEW b \in Nat, RoundDown(a) < RoundDown(b)
  PROVE  RoundDown(a) + HugePage <= RoundDown(b)
<1>1. PICK i \in Nat : RoundDown(a) = HugePage * i
  BY RoundFacts
<1>2. PICK k \in Nat : RoundDown(b) = HugePage * k
  BY RoundFacts
<1> QED BY <1>1, <1>2, Multiples

\* The size is rounded up after it was enlarged by what the address was rounded
\* down by: the advice ends with the huge page of the last address.
LEMMA AdviceOfTier ==
  ASSUME NEW l, region[l] \in Nat, load[l] \in Nat, load[l] > 0
  PROVE  \A x : x \in Advice(l) <=> \E a \in Addresses(l) : x \in Huge(a)
<1> PICK r : r = region[l]
  OBVIOUS
<1> PICK s : s = RoundDown(r)
  OBVIOUS
<1> PICK m : m = load[l] + r - s
  OBVIOUS
<1> PICK up : up = RoundDown(m + HugePage - 1)
  OBVIOUS
<1>1. HugePage \in Nat /\ HugePage > 0
  BY StartupAssumption
<1>2. r \in Nat /\ s \in Nat /\ s <= r /\ r < s + HugePage /\ m \in Nat /\ m > 0 /\ s + m = r + load[l]
  <2>1. r \in Nat /\ s \in Nat /\ s <= r /\ r < s + HugePage
    BY RoundFacts
  <2> QED BY <2>1
<1>3. up \in Nat /\ m <= up
  <2>1. m + HugePage - 1 \in Nat
    BY <1>1, <1>2
  <2>2. up \in Nat /\ up <= m + HugePage - 1 /\ m + HugePage - 1 < up + HugePage
    BY <2>1, RoundFacts
  <2> QED BY <1>1, <1>2, <2>2
<1>4. up < m + HugePage
  <2>1. m + HugePage - 1 \in Nat
    BY <1>1, <1>2
  <2>2. up <= m + HugePage - 1
    BY <2>1, RoundFacts
  <2> QED BY <1>1, <1>2, <1>3, <2>2
<1>5. PICK i \in Nat : s = HugePage * i
  BY <1>2, RoundFacts
<1>6. PICK k \in Nat : up = HugePage * k
  <2>1. m + HugePage - 1 \in Nat
    BY <1>1, <1>2
  <2> QED BY <2>1, RoundFacts
<1>7. s + up = HugePage * (i + k)
  BY <1>1, <1>5, <1>6
<1>8. ASSUME NEW x PROVE x \in Advice(l) <=> x \in Nat /\ s <= x /\ x < s + up
  <2>1. Advice(l) = s .. s + up - 1
    BY DEF Advice, RoundUp
  <2> QED BY <1>2, <1>3, <2>1, RangeFacts
<1>9. ASSUME NEW x PROVE x \in Addresses(l) <=> x \in Nat /\ r <= x /\ x < s + m
  <2>1. Addresses(l) = r .. r + load[l] - 1
    BY DEF Addresses
  <2>2. x \in Addresses(l) <=> x \in Nat /\ r <= x /\ x < r + load[l]
    BY <1>2, <2>1, RangeFacts
  <2> QED BY <1>2, <2>2
<1>10. ASSUME NEW a \in Nat, NEW x
       PROVE  x \in Huge(a) <=> x \in Nat /\ RoundDown(a) <= x /\ x < RoundDown(a) + HugePage
  <2>1. RoundDown(a) \in Nat
    BY RoundFacts
  <2> QED BY <1>1, <2>1 DEF Huge
<1>11. ASSUME NEW x \in Advice(l) PROVE \E a \in Addresses(l) : x \in Huge(a)
  <2> PICK d : d = RoundDown(x)
    OBVIOUS
  <2>1. x \in Nat /\ s <= x /\ x < s + up
    BY <1>8
  <2>2. d \in Nat /\ d <= x /\ x < d + HugePage
    BY <2>1, RoundFacts
  <2>3. PICK j \in Nat : d = HugePage * j
    BY <2>1, RoundFacts
  <2>4. s <= d
    <3>1. CASE d < s
      <4>1. d + HugePage <= s
        BY <1>5, <2>3, <3>1, Multiples
      <4> QED BY <1>1, <1>2, <2>1, <2>2, <4>1
    <3> QED BY <1>2, <2>2, <3>1
  <2>5. d < s + m
    <3>1. d < s + up
      BY <1>2, <1>3, <2>1, <2>2
    <3>2. d + HugePage <= s + up
      BY <1>7, <2>3, <3>1, Multiples
    <3> QED BY <1>1, <1>2, <1>3, <1>4, <2>2, <3>2
  <2>6. CASE r <= d
    <3>1. d \in Addresses(l)
      BY <1>9, <2>2, <2>5, <2>6
    <3>2. RoundDown(d) = d
      <4>1. RoundDown(d) \in Nat /\ RoundDown(d) <= d /\ d < RoundDown(d) + HugePage
        BY <2>2, RoundFacts
      <4>2. CASE RoundDown(d) < RoundDown(x)
        BY <1>1, <2>1, <2>2, <4>1, <4>2, RoundApart
      <4> QED BY <2>2, <4>1, <4>2
    <3>3. x \in Huge(d)
      BY <1>10, <2>1, <2>2, <3>2
    <3> QED BY <3>1, <3>3
  <2>7. CASE d < r
    <3>1. d = s
      <4>1. CASE s < d
        <5>1. s + HugePage <= d
          BY <1>5, <2>3, <4>1, Multiples
        <5> QED BY <1>1, <1>2, <2>2, <2>7, <5>1
      <4> QED BY <1>2, <2>2, <2>4, <4>1
    <3>2. r \in Addresses(l)
      BY <1>2, <1>9
    <3>3. x \in Huge(r)
      BY <1>2, <1>10, <2>1, <2>2, <3>1
    <3> QED BY <3>2, <3>3
  <2> QED BY <1>2, <2>2, <2>6, <2>7
<1>12. ASSUME NEW x, NEW a \in Addresses(l), x \in Huge(a) PROVE x \in Advice(l)
  <2> PICK d : d = RoundDown(a)
    OBVIOUS
  <2>1. a \in Nat /\ r <= a /\ a < s + m
    BY <1>9
  <2>2. d \in Nat /\ d <= a /\ a < d + HugePage
    BY <2>1, RoundFacts
  <2>3. x \in Nat /\ d <= x /\ x < d + HugePage
    BY <1>10, <1>12, <2>1
  <2>4. PICK j \in Nat : d = HugePage * j
    BY <2>1, RoundFacts
  <2>5. s <= d
    <3>1. CASE d < s
      <4>1. d + HugePage <= s
        BY <1>5, <2>4, <3>1, Multiples
      <4> QED BY <1>1, <1>2, <2>1, <2>2, <4>1
    <3> QED BY <1>2, <2>2, <3>1
  <2>6. d + HugePage <= s + up
    <3>1. d < s + up
      BY <1>2, <1>3, <2>1, <2>2
    <3> QED BY <1>7, <2>4, <3>1, Multiples
  <2>7. s <= x /\ x < s + up
    BY <1>1, <1>2, <1>3, <2>2, <2>3, <2>5, <2>6
  <2> QED BY <1>8, <2>3, <2>7
<1> QED BY <1>11, <1>12

\* The tiers that are advised are those that are allocated.
LEMMA PromoteAdvice ==
  ASSUME ConfigInv, LoadInv, MemoryInv, Promote
  PROVE  AdviceCoversTiers'
<1>1. /\ stage = "serve" /\ mapped' = mapped /\ numTiers \in {2, 3}
      /\ advised' = UNION {Advice(l) : l \in {t \in Tiers : region[t] # 0 /\ load[t] > 0}}
  BY DEF Promote, memoryVars, ConfigInv, FittedStages
<1>2. /\ mapped = UNION {Addresses(l) : l \in Allocated}
      /\ \A l \in Allocated : load[l] > 0
      /\ numTiers = 2 => region["remote"] = 0
      /\ region \in [Layers -> Nat] /\ load \in [Layers -> 0 .. SizeMax]
  BY <1>1 DEF MemoryInv, LoadInv, BuiltStages, FittedStages
<1>3. {t \in Tiers : region[t] # 0 /\ load[t] > 0} = Allocated
  BY <1>1, <1>2 DEF Tiers, Allocated, Layers
<1>4. \A l \in Allocated : region[l] \in Nat /\ load[l] \in Nat /\ load[l] > 0
  BY <1>2, SizeFacts DEF Allocated
<1>5. \A l \in Allocated : \A x : x \in Advice(l) <=> \E a \in Addresses(l) : x \in Huge(a)
  BY <1>4, AdviceOfTier
<1>6. \A x : x \in advised' <=> \E l \in Allocated : x \in Advice(l)
  BY <1>1, <1>3
<1>7. \A x : x \in UNION {Huge(a) : a \in mapped} <=> \E l \in Allocated : \E a \in Addresses(l) : x \in Huge(a)
  BY <1>2
<1>8. advised' = UNION {Huge(a) : a \in mapped}
  BY <1>5, <1>6, <1>7
<1> QED BY <1>1, <1>8 DEF AdviceCoversTiers, Huge

LEMMA StepAdvice ==
  ConfigInv /\ LoadInv /\ MemoryInv /\ ReachInv /\ AdviceCoversTiers /\ [StartupNext]_allVars
    => AdviceCoversTiers'
<1> SUFFICES ASSUME ConfigInv, LoadInv, MemoryInv, ReachInv, AdviceCoversTiers,
                    [StartupNext]_allVars
             PROVE  AdviceCoversTiers'
  OBVIOUS
<1>1. CASE UNCHANGED <<advised, stage, mapped>>
  BY <1>1 DEF AdviceCoversTiers
<1>2. CASE UNCHANGED allVars
  BY <1>1, <1>2 DEF allVars, memoryVars, serveVars
<1>3. CASE ConfigNext /\ UNCHANGED <<memoryVars, layoutVars, serveVars>>
  <2>1. stage' # "serve"
    BY <1>3, EarlyFrame DEF EarlyStages
  <2> QED BY <2>1 DEF AdviceCoversTiers
<1>4. CASE Construct \/ AllocateTier \/ GenerateContent \/ FillClient \/ Finish
  <2>1. stage' # "serve"
    BY <1>4 DEF Construct, AllocateTier, GenerateContent, FillClient, Finish, Fail, ExitFailure,
       NextTier
  <2> QED BY <2>1 DEF AdviceCoversTiers
<1>5. CASE StartClient
  <2>1. advised' = {}
    BY <1>5 DEF StartClient, ReachInv, EndStages
  <2> QED BY <2>1 DEF AdviceCoversTiers
<1>6. CASE LookUp
  BY <1>1, <1>6 DEF LookUp, memoryVars
<1> QED BY <1>2, <1>3, <1>4, <1>5, <1>6, PromoteAdvice DEF StartupNext

-----------------------------------------------------------------------------
(* The invariant holds                                                     *)

LEMMA StepStage == StageInv /\ [StartupNext]_allVars => StageInv'
<1> SUFFICES ASSUME StageInv, [StartupNext]_allVars PROVE StageInv'
  OBVIOUS
<1>1. CASE ConfigNext /\ UNCHANGED <<memoryVars, layoutVars, serveVars>>
  BY <1>1, EarlyFrame DEF StageInv, FittedStages, EndStages
<1>2. CASE Later
  BY <1>2, LaterFrame DEF StageInv
<1>3. CASE UNCHANGED allVars
  BY <1>3 DEF allVars, StageInv
<1> QED BY <1>1, <1>2, <1>3 DEF StartupNext, Later

LEMMA InitStartup == StartupInit => StartupInv
<1> SUFFICES ASSUME StartupInit PROVE StartupInv
  OBVIOUS
<1>1. /\ argv \in Argvs /\ current = 1 /\ letter = 1 /\ stored = [o \in {} |-> <<>>]
      /\ count = [o \in Options |-> 0] /\ stage = "args"
      /\ numTiers = 0 /\ capacity = [l \in Layers |-> 0] /\ useRing = FALSE
      /\ clients = <<>> /\ exitCode = 0
      /\ tier = 1 /\ load = [l \in Layers |-> 0] /\ region = [l \in Layers |-> 0]
      /\ mapped = {} /\ written = {} /\ table = <<>> /\ placed = [l \in Layers |-> 0]
      /\ basePageId = <<>> /\ filledFor = 0 /\ reach = <<>> /\ last = None /\ advised = {}
  BY DEF StartupInit, ConfigInit, ParserInit
<1>2. StageInv
  BY <1>1 DEF StageInv, EarlyStages, ParseStages
<1>3. ArgsInv
  <2>1. argv \in Seq(ArgElements)
    BY <1>1, CommandLineAssumption
  <2>2. Len(argv) \in Nat
    BY <2>1
  <2>3. DOMAIN stored = {}
    BY <1>1
  <2> QED BY <1>1, <2>1, <2>2, <2>3 DEF ArgsInv
<1>4. ConfigInv
  <2>1. 0 \in 0 .. SizeMax
    BY SizeFacts
  <2>2. /\ numTiers \in {0, 2, 3} /\ capacity \in [Layers -> 0 .. SizeMax] /\ useRing \in BOOLEAN
        /\ exitCode \in {0, 1, 134}
    BY <1>1, <2>1
  <2>4. clients \in Seq(ClientConfigs)
    <3>1. \A S : <<>> \in Seq(S)
      OBVIOUS
    <3> QED BY <1>1, <3>1
  <2>3. stage \notin {"server", "clients", "validate"} \cup FittedStages /\ clients = <<>>
    BY <1>1 DEF FittedStages
  <2> QED BY <2>2, <2>3, <2>4 DEF ConfigInv
<1>5. LoadInv
  <2>1. 0 \in 0 .. SizeMax
    BY SizeFacts
  <2> QED BY <1>1, <2>1 DEF LoadInv, BuiltStages, FittedStages
<1>6. Allocated = {}
  BY <1>1 DEF Allocated
<1>7. MemoryInv
  BY <1>1, <1>6 DEF MemoryInv, BuiltStages, FittedStages
<1>8. ContentInv
  BY <1>1 DEF ContentInv, FilledStages
<1>9. TableInv
  <2>1. 0 \in 0 .. TableLimit /\ Len(table) = 0 /\ Len(clients) = 0
    BY <1>1, StartupAssumption
  <2> QED BY <1>1, <2>1 DEF TableInv, FilledStages
<1>10. ReachInv
  BY <1>1 DEF ReachInv, FilledStages
<1>11. OwnPagesOnly /\ AdviceCoversTiers
  BY <1>1 DEF OwnPagesOnly, AdviceCoversTiers
<1> QED BY <1>2, <1>3, <1>4, <1>5, <1>7, <1>8, <1>9, <1>10, <1>11 DEF StartupInv

LEMMA StepStartup == StartupInv /\ [StartupNext]_allVars => StartupInv'
BY StepStage, StepArgs, StepConfig, StepLoad, StepMemory, StepContent, StepTable, StepReach,
   StepOwnPages, StepAdvice DEF StartupInv

LEMMA StartupInvariance == StartupSpec => []StartupInv
BY InitStartup, StepStartup, PTL DEF StartupSpec

\* Whatever the command line, main() keeps to its types (ConfigParser.hpp:45-59,
\* PageTable.hpp:71-85): no size, sum or index leaves the range of a size_t, no
\* table outgrows the heap, and no element of argv behind the last is read.
THEOREM StartupTyping == StartupSpec => []StartupTypeOK
<1>1. ASSUME StartupInv PROVE StartupTypeOK
  <2>1. StageInv /\ ArgsInv /\ ConfigInv /\ LoadInv /\ MemoryInv /\ TableInv
    BY <1>1 DEF StartupInv
  <2>2. \A i \in DOMAIN clients : clients[i].pattern \in Patterns
                                  /\ clients[i].sizes \in [1 .. numTiers -> 0 .. SizeMax]
    <3>1. \A i \in DOMAIN clients : clients[i] \in ClientConfigs
      <4>1. clients \in Seq(ClientConfigs) /\ DOMAIN clients = 1 .. Len(clients)
        BY <2>1 DEF ConfigInv
      <4> QED BY <4>1, SeqMember
    <3> QED BY <3>1 DEF ClientConfigs
  <2>3. \A i \in DOMAIN table : table[i] \in Entry
    <3>1. table \in Seq(Entry) /\ DOMAIN table = 1 .. Len(table)
      BY <2>1 DEF TableInv
    <3> QED BY <3>1, SeqMember
  <2>4. stage \in {"args", "parsed", "server", "clients", "validate", "construct",
                   "allocate", "content", "fill", "serve", "exit", "threw",
                   "asserted", "crashed"}
    BY <2>1 DEF StageInv, EarlyStages, ParseStages, FittedStages, EndStages
  <2>5. current \in 1 .. Len(argv) + 1 /\ letter \in Nat /\ DOMAIN stored \subseteq Options
        /\ count \in [Options -> Nat]
    BY <2>1 DEF ArgsInv
  <2>6. /\ numTiers \in {0, 2, 3} /\ capacity \in [Layers -> 0 .. SizeMax]
        /\ useRing \in BOOLEAN /\ exitCode \in {0, 1, 134}
    BY <2>1 DEF ConfigInv
  <2>7. /\ load \in [Layers -> 0 .. SizeMax]
        /\ \A i \in DOMAIN basePageId : basePageId[i] \in 0 .. SizeMax
    BY <2>1 DEF LoadInv
  <2>8. tier \in 1 .. 3 /\ region \in [Layers -> Nat]
    BY <2>1 DEF MemoryInv
  <2>9. placed \in [Layers -> 0 .. TableLimit] /\ Len(table) <= TableLimit
    BY <2>1 DEF TableInv
  <2> QED BY <2>2, <2>3, <2>4, <2>5, <2>6, <2>7, <2>8, <2>9 DEF StartupTypeOK
<1> QED BY <1>1, StartupInvariance, PTL

\* The destructor of PageTable unmaps all that was mapped, however many tiers
\* there are and wherever mmap() put them (PageTable.cpp:31-46).
THEOREM NothingStaysMapped == StartupSpec => []NothingLeftMapped
<1>1. StartupInv => NothingLeftMapped
  BY DEF StartupInv, MemoryInv, NothingLeftMapped
<1> QED BY <1>1, StartupInvariance, PTL

\* A client that has pages is only ever given its own: its base, which is a sum
\* that could wrap, and the number it draws stay within its part of the table
\* (Server.cpp:10-25, 57-58, Generator.cpp:3-60).
THEOREM ClientsKeepApart == StartupSpec => []OwnPagesOnly
<1>1. StartupInv => OwnPagesOnly
  BY DEF StartupInv
<1> QED BY <1>1, StartupInvariance, PTL

\* The advice covers the huge pages of the tiers and no others, however the
\* regions lie to them (PageTable.cpp:304-342).
THEOREM AdviceFits == StartupSpec => []AdviceCoversTiers
<1>1. StartupInv => AdviceCoversTiers
  BY DEF StartupInv
<1> QED BY <1>1, StartupInvariance, PTL

-----------------------------------------------------------------------------
(* The program that serves                                                 *)

\* All clients are filled in: the tables' counts are the loads.
LEMMA ServeFacts ==
  ASSUME StartupInv, stage = "serve"
  PROVE  /\ Filled /\ filledFor = Len(clients) /\ numTiers \in {2, 3}
         /\ \A l \in Layers : /\ placed[l] = load[l] /\ load[l] \in Nat /\ region[l] \in Nat
                              /\ Held(l) = Addresses(l)
         /\ table \in Seq(Entry) /\ Len(table) \in Nat /\ DOMAIN table = 1 .. Len(table)
         /\ \A p \in DOMAIN table : table[p].layer \in Layers /\ table[p].addr \in Held(table[p].layer)
<1>1. /\ ConfigInv /\ LoadInv /\ TableInv /\ ReachInv /\ MemoryInv
      /\ Filled /\ filledFor = Len(clients) /\ numTiers \in {2, 3}
  BY DEF StartupInv, TableInv, ReachInv, ConfigInv, FilledStages, FittedStages
<1>2. \A l \in Layers : placed[l] = load[l]
  BY <1>1 DEF Filled, LoadInv, BuiltStages, FittedStages
<1>3. \A l \in Layers : load[l] \in Nat /\ region[l] \in Nat
  BY <1>1, SizeFacts DEF LoadInv, MemoryInv
<1>4. table \in Seq(Entry) /\ Len(table) \in Nat /\ DOMAIN table = 1 .. Len(table)
  BY <1>1 DEF TableInv
<1>5. \A p \in DOMAIN table : table[p] \in Entry
  BY <1>4, SeqMember
<1>6. \A p \in DOMAIN table : table[p].layer \in Layers /\ table[p].addr \in Held(table[p].layer)
  BY <1>1, <1>5 DEF Entry, Filled, AddressInv
<1>7. \A l \in Layers : Held(l) = Addresses(l)
  BY <1>2 DEF Held, Addresses
<1> QED BY <1>1, <1>2, <1>3, <1>4, <1>6, <1>7

LEMMA OneToOne ==
  ASSUME NEW S, NEW T, IsFiniteSet(S), NEW f \in [S -> T],
         \A a, b \in S : a # b => f[a] # f[b], \A t \in T : \E a \in S : f[a] = t
  PROVE  Cardinality(S) = Cardinality(T)
<1>1. f \in Bijection(S, T)
  BY DEF Bijection, Injection, IsInjective, Surjection
<1>2. ExistsBijection(S, T)
  BY <1>1 DEF ExistsBijection
<1> QED BY <1>2, FS_Bijection

LEMMA IntervalSize ==
  ASSUME NEW r \in Nat, NEW m \in Nat
  PROVE  IsFiniteSet(r .. r + m - 1) /\ Cardinality(r .. r + m - 1) = m
<1>1. r + m - 1 \in Int
  OBVIOUS
<1>2. /\ IsFiniteSet(r .. r + m - 1)
      /\ Cardinality(r .. r + m - 1) = IF r > r + m - 1 THEN 0 ELSE (r + m - 1) - r + 1
  BY <1>1, FS_Interval
<1>3. (IF r > r + m - 1 THEN 0 ELSE (r + m - 1) - r + 1) = m
  OBVIOUS
<1> QED BY <1>2, <1>3

\* As many pages lie in a tier as have been placed there.
LEMMA TierPages ==
  ASSUME StartupInv, stage = "serve", NEW l \in Layers
  PROVE  Cardinality(PagesWith(l)) = load[l]
<1> DEFINE f == [p \in PagesWith(l) |-> table[p].addr]
<1>1. PagesWith(l) \subseteq 1 .. Len(table) /\ Len(table) \in Nat
  BY ServeFacts DEF PagesWith
<1>2. IsFiniteSet(PagesWith(l))
  <2>1. IsFiniteSet(1 .. Len(table))
    BY <1>1, FS_Interval
  <2> QED BY <1>1, <2>1, FS_Subset
<1>3. f \in [PagesWith(l) -> Held(l)]
  BY ServeFacts DEF PagesWith
<1>4. \A p, q \in PagesWith(l) : p # q => f[p] # f[q]
  BY ServeFacts DEF PagesWith, Filled, AddressInv
<1>5. \A a \in Held(l) : \E p \in PagesWith(l) : f[p] = a
  BY ServeFacts DEF Filled, AddressInv
<1> HIDE DEF f
<1>6. Cardinality(PagesWith(l)) = Cardinality(Held(l))
  BY <1>2, <1>3, <1>4, <1>5, OneToOne
<1>7. Cardinality(Held(l)) = load[l]
  <2>1. region[l] \in Nat /\ load[l] \in Nat /\ Held(l) = region[l] .. region[l] + load[l] - 1
    BY ServeFacts DEF Addresses
  <2>2. Cardinality(region[l] .. region[l] + load[l] - 1) = load[l]
    BY <2>1, IntervalSize
  <2> QED BY <2>1, <2>2
<1> QED BY <1>6, <1>7

\* The load of a tier is the total that was compared with its limit; with two
\* tiers the pages of the PMEM tier were compared with the missing remote tier.
LEMMA LoadBelowCapacity ==
  ASSUME StartupInv, stage = "serve"
  PROVE  /\ \A l \in Layers : load[l] <= capacity[l]
         /\ numTiers = 2 => load["pmem"] = 0 /\ capacity["remote"] = 0
<1>1. /\ numTiers \in {2, 3} /\ capacity \in [Layers -> 0 .. SizeMax]
      /\ numTiers = 2 => capacity["remote"] = 0
      /\ \A i \in 1 .. numTiers : TierTotal(i) <= TierLimit(i)
      /\ \A l \in Layers : load[l] \in Nat /\ load[l] = WrappedSum(AllPagesIn(l), Len(clients))
  BY ServeFacts DEF StartupInv, ConfigInv, LoadInv, BuiltStages, FittedStages
<1>2. /\ capacity["local"] \in Nat /\ capacity["remote"] \in Nat /\ capacity["pmem"] \in Nat
      /\ load["local"] \in Nat /\ load["remote"] \in Nat /\ load["pmem"] \in Nat
  BY <1>1, SizeFacts DEF Layers
<1>3. load["local"] = TierTotal(1) /\ load["pmem"] = TierTotal(numTiers)
      /\ (numTiers = 3 => load["remote"] = TierTotal(2))
  <2>1. /\ AllPagesIn("local") = [c \in DOMAIN clients |-> clients[c].sizes[1]]
        /\ AllPagesIn("pmem") = [c \in DOMAIN clients |-> clients[c].sizes[numTiers]]
        /\ numTiers = 3 => AllPagesIn("remote") = [c \in DOMAIN clients |-> clients[c].sizes[2]]
    BY DEF AllPagesIn, PagesIn
  <2> QED BY <1>1, <2>1 DEF TierTotal, Layers
<1>4. TierLimit(1) = capacity["local"] /\ TierLimit(2) = capacity["remote"]
      /\ TierLimit(3) = capacity["pmem"]
  BY DEF TierLimit
<1>5. load["local"] <= capacity["local"]
  BY <1>1, <1>3, <1>4
<1>6. CASE numTiers = 3
  <2>1. load["remote"] <= capacity["remote"] /\ load["pmem"] <= capacity["pmem"]
    BY <1>1, <1>3, <1>4, <1>6
  <2> QED BY <1>5, <1>6, <2>1 DEF Layers
<1>7. CASE numTiers = 2
  <2>1. load["pmem"] = 0
    BY <1>1, <1>2, <1>3, <1>4, <1>7
  <2>2. load["remote"] = 0
    BY <1>7, ServeFacts DEF Filled, Layers
  <2> QED BY <1>1, <1>2, <1>5, <2>1, <2>2 DEF Layers
<1> QED BY <1>1, <1>6, <1>7

\* A program that comes to serve requests has filled its tiers with just the
\* pages it says and within their capacities, whatever sums wrapped in the
\* constructors or the validation (ConfigParser.cpp:186-208, PageTable.cpp:3-29,
\* 48-112): a sum that wraps belongs to a table the heap has no room for.
THEOREM ServedTiersFit == StartupSpec => []ServedFits
<1>1. ASSUME StartupInv, stage = "serve" PROVE ServedFits
  BY <1>1, ServeFacts, TierPages, LoadBelowCapacity DEF ServedFits
<1>2. StartupInv => ServedFits
  BY <1>1 DEF ServedFits
<1> QED BY <1>2, StartupInvariance, PTL

\* What the server takes for the pages of a client is what the table has for it
\* in each tier (Server.cpp:10-25, PageTable.cpp:56-109): the two files add up
\* the same sizes, one by client and one by tier.
THEOREM RangesFit == StartupSpec => []RangesMatchTable
<1>1. ASSUME StartupInv, stage = "serve", NEW i \in DOMAIN clients, NEW l \in Layers
      PROVE  Cardinality({p \in OwnPages(i) : p < Len(table) /\ table[p + 1].layer = l})
               = PagesIn(clients[i], l)
  <2> PICK c : c = clients[i]
    OBVIOUS
  <2> PICK b : b = Base(i)
    OBVIOUS
  <2>1. /\ ConfigInv /\ numTiers \in {2, 3} /\ Filled /\ filledFor = Len(clients)
        /\ Len(table) \in Nat
    BY <1>1, ServeFacts DEF StartupInv
  <2>2. /\ DOMAIN clients = 1 .. Len(clients) /\ Len(clients) \in Nat
        /\ PagesOf(c) \in Nat /\ \A m \in Layers : PagesIn(c, m) \in Nat
    BY <2>1, ClientFacts
  <2>3. /\ \A m \in Layers : /\ Offset(c, m) \in Nat
                             /\ Offset(c, m) + PagesIn(c, m) <= PagesOf(c)
        /\ \A j \in 1 .. PagesOf(c) : \E m \in Layers : \E k \in 1 .. PagesIn(c, m) :
             j = Offset(c, m) + k
    <3>1. Parts(c)
      BY <2>2, OffsetFacts
    <3> QED BY <3>1 DEF Parts
  <2>4. /\ b + PagesOf(c) <= Len(table)
        /\ \A m \in Layers : \A k \in 1 .. PagesIn(c, m) : table[b + Offset(c, m) + k].layer = m
    BY <2>1, <2>2 DEF Filled, RangesInv
  <2>5. b \in Nat /\ basePageId[i] = b
    <3>1. i - 1 \in 0 .. Len(clients)
      BY <2>2
    <3>2. b \in Nat
      BY <2>1, <3>1, SumFacts, SizeFacts DEF Base
    <3>3. basePageId[i] = b
      BY <1>1 DEF StartupInv, LoadInv, BuiltStages, FittedStages, Base
    <3> QED BY <3>2, <3>3
  <2>6. OwnPages(i) = {b + k : k \in 0 .. PagesOf(c) - 1}
    BY <2>5 DEF OwnPages
  <2> PICK o : o = Offset(c, l)
    OBVIOUS
  <2>7. o \in Nat /\ PagesIn(c, l) \in Nat /\ o + PagesIn(c, l) <= PagesOf(c) /\ b + o \in Nat
    BY <2>2, <2>3, <2>5
  <2>8. ASSUME NEW p \in OwnPages(i), table[p + 1].layer = l
        PROVE  p \in b + o .. b + o + PagesIn(c, l) - 1
    <3>1. PICK j \in 0 .. PagesOf(c) - 1 : p = b + j
      BY <2>6
    <3>2. j + 1 \in 1 .. PagesOf(c)
      BY <2>2
    <3>3. PICK m \in Layers : \E k \in 1 .. PagesIn(c, m) : j + 1 = Offset(c, m) + k
      BY <2>3, <3>2
    <3>4. PICK k \in 1 .. PagesIn(c, m) : j + 1 = Offset(c, m) + k
      BY <3>3
    <3>5. p + 1 = b + Offset(c, m) + k
      <4>1. Offset(c, m) \in Nat /\ k \in Int /\ j \in Int
        BY <2>3
      <4> QED BY <2>5, <3>1, <3>4, <4>1
    <3>6. m = l
      BY <2>4, <2>8, <3>5
    <3> QED BY <2>5, <2>7, <3>1, <3>4, <3>6
  <2>9. ASSUME NEW p \in b + o .. b + o + PagesIn(c, l) - 1
        PROVE  p \in OwnPages(i) /\ p < Len(table) /\ table[p + 1].layer = l
    <3> PICK j : j = p - b
      OBVIOUS
    <3> PICK k : k = p - (b + o) + 1
      OBVIOUS
    <3>4. p \in Nat /\ b + o <= p /\ p < b + o + PagesIn(c, l)
      BY <2>7, RangeFacts
    <3>1. j \in 0 .. PagesOf(c) - 1 /\ p = b + j
      <4>1. PagesOf(c) \in Nat /\ p < b + PagesOf(c)
        <5>1. PagesOf(c) \in Nat
          BY <2>2
        <5> QED BY <2>5, <2>7, <3>4, <5>1
      <4> QED BY <2>5, <2>7, <3>4, <4>1
    <3>2. k \in 1 .. PagesIn(c, l) /\ p + 1 = b + Offset(c, l) + k
      BY <2>5, <2>7
    <3>3. p < Len(table)
      <4>1. PagesOf(c) \in Nat /\ b + PagesOf(c) <= Len(table) /\ Len(table) \in Nat
        BY <2>1, <2>2, <2>4
      <4>2. j \in Nat /\ j < PagesOf(c) /\ b \in Nat /\ p = b + j
        BY <2>5, <3>1, <4>1
      <4> QED BY ONLY <4>1, <4>2
    <3> QED BY <2>4, <2>6, <3>1, <3>2, <3>3
  <2>10. \A p \in OwnPages(i) : table[p + 1].layer = l => p < Len(table)
    BY <2>8, <2>9
  <2>11. {p \in OwnPages(i) : p < Len(table) /\ table[p + 1].layer = l}
           = b + o .. b + o + PagesIn(c, l) - 1
    BY <2>8, <2>9
  <2> QED BY <2>7, <2>11, IntervalSize
<1>2. StartupInv => RangesMatchTable
  BY <1>1 DEF RangesMatchTable
<1> QED BY <1>2, StartupInvariance, PTL

\* Every page of a serving program has memory of its own, which is mapped and
\* filled, and all memory is some page's: no tier whose mmap() failed is used
\* (PageTable.cpp:48-112, 344-416).
THEOREM TableIsMemory == StartupSpec => []TableCoversMemory
<1>1. ASSUME StartupInv, stage = "serve"
      PROVE  /\ Cardinality({table[i].addr : i \in DOMAIN table}) = Len(table)
             /\ {table[i].addr : i \in DOMAIN table} = mapped /\ written = mapped
  <2> DEFINE addresses == {table[i].addr : i \in DOMAIN table}
             f == [i \in DOMAIN table |-> table[i].addr]
  <2>1. /\ mapped = UNION {Addresses(l) : l \in Allocated}
        /\ written = UNION {Addresses(l) : l \in Tiers}
        /\ \A l \in Tiers : load[l] > 0 => region[l] # 0
        /\ \A l, k \in Allocated : l # k => Addresses(l) \cap Addresses(k) = {}
        /\ numTiers = 2 => placed["remote"] = 0 /\ region["remote"] = 0
    BY <1>1, ServeFacts DEF StartupInv, MemoryInv, ContentInv, Filled, FilledStages, BuiltStages,
       FittedStages
  <2>2. \A l \in Layers : Held(l) = Addresses(l) /\ load[l] \in Nat /\ region[l] \in Nat
                          /\ placed[l] = load[l]
    BY <1>1, ServeFacts
  <2>3. \A l \in Layers : Addresses(l) # {} => load[l] > 0
    <3>1. ASSUME NEW r \in Nat, NEW m \in Nat, m = 0 PROVE r .. r + m - 1 = {}
      BY <3>1
    <3>2. \A l \in Layers : load[l] = 0 => Addresses(l) = {}
      BY <2>2, <3>1 DEF Addresses
    <3> QED BY <2>2, <3>2
  <2>4. \A l \in Layers : Addresses(l) # {} => l \in Allocated /\ l \in Tiers
    <3>1. \A l \in Layers : load[l] > 0 => l \in Tiers
      BY <2>1, <2>2 DEF Tiers, Layers
    <3> QED BY <2>1, <2>3, <3>1 DEF Allocated
  <2>5. /\ Allocated \subseteq Layers /\ Tiers \subseteq Layers
        /\ mapped = UNION {Addresses(l) : l \in Layers}
        /\ written = UNION {Addresses(l) : l \in Layers}
    <3>1. Allocated \subseteq Layers /\ Tiers \subseteq Layers
      BY DEF Allocated, Tiers, Layers
    <3> QED BY <2>1, <2>4, <3>1
  <2>6. \A p \in DOMAIN table : table[p].layer \in Layers /\ table[p].addr \in Addresses(table[p].layer)
    BY <1>1, <2>2, ServeFacts
  <2>7. addresses \subseteq mapped
    BY <2>5, <2>6
  <2>8. mapped \subseteq addresses
    <3>1. ASSUME NEW l \in Layers, NEW a \in Addresses(l) PROVE a \in addresses
      <4>1. \E p \in PagesWith(l) : table[p].addr = a
        BY <1>1, <2>2, ServeFacts DEF Filled, AddressInv
      <4> QED BY <4>1 DEF PagesWith
    <3> QED BY <2>5, <3>1
  <2>9. \A p, q \in DOMAIN table : p # q => table[p].addr # table[q].addr
    <3>1. ASSUME NEW p \in DOMAIN table, NEW q \in DOMAIN table, p # q,
                 table[p].addr = table[q].addr
          PROVE  FALSE
      <4>1. CASE table[p].layer = table[q].layer
        BY <1>1, <3>1, <4>1, ServeFacts DEF Filled, AddressInv
      <4>2. CASE table[p].layer # table[q].layer
        BY <2>1, <2>4, <2>6, <3>1, <4>2
      <4> QED BY <4>1, <4>2
    <3> QED BY <3>1
  <2>10. Cardinality(DOMAIN table) = Len(table) /\ IsFiniteSet(DOMAIN table)
    <3>1. DOMAIN table = 1 .. 1 + Len(table) - 1 /\ Len(table) \in Nat
      BY <1>1, ServeFacts
    <3> QED BY <3>1, IntervalSize
  <2>11. f \in [DOMAIN table -> addresses] /\ \A a \in addresses : \E p \in DOMAIN table : f[p] = a
    OBVIOUS
  <2>12. \A p, q \in DOMAIN table : p # q => f[p] # f[q]
    BY <2>9
  <2>13. Cardinality(DOMAIN table) = Cardinality(addresses)
    <3> HIDE DEF f, addresses
    <3> QED BY <2>10, <2>11, <2>12, OneToOne
  <2>14. addresses = mapped /\ written = mapped
    BY <2>5, <2>7, <2>8
  <2> QED BY <2>10, <2>13, <2>14
<1>2. StartupInv => TableCoversMemory
  BY <1>1 DEF TableCoversMemory
<1> QED BY <1>2, StartupInvariance, PTL

-----------------------------------------------------------------------------
(* Spellings                                                               *)

\* w joins the sequences of q one after the other.
Joins(w, q) == w[0] = <<>> /\ \A k \in 0 .. Len(q) - 1 : w[k + 1] = w[k] \o q[k + 1]

LEMMA SomeJoin ==
  ASSUME NEW S, NEW q \in Seq(Seq(S))
  PROVE  \E w \in [0 .. Len(q) -> Seq(S)] : Joins(w, q)
<1> DEFINE D == Seq(S)
           next(k) == IF k < Len(q) THEN q[k + 1] ELSE <<>>
           step == [k \in Nat |-> [d \in D |-> d \o next(k)]]
<1>1. <<>> \in D /\ Len(q) \in Nat
  OBVIOUS
<1>2. step \in [Nat -> [D -> D]]
  <2>1. ASSUME NEW k \in Nat PROVE next(k) \in D
    <3>1. CASE k < Len(q)
      <4>1. k + 1 \in 1 .. Len(q)
        BY <1>1, <3>1
      <4> QED BY <3>1, <4>1, SeqMember
    <3> QED BY <1>1, <3>1
  <2> HIDE DEF next
  <2>2. \A k \in Nat : \A d \in D : d \o next(k) \in D
    BY <2>1
  <2> HIDE DEF D
  <2> QED BY <2>2
<1>3. PICK w \in [0 .. Len(q) -> D] : Follows(w, <<>>, step, Len(q))
  <2> HIDE DEF D, step
  <2> QED BY <1>1, <1>2, SomeWay
<1>4. ASSUME NEW k \in 0 .. Len(q) - 1 PROVE w[k + 1] = w[k] \o q[k + 1]
  <2>1. k \in Nat /\ k < Len(q) /\ k \in 0 .. Len(q)
    BY <1>1
  <2>2. w[k] \in D
    <3> HIDE DEF D
    <3> QED BY <1>3, <2>1
  <2>3. w[k + 1] = step[k][w[k]]
    <3> HIDE DEF D, step
    <3> QED BY <1>3 DEF Follows
  <2>4. step[k][w[k]] = w[k] \o next(k)
    <3> HIDE DEF D, next
    <3> QED BY <2>1, <2>2
  <2> QED BY <2>1, <2>3, <2>4
<1> HIDE DEF step
<1>5. w[0] = <<>>
  BY <1>3 DEF Follows
<1> QED BY <1>3, <1>4, <1>5 DEF Joins

LEMMA Flattened ==
  ASSUME NEW S, NEW q \in Seq(Seq(S)), NEW w \in [0 .. Len(q) -> Seq(S)], Joins(w, q)
  PROVE  Lists!FlattenSeq(q) = w[Len(q)]
<1> DEFINE n == Len(q)
           Is(v) == v = [i \in 1 .. n |-> IF i = 1 THEN q[i] ELSE v[i - 1] \o q[i]]
           flat == CHOOSE v : Is(v)
           T == {k \in Nat : k + 1 <= n => flat[k + 1] = w[k + 1]}
<1>1. /\ n \in Nat
      /\ w[0] = <<>> /\ \A k \in 0 .. n - 1 : w[k + 1] = w[k] \o q[k + 1]
  <2>1. n \in Nat
    OBVIOUS
  <2> QED BY <2>1 DEF Joins
<1>2. CASE n = 0
  <2>1. q = <<>>
    BY <1>2
  <2>2. Lists!FlattenSeq(q) = q
    BY <1>2 DEF Lists!FlattenSeq
  <2> QED BY <1>1, <1>2, <2>1, <2>2
<1>3. CASE n # 0
  <2>1. Lists!FlattenSeq(q) = flat[n]
    BY <1>3 DEF Lists!FlattenSeq
  <2>2. Is([i \in 1 .. n |-> w[i]])
    <3>1. ASSUME NEW i \in 1 .. n
          PROVE  w[i] = IF i = 1 THEN q[i] ELSE w[i - 1] \o q[i]
      <4>1. i - 1 \in 0 .. n - 1 /\ (i - 1) + 1 = i
        OBVIOUS
      <4>2. w[i] = w[i - 1] \o q[i]
        BY <1>1, <4>1
      <4>3. CASE i = 1
        <5>1. w[i] = <<>> \o q[1] /\ q[1] \in Seq(S)
          BY <1>1, <4>2, <4>3, SeqMember
        <5>2. <<>> \o q[1] = q[1]
          BY <5>1
        <5> QED BY <4>3, <5>1, <5>2
      <4> QED BY <4>2, <4>3
    <3> DEFINE v == [i \in 1 .. n |-> w[i]]
    <3>2. ASSUME NEW i \in 1 .. n
          PROVE  v[i] = IF i = 1 THEN q[i] ELSE v[i - 1] \o q[i]
      <4>1. i # 1 => i - 1 \in 1 .. n
        OBVIOUS
      <4>2. v[i] = w[i] /\ (i # 1 => v[i - 1] = w[i - 1])
        BY <4>1
      <4> QED BY <3>1, <4>2
    <3> QED BY <3>2
  <2>3. Is(flat)
    <3> HIDE DEF Is
    <3> QED BY <2>2
  <2>4. \A i \in 1 .. n : flat[i] = IF i = 1 THEN q[i] ELSE flat[i - 1] \o q[i]
    <3> HIDE DEF flat
    <3> QED BY <2>3
  <2> HIDE DEF flat
  <2>5. 0 \in T
    <3>1. 1 \in 1 .. n /\ 0 \in 0 .. n - 1
      BY <1>1, <1>3
    <3>2. flat[1] = q[1]
      BY <2>4, <3>1
    <3>3. w[1] = <<>> \o q[1] /\ q[1] \in Seq(S)
      <4>1. 0 + 1 = 1
        OBVIOUS
      <4>2. w[1] = <<>> \o q[1]
        BY <1>1, <3>1, <4>1
      <4>3. q[1] \in Seq(S)
        BY <3>1, SeqMember
      <4> QED BY <4>2, <4>3
    <3>4. <<>> \o q[1] = q[1]
      BY <3>3
    <3> QED BY <3>2, <3>3, <3>4
  <2>6. ASSUME NEW k \in Nat, k \in T PROVE k + 1 \in T
    <3> HIDE DEF T
    <3>1. CASE k + 2 <= n
      <4>1. k + 2 \in 1 .. n /\ k + 2 # 1 /\ k + 2 - 1 = k + 1 /\ k + 1 \in 0 .. n - 1
            /\ k + 1 <= n
        BY <1>1, <3>1
      <4>2. flat[k + 2] = flat[k + 1] \o q[k + 2]
        <5> PICK i : i = k + 2
          OBVIOUS
        <5>1. i \in 1 .. n /\ i # 1 /\ i - 1 = k + 1
          BY <4>1
        <5>2. flat[i] = flat[i - 1] \o q[i]
          BY <2>4, <5>1
        <5> QED BY <5>1, <5>2
      <4>3. w[k + 2] = w[k + 1] \o q[k + 2]
        <5>1. (k + 1) + 1 = k + 2
          OBVIOUS
        <5> QED BY <1>1, <4>1, <5>1
      <4>4. flat[k + 1] = w[k + 1]
        BY <2>6, <4>1 DEF T
      <4>5. flat[k + 1 + 1] = w[k + 1 + 1]
        <5>1. k + 1 + 1 = k + 2
          OBVIOUS
        <5> QED BY <4>2, <4>3, <4>4, <5>1
      <4> QED BY <4>5 DEF T
    <3>2. CASE ~(k + 2 <= n)
      <4>1. ~(k + 1 + 1 <= n)
        BY <1>1, <3>2
      <4> QED BY <4>1 DEF T
    <3> QED BY <3>1, <3>2
  <2> HIDE DEF T
  <2>7. Nat \subseteq T
    BY <2>5, <2>6, Induction
  <2>8. n - 1 \in Nat /\ (n - 1) + 1 = n
    BY <1>1, <1>3
  <2>9. flat[n] = w[n]
    <3> PICK k : k = n - 1
      OBVIOUS
    <3>1. k \in T /\ k + 1 = n /\ k + 1 <= n
      BY <1>1, <2>7, <2>8
    <3>2. flat[k + 1] = w[k + 1]
      BY <3>1 DEF T
    <3> QED BY <3>1, <3>2
  <2> QED BY <2>1, <2>9
<1> QED BY <1>2, <1>3

\* One more sequence is joined to the others.
LEMMA FlattenStep ==
  ASSUME NEW S, NEW q \in Seq(Seq(S)), NEW x \in Seq(S)
  PROVE  /\ Lists!FlattenSeq(q) \in Seq(S)
         /\ Lists!FlattenSeq(Append(q, x)) = Lists!FlattenSeq(q) \o x
<1> DEFINE r == Append(q, x)
           n == Len(q)
<1>1. n \in Nat /\ r \in Seq(Seq(S)) /\ Len(r) = n + 1 /\ r[n + 1] = x
  OBVIOUS
<1>2. \A k \in 1 .. n : r[k] = q[k]
  OBVIOUS
<1> HIDE DEF r
<1>3. PICK w \in [0 .. n + 1 -> Seq(S)] : Joins(w, r)
  BY <1>1, SomeJoin
<1> DEFINE v == [k \in 0 .. n |-> w[k]]
<1>4. v \in [0 .. n -> Seq(S)] /\ \A k \in 0 .. n : v[k] = w[k]
  BY <1>1
<1> HIDE DEF v
<1>5. Joins(v, q)
  <2>1. ASSUME NEW k \in 0 .. n - 1 PROVE v[k + 1] = v[k] \o q[k + 1]
    <3>1. k \in 0 .. n /\ k + 1 \in 0 .. n /\ k + 1 \in 1 .. n /\ k \in 0 .. Len(r) - 1
      BY <1>1
    <3>2. w[k + 1] = w[k] \o r[k + 1]
      BY <1>3, <3>1 DEF Joins
    <3> QED BY <1>2, <1>4, <3>1, <3>2
  <2>2. v[0] = <<>>
    <3>1. 0 \in 0 .. n
      BY <1>1
    <3> QED BY <1>3, <1>4, <3>1 DEF Joins
  <2> QED BY <2>1, <2>2 DEF Joins
<1>6. n \in 0 .. n /\ n \in 0 .. Len(r) - 1
  BY <1>1
<1>7. Lists!FlattenSeq(q) = w[n] /\ w[n] \in Seq(S)
  <2>1. Lists!FlattenSeq(q) = v[n]
    BY <1>4, <1>5, Flattened
  <2> QED BY <1>4, <1>6, <2>1
<1>8. Lists!FlattenSeq(r) = w[n + 1]
  BY <1>1, <1>3, Flattened
<1>9. w[n + 1] = w[n] \o x
  BY <1>1, <1>3, <1>6 DEF Joins
<1>10. Lists!FlattenSeq(q) \in Seq(S) /\ Lists!FlattenSeq(r) = Lists!FlattenSeq(q) \o x
  BY <1>7, <1>8, <1>9
<1> QED BY <1>10 DEF r

\* What one more of the settings adds to the first m of them.
LEMMA PrefixFacts ==
  ASSUME NEW S, NEW s \in Seq(S)
  PROVE  /\ \A m \in 0 .. Len(s) : SubSeq(s, 1, m) \in Seq(S) /\ Len(SubSeq(s, 1, m)) = m
         /\ \A m \in 0 .. Len(s) - 1 : /\ s[m + 1] \in S
                                       /\ SubSeq(s, 1, m + 1) = Append(SubSeq(s, 1, m), s[m + 1])
         /\ SubSeq(s, 1, 0) = <<>> /\ SubSeq(s, 1, Len(s)) = s
<1>1. ASSUME NEW m \in 0 .. Len(s)
      PROVE  /\ SubSeq(s, 1, m) \in Seq(S) /\ Len(SubSeq(s, 1, m)) = m
             /\ \A i \in 1 .. m : SubSeq(s, 1, m)[i] = s[i]
  <2>1. \A i \in 1 .. m : s[i] \in S
    BY SeqMember
  <2> QED BY <2>1, SubSeqProperties
<1>2. ASSUME NEW m \in 0 .. Len(s) - 1
      PROVE  s[m + 1] \in S /\ SubSeq(s, 1, m + 1) = Append(SubSeq(s, 1, m), s[m + 1])
  <2>1. m \in 0 .. Len(s) /\ m + 1 \in 0 .. Len(s) /\ m + 1 \in 1 .. Len(s)
    OBVIOUS
  <2> DEFINE a == SubSeq(s, 1, m)
             b == SubSeq(s, 1, m + 1)
             x == s[m + 1]
  <2>2. x \in S
    BY <2>1, SeqMember
  <2>3. /\ a \in Seq(S) /\ Len(a) = m /\ \A i \in 1 .. m : a[i] = s[i]
        /\ b \in Seq(S) /\ Len(b) = m + 1 /\ \A i \in 1 .. m + 1 : b[i] = s[i]
    BY <1>1, <2>1
  <2> HIDE DEF a, b
  <2>4. b[m + 1] = x /\ \A i \in 1 .. m : b[i] = a[i]
    BY <2>1, <2>3
  <2> HIDE DEF x
  <2>5. b = Append(a, x)
    BY <2>2, <2>3, <2>4
  <2> QED BY <2>2, <2>5 DEF a, b, x
<1>3. SubSeq(s, 1, 0) = <<>> /\ SubSeq(s, 1, Len(s)) = s
  BY <1>1
<1> QED BY <1>1, <1>2, <1>3

\* A function of the elements of a sequence, when the sequence grows.
LEMMA MapStep ==
  ASSUME NEW S, NEW s \in Seq(S), NEW e \in S, NEW R, NEW f \in [S -> R]
  PROVE  LET t == Append(s, e)
         IN  /\ [i \in DOMAIN s |-> f[s[i]]] \in Seq(R)
             /\ [i \in DOMAIN t |-> f[t[i]]] = Append([i \in DOMAIN s |-> f[s[i]]], f[e])
<1> DEFINE t == Append(s, e)
           n == Len(s)
           g == [i \in DOMAIN s |-> f[s[i]]]
           h == [i \in DOMAIN t |-> f[t[i]]]
<1>1. n \in Nat /\ DOMAIN s = 1 .. n /\ \A i \in 1 .. n : s[i] \in S
  BY SeqMember
<1>2. t \in Seq(S) /\ DOMAIN t = 1 .. n + 1 /\ t[n + 1] = e /\ \A i \in 1 .. n : t[i] = s[i]
  OBVIOUS
<1> HIDE DEF t
<1>3. g \in Seq(R) /\ Len(g) = n
  BY <1>1
<1>4. h \in [1 .. n + 1 -> R]
  <2>1. \A i \in 1 .. n + 1 : t[i] \in S
    BY <1>1, <1>2
  <2> QED BY <1>2, <2>1
<1>5. h[n + 1] = f[e] /\ \A i \in 1 .. n : h[i] = g[i]
  BY <1>1, <1>2
<1> HIDE DEF g, h
<1>6. h = Append(g, f[e])
  BY <1>1, <1>3, <1>4, <1>5
<1> QED BY <1>3, <1>6 DEF g, h, t

SpellElements == {Spell(e)[k] : e \in Settings, k \in {1, 2}}

LEMMA SpellFacts ==
  ASSUME NEW e \in Settings
  PROVE  /\ Spell(e) \in Seq(SpellElements) /\ Len(Spell(e)) \in {1, 2}
         /\ e.style \in {"next", "short"} => Len(Spell(e)) = 2
<1>1. \E a, b : Spell(e) = <<a>> \/ Spell(e) = <<a, b>>
  BY DEF Spell
<1>2. PICK a, b : Spell(e) = <<a>> \/ Spell(e) = <<a, b>>
  BY <1>1
<1>3. Spell(e) = <<a>> => Spell(e) \in Seq(SpellElements) /\ Len(Spell(e)) = 1
  <2>1. Spell(e) = <<a>> => a \in SpellElements
    BY DEF SpellElements
  <2> QED BY <2>1
<1>4. Spell(e) = <<a, b>> => Spell(e) \in Seq(SpellElements) /\ Len(Spell(e)) = 2
  <2>1. Spell(e) = <<a, b>> => Spell(e)[1] \in SpellElements /\ Spell(e)[2] \in SpellElements
    BY DEF SpellElements
  <2>2. Spell(e) = <<a, b>> => a \in SpellElements /\ b \in SpellElements
    BY <2>1
  <2> QED BY <2>2
<1>5. e.style \in {"next", "short"} => Len(Spell(e)) = 2
  <2>1. e.style \in {"next", "short"} => \E c, d : Spell(e) = <<c, d>>
    BY DEF Spell
  <2> QED BY <2>1
<1> QED BY <1>2, <1>3, <1>4, <1>5

LEMMA SpelledStep ==
  ASSUME NEW s \in Seq(Settings), NEW e \in Settings
  PROVE  /\ Spelled(s) \in Seq(SpellElements)
         /\ Spelled(Append(s, e)) = Spelled(s) \o Spell(e)
<1> DEFINE R == Seq(SpellElements)
           f == [x \in Settings |-> Spell(x)]
           t == Append(s, e)
<1>1. f \in [Settings -> R] /\ f[e] = Spell(e) /\ f[e] \in R
  BY SpellFacts
<1>2. DOMAIN s = 1 .. Len(s) /\ \A i \in DOMAIN s : s[i] \in Settings
  BY SeqMember
<1>3. t \in Seq(Settings) /\ \A i \in DOMAIN t : t[i] \in Settings
  BY SeqMember
<1> HIDE DEF t
<1>4. [i \in DOMAIN s |-> Spell(s[i])] = [i \in DOMAIN s |-> f[s[i]]]
  BY <1>2
<1>5. [i \in DOMAIN t |-> Spell(t[i])] = [i \in DOMAIN t |-> f[t[i]]]
  BY <1>3
<1> HIDE DEF f, R
<1>6. /\ [i \in DOMAIN s |-> f[s[i]]] \in Seq(R)
      /\ [i \in DOMAIN t |-> f[t[i]]] = Append([i \in DOMAIN s |-> f[s[i]]], f[e])
  BY <1>1, MapStep DEF t
<1> USE DEF R
<1>7. Spelled(s) \in Seq(SpellElements) /\ Spelled(t) = Spelled(s) \o Spell(e)
  <2> PICK q : q = [i \in DOMAIN s |-> f[s[i]]]
    OBVIOUS
  <2>1. q \in Seq(Seq(SpellElements)) /\ f[e] \in Seq(SpellElements)
    BY <1>1, <1>6
  <2>2. /\ Lists!FlattenSeq(q) \in Seq(SpellElements)
        /\ Lists!FlattenSeq(Append(q, f[e])) = Lists!FlattenSeq(q) \o f[e]
    BY <2>1, FlattenStep
  <2>3. Spelled(s) = Lists!FlattenSeq(q)
    BY <1>4, Zenon DEF Spelled
  <2>4. Spelled(t) = Lists!FlattenSeq(Append(q, f[e]))
    BY <1>5, <1>6, Zenon DEF Spelled
  <2> QED BY <1>1, <2>2, <2>3, <2>4
<1> QED BY <1>7 DEF t

\* Where the spelling of a setting is in the command line.
LEMMA SpelledAt ==
  ASSUME NEW s \in Seq(Settings), NEW m \in 0 .. Len(s) - 1, NEW p, NEW e,
         p = Len(Spelled(SubSeq(s, 1, m))), e = s[m + 1]
  PROVE  /\ e \in Settings /\ p \in Nat /\ Len(Spelled(s)) \in Nat
         /\ p + Len(Spell(e)) <= Len(Spelled(s))
         /\ \A k \in 1 .. Len(Spell(e)) : Spelled(s)[p + k] = Spell(e)[k]
         /\ Len(Spelled(SubSeq(s, 1, m + 1))) = p + Len(Spell(e))
<1> DEFINE to(n) == Spelled(SubSeq(s, 1, n))
           At(n) == /\ p + Len(Spell(e)) <= Len(to(n))
                    /\ \A k \in 1 .. Len(Spell(e)) : to(n)[p + k] = Spell(e)[k]
           T == {j \in Nat : m + 1 + j <= Len(s) => At(m + 1 + j)}
<1>1. /\ Len(s) \in Nat /\ e \in Settings /\ SubSeq(s, 1, Len(s)) = s
      /\ m + 1 \in 0 .. Len(s) /\ m \in 0 .. Len(s)
  BY PrefixFacts
<1>2. ASSUME NEW n \in 0 .. Len(s) - 1
      PROVE  /\ s[n + 1] \in Settings /\ to(n) \in Seq(SpellElements)
             /\ to(n + 1) = to(n) \o Spell(s[n + 1])
  <2>1. n \in 0 .. Len(s)
    OBVIOUS
  <2>2. /\ SubSeq(s, 1, n) \in Seq(Settings) /\ s[n + 1] \in Settings
        /\ SubSeq(s, 1, n + 1) = Append(SubSeq(s, 1, n), s[n + 1])
    BY <2>1, PrefixFacts
  <2> QED BY <2>2, SpelledStep
<1>3. Spell(e) \in Seq(SpellElements) /\ Len(Spell(e)) \in Nat
  BY <1>1, SpellFacts
<1>4. to(m) \in Seq(SpellElements) /\ to(m + 1) = to(m) \o Spell(e) /\ p = Len(to(m))
  BY <1>2
<1>5. ASSUME NEW n \in 0 .. Len(s) PROVE to(n) \in Seq(SpellElements)
  <2>1. SubSeq(s, 1, n) \in Seq(Settings)
    BY PrefixFacts
  <2> QED BY <1>1, <2>1, SpelledStep
<1> HIDE DEF to
<1>6. p \in Nat /\ Len(to(m + 1)) = p + Len(Spell(e))
      /\ \A k \in 1 .. Len(Spell(e)) : to(m + 1)[p + k] = Spell(e)[k]
  <2>1. PICK all : all = to(m + 1)
    OBVIOUS
  <2>2. PICK first : first = to(m)
    OBVIOUS
  <2>3. PICK new : new = Spell(e)
    OBVIOUS
  <2>4. first \in Seq(SpellElements) /\ new \in Seq(SpellElements) /\ all = first \o new
    BY ONLY <1>3, <1>4, <2>1, <2>2, <2>3
  <2>5. /\ Len(all) = Len(first) + Len(new)
        /\ \A k \in 1 .. Len(new) : all[Len(first) + k] = new[k]
    BY ONLY <2>4, TwoParts
  <2>6. Len(first) \in Nat
    BY ONLY <2>4
  <2> QED BY ONLY <1>4, <2>1, <2>2, <2>3, <2>5, <2>6
<1>7. 0 \in T
  <2>1. m + 1 + 0 = m + 1
    OBVIOUS
  <2>2. At(m + 1)
    BY <1>3, <1>6
  <2> HIDE DEF At
  <2> QED BY <2>1, <2>2
<1>8. ASSUME NEW j \in Nat, j \in T PROVE j + 1 \in T
  <2> DEFINE n == m + 1 + j
  <2>1. CASE n + 1 <= Len(s)
    <3>1. n \in 0 .. Len(s) - 1 /\ n <= Len(s) /\ m + 1 + (j + 1) = n + 1
      BY <1>1, <2>1
    <3>2. At(n)
      BY <1>8, <3>1
    <3> HIDE DEF n
    <3> DEFINE x == Spell(s[n + 1])
    <3>3. to(n) \in Seq(SpellElements) /\ to(n + 1) = to(n) \o x
      BY <1>2, <3>1
    <3>4. x \in Seq(SpellElements)
      BY <1>2, <3>1, SpellFacts
    <3> HIDE DEF x
    <3>5. Len(to(n + 1)) >= Len(to(n)) /\ \A i \in 1 .. Len(to(n)) : to(n + 1)[i] = to(n)[i]
      BY <3>3, <3>4
    <3>6. Len(to(n)) \in Nat /\ Len(to(n + 1)) \in Nat
      BY <3>3, <3>4
    <3>7. \A k \in 1 .. Len(Spell(e)) : p + k \in 1 .. Len(to(n))
      BY <1>3, <1>6, <3>2, <3>6
    <3>8. At(n + 1)
      BY <1>3, <1>6, <3>2, <3>5, <3>6, <3>7
    <3> HIDE DEF At
    <3> QED BY <3>1, <3>8
  <2>2. CASE ~(n + 1 <= Len(s))
    <3>1. ~(m + 1 + (j + 1) <= Len(s))
      BY <1>1, <2>2
    <3> QED BY <3>1
  <2> QED BY <2>1, <2>2
<1> HIDE DEF T
<1>9. Nat \subseteq T
  BY <1>7, <1>8, Induction
<1>10. At(Len(s))
  <2>1. Len(s) - (m + 1) \in Nat /\ m + 1 + (Len(s) - (m + 1)) = Len(s)
    BY <1>1
  <2> HIDE DEF At
  <2> PICK j : j = Len(s) - (m + 1)
    OBVIOUS
  <2>2. j \in T /\ m + 1 + j = Len(s) /\ m + 1 + j <= Len(s)
    BY <1>1, <1>9, <2>1
  <2>3. At(m + 1 + j)
    BY <2>2 DEF T
  <2> QED BY <2>2, <2>3
<1>11. to(Len(s)) = Spelled(s)
  BY <1>1 DEF to
<1>12. Len(Spelled(s)) \in Nat
  BY <1>1, <1>5, <1>11
<1> QED BY <1>1, <1>6, <1>10, <1>11, <1>12 DEF to

\* A set of numbers up to n has a greatest one.
LEMMA Greatest ==
  ASSUME NEW n \in Nat, NEW I \in SUBSET (1 .. n), I # {}
  PROVE  Lists!Max(I) \in I /\ \A k \in I : Lists!Max(I) >= k
<1> DEFINE J == {n - i : i \in I}
<1>1. J \in SUBSET Nat /\ J # {}
  <2>1. \A i \in I : n - i \in Nat
    OBVIOUS
  <2>2. PICK i : i \in I
    OBVIOUS
  <2> QED BY <2>1, <2>2
<1>2. PICK j \in J : \A k \in J : j <= k
  <2> HIDE DEF J
  <2> QED BY <1>1, Least
<1>3. PICK i \in I : j = n - i
  BY <1>2
<1>4. \A k \in I : i >= k
  <2>1. \A k \in I : n - k \in J
    OBVIOUS
  <2> QED BY <1>2, <1>3, <2>1
<1> QED BY <1>4 DEF Lists!Max

LEMMA LastStep ==
  ASSUME NEW s \in Seq(Settings), NEW e \in Settings, NEW o \in OptionsIn(Append(s, e))
  PROVE  LastText(Append(s, e), o) = IF o = e.option THEN e.text ELSE LastText(s, o)
<1> DEFINE t == Append(s, e)
           n == Len(s)
           I == {i \in DOMAIN s : s[i].option = o}
           K == {i \in DOMAIN t : t[i].option = o}
<1>1. n \in Nat /\ DOMAIN s = 1 .. n /\ DOMAIN t = 1 .. n + 1 /\ t[n + 1] = e
      /\ \A i \in 1 .. n : t[i] = s[i]
  OBVIOUS
<1>2. K # {}
  BY DEF OptionsIn
<1> HIDE DEF t
<1>3. CASE o = e.option
  <2>1. n + 1 \in K /\ K \in SUBSET (1 .. n + 1)
    BY <1>1, <1>3
  <2> HIDE DEF K
  <2>2. Lists!Max(K) \in 1 .. n + 1 /\ Lists!Max(K) >= n + 1
    <3>1. n + 1 \in Nat /\ K # {}
      BY <1>1, <2>1
    <3>2. Lists!Max(K) \in K /\ \A k \in K : Lists!Max(K) >= k
      BY <2>1, <3>1, Greatest
    <3> QED BY <2>1, <3>2
  <2>3. Lists!Max(K) = n + 1
    BY <1>1, <2>2
  <2>4. LastText(t, o) = t[Lists!Max(K)].text
    BY DEF LastText, K
  <2> QED BY <1>1, <1>3, <2>3, <2>4 DEF t
<1>4. CASE o # e.option
  <2>1. K = I
    BY <1>1, <1>4
  <2>2. I \in SUBSET (1 .. n) /\ I # {}
    BY <1>1, <1>2, <2>1
  <2> HIDE DEF K, I
  <2>3. Lists!Max(I) \in 1 .. n
    BY <1>1, <2>2, Greatest
  <2>4. LastText(t, o) = t[Lists!Max(K)].text /\ LastText(s, o) = s[Lists!Max(I)].text
    BY DEF LastText, K, I
  <2> QED BY <1>1, <1>4, <2>1, <2>3, <2>4 DEF t
<1> QED BY <1>3, <1>4

\* What a text adds to a list does not depend on what the list holds.
ListElements(o) == {Value(o, <<>>, text)[k] : text \in Texts, k \in Nat}

LEMMA ListValue ==
  ASSUME NEW o \in ListOptions, NEW text \in Texts
  PROVE  /\ Value(o, <<>>, text) \in Seq(ListElements(o))
         /\ \A S : \A old \in Seq(S) : Value(o, old, text) = old \o Value(o, <<>>, text)
<1>1. Elements(text) \in Seq(Pieces)
  BY ElementsFit
<1> DEFINE n == Len(Elements(text))
           more == IF o \in TextListOptions THEN Elements(text)
                   ELSE [i \in DOMAIN Elements(text) |-> SizeText[Elements(text)[i][1]]]
<1>2. n \in Nat /\ more \in Seq({more[k] : k \in 1 .. n})
  <2>1. n \in Nat /\ DOMAIN Elements(text) = 1 .. n
    BY <1>1
  <2>2. DOMAIN more = 1 .. n /\ more = [k \in 1 .. n |-> more[k]]
    BY <1>1, <2>1
  <2> HIDE DEF more, n
  <2> QED BY <2>1, <2>2
<1>3. \A old : Value(o, old, text) = old \o more
  BY KindsApart DEF Value
<1> HIDE DEF more, n
<1>4. Value(o, <<>>, text) = more
  <2>1. <<>> \o more = more
    BY <1>2
  <2> QED BY <1>3, <2>1
<1>5. {more[k] : k \in 1 .. n} \subseteq ListElements(o)
  <2>1. ASSUME NEW k \in 1 .. n PROVE more[k] \in ListElements(o)
    <3>1. k \in Nat
      BY <1>2
    <3> QED BY <1>4, <3>1 DEF ListElements
  <2> QED BY <2>1
<1>6. more \in Seq(ListElements(o))
  BY <1>2, <1>5
<1> QED BY <1>3, <1>4, <1>6

\* A list holds what all its texts add.
LEMMA JoinedStep ==
  ASSUME NEW s \in Seq(Settings), NEW e \in Settings, NEW o \in ListOptions
  PROVE  /\ Joined(s, o) \in Seq(ListElements(o))
         /\ o \notin OptionsIn(s) => Joined(s, o) = <<>>
         /\ Joined(Append(s, e), o)
              = Joined(s, o) \o (IF o = e.option THEN Value(o, <<>>, e.text) ELSE <<>>)
<1> DEFINE V == ListElements(o)
           adds(x) == IF x.option = o THEN Value(o, <<>>, x.text) ELSE <<>>
           R == Seq(V)
           f == [x \in Settings |-> adds(x)]
           t == Append(s, e)
           q == [i \in DOMAIN s |-> adds(s[i])]
<1>1. \A x \in Settings : x.text \in Texts
  BY DEF Settings
<1>2. \A x \in Settings : adds(x) \in R
  BY <1>1, ListValue
<1>3. DOMAIN s = 1 .. Len(s) /\ Len(s) \in Nat /\ \A i \in DOMAIN s : s[i] \in Settings
  BY SeqMember
<1>4. t \in Seq(Settings) /\ \A i \in DOMAIN t : t[i] \in Settings
  BY SeqMember
<1>5. /\ Joined(s, o) = Lists!FlattenSeq(q)
      /\ Joined(t, o) = Lists!FlattenSeq([i \in DOMAIN t |-> adds(t[i])])
  BY DEF Joined
<1>6. adds(e) = IF o = e.option THEN Value(o, <<>>, e.text) ELSE <<>>
  OBVIOUS
<1>7. o \notin OptionsIn(s) => \A i \in DOMAIN s : adds(s[i]) = <<>>
  BY DEF OptionsIn
<1> HIDE DEF t, adds, V
<1>8. f \in [Settings -> R] /\ f[e] = adds(e) /\ f[e] \in R
  BY <1>2
<1>9. q = [i \in DOMAIN s |-> f[s[i]]]
  BY <1>3
<1>10. [i \in DOMAIN t |-> adds(t[i])] = [i \in DOMAIN t |-> f[t[i]]]
  BY <1>4
<1>11. o \notin OptionsIn(s) => \A i \in 1 .. Len(s) : q[i] = <<>>
  BY <1>3, <1>7
<1> HIDE DEF f, q, R
<1>12. /\ [i \in DOMAIN s |-> f[s[i]]] \in Seq(R)
       /\ [i \in DOMAIN t |-> f[t[i]]] = Append([i \in DOMAIN s |-> f[s[i]]], f[e])
  BY <1>8, MapStep DEF t
<1> USE DEF R
<1>13. q \in Seq(Seq(V)) /\ f[e] \in Seq(V) /\ Len(q) = Len(s)
  <2>1. q \in Seq(Seq(V)) /\ f[e] \in Seq(V)
    BY <1>8, <1>9, <1>12
  <2>2. Len(q) = Len(s)
    <3>1. DOMAIN q = 1 .. Len(s)
      BY <1>3, <1>9
    <3> QED BY <1>3, <2>1, <3>1
  <2> QED BY <2>1, <2>2
<1>14. Joined(s, o) \in Seq(V) /\ Joined(t, o) = Joined(s, o) \o f[e]
  <2>1. Lists!FlattenSeq(q) \in Seq(V) /\ Lists!FlattenSeq(Append(q, f[e])) = Lists!FlattenSeq(q) \o f[e]
    BY <1>13, FlattenStep
  <2>2. Joined(t, o) = Lists!FlattenSeq(Append(q, f[e]))
    BY <1>5, <1>9, <1>10, <1>12
  <2> QED BY <1>5, <2>1, <2>2
<1>15. ASSUME o \notin OptionsIn(s) PROVE Joined(s, o) = <<>>
  <2> DEFINE w == [k \in 0 .. Len(q) |-> <<>>]
  <2>1. w \in [0 .. Len(q) -> Seq(V)] /\ w[0] = <<>> /\ w[Len(q)] = <<>>
    BY <1>3, <1>13
  <2>2. ASSUME NEW k \in 0 .. Len(q) - 1 PROVE w[k + 1] = w[k] \o q[k + 1]
    <3>1. k + 1 \in 1 .. Len(s) /\ k \in 0 .. Len(q) /\ k + 1 \in 0 .. Len(q)
      BY <1>3, <1>13
    <3>2. q[k + 1] = <<>> /\ w[k] = <<>> /\ w[k + 1] = <<>>
      BY <1>11, <1>15, <3>1
    <3>3. <<>> \o <<>> = <<>>
      OBVIOUS
    <3> QED BY <3>2, <3>3
  <2> HIDE DEF w
  <2>3. Joins(w, q)
    BY <2>1, <2>2 DEF Joins
  <2>4. Lists!FlattenSeq(q) = w[Len(q)]
    BY <1>13, <2>1, <2>3, Flattened
  <2> QED BY <1>5, <2>1, <2>4
<1> QED BY <1>6, <1>8, <1>14, <1>15 DEF t, V

\* What is stored when some settings have been read.
Taken(s) == [o \in OptionsIn(s) |-> Meaning(s)[o]]

LEMMA TakenStep ==
  ASSUME NEW s \in Seq(Settings), NEW e \in Settings, stored = Taken(s)
  PROVE  Put(e.option, Value(e.option, Old(e.option), e.text)) = Taken(Append(s, e))
<1> DEFINE t == Append(s, e)
           new == Put(e.option, Value(e.option, Old(e.option), e.text))
<1>1. OptionsIn(t) = OptionsIn(s) \cup {e.option}
  <2>1. /\ Len(s) \in Nat /\ DOMAIN s = 1 .. Len(s) /\ DOMAIN t = 1 .. Len(s) + 1
        /\ t[Len(s) + 1] = e /\ \A i \in 1 .. Len(s) : t[i] = s[i]
    OBVIOUS
  <2> HIDE DEF t
  <2> QED BY <2>1 DEF OptionsIn
<1>2. \A x : \A o \in OptionsIn(x) :
        Taken(x)[o] = IF o \in ListOptions THEN Joined(x, o) ELSE Value(o, <<>>, LastText(x, o))
  BY DEF Taken, Meaning
<1>3. DOMAIN stored = OptionsIn(s) /\ DOMAIN Taken(t) = OptionsIn(t)
      /\ Taken(t) = [o \in OptionsIn(t) |-> Taken(t)[o]]
  BY DEF Taken
<1>4. new = [o \in OptionsIn(s) \cup {e.option} |->
               IF o = e.option THEN Value(e.option, Old(e.option), e.text) ELSE stored[o]]
  BY <1>3 DEF Put
<1>5. ASSUME NEW o \in OptionsIn(t), o # e.option PROVE Taken(t)[o] = stored[o]
  <2>1. o \in OptionsIn(s)
    BY <1>1, <1>5
  <2>2. CASE o \in ListOptions
    <3>1. Joined(s, o) \in Seq(ListElements(o)) /\ Joined(t, o) = Joined(s, o) \o <<>>
      BY <1>5, <2>2, JoinedStep
    <3>2. Joined(t, o) = Joined(s, o)
      BY <3>1
    <3> QED BY <1>2, <2>1, <2>2, <3>2
  <2>3. CASE o \notin ListOptions
    <3>1. LastText(t, o) = LastText(s, o)
      BY <1>5, LastStep
    <3> QED BY <1>2, <2>1, <2>3, <3>1
  <2> QED BY <2>2, <2>3
<1>6. Taken(t)[e.option] = Value(e.option, Old(e.option), e.text)
  <2> PICK o : o = e.option
    OBVIOUS
  <2>1. o \in OptionsIn(t) /\ e.text \in Texts
    BY <1>1 DEF Settings
  <2>2. CASE o \in ListOptions
    <3>1. /\ Joined(s, o) \in Seq(ListElements(o))
          /\ o \notin OptionsIn(s) => Joined(s, o) = <<>>
          /\ Joined(t, o) = Joined(s, o) \o Value(o, <<>>, e.text)
      BY <2>2, JoinedStep
    <3>2. Old(o) = Joined(s, o)
      BY <1>2, <1>3, <2>2, <3>1 DEF Old
    <3>3. Value(o, Old(o), e.text) = Old(o) \o Value(o, <<>>, e.text)
      BY <2>1, <2>2, <3>1, <3>2, ListValue
    <3> QED BY <1>2, <2>1, <2>2, <3>1, <3>2, <3>3
  <2>3. CASE o \notin ListOptions
    <3>1. LastText(t, o) = e.text
      BY <2>1, LastStep
    <3>2. Value(o, Old(o), e.text) = Value(o, <<>>, e.text)
      BY <2>3, KindsApart DEF Value
    <3> QED BY <1>2, <2>1, <2>3, <3>1, <3>2
  <2> QED BY <2>2, <2>3
<1> HIDE DEF new, t
<1>7. \A o \in OptionsIn(t) : new[o] = Taken(t)[o]
  BY <1>1, <1>4, <1>5, <1>6
<1>8. new = [o \in OptionsIn(t) |-> new[o]]
  BY <1>1, <1>4
<1>9. new = Taken(t)
  BY <1>3, <1>7, <1>8
<1> QED BY <1>9 DEF new, t

LEMMA ElementParts ==
  /\ \A name, value : /\ Long(name, value).kind = "long" /\ Long(name, value).name = name
                       /\ Long(name, value).value = value
  /\ \A letters, rest : /\ Group(letters, rest).kind = "group"
                         /\ Group(letters, rest).letters = letters
                         /\ Group(letters, rest).rest = rest
  /\ \A text : Plain(text).text = text
<1>1. \A kind, name, value, letters, rest, text :
        LET e == Element(kind, name, value, letters, rest, text)
        IN  /\ e.kind = kind /\ e.name = name /\ e.value = value
            /\ e.letters = letters /\ e.rest = rest /\ e.text = text
  BY DEF Element
<1>2. \A name, value : /\ Long(name, value).kind = "long" /\ Long(name, value).name = name
                       /\ Long(name, value).value = value
  BY <1>1 DEF Long
<1>3. \A letters, rest : /\ Group(letters, rest).kind = "group"
                         /\ Group(letters, rest).letters = letters
                         /\ Group(letters, rest).rest = rest
  <2> TAKE letters, rest
  <2>1. PICK name, word : Group(letters, rest) = Element("group", name, NoText, letters, rest, word)
    BY Zenon DEF Group
  <2> QED BY <1>1, <2>1
<1>4. \A text : Plain(text).text = text
  <2> TAKE text
  <2>1. PICK name : Plain(text) = Element("plain", name, NoText, <<>>, <<>>, text)
    BY Zenon DEF Plain
  <2> QED BY <1>1, <2>1
<1> QED BY <1>2, <1>3, <1>4

\* The next step of the parser reads one setting, however it is spelled.
LEMMA SettingRead ==
  ASSUME NEW settings \in Seq(Settings), argv = Spelled(settings),
         NEW m \in 0 .. Len(settings) - 1, NEW e, e = settings[m + 1],
         current = Len(Spelled(SubSeq(settings, 1, m))) + 1, letter = 1, ParserNext
  PROVE  ParseOption(e.option, e.text, current + Len(Spell(e)), 1)
<1> DEFINE p == Len(Spelled(SubSeq(settings, 1, m)))
           n == Len(Spell(e))
<1>1. /\ e \in Settings /\ p \in Nat /\ Len(argv) \in Nat /\ p + n <= Len(argv)
      /\ \A k \in 1 .. n : argv[p + k] = Spell(e)[k]
  <2> HIDE DEF p, n
  <2>1. p = Len(Spelled(SubSeq(settings, 1, m))) /\ n = Len(Spell(e))
    BY DEF p, n
  <2>2. /\ e \in Settings /\ p \in Nat /\ Len(Spelled(settings)) \in Nat
        /\ p + Len(Spell(e)) <= Len(Spelled(settings))
        /\ \A k \in 1 .. Len(Spell(e)) : Spelled(settings)[p + k] = Spell(e)[k]
    BY <2>1, SpelledAt
  <2>3. argv = Spelled(settings)
    OBVIOUS
  <2> QED BY ONLY <2>1, <2>2, <2>3
<1>2. n \in {1, 2} /\ (e.style \in {"next", "short"} => n = 2)
  BY <1>1, SpellFacts
<1>3. /\ e.option \in Options /\ e.text \in Texts /\ e.text # NoText
      /\ e.style \in {"equals", "next", "short", "rest", "flag"}
      /\ e.style \in {"short", "rest"} => \E l \in DOMAIN ShortName : ShortName[l] = e.option
      /\ e.style \in {"next", "short", "rest"} => ~HasImplicit(e.option)
      /\ e.style = "flag" => HasImplicit(e.option) /\ e.text = ImplicitText
  BY <1>1 DEF Settings, Texts, NoText
<1>4. current = p + 1
  OBVIOUS
<1> HIDE DEF p
<1>5. current <= Len(argv) /\ Arg = Spell(e)[1]
  BY <1>1, <1>2, <1>4 DEF Arg
<1>6. n = 2 => current # Len(argv) /\ argv[current + 1] = Spell(e)[2]
  <2>1. n = 2 => p + 2 <= Len(argv) /\ current + 1 = p + 2 /\ argv[p + 2] = Spell(e)[2]
    BY <1>1, <1>4
  <2> QED BY <1>1, <1>4, <2>1
<1>7. LongOption \/ GroupLetter \/ Arg.kind \notin {"long", "group"}
  BY <1>5 DEF ParserNext, PlainArgument, MalformedArgument, EndOfOptions, ParseDefaults, ArgIs
<1>8. Known(e.option) /\ OptionOf(e.option) = e.option
  BY <1>3 DEF Known, OptionOf
<1>9. ASSUME ~HasImplicit(e.option), n = 2, Spell(e)[2].text = e.text, CheckedParseArg(e.option)
      PROVE  ParseOption(e.option, e.text, current + n, 1)
  BY <1>6, <1>9 DEF CheckedParseArg
<1> DEFINE l == CHOOSE l \in DOMAIN ShortName : ShortName[l] = e.option
<1>10. e.style \in {"short", "rest"} => Known(l) /\ OptionOf(l) = e.option
  <2>1. ASSUME e.style \in {"short", "rest"} PROVE l \in DOMAIN ShortName /\ ShortName[l] = e.option
    BY <1>3, <2>1
  <2> HIDE DEF l
  <2>2. \A x \in DOMAIN ShortName : x \notin Options
    BY DEF ShortName, Options, SizeOptions, DoubleOptions, TextOptions, ListOptions,
       TextListOptions, SizeListOptions, FlagOptions
  <2> QED BY <2>1, <2>2 DEF Known, OptionOf
<1> HIDE DEF n
<1>11. CASE e.style = "equals"
  <2>1. Spell(e) = <<Long(e.option, e.text)>>
    BY <1>11 DEF Spell
  <2>2. Arg.kind = "long" /\ Arg.name = e.option /\ Arg.value = e.text /\ n = 1
    BY <1>5, <2>1, ElementParts DEF n
  <2>3. LongOption
    BY <1>7, <2>2 DEF GroupLetter, ArgIs
  <2> QED BY <1>3, <1>8, <2>2, <2>3 DEF LongOption, n
<1>12. CASE e.style = "next"
  <2>1. Spell(e) = <<Long(e.option, NoText), Plain(e.text)>>
    BY <1>12 DEF Spell
  <2>2. Spell(e)[1] = Long(e.option, NoText) /\ Spell(e)[2] = Plain(e.text) /\ n = 2
    BY <2>1 DEF n
  <2>5. /\ Arg.kind = "long" /\ Arg.name = e.option /\ Arg.value = NoText
        /\ Spell(e)[2].text = e.text
    BY <1>5, <2>2, ElementParts
  <2>3. LongOption
    BY <1>7, <2>5 DEF GroupLetter, ArgIs
  <2>4. CheckedParseArg(e.option)
    BY <1>8, <2>5, <2>3 DEF LongOption
  <2> QED BY <1>3, <1>9, <1>12, <2>2, <2>4, <2>5 DEF n
<1>13. CASE e.style = "short"
  <2>1. Spell(e) = <<Group(<<l>>, <<>>), Plain(e.text)>>
    BY <1>13 DEF Spell
  <2> HIDE DEF l
  <2>6. Spell(e)[1] = Group(<<l>>, <<>>) /\ Spell(e)[2] = Plain(e.text) /\ n = 2
    BY <2>1 DEF n
  <2>2. /\ Arg.kind = "group" /\ Arg.letters = <<l>> /\ n = 2
        /\ Spell(e)[2].text = e.text
    BY <1>5, <2>6, ElementParts
  <2>3. GroupLetter
    BY <1>7, <2>2 DEF LongOption, ArgIs
  <2>4. Arg.letters[letter] = l /\ letter = Len(Arg.letters)
    BY <2>2
  <2>5. CheckedParseArg(e.option)
    BY <1>10, <1>13, <2>3, <2>4 DEF GroupLetter
  <2> QED BY <1>3, <1>9, <1>13, <2>2, <2>5 DEF n
<1>14. CASE e.style = "rest"
  <2>1. Spell(e) = <<Group(<<l, "x">>, <<e.text>>)>>
    BY <1>14 DEF Spell
  <2> HIDE DEF l
  <2>2. Arg.kind = "group" /\ Arg.letters = <<l, "x">> /\ Arg.rest = <<e.text>> /\ n = 1
    <3>1. Spell(e)[1] = Group(<<l, "x">>, <<e.text>>) /\ n = 1
      BY <2>1 DEF n
    <3> QED BY <1>5, <3>1, ElementParts
  <2>3. GroupLetter
    BY <1>7, <2>2 DEF LongOption, ArgIs
  <2>4. Arg.letters[letter] = l /\ letter # Len(Arg.letters) /\ Arg.rest[letter] = e.text
    BY <2>2
  <2>5. ParseOption(e.option, e.text, current + 1, 1)
    BY <1>3, <1>10, <1>14, <2>3, <2>4 DEF GroupLetter
  <2> QED BY <2>2, <2>5 DEF n
<1>15. CASE e.style = "flag"
  <2>1. Spell(e) = <<Long(e.option, NoText)>>
    BY <1>15 DEF Spell
  <2>2. Arg.kind = "long" /\ Arg.name = e.option /\ Arg.value = NoText /\ n = 1
    BY <1>5, <2>1, ElementParts DEF n
  <2>3. LongOption
    BY <1>7, <2>2 DEF GroupLetter, ArgIs
  <2>4. CheckedParseArg(e.option)
    BY <1>8, <2>2, <2>3 DEF LongOption
  <2> QED BY <1>3, <1>15, <2>2, <2>4 DEF CheckedParseArg, n
<1> QED BY <1>3, <1>11, <1>12, <1>13, <1>14, <1>15

\* Some of the settings have been read, and nothing else.
ReadSoFar(settings, m) ==
  /\ current = Len(Spelled(SubSeq(settings, 1, m))) + 1 /\ letter = 1
  /\ stored = Taken(SubSeq(settings, 1, m)) /\ unmatched = <<>>

SpellingInv ==
  /\ stage \notin {"args", "threw"} => current > Len(argv)
  /\ \A settings \in Spellings :
       argv = Spelled(settings) /\ stage = "args" =>
         \E m \in 0 .. Len(settings) : ReadSoFar(settings, m)

LEMMA InitSpelling == StartupInit => SpellingInv /\ SpellingIrrelevant
<1> SUFFICES ASSUME StartupInit PROVE SpellingInv /\ SpellingIrrelevant
  OBVIOUS
<1>1. current = 1 /\ letter = 1 /\ stored = [o \in {} |-> <<>>] /\ unmatched = <<>> /\ stage = "args"
  BY DEF StartupInit, ConfigInit, ParserInit
<1>2. ASSUME NEW settings \in Spellings PROVE 0 \in 0 .. Len(settings) /\ ReadSoFar(settings, 0)
  <2>1. settings \in Seq(Settings)
    BY CommandLineAssumption
  <2>2. SubSeq(settings, 1, 0) = <<>> /\ Len(settings) \in Nat
    BY <2>1, PrefixFacts
  <2>3. Spelled(<<>>) = <<>>
    BY DEF Spelled, Lists!FlattenSeq
  <2>4. Taken(<<>>) = [o \in {} |-> <<>>]
    <3>1. OptionsIn(<<>>) = {}
      BY DEF OptionsIn
    <3> QED BY <3>1 DEF Taken
  <2>5. 0 \in 0 .. Len(settings) /\ current = Len(Spelled(SubSeq(settings, 1, 0))) + 1
    <3>1. Len(Spelled(SubSeq(settings, 1, 0))) = 0
      <4>1. Spelled(SubSeq(settings, 1, 0)) = <<>>
        BY <2>2, <2>3, Zenon
      <4> QED BY <4>1
    <3> QED BY <1>1, <2>2, <3>1
  <2>6. stored = Taken(SubSeq(settings, 1, 0))
    BY <1>1, <2>2, <2>4
  <2> QED BY <1>1, <2>5, <2>6 DEF ReadSoFar
<1> QED BY <1>1, <1>2 DEF SpellingInv, SpellingIrrelevant

LEMMA CursorFacts == ASSUME ArgsInv PROVE current \in Nat /\ Len(argv) \in Nat
BY DEF ArgsInv

LEMMA StepSpelling ==
  ArgsInv /\ SpellingInv /\ SpellingIrrelevant /\ [StartupNext]_allVars
    => (SpellingInv /\ SpellingIrrelevant)'
<1> SUFFICES ASSUME ArgsInv, SpellingInv, SpellingIrrelevant, [StartupNext]_allVars
             PROVE  SpellingInv' /\ SpellingIrrelevant'
  OBVIOUS
<1>1. CASE UNCHANGED allVars
  BY <1>1 DEF SpellingInv, SpellingIrrelevant, ReadSoFar, allVars, parserVars
<1>2. CASE UNCHANGED parserVars /\ stage \notin {"args", "threw"} /\ stage' \notin {"args", "parsed"}
  <2>1. current > Len(argv) /\ ~(current <= Len(argv))
    BY <1>2, CursorFacts DEF SpellingInv
  <2>2. UNCHANGED <<argv, current>> /\ stage' \notin {"args", "parsed"}
    BY <1>2 DEF parserVars
  <2>3. SpellingInv'
    BY <2>1, <2>2 DEF SpellingInv
  <2>4. SpellingIrrelevant'
    BY <2>1, <2>2 DEF SpellingIrrelevant
  <2> QED BY <2>3, <2>4
<1>3. CASE ParserNext
  <2>1. /\ stage = "args" /\ argv' = argv /\ stage' \in {"args", "parsed", "threw"}
        /\ stage' = "parsed" => ParseDefaults /\ current' > Len(argv')
    BY <1>3 DEF ParserNext, LongOption, GroupLetter, PlainArgument, MalformedArgument,
       EndOfOptions, ParseDefaults, ArgIs, Throw, CheckedParseArg, ParseOption, parserVars
  <2>2. ASSUME NEW settings \in Spellings, argv = Spelled(settings)
        PROVE  /\ stage' = "args" => \E m \in 0 .. Len(settings) : ReadSoFar(settings, m)'
               /\ stage' = "parsed" => stored' = Meaning(settings) /\ unmatched' = <<>>
               /\ stage' = "threw" =>
                    \E i \in DOMAIN settings : ~Reads(settings[i].option, settings[i].text)
    <3>1. settings \in Seq(Settings)
      BY CommandLineAssumption
    <3>2. PICK m \in 0 .. Len(settings) : ReadSoFar(settings, m)
      BY <2>1, <2>2 DEF SpellingInv
    <3>3. CASE m = Len(settings)
      <4>1. SubSeq(settings, 1, m) = settings
        BY <3>1, <3>3, PrefixFacts
      <4>2. current = Len(argv) + 1 /\ stored = Taken(settings) /\ unmatched = <<>>
        BY <2>2, <3>2, <4>1 DEF ReadSoFar
      <4>3. Len(argv) \in Nat
        <5>1. CASE settings = <<>>
          BY <2>2, <5>1 DEF Spelled, Lists!FlattenSeq
        <5>2. CASE settings # <<>>
          <6>1. Len(settings) - 1 \in 0 .. Len(settings) - 1
            BY <3>1, <5>2
          <6> QED BY <2>2, <3>1, <6>1, SpelledAt
        <5> QED BY <5>1, <5>2
      <4>4. ParseDefaults
        BY <1>3, <4>2, <4>3 DEF ParserNext, LongOption, GroupLetter, PlainArgument,
           MalformedArgument, EndOfOptions, ArgIs
      <4>5. /\ stage' = "parsed" /\ unmatched' = <<>>
            /\ stored' = [o \in DOMAIN stored \cup DOMAIN Default |->
                            IF o \in DOMAIN stored THEN stored[o] ELSE Value(o, <<>>, Default[o])]
        BY <4>2, <4>4 DEF ParseDefaults
      <4>6. DOMAIN stored = OptionsIn(settings)
            /\ \A o \in OptionsIn(settings) : stored[o] = Meaning(settings)[o]
        BY <4>2 DEF Taken
      <4>7. stored' = Meaning(settings)
        BY <4>5, <4>6 DEF Meaning
      <4> QED BY <4>5, <4>7
    <3>4. CASE m # Len(settings)
      <4> PICK e : e = settings[m + 1]
        OBVIOUS
      <4>1. m \in 0 .. Len(settings) - 1 /\ m + 1 \in DOMAIN settings /\ m + 1 \in 0 .. Len(settings)
        BY <3>1, <3>4
      <4>2. ParseOption(e.option, e.text, current + Len(Spell(e)), 1)
        BY <1>3, <2>2, <3>1, <3>2, <4>1, SettingRead DEF ReadSoFar
      <4>3. CASE ~Reads(e.option, e.text)
        BY <4>1, <4>2, <4>3 DEF ParseOption, Throw
      <4>4. CASE Reads(e.option, e.text)
        <5> DEFINE s == SubSeq(settings, 1, m)
                   t == SubSeq(settings, 1, m + 1)
        <5>1. /\ stored' = Put(e.option, Value(e.option, Old(e.option), e.text))
              /\ current' = current + Len(Spell(e)) /\ letter' = 1
              /\ unmatched' = unmatched /\ stage' = stage
          BY <4>2, <4>4 DEF ParseOption
        <5>2. s \in Seq(Settings) /\ e \in Settings /\ t = Append(s, e)
          BY <3>1, <4>1, PrefixFacts
        <5>3. stored' = Taken(t)
          BY <3>2, <5>1, <5>2, TakenStep DEF ReadSoFar
        <5>4. current' = Len(Spelled(t)) + 1
          <6>1. /\ Len(Spelled(s)) \in Nat /\ Len(Spelled(t)) = Len(Spelled(s)) + Len(Spell(e))
                /\ Len(Spell(e)) \in Nat
            <7>1. Len(Spelled(s)) \in Nat /\ Len(Spelled(t)) = Len(Spelled(s)) + Len(Spell(e))
              <8> PICK q : q = Len(Spelled(s))
                OBVIOUS
              <8>1. q \in Nat /\ Len(Spelled(t)) = q + Len(Spell(e))
                BY <3>1, <4>1, SpelledAt
              <8> QED BY <8>1
            <7>2. Len(Spell(e)) \in Nat
              BY <5>2, SpellFacts
            <7> QED BY <7>1, <7>2
          <6>2. current = Len(Spelled(s)) + 1
            BY <3>2 DEF ReadSoFar
          <6> QED BY <5>1, <6>1, <6>2
        <5>5. unmatched' = <<>> /\ stage' = "args"
          BY <2>1, <3>2, <5>1 DEF ReadSoFar
        <5>6. ReadSoFar(settings, m + 1)'
          BY <5>1, <5>3, <5>4, <5>5 DEF ReadSoFar
        <5> QED BY <4>1, <5>5, <5>6
      <4> QED BY <4>3, <4>4
    <3> QED BY <3>3, <3>4
  <2>3. SpellingInv'
    BY <2>1, <2>2 DEF SpellingInv
  <2> QED BY <2>1, <2>2, <2>3 DEF SpellingIrrelevant
<1> QED BY <1>1, <1>2, <1>3, ParserRests DEF StartupNext

\* However the settings of a command line are spelled, the options mean the same,
\* and parse() throws only if one of the texts cannot be read
\* (cxxopts.hpp:2378-2428, 2503-2671).
THEOREM SpellingsMeanTheSame == StartupSpec => []SpellingIrrelevant
<1>1. StartupInv => ArgsInv
  BY DEF StartupInv
<1> QED BY <1>1, StartupInvariance, InitSpelling, StepSpelling, PTL DEF StartupSpec

=============================================================================
