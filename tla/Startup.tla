------------------------------- MODULE Startup -------------------------------
(***************************************************************************)
(* main() before and after the threads (main.cpp): the configuration, the  *)
(* memory of the tiers (PageTable.cpp:344-416, Utils.hpp), the table that  *)
(* maps pages to it (PageTable.cpp:48-112), the pages each client may ask  *)
(* for (Server.cpp, Generator.cpp), the advice to use huge pages and the   *)
(* end.  What the threads do with the pages in between is the subject of   *)
(* PageTable, what they tell each other that of Server.                    *)
(*                                                                         *)
(* Memory is counted in pages.  A page count whose bytes a size_t cannot   *)
(* hold is beyond TableLimit, the entries the heap has room for.           *)
(***************************************************************************)
EXTENDS Configuration, FiniteSets, FiniteSetsExt

CONSTANTS
  Bases,      \* the addresses mmap() may return
  HugePage,   \* HUGE_PAGE_SIZE
  TableLimit  \* entries table_ can have before the heap is exhausted

ASSUME StartupAssumption ==
  /\ Bases \subseteq Nat \ {0}
  /\ HugePage \in Nat \ {0}
  /\ TableLimit \in Nat /\ TableLimit <= SizeMax

VARIABLES
  tier,       \* the tier whose turn it is
  load,       \* local_page_load_, remote_page_load_, pmem_page_load_
  region,     \* local_base_, remote_base_, pmem_base_; 0 is nullptr
  mapped, bound, written,  \* addresses that are mapped, bound to their node, filled
  table,      \* the entries of table_
  placed,     \* the offset in each tier, and its LayerInfo.count
  basePageId, \* base_page_id_
  filledFor,  \* clients whose pages are in the table
  reach,      \* the page ids each started client's generator can draw
  last,       \* the page the manager looked up last, and for whom
  advised     \* addresses advised to be huge pages

memoryVars == <<tier, load, region, mapped, bound, written>>
layoutVars == <<table, placed, basePageId, filledFor>>
serveVars == <<reach, last, advised>>
allVars == <<parserVars, stage, configVars, memoryVars, layoutVars, serveVars>>

LayerOrder == <<"local", "remote", "pmem">>
Tiers == IF numTiers = 2 THEN {"local", "pmem"} ELSE Layers
None == [client |-> 0, page |-> 0]

StartupInit ==
  /\ ConfigInit
  /\ tier = 1 /\ load = [l \in Layers |-> 0] /\ region = [l \in Layers |-> 0]
  /\ mapped = {} /\ bound = {} /\ written = {}
  /\ table = <<>> /\ placed = [l \in Layers |-> 0]
  /\ basePageId = <<>> /\ filledFor = 0
  /\ reach = <<>> /\ last = None /\ advised = {}

PagesIn(c, l) ==
  CASE l = "local" -> c.sizes[1]
    [] l = "pmem" -> c.sizes[numTiers]
    [] OTHER -> IF numTiers = 3 THEN c.sizes[2] ELSE 0
PagesOf(c) == PagesIn(c, "local") + PagesIn(c, "remote") + PagesIn(c, "pmem")
AllPages == [i \in DOMAIN clients |-> PagesOf(clients[i])]
AllPagesIn(l) == [i \in DOMAIN clients |-> PagesIn(clients[i], l)]

configFrame == <<parserVars, configVars>>
Fail(newStage) ==
  stage' = newStage /\ UNCHANGED <<configFrame, memoryVars, layoutVars, serveVars>>
ExitFailure ==
  /\ stage' = "exit" /\ exitCode' = 1
  /\ UNCHANGED <<parserVars, numTiers, capacity, useRing, policy, clients,
                 memoryVars, layoutVars, serveVars>>

\* Mutant: the base of a client counts its own pages.
ConstructShifted ==
  /\ stage = "construct"
  /\ basePageId' = [i \in DOMAIN clients |-> WrappedSum(AllPages, i)]
  /\ load' = [l \in Layers |-> WrappedSum(AllPagesIn(l), Len(clients))]
  /\ stage' = "allocate"
  /\ UNCHANGED <<configFrame, tier, region, mapped, bound, written,
                 table, placed, filledFor, serveVars>>

\* The constructors of Server and PageTable.
Construct ==
  /\ stage = "construct"
  /\ basePageId' = [i \in DOMAIN clients |-> WrappedSum(AllPages, i - 1)]
  /\ load' = [l \in Layers |-> WrappedSum(AllPagesIn(l), Len(clients))]
  /\ stage' = "allocate"
  /\ UNCHANGED <<configFrame, tier, region, mapped, bound, written,
                 table, placed, filledFor, serveVars>>

\* The tiers take turns in allocation and in filling.
NextTier(following) ==
  IF tier = 3 THEN tier' = 1 /\ stage' = following
  ELSE tier' = (IF numTiers = 2 THEN 3 ELSE tier + 1) /\ UNCHANGED stage

Addresses(l) == region[l] .. region[l] + load[l] - 1

\* _allocateMemory(): mmap() refuses an empty region, and can refuse any other;
\* mbind() is told of one page.  allocate_pages() ends the program then, the
\* other returns a null pointer that nobody tests.
AllocateTier ==
  /\ stage = "allocate"
  /\ LET l == LayerOrder[tier]
         unbound == numTiers = 2 /\ l = "local"
     IN  \/ /\ load[l] > 0
            /\ \E b \in Bases :
                 /\ (b .. b + load[l] - 1) \cap mapped = {}
                 /\ region' = [region EXCEPT ![l] = b]
                 /\ mapped' = mapped \cup (b .. b + load[l] - 1)
                 /\ bound' = IF unbound THEN bound ELSE bound \cup {b}
            /\ NextTier("content")
            /\ UNCHANGED <<configFrame, load, written, layoutVars, serveVars>>
         \/ unbound /\ ExitFailure
         \/ /\ ~unbound
            /\ NextTier("content")
            /\ UNCHANGED <<configFrame, load, region, mapped, bound, written,
                           layoutVars, serveVars>>

\* Mutant: the content of the PMEM tier is as long as that of the local tier.
ContentOfLocal ==
  /\ stage = "content"
  /\ LET l == LayerOrder[tier]
     IN  IF load[l] > 0 /\ region[l] = 0 THEN Fail("crashed")
         ELSE /\ written' = written \cup (region[l] .. region[l] + load["local"] - 1)
              /\ NextTier("fill")
              /\ UNCHANGED <<configFrame, load, region, mapped, bound, layoutVars, serveVars>>

\* _generateRandomContent(): a write through a null pointer ends the program.
GenerateContent ==
  /\ stage = "content"
  /\ LET l == LayerOrder[tier]
     IN  IF load[l] > 0 /\ region[l] = 0 THEN Fail("crashed")
         ELSE /\ written' = written \cup Addresses(l)
              /\ NextTier("fill")
              /\ UNCHANGED <<configFrame, load, region, mapped, bound, layoutVars, serveVars>>

Entries(c, l) ==
  [i \in 1 .. PagesIn(c, l) |->
     [layer |-> l, addr |-> region[l] + placed[l] + i - 1]]

\* initPageTable(), a client per step: its pages of one tier after the other.  A
\* table that is too large ends in bad_alloc, or before in the assertion that
\* the ring has room.
FillClient ==
  /\ stage = "fill" /\ filledFor < Len(clients)
  /\ LET c == clients[filledFor + 1]
     IN  IF Len(table) + PagesOf(c) > TableLimit
         THEN Fail("threw") \/ (useRing /\ Fail("asserted"))
         ELSE IF useRing /\ placed["local"] + PagesIn(c, "local") > load["local"]
         THEN Fail("asserted")
         ELSE /\ table' = table \o Entries(c, "local") \o Entries(c, "remote")
                                \o Entries(c, "pmem")
              /\ placed' = [l \in Layers |-> placed[l] + PagesIn(c, l)]
              /\ filledFor' = filledFor + 1
              /\ UNCHANGED <<configFrame, stage, memoryVars, basePageId, serveVars>>

HotCount(n) == (n + 4) \div 5

\* Mutant: the hot pages are drawn from 1 .. n.
GeneratorsFromOne(c) ==
  LET n == PagesOf(c)
  IN  IF n = 0 THEN {IF c.pattern = "uniform" THEN 0 .. SizeMax ELSE {0}}
      ELSE IF c.pattern = "hot" THEN kSubset(HotCount(n), 1 .. n)
      ELSE {0 .. n - 1}

\* The page ids a MemoryAccessGenerator can draw: for a client that has no
\* pages, the whole range of size_t or what an empty map or distribution gives.
Generators(c) ==
  LET n == PagesOf(c)
  IN  IF n = 0 THEN {IF c.pattern = "uniform" THEN 0 .. SizeMax ELSE {0}}
      ELSE IF c.pattern = "hot" THEN kSubset(HotCount(n), 0 .. n - 1)
      ELSE {0 .. n - 1}

\* main() makes the clients once the table is filled.
StartClient ==
  /\ stage = "fill" /\ filledFor = Len(clients)
  /\ \E g \in Generators(clients[Len(reach) + 1]) : reach' = Append(reach, g)
  /\ stage' = IF Len(reach) + 1 = Len(clients) THEN "serve" ELSE "fill"
  /\ UNCHANGED <<configFrame, memoryVars, layoutVars, last, advised>>

\* handleClientMessage() looks up a page for a client.  One lookup changes
\* nothing for the next: one is enough.
LookUp ==
  /\ stage = "serve" /\ last = None
  /\ \E i \in DOMAIN clients : \E pid \in reach[i] :
       last' = [client |-> i, page |-> (basePageId[i] + pid) % SizeMod]
  /\ UNCHANGED <<configFrame, stage, memoryVars, layoutVars, reach, advised>>

RoundDown(a) == (a \div HugePage) * HugePage
RoundUp(n) == RoundDown(n + HugePage - 1)

\* Mutant: the size is not enlarged by what the address is rounded down by.
AdviceUnshifted(l) ==
  RoundDown(region[l]) .. RoundDown(region[l]) + RoundUp(load[l]) - 1

Advice(l) ==
  LET start == RoundDown(region[l])
  IN  start .. start + RoundUp(load[l] + region[l] - start) - 1

\* promoteToHugePage(), which the scanner calls after each round.
Promote ==
  /\ stage = "serve"
  /\ advised' = UNION {Advice(l) : l \in {t \in Tiers : region[t] # 0 /\ load[t] > 0}}
  /\ UNCHANGED <<configFrame, stage, memoryVars, layoutVars, reach, last>>

\* Mutant: the PMEM region is left mapped.
FinishKeepingPmem ==
  /\ stage = "serve"
  /\ mapped' = mapped \ UNION {Addresses(l) : l \in {t \in Layers \ {"pmem"} : region[t] # 0}}
  /\ stage' = "exit"
  /\ UNCHANGED <<configFrame, tier, load, region, bound, written, layoutVars, serveVars>>

\* The threads have ended; the destructor of PageTable unmaps the regions.
Finish ==
  /\ stage = "serve"
  /\ mapped' = mapped \ UNION {Addresses(l) : l \in {t \in Layers : region[t] # 0}}
  /\ stage' = "exit"
  /\ UNCHANGED <<configFrame, tier, load, region, bound, written, layoutVars, serveVars>>

StartupNext ==
  \/ ConfigNext /\ UNCHANGED <<memoryVars, layoutVars, serveVars>>
  \/ Construct \/ AllocateTier \/ GenerateContent \/ FillClient \/ StartClient
  \/ LookUp \/ Promote \/ Finish

StartupSpec == StartupInit /\ [][StartupNext]_allVars

-----------------------------------------------------------------------------
(* Properties                                                              *)

Entry == [layer : Layers, addr : Nat]

\* The type of the state of main() (ConfigParser.hpp:45-59, PageTable.hpp:71-85).
StartupTypeOK ==
  /\ current \in 1 .. Len(argv) + 1 /\ letter \in Nat
  /\ DOMAIN stored \subseteq Options /\ count \in [Options -> Nat]
  /\ stage \in {"args", "parsed", "server", "clients", "validate", "construct",
                "allocate", "content", "fill", "serve", "exit", "threw",
                "asserted", "crashed"}
  /\ numTiers \in {0, 2, 3} /\ capacity \in [Layers -> 0 .. SizeMax]
  /\ useRing \in BOOLEAN /\ exitCode \in {0, 1, 134}
  /\ \A i \in DOMAIN clients : /\ clients[i].pattern \in Patterns
                               /\ clients[i].sizes \in [1 .. numTiers -> 0 .. SizeMax]
  /\ tier \in 1 .. 3 /\ load \in [Layers -> 0 .. SizeMax] /\ region \in [Layers -> Nat]
  /\ placed \in [Layers -> 0 .. TableLimit] /\ Len(table) <= TableLimit
  /\ \A i \in DOMAIN table : table[i] \in Entry
  /\ \A i \in DOMAIN basePageId : basePageId[i] \in 0 .. SizeMax

PagesWith(l) == {i \in DOMAIN table : table[i].layer = l}

\* Whatever sums have wrapped before, a program that comes to serve requests has
\* no tier beyond its capacity, no PMEM page with two tiers, and a ring with
\* room for just the local pages: what PageTable assumes (ConfigParser.cpp:
\* 186-208, PageTable.cpp:3-29).
ServedFits ==
  stage = "serve" =>
    /\ \A l \in Layers : /\ Cardinality(PagesWith(l)) = load[l]
                         /\ placed[l] = load[l] /\ load[l] <= capacity[l]
    /\ numTiers = 2 => load["pmem"] = 0 /\ capacity["remote"] = 0

\* The pages of a client, counted from the base that the server computes, are
\* those the page table was filled with for it: as many of each tier as it was
\* given (Server.cpp:10-25, PageTable.cpp:56-109).
OwnPages(i) == {basePageId[i] + k : k \in 0 .. PagesOf(clients[i]) - 1}
RangesMatchTable ==
  stage = "serve" =>
    \A i \in DOMAIN clients : \A l \in Layers :
      Cardinality({p \in OwnPages(i) : p < Len(table) /\ table[p + 1].layer = l})
        = PagesIn(clients[i], l)

\* A client that has pages reaches only its own (Generator.cpp:3-60,
\* Server.cpp:57-58); one that has none reaches those of others.
OwnPagesOnly ==
  last # None /\ PagesOf(clients[last.client]) > 0 => last.page \in OwnPages(last.client)

\* Every page of the table has an address of its own, mapped and filled, and
\* there is no other memory: an allocation that failed does not get this far
\* (PageTable.cpp:344-416).
TableCoversMemory ==
  stage = "serve" =>
    LET addresses == {table[i].addr : i \in DOMAIN table}
    IN  /\ Cardinality(addresses) = Len(table)
        /\ addresses = mapped /\ written = mapped

\* The advice reaches every huge page that a tier lies in, and no other
\* (PageTable.cpp:317-322).
AdviceCoversTiers ==
  advised # {} /\ stage = "serve" =>
    advised = UNION {RoundDown(a) .. RoundDown(a) + HugePage - 1 : a \in mapped}

\* A program that ends well has unmapped all it mapped (PageTable.cpp:31-46).
NothingLeftMapped == stage = "exit" /\ exitCode = 0 => mapped = {}

\* "Allocate and bind memory pages to specific NUMA node" (Utils.hpp:68): with
\* three tiers every page starts on the node of its tier.
PagesBound == stage = "fill" /\ numTiers = 3 => mapped \subseteq bound

=============================================================================
