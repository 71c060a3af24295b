---------------------------- MODULE Configuration ----------------------------
(***************************************************************************)
(* ConfigParser::parse(): what the program takes from the options, in the  *)
(* order it looks at them, and what it refuses (ConfigParser.cpp:46-208).  *)
(* The stage is "exit" when main() returns, "threw" when an exception ends *)
(* the program.                                                            *)
(***************************************************************************)
EXTENDS CommandLine

VARIABLES
  numTiers, capacity,  \* server_memory_config_: the capacities by layer
  useRing,             \* use_cache_ring_
  policy,              \* policy_config_
  clients,             \* client_configs_
  exitCode

configVars == <<numTiers, capacity, useRing, policy, clients, exitCode>>

Layers == {"local", "remote", "pmem"}
Patterns == {"uniform", "hot", "zipfian"}

ConfigInit ==
  /\ ParserInit
  /\ numTiers = 0 /\ capacity = [l \in Layers |-> 0] /\ useRing = FALSE
  /\ policy = <<>> /\ clients = <<>> /\ exitCode = 0

Given(o) == o \in DOMAIN stored

Stop(newStage, code) ==
  /\ stage' = newStage /\ exitCode' = code
  /\ UNCHANGED <<parserVars, numTiers, capacity, useRing, policy, clients>>
Refuse == Stop("exit", 1)

\* as<>() of an option that has no value.
Uncaught == Stop("threw", 134)

PolicyOptions(type) ==
  CASE type = Word("lru") -> {"hot-threshold", "cold-threshold"}
    [] type = Word("frequency") -> {"hot-count", "cold-count"}
    [] type = Word("hybrid") -> {"hot-threshold", "cold-threshold", "hot-count",
                                 "cold-count", "recency-weight", "frequency-weight"}

\* The help text, then _parseBasicConfig().
ParseBasicConfig ==
  /\ stage = "parsed"
  /\ IF count["help"] > 0 THEN Stop("exit", 0)
     ELSE IF ~Given("running-time") THEN Uncaught
     ELSE IF stored["num-tiers"] \notin 2 .. 3
             \/ stored["policy-type"] \notin {Word("lru"), Word("frequency"), Word("hybrid")}
     THEN Refuse
     ELSE /\ numTiers' = stored["num-tiers"]
          /\ useRing' = stored["cache-ring"]
          /\ policy' = [o \in PolicyOptions(stored["policy-type"]) |-> stored[o]]
          /\ stage' = "server"
          /\ UNCHANGED <<parserVars, capacity, clients, exitCode>>

\* Mutant: with two tiers the sizes are taken as with three.
ServerConfigThree ==
  /\ stage = "server"
  /\ IF ~Given("mem-sizes") THEN Uncaught
     ELSE LET sizes == stored["mem-sizes"]
          IN  IF Len(sizes) # numTiers THEN Refuse
              ELSE /\ capacity' = [local |-> sizes[1], remote |-> sizes[2],
                                   pmem |-> sizes[numTiers]]
                   /\ stage' = "clients"
                   /\ UNCHANGED <<parserVars, numTiers, useRing, policy, clients, exitCode>>

\* _parseServerConfig()
ParseServerConfig ==
  /\ stage = "server"
  /\ IF ~Given("mem-sizes") THEN Uncaught
     ELSE LET sizes == stored["mem-sizes"]
          IN  IF Len(sizes) # numTiers THEN Refuse
              ELSE /\ capacity' = [local |-> sizes[1],
                                   remote |-> IF numTiers = 3 THEN sizes[2] ELSE 0,
                                   pmem |-> sizes[numTiers]]
                   /\ stage' = "clients"
                   /\ UNCHANGED <<parserVars, numTiers, useRing, policy, clients, exitCode>>

\* _parseClientConfigs(), a client per step.
ParseClientConfig ==
  /\ stage = "clients"
  /\ IF ~Given("patterns") \/ ~Given("client-tier-sizes") THEN Uncaught
     ELSE LET patterns == stored["patterns"]
              texts == stored["client-tier-sizes"]
              sizes == Items(texts[Len(clients) + 1], "")
              pattern == patterns[Len(clients) + 1]
          IN  IF Len(patterns) # Len(texts) THEN Refuse
              ELSE IF Len(clients) = Len(patterns)
              THEN /\ stage' = "validate"
                   /\ UNCHANGED <<parserVars, configVars>>
              ELSE IF Len(sizes) # numTiers THEN Refuse
              ELSE IF \E i \in DOMAIN sizes : ~StoulReads(sizes[i]) THEN Uncaught
              ELSE IF pattern \notin {<<p>> : p \in Patterns} THEN Refuse
              ELSE /\ clients' = Append(clients,
                        [pattern |-> pattern[1],
                         sizes |-> [i \in DOMAIN sizes |-> Stoul(sizes[i])]])
                   /\ UNCHANGED <<parserVars, numTiers, capacity, useRing, policy,
                                  exitCode, stage>>

\* The sum of the first n numbers, as size_t adds them up.
WrappedSum(numbers, n) ==
  LET sum[i \in 0 .. n] == IF i = 0 THEN 0 ELSE (sum[i - 1] + numbers[i]) % SizeMod
  IN  sum[n]

\* tier_totals, and the limit each is compared with: the i-th of local, remote
\* and PMEM, also with two tiers.
TierTotal(i) == WrappedSum([c \in DOMAIN clients |-> clients[c].sizes[i]], Len(clients))
TierLimit(i) == capacity[<<"local", "remote", "pmem">>[i]]

\* _validateMemoryConfiguration()
Validate ==
  /\ stage = "validate"
  /\ IF \E i \in 1 .. numTiers : TierTotal(i) > TierLimit(i) THEN Refuse
     ELSE stage' = "construct" /\ UNCHANGED <<parserVars, configVars>>

ConfigNext ==
  \/ ParserNext /\ UNCHANGED configVars
  \/ ParseBasicConfig \/ ParseServerConfig \/ ParseClientConfig \/ Validate

-----------------------------------------------------------------------------
(* Properties                                                              *)

\* "Memory allocation exceeds PMEM limit" (ConfigParser.cpp:202-204): a
\* configuration is refused at the end only if the clients want more of some
\* tier than --mem-sizes gives it.
RefusalHasReason ==
  stage = "exit" /\ exitCode = 1 /\ Given("patterns") /\ clients # <<>>
      /\ Len(clients) = Len(stored["patterns"]) =>
    \E i \in 1 .. numTiers : TierTotal(i) > stored["mem-sizes"][i]

=============================================================================
