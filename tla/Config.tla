--------------------------------- MODULE Config ---------------------------------
(***************************************************************************)
(* How the configuration comes together (src/config.rs) before anything of *)
(* it is used: the file or the defaults, then the environment in several   *)
(* steps, each of which may refuse, then a last validation. That one      *)
(* does not see that guard.rs cuts rate and burst down to 32 bits.         *)
(*                                                                         *)
(* A setting that may be missing is a set with its value or without; a     *)
(* blank variable of the environment is missing.                           *)
(***************************************************************************)
EXTENDS Naturals, SequencesExt

CONSTANTS
  Chains, Urls,
  Defaults,       \* the numbers of Config::default()
  MaxSections,    \* chain_overrides in the file
  MaxListed       \* entries of RPCROUTER_FALLBACKS

Blank == "blank"
Bad == "bad"

Numbers == DOMAIN Defaults

(* Those that validate wants above zero, whatever else is set.             *)
Positive == Numbers \ {"rate", "burst", "archiveInterval", "immutableTtl", "minActive", "probeMax"}

(* Those that the environment can set.                                     *)
EnvNumbers == {"cacheBytes", "refreshSeconds", "maxHotChains", "idleSeconds",
               "autoMinEndpoints", "autoMaxChains"}

Backends == {"redis", "file", "memory"}

Section == [chain : Chains, fallback : Urls \cup {Blank, Bad}, rps : {{}, {0}, {1}}]
NewSection(c, url) == [chain |-> c, fallback |-> url, rps |-> {}]

Default ==
  [chains |-> <<>>, deny |-> {}, discovery |-> TRUE, number |-> Defaults, limited |-> FALSE,
   archive |-> TRUE, backend |-> "redis", texts |-> TRUE, sections |-> <<>>]

NoEnv ==
  [chains |-> {}, discovery |-> {}, backend |-> {}, name |-> "cacheBytes", value |-> {},
   list |-> <<>>, single |-> [c \in Chains |-> {}], garbled |-> "nothing"]

VARIABLES
  file,     \* what the file says
  env,      \* what the environment says
  stage,    \* how far main has come
  config,   \* the Config that it holds
  listed,   \* entries of RPCROUTER_FALLBACKS that are assigned
  left      \* chains whose own variable RPCROUTER_FALLBACK_<id> is still to be read

vars == <<file, env, stage, config, listed, left>>

Maybe(S) == {{}} \cup {{x} : x \in S}
Or(maybe, before) == IF maybe = {} THEN before ELSE CHOOSE x \in maybe : TRUE

Edges == {0, 1, 2, 5, 11, 101, 4000}

FallbackFiles == {[Default EXCEPT !.sections = s] : s \in BoundedSeq(Section, MaxSections)}
FallbackEnvs ==
  {[NoEnv EXCEPT !.list = l, !.single = s] :
     l \in BoundedSeq([chain : Chains, url : Urls], MaxListed), s \in [Chains -> Maybe(Urls)]}
  \cup {[NoEnv EXCEPT !.garbled = "list"]}

ChainFiles ==
  {[Default EXCEPT !.chains = cs, !.deny = d, !.discovery = b] :
     cs \in BoundedSeq(Chains, 2), d \in SUBSET Chains, b \in BOOLEAN}
ChainEnvs ==
  {[NoEnv EXCEPT !.chains = cs, !.discovery = b] :
     cs \in Maybe(BoundedSeq(Chains, 2)), b \in Maybe(BOOLEAN)}
  \cup {[NoEnv EXCEPT !.garbled = "settings"]}

NumberFiles ==
  {[Default EXCEPT !.number[n] = v, !.limited = b, !.archive = b] :
     n \in Numbers, v \in Edges, b \in BOOLEAN}
  \cup {[Default EXCEPT !.backend = k, !.texts = b] : k \in Backends \cup {"other"}, b \in BOOLEAN}
NumberEnvs ==
  {[NoEnv EXCEPT !.name = n, !.value = v, !.backend = k] :
     n \in EnvNumbers, v \in Maybe({0, 1}), k \in Maybe({"memory", "other"})}

Init ==
  /\ \/ file \in FallbackFiles /\ env \in FallbackEnvs
     \/ file \in ChainFiles /\ env \in ChainEnvs
     \/ file \in NumberFiles /\ env \in NumberEnvs
  /\ stage = "start" /\ config = Default /\ listed = 0 /\ left = {}

-----------------------------------------------------------------------------
(* validate; texts stands for the namespace, the tokens and the origins.   *)
InRange(number) ==
  /\ \A n \in Positive : number[n] > 0
  /\ number["batchLimit"] <= 100 /\ number["maxAttempts"] <= 4
  /\ number["hedgePercent"] <= 10 /\ number["minActive"] >= 2
  /\ number["probeMax"] >= number["probeMin"]
  /\ number["immutableTtl"] >= 3600

Valid(c) ==
  /\ c.discovery \/ c.chains # <<>>
  /\ IsInjective(c.chains)
  /\ c.deny \cap ToSet(c.chains) = {}
  /\ InRange(c.number)
  /\ c.limited => c.number["rate"] > 0 /\ c.number["burst"] > 0
  /\ c.archive => c.number["archiveInterval"] > 0
  /\ c.backend \in Backends /\ c.texts
  /\ \A i \in DOMAIN c.sections : c.sections[i].fallback # Bad /\ c.sections[i].rps # {0}

(* The first section of the chain that has a URL.                          *)
FallbackUrl(c, chain) ==
  LET i == SelectInSeq(c.sections, LAMBDA s : s.chain = chain /\ s.fallback # Blank)
  IN  IF i = 0 THEN Blank ELSE c.sections[i].fallback

(* Mutant: the last section of the chain.                                  *)
AssignLast(sections, chain, url) ==
  LET i == SelectLastInSeq(sections, LAMBDA s : s.chain = chain)
  IN  IF i = 0 THEN Append(sections, NewSection(chain, url))
      ELSE [sections EXCEPT ![i].fallback = url]

AssignFallback(sections, chain, url) ==
  LET i == SelectInSeq(sections, LAMBDA s : s.chain = chain)
  IN  IF i = 0 THEN Append(sections, NewSection(chain, url))
      ELSE [sections EXCEPT ![i].fallback = url]

-----------------------------------------------------------------------------
Refuse == stage' = "refused" /\ UNCHANGED config

Load ==
  /\ stage = "start"
  /\ IF Valid(file) THEN stage' = "loaded" /\ config' = file ELSE Refuse
  /\ UNCHANGED <<file, env, listed, left>>

ApplySettings ==
  /\ stage = "loaded"
  /\ IF env.garbled = "settings"
       THEN Refuse
       ELSE /\ stage' = "settings"
            /\ config' = [config EXCEPT !.chains = Or(env.chains, @),
                                        !.discovery = Or(env.discovery, @),
                                        !.number[env.name] = Or(env.value, @),
                                        !.backend = Or(env.backend, @)]
  /\ UNCHANGED <<file, env, listed, left>>

(* RPCROUTER_FALLBACKS is parsed as a whole, then assigned in its order.   *)
ParseList ==
  /\ stage = "settings"
  /\ IF env.garbled = "list" THEN Refuse ELSE stage' = "list" /\ UNCHANGED config
  /\ left' = {c \in Chains : env.single[c] # {}}
  /\ UNCHANGED <<file, env, listed>>

ApplyListed ==
  /\ stage = "list" /\ listed < Len(env.list)
  /\ listed' = listed + 1
  /\ config' = [config EXCEPT !.sections =
       AssignFallback(@, env.list[listed'].chain, env.list[listed'].url)]
  /\ UNCHANGED <<file, env, stage, left>>

(* The environment comes in any order.                                     *)
ApplySingle(c) ==
  /\ stage = "list" /\ listed = Len(env.list) /\ c \in left
  /\ left' = left \ {c}
  /\ config' = [config EXCEPT !.sections = AssignFallback(@, c, Or(env.single[c], Blank))]
  /\ UNCHANGED <<file, env, stage, listed>>

Accept ==
  /\ stage = "list" /\ listed = Len(env.list) /\ left = {}
  /\ IF Valid(config) THEN stage' = "running" /\ UNCHANGED config ELSE Refuse
  /\ UNCHANGED <<file, env, listed, left>>

Next ==
  \/ Load \/ ApplySettings \/ ParseList \/ ApplyListed \/ Accept
  \/ \E c \in Chains : ApplySingle(c)

Spec == Init /\ [][Next]_vars

-----------------------------------------------------------------------------
Running == stage = "running"

LastListed(c) == SelectLastInSeq(env.list, LAMBDA e : e.chain = c)

(* The paid fallback of a chain is the one that was said last in the order *)
(* file, list, own variable, whatever sections the file has for the chain: *)
(* a paid endpoint is never asked after the operator replaced it           *)
(* (config.rs assign_fallback and fallback_url).                           *)
FallbackIsNearest ==
  Running => \A c \in Chains :
    FallbackUrl(config, c) =
      Or(env.single[c], IF LastListed(c) # 0 THEN env.list[LastListed(c)].url
                        ELSE FallbackUrl(file, c))
=============================================================================
