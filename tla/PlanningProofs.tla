--------------------------- MODULE PlanningProofs ---------------------------
(***************************************************************************)
(* Proofs about the planner, for every list of candidates and any number   *)
(* of observations; about the product's plan, for every set of requests    *)
(* and any number of changes to it; and about the minimizer, for every     *)
(* input, all options and whatever its predicate answers.                  *)
(***************************************************************************)
EXTENDS Planning, Minimizer, SequenceTheorems, FiniteSetTheorems, WellFoundedInduction, TLAPS

\* A non-empty set of numbers has a least one: the induction that the provers
\* can use, since it has no operator for a parameter.
LEMMA LeastNat ==
    ASSUME NEW T \in SUBSET Nat, T # {}
    PROVE  \E m \in T : \A k \in T : m <= k
<1>1. PICK n \in T : TRUE
  BY Zenon
<1> DEFINE R == {0 .. k : k \in {j \in T : j <= n}}
<1>2. IsFiniteSet(0 .. n)
  BY FS_Interval
<1>3. IsWellFoundedOn(StrictSubsetOrdering(0 .. n), SUBSET (0 .. n))
  BY <1>2, FS_StrictSubsetOrderingWellFounded, FS_FiniteSubsetsOfFinite, Zenon
<1>4. R \subseteq SUBSET (0 .. n) /\ R # {}
  BY <1>1
<1>5. PICK r \in R : \A q \in R : <<q, r>> \notin StrictSubsetOrdering(0 .. n)
  <2> HIDE DEF R
  <2> QED BY <1>3, <1>4, WFMin, Zenon
<1>6. PICK m \in T : m <= n /\ r = 0 .. m
  BY <1>5
<1>7. ASSUME NEW k \in T, k < m PROVE FALSE
  <2>1. (0 .. k) \in R /\ (0 .. k) \subseteq r /\ (0 .. k) # r
    BY <1>6, <1>7
  <2>2. <<0 .. k, r>> \in StrictSubsetOrdering(0 .. n)
    BY <2>1, <1>4, <1>5 DEF StrictSubsetOrdering
  <2> QED BY <2>1, <2>2, <1>5, Zenon
<1> QED BY <1>6, <1>7

(* The planner. *)

\* The status that the loop over a candidate's capabilities sees, and what it makes
\* of the first n of them.
StatusOf(facts, c) == IF c \in DOMAIN facts THEN facts[c] ELSE "unknown"
Disposed(facts, caps, n) ==
    IF \E k \in 1..n : StatusOf(facts, caps[k]) = "unsupported" THEN "not_applicable"
    ELSE IF \E k \in 1..n : StatusOf(facts, caps[k]) = "unknown" THEN "skip"
    ELSE "execute"
Turn(facts, caps, f, n) ==
    IF n = 0 THEN "execute" ELSE DecideCapability(facts, f[n - 1], caps[n])

\* One turn of the loop.
LEMMA TurnFacts ==
    ASSUME NEW facts, NEW caps, NEW L \in Nat, NEW f, NEW n \in 0..L,
           n > 0 => f[n - 1] = Disposed(facts, caps, n - 1)
    PROVE  Turn(facts, caps, f, n) = Disposed(facts, caps, n)
<1>0. /\ "unsupported" # "unknown" /\ "skip" # "execute" /\ "not_applicable" # "execute"
  OBVIOUS
<1>1. CASE n = 0
  <2>1. \A k \in 1..n : FALSE
    BY <1>1
  <2> QED BY <1>1, <2>1, Zenon DEF Turn, Disposed
<1>2. CASE n # 0
  <2> DEFINE s == StatusOf(facts, caps[n])
             was == Disposed(facts, caps, n - 1)
  <2>1. n > 0
    BY <1>2
  <2>2. \A k : k \in 1..n <=> k \in 1..(n - 1) \/ k = n
    BY <2>1
  <2>3. Turn(facts, caps, f, n) = CASE s = "unsupported" -> "not_applicable"
                                    [] s = "unknown" /\ was = "execute" -> "skip"
                                    [] OTHER -> was
    BY <1>2, <2>1, Zenon DEF Turn, DecideCapability, StatusOf
  <2>4. CASE s = "unsupported"
    <3>1. Turn(facts, caps, f, n) = "not_applicable"
      <4> HIDE DEF s, was
      <4> QED BY <1>0, <2>3, <2>4
    <3> QED BY <2>2, <2>4, <3>1, Zenon DEF Disposed
  <2>5. CASE s = "unknown"
    <3>1. Turn(facts, caps, f, n) = IF was = "execute" THEN "skip" ELSE was
      <4> HIDE DEF s, was
      <4> QED BY <1>0, <2>3, <2>5
    <3> QED BY <1>0, <2>2, <2>5, <3>1, Zenon DEF Disposed
  <2>6. CASE s # "unsupported" /\ s # "unknown"
    <3>1. Turn(facts, caps, f, n) = was
      <4> HIDE DEF s, was
      <4> QED BY <1>0, <2>3, <2>6
    <3> QED BY <2>2, <2>6, <3>1, Zenon DEF Disposed
  <2> QED BY <2>4, <2>5, <2>6
<1> QED BY <1>1, <1>2

\* The loop has one outcome.
LEMMA LoopIs ==
    ASSUME NEW facts, NEW caps, NEW L \in Nat, NEW f,
           f = [n \in 0..L |-> Turn(facts, caps, f, n)]
    PROVE  \A n \in 0..L : f[n] = Disposed(facts, caps, n)
<1> DEFINE B == {n \in 0..L : f[n] # Disposed(facts, caps, n)}
<1> SUFFICES ASSUME B # {} PROVE FALSE
  BY Zenon
<1>1. B \in SUBSET Nat
  OBVIOUS
<1>2. PICK n \in B : \A k \in B : n <= k
  <2> HIDE DEF B
  <2> QED BY <1>1, LeastNat, Zenon
<1>3. n \in 0..L /\ f[n] = Turn(facts, caps, f, n) /\ f[n] # Disposed(facts, caps, n)
  BY Zenon
<1>4. n > 0 => n - 1 \in 0..L /\ ~(n <= n - 1)
  BY <1>3
<1>5. n > 0 => f[n - 1] = Disposed(facts, caps, n - 1)
  BY <1>2, <1>4, Zenon
<1> QED BY <1>3, <1>5, TurnFacts, Zenon

\* Resolve executes what is known to be supported, and leaves out what is known not
\* to be, whatever the order of the capabilities.
LEMMA DecisionIs ==
    ASSUME NEW facts, NEW candidate, Len(candidate.capabilities) \in Nat
    PROVE  Decide(facts, candidate) =
             [id |-> candidate.id, dependsOn |-> candidate.dependsOn,
              disposition |-> Disposed(facts, candidate.capabilities, Len(candidate.capabilities))]
<1> DEFINE caps == candidate.capabilities
           L == Len(caps)
           Loop(f) == f = [n \in 0..L |-> Turn(facts, caps, f, n)]
           f0 == [n \in 0..L |-> Disposed(facts, caps, n)]
           g == CHOOSE f : Loop(f)
<1>1. L \in Nat
  OBVIOUS
<1>2. Decide(facts, candidate) = [id |-> candidate.id, dependsOn |-> candidate.dependsOn,
                                  disposition |-> g[L]]
  BY Zenon DEF Decide, Turn
<1> HIDE DEF caps, L
<1>3. L \in 0..L
  BY <1>1
<1>4. ASSUME NEW n \in 0..L PROVE Turn(facts, caps, f0, n) = Disposed(facts, caps, n)
  <2>1. n > 0 => n - 1 \in 0..L
    BY <1>1
  <2>2. n > 0 => f0[n - 1] = Disposed(facts, caps, n - 1)
    BY <2>1, Zenon
  <2> HIDE DEF f0
  <2> QED BY <1>1, <2>2, TurnFacts, Zenon
<1>5. Loop(f0)
  BY <1>4, Zenon
<1>6. Loop(g)
  BY <1>5, Zenon
<1> HIDE DEF g
<1>7. g[L] = Disposed(facts, caps, L)
  BY <1>1, <1>3, <1>6, LoopIs, Zenon
<1> QED BY <1>2, <1>7, Zenon DEF caps, L

-----------------------------------------------------------------------------
\* What the observations say.
Facts(obs) == UNION {Range(obs[i].facts) : i \in DOMAIN obs}

\* Further observations that do not contradict leave what is known.
LEMMA FactsGrow ==
    ASSUME NEW intent, NEW obs, NEW more, Facts(obs) \subseteq Facts(more),
           NEW facts \in collectFacts(intent, obs), NEW later \in collectFacts(intent, more),
           NEW c \in DOMAIN facts
    PROVE  c \in DOMAIN later /\ later[c] = facts[c]
<1> DEFINE F == Facts(obs)
           G == Facts(more)
<1>1. facts = [d \in {f.capability : f \in F} |-> (CHOOSE f \in F : f.capability = d).status]
  BY Zenon DEF collectFacts, Facts
<1>2. /\ later = [d \in {f.capability : f \in G} |-> (CHOOSE f \in G : f.capability = d).status]
      /\ \A f, g \in G : f.capability = g.capability => f.status = g.status
  BY Zenon DEF collectFacts, Facts
<1> HIDE DEF F, G
<1>3. F \subseteq G
  BY Zenon DEF F, G
<1> DEFINE p == CHOOSE f \in F : f.capability = c
           q == CHOOSE f \in G : f.capability = c
<1>4. \E f \in F : f.capability = c
  BY <1>1, Zenon
<1>5. p \in F /\ p.capability = c
  BY <1>4, Zenon
<1>6. q \in G /\ q.capability = c
  BY <1>3, <1>4, Zenon
<1>7. facts[c] = p.status
  BY <1>1, <1>4, Zenon
<1>8. c \in DOMAIN later /\ later[c] = q.status
  BY <1>2, <1>3, <1>4, Zenon
<1> HIDE DEF p, q
<1> QED BY <1>2, <1>3, <1>5, <1>6, <1>7, <1>8, Zenon

\* Facts to which only further ones were added.
Grows(facts, later) == \A c \in DOMAIN facts : c \in DOMAIN later /\ later[c] = facts[c]

\* A scenario decided from some facts is decided the same from more of them.
LEMMA DecisionStays ==
    ASSUME NEW facts, NEW later, Grows(facts, later),
           NEW candidate, Len(candidate.capabilities) \in Nat,
           Decide(facts, candidate).disposition # "skip"
    PROVE  Decide(later, candidate) = Decide(facts, candidate)
<1> DEFINE caps == candidate.capabilities
           L == Len(caps)
<1>0. "not_applicable" # "skip" /\ "unknown" # "unsupported"
  OBVIOUS
<1>1. Disposed(facts, caps, L) # "skip"
  <2>1. Decide(facts, candidate) =
           [id |-> candidate.id, dependsOn |-> candidate.dependsOn, disposition |-> Disposed(facts, caps, L)]
    BY DecisionIs, Zenon
  <2> HIDE DEF caps, L
  <2>2. Decide(facts, candidate).disposition = Disposed(facts, caps, L)
    BY ONLY <2>1
  <2> QED BY <2>2, Zenon
<1>2. \A c : StatusOf(facts, c) # "unknown" => StatusOf(later, c) = StatusOf(facts, c)
  BY Zenon DEF StatusOf, Grows
<1>3. CASE \E k \in 1..L : StatusOf(facts, caps[k]) = "unsupported"
  <2>1. \E k \in 1..L : StatusOf(later, caps[k]) = "unsupported"
    BY <1>0, <1>2, <1>3, Zenon
  <2>2. Disposed(later, caps, L) = Disposed(facts, caps, L)
    BY <1>3, <2>1, Zenon DEF Disposed
  <2> QED BY <2>2, DecisionIs, Zenon
<1>4. CASE ~ \E k \in 1..L : StatusOf(facts, caps[k]) = "unsupported"
  <2>1. ~ \E k \in 1..L : StatusOf(facts, caps[k]) = "unknown"
    BY <1>1, <1>4, Zenon DEF Disposed
  <2>2. \A k \in 1..L : StatusOf(later, caps[k]) = StatusOf(facts, caps[k])
    BY <1>2, <2>1, Zenon
  <2>3. Disposed(later, caps, L) = Disposed(facts, caps, L)
    BY <1>4, <2>1, <2>2, Zenon DEF Disposed
  <2> QED BY <2>3, DecisionIs, Zenon
<1> QED BY <1>3, <1>4

\* Two plans of one intent, the second from further observations.
Refines(before, after) ==
    /\ \A i \in DOMAIN before.body.scenarios :
          before.body.scenarios[i].disposition # "skip" =>
             after.body.scenarios[i] = before.body.scenarios[i]
    /\ before.body.denominator \ after.body.denominator \subseteq
          {before.body.scenarios[i].id : i \in {j \in DOMAIN before.body.scenarios :
             before.body.scenarios[j].disposition = "skip"}}

\* The capabilities of every candidate are a list.
Listed(candidates) == \A i \in DOMAIN candidates : Len(candidates[i].capabilities) \in Nat

\* Resolve from further observations keeps what Resolve had decided.
LEMMA PlansRefine ==
    ASSUME NEW intent, NEW request, NEW candidates, Listed(candidates),
           NEW obs, NEW more, Facts(obs) \subseteq Facts(more),
           NEW before \in ResolvePlan(intent, request, candidates, obs),
           NEW after \in ResolvePlan(intent, request, candidates, more)
    PROVE  Refines(before, after)
<1>1. PICK facts \in collectFacts(intent, obs) :
          before = ResolveWith(intent, request, candidates, facts)
  BY Zenon DEF ResolvePlan
<1>2. PICK later \in collectFacts(intent, more) :
          after = ResolveWith(intent, request, candidates, later)
  BY Zenon DEF ResolvePlan
<1> DEFINE I == DOMAIN candidates
           ds == [i \in I |-> Decide(facts, candidates[i])]
           es == [i \in I |-> Decide(later, candidates[i])]
           Counts(d) == {d[i].id : i \in {j \in DOMAIN d : d[j].disposition # "not_applicable"}}
<1>3. before.body.scenarios = ds /\ before.body.denominator = Counts(ds)
  BY <1>1, Zenon DEF ResolveWith
<1>4. after.body.scenarios = es /\ after.body.denominator = Counts(es)
  BY <1>2, Zenon DEF ResolveWith
<1>5. Grows(facts, later)
  BY FactsGrow, Zenon DEF Grows
<1>6. ASSUME NEW i \in I, ds[i].disposition # "skip" PROVE es[i] = ds[i]
  <2>1. Len(candidates[i].capabilities) \in Nat
    BY Zenon DEF Listed
  <2>2. ds[i] = Decide(facts, candidates[i]) /\ es[i] = Decide(later, candidates[i])
    BY Zenon
  <2> HIDE DEF ds, es
  <2>3. Decide(facts, candidates[i]).disposition # "skip"
    BY <1>6, <2>2, Zenon
  <2>4. Decide(later, candidates[i]) = Decide(facts, candidates[i])
    BY ONLY <1>5, <2>1, <2>3, DecisionStays, Zenon
  <2> QED BY <2>2, <2>4, Zenon
<1>7. DOMAIN ds = I /\ DOMAIN es = I
  BY Zenon
<1> HIDE DEF ds, es, I
<1>8. Counts(ds) \ Counts(es) \subseteq {ds[i].id : i \in {j \in DOMAIN ds : ds[j].disposition = "skip"}}
  <2> SUFFICES ASSUME NEW x \in Counts(ds), x \notin Counts(es)
               PROVE  \E i \in DOMAIN ds : ds[i].disposition = "skip" /\ x = ds[i].id
    BY Zenon
  <2>1. PICK i \in DOMAIN ds : ds[i].disposition # "not_applicable" /\ x = ds[i].id
    BY Zenon
  <2>2. ds[i].disposition # "skip" => x \in Counts(es)
    BY <1>6, <1>7, <2>1, Zenon
  <2> QED BY <2>1, <2>2, Zenon
<1>9. \A i \in DOMAIN ds : ds[i].disposition # "skip" => es[i] = ds[i]
  BY <1>6, <1>7, Zenon
<1> HIDE DEF Counts
<1> QED BY ONLY <1>3, <1>4, <1>8, <1>9, ZenonT(30) DEF Refines

-----------------------------------------------------------------------------
\* The caller holds the plan of what has been observed for its one intent.
PlannerInv ==
    /\ resolution \in [candidates : {resolution.candidates}, intent : {resolution.intent},
                       observations : {resolution.observations}, plan : {resolution.plan}]
    /\ resolution.intent = {} => resolution.plan = {}
    /\ \A intent \in resolution.intent :
          /\ resolution.intent = {intent}
          /\ Listed(resolution.candidates)
          /\ \E S : resolution.observations \in Seq(S)
          /\ resolution.plan = ResolveProbe(intent, resolution.candidates, resolution.observations)

\* The first plan of an intent.
LEMMA IntendInv ==
    ASSUME PlannerInv, Intend
    PROVE  PlannerInv' /\ resolution.plan = {}
<1>1. resolution.plan = {}
  BY Zenon DEF PlannerInv, Intend
<1>2. PICK candidates \in CandidateLists : \E intent \in ProbeIntent(candidates) :
         resolution' = [candidates |-> candidates, intent |-> {intent},
                        observations |-> <<>>,
                        plan |-> ResolveProbe(intent, candidates, <<>>)]
  BY Zenon DEF Intend
<1>3. PICK intent :
         resolution' = [candidates |-> candidates, intent |-> {intent},
                        observations |-> <<>>,
                        plan |-> ResolveProbe(intent, candidates, <<>>)]
  BY <1>2, Zenon
<1>4. /\ resolution'.candidates = candidates /\ resolution'.intent = {intent}
      /\ resolution'.observations = <<>> /\ resolution'.plan = ResolveProbe(intent, candidates, <<>>)
      /\ resolution' \in [candidates : {resolution'.candidates}, intent : {resolution'.intent},
                          observations : {resolution'.observations}, plan : {resolution'.plan}]
  BY <1>3, Zenon
<1>5. Listed(candidates)
  BY PlannerConstants, LenProperties, Zenon DEF Listed
<1>6. <<>> \in Seq({})
  OBVIOUS
<1>7. resolution'.intent = {} => resolution'.plan = {}
  BY <1>4, Zenon
<1>8. \E S : resolution'.observations \in Seq(S)
  BY <1>4, <1>6, Zenon
<1>9. ASSUME NEW i \in resolution'.intent
      PROVE  /\ resolution'.intent = {i} /\ Listed(resolution'.candidates)
             /\ resolution'.plan = ResolveProbe(i, resolution'.candidates, resolution'.observations)
  <2>1. i = intent
    BY <1>4, Zenon
  <2> QED BY <1>4, <1>5, <2>1, Zenon
<1>10. PlannerInv'
  BY ONLY <1>4, <1>7, <1>8, <1>9, Zenon DEF PlannerInv
<1> QED BY <1>1, <1>10

\* The plan after one more observation.
LEMMA ObserveCapabilityInv ==
    ASSUME PlannerInv, ObserveCapability
    PROVE  /\ PlannerInv'
           /\ \A before \in resolution.plan, after \in resolution'.plan : Refines(before, after)
<1> DEFINE obs == resolution.observations
           cands == resolution.candidates
<1>1. PICK intent \in resolution.intent : \E o :
          resolution' = [resolution EXCEPT
              !.observations = Append(obs, o),
              !.plan = ResolveProbe(intent, cands, Append(obs, o))]
  BY Zenon DEF ObserveCapability
<1>2. PICK o : resolution' = [resolution EXCEPT
              !.observations = Append(obs, o),
              !.plan = ResolveProbe(intent, cands, Append(obs, o))]
  BY <1>1, Zenon
<1> DEFINE more == Append(obs, o)
<1>3. /\ resolution'.candidates = cands /\ resolution'.intent = resolution.intent
      /\ resolution'.observations = more /\ resolution'.plan = ResolveProbe(intent, cands, more)
      /\ resolution' \in [candidates : {resolution'.candidates}, intent : {resolution'.intent},
                          observations : {resolution'.observations}, plan : {resolution'.plan}]
  BY <1>2, Zenon DEF PlannerInv
<1>4. /\ resolution.intent = {intent} /\ Listed(cands)
      /\ resolution.plan = ResolveProbe(intent, cands, obs)
  BY Zenon DEF PlannerInv
<1>5. PICK S : obs \in Seq(S)
  BY Zenon DEF PlannerInv
<1> DEFINE T == S \union {o}
<1>6. obs \in Seq(T) /\ o \in T
  BY <1>5, SeqMonotonic, Zenon
<1> HIDE DEF T
<1>7. /\ more \in Seq(T) /\ Len(obs) \in Nat /\ DOMAIN obs = 1..Len(obs)
      /\ DOMAIN more = 1..(Len(obs) + 1) /\ \A i \in 1..Len(obs) : more[i] = obs[i]
  BY <1>6, AppendProperties, LenProperties
<1> HIDE DEF more, obs, cands
<1>8. \A i \in DOMAIN obs : i \in DOMAIN more /\ more[i] = obs[i]
  BY <1>7
<1>9. Facts(obs) \subseteq Facts(more)
  BY <1>8, Zenon DEF Facts
<1>10. \A before \in resolution.plan, after \in resolution'.plan : Refines(before, after)
  <2> SUFFICES ASSUME NEW before \in resolution.plan, NEW after \in resolution'.plan
               PROVE  Refines(before, after)
    BY Zenon
  <2> DEFINE request == [id |-> "resolved", resolver |-> "resolver", support |-> "support",
                         artifacts |-> {"pack"}, target |-> "target",
                         runtime |-> [concurrency |-> 1, retries |-> 0]]
  <2>1. /\ before \in ResolvePlan(intent, request, cands, obs)
        /\ after \in ResolvePlan(intent, request, cands, more)
    BY <1>3, <1>4, Zenon DEF ResolveProbe
  <2> HIDE DEF request
  <2> QED BY ONLY <1>4, <1>9, <2>1, PlansRefine, Zenon
<1>11. PlannerInv'
  BY <1>3, <1>4, <1>7, Zenon DEF PlannerInv
<1> QED BY <1>10, <1>11

\* A later plan of an intent keeps every decision that was made, for any number of
\* candidates, capabilities and observations (planner.Resolve and collectFacts).
THEOREM DecisionsStay == PlannerSpec => DecisionsAreFinal
<1>1. PlannerInit => PlannerInv
  <2> SUFFICES ASSUME PlannerInit PROVE PlannerInv
    OBVIOUS
  <2>1. resolution.intent = {} /\ resolution.plan = {}
    BY Zenon DEF PlannerInit
  <2>2. resolution \in [candidates : {resolution.candidates}, intent : {resolution.intent},
                        observations : {resolution.observations}, plan : {resolution.plan}]
    BY Zenon DEF PlannerInit
  <2> QED BY <2>1, <2>2, Zenon DEF PlannerInv
<1>2. PlannerInv /\ [PlannerNext]_resolution => PlannerInv'
  <2> SUFFICES ASSUME PlannerInv, [PlannerNext]_resolution PROVE PlannerInv'
    OBVIOUS
  <2>1. CASE UNCHANGED resolution
    BY <2>1, Zenon DEF PlannerInv
  <2> QED BY <2>1, IntendInv, ObserveCapabilityInv, Zenon DEF PlannerNext
<1> DEFINE Keeps == \A before \in resolution.plan, after \in resolution'.plan :
         /\ \A i \in DOMAIN before.body.scenarios :
              before.body.scenarios[i].disposition # "skip" =>
                after.body.scenarios[i] = before.body.scenarios[i]
         /\ before.body.denominator \ after.body.denominator \subseteq
              {before.body.scenarios[i].id : i \in {j \in DOMAIN before.body.scenarios :
                 before.body.scenarios[j].disposition = "skip"}}
<1>3. PlannerInv /\ PlannerNext => Keeps
  <2> SUFFICES ASSUME PlannerInv, PlannerNext PROVE Keeps
    OBVIOUS
  <2>1. \A before \in resolution.plan, after \in resolution'.plan : Refines(before, after)
    BY IntendInv, ObserveCapabilityInv, Zenon DEF PlannerNext
  <2> QED BY <2>1, Zenon DEF Refines
<1>4. PlannerInv /\ [PlannerNext]_resolution => [Keeps]_resolution
  BY <1>3
<1> QED BY <1>1, <1>2, <1>4, PTL DEF PlannerSpec, DecisionsAreFinal

-----------------------------------------------------------------------------
(* The plan of a product run: what Build derives from a target. *)

\* The scenarios built in for a protocol.
IsPack(protocol, entries) ==
    /\ BuiltinScenarios(protocol) = {entries}
    /\ Len(entries) = 4 /\ DOMAIN entries = 1..4
    /\ \A i \in 1..4 : entries[i].tokens \in Nat

\* There are four of them, with a limit of tokens each (definitions.go).
LEMMA EntriesFacts ==
    ASSUME NEW protocol, NEW entries \in BuiltinScenarios(protocol)
    PROVE  IsPack(protocol, entries)
<1>0. /\ "openai-chat" # "openai-responses" /\ "openai-chat" # "anthropic-messages"
      /\ "openai-responses" # "anthropic-messages"
  OBVIOUS
<1>1. /\ protocol = "openai-chat" => BuiltinScenarios(protocol) = {ChatScenarios}
      /\ protocol = "openai-responses" => BuiltinScenarios(protocol) = {ResponsesScenarios}
      /\ protocol = "anthropic-messages" => BuiltinScenarios(protocol) = {MessagesScenarios}
      /\ protocol \notin {"openai-chat", "openai-responses", "anthropic-messages"} =>
            BuiltinScenarios(protocol) = {}
  BY <1>0 DEF BuiltinScenarios
<1>2. /\ Len(ChatScenarios) = 4 /\ DOMAIN ChatScenarios = 1..4
      /\ \A i \in 1..4 : ChatScenarios[i].tokens \in Nat
  BY DEF ChatScenarios, Descriptor, TerminalTokenCap, StructuralTokenCap
<1>3. /\ Len(ResponsesScenarios) = 4 /\ DOMAIN ResponsesScenarios = 1..4
      /\ \A i \in 1..4 : ResponsesScenarios[i].tokens \in Nat
  BY DEF ResponsesScenarios, Descriptor, TerminalTokenCap, StructuralTokenCap
<1>4. /\ Len(MessagesScenarios) = 4 /\ DOMAIN MessagesScenarios = 1..4
      /\ \A i \in 1..4 : MessagesScenarios[i].tokens \in Nat
  BY DEF MessagesScenarios, Descriptor, TerminalTokenCap, StructuralTokenCap
<1>5. \/ BuiltinScenarios(protocol) = {ChatScenarios} /\ entries = ChatScenarios
      \/ BuiltinScenarios(protocol) = {ResponsesScenarios} /\ entries = ResponsesScenarios
      \/ BuiltinScenarios(protocol) = {MessagesScenarios} /\ entries = MessagesScenarios
  <2>1. protocol \in {"openai-chat", "openai-responses", "anthropic-messages"}
    BY <1>1, Zenon
  <2>2. \/ BuiltinScenarios(protocol) = {ChatScenarios}
        \/ BuiltinScenarios(protocol) = {ResponsesScenarios}
        \/ BuiltinScenarios(protocol) = {MessagesScenarios}
    BY <1>1, <2>1, Zenon
  <2> QED BY <2>2, Zenon
<1> QED BY <1>2, <1>3, <1>4, <1>5, Zenon DEF IsPack

\* Materials that were made of the scenarios for a target.
Carries(target, entries, materials) ==
    /\ DOMAIN materials = 1..4 /\ Len(materials) = 4
    /\ \A i \in 1..4 : /\ materials[i].descriptor = entries[i]
                       /\ materials[i].body.model = target.model
                       /\ materials[i].body.tokens = entries[i].tokens

\* What Derived tells of a target.
Fits(target, d) ==
    /\ TargetValid(target) /\ validateAuthConfig(target)
    /\ d.route.origin = Origin(target)
    /\ \E entries : /\ IsPack(target.protocol, entries)
                    /\ Carries(target, entries, d.artifacts.pack.materials)

\* What deriveArtifacts and routeTarget derive fits the target.
LEMMA DerivedFacts ==
    ASSUME NEW target, NEW d \in Derived(target)
    PROVE  Fits(target, d)
<1>1. validateAuthConfig(target)
  BY Zenon DEF Derived
<1>2. PICK route \in routeTarget(target) :
         d \in {[route |-> route, artifacts |-> artifacts] :
                  artifacts \in deriveArtifacts(target.protocol, target.model, route.endpoint)}
  BY <1>1, Zenon DEF Derived
<1>3. PICK artifacts \in deriveArtifacts(target.protocol, target.model, route.endpoint) :
         d = [route |-> route, artifacts |-> artifacts]
  BY <1>2, Zenon
<1>4. d.route = route /\ d.artifacts = artifacts
  BY <1>3, Zenon
<1>5. TargetValid(target)
  BY Zenon DEF routeTarget
<1>6. route.origin = Origin(target)
  <2>1. PICK base \in canonicalBasePath(target) :
           route \in {[origin |-> Origin(target),
                       endpoint |-> (IF base = <<>> THEN <<"v1">> ELSE base) \o suffix] :
                         suffix \in Suffix(target.protocol)}
    BY <1>5, Zenon DEF routeTarget
  <2>2. PICK suffix \in Suffix(target.protocol) :
           route = [origin |-> Origin(target),
                    endpoint |-> (IF base = <<>> THEN <<"v1">> ELSE base) \o suffix]
    BY <2>1, Zenon
  <2> QED BY <2>2
<1>7. PICK entries \in BuiltinScenarios(target.protocol) :
         artifacts = [driver |-> "builtin-raw-http", support |-> "candidate-unresolved",
                      pack |-> [protocol |-> target.protocol,
                                materials |-> [i \in DOMAIN entries |->
                                   Material(target.protocol, target.model, route.endpoint, entries[i])]]]
  BY <1>3, Zenon DEF deriveArtifacts
<1> DEFINE m == [i \in DOMAIN entries |->
                   Material(target.protocol, target.model, route.endpoint, entries[i])]
<1>8. artifacts.pack.materials = m
  BY <1>7, Zenon
<1>9. IsPack(target.protocol, entries)
  BY EntriesFacts, Zenon
<1>10. \A e : /\ Material(target.protocol, target.model, route.endpoint, e).descriptor = e
              /\ Material(target.protocol, target.model, route.endpoint, e).body.model = target.model
              /\ Material(target.protocol, target.model, route.endpoint, e).body.tokens = e.tokens
  BY Zenon DEF Material, requestBody
<1>11. Carries(target, entries, m)
  <2>1. DOMAIN entries = 1..4
    BY <1>9, Zenon DEF IsPack
  <2>2. DOMAIN m = 1..4 /\ \A i \in 1..4 :
           m[i] = Material(target.protocol, target.model, route.endpoint, entries[i])
    BY <2>1, Zenon
  <2>3. m = [i \in 1..4 |-> m[i]]
    BY <2>1, Zenon
  <2> HIDE DEF m
  <2>4. Len(m) = 4
    BY ONLY <2>3
  <2>5. ASSUME NEW i \in 1..4
        PROVE  /\ m[i].descriptor = entries[i] /\ m[i].body.model = target.model
               /\ m[i].body.tokens = entries[i].tokens
    <3> DEFINE x == Material(target.protocol, target.model, route.endpoint, entries[i])
    <3>1. x.descriptor = entries[i] /\ x.body.model = target.model /\ x.body.tokens = entries[i].tokens
      BY <1>10, Zenon
    <3>2. m[i] = x
      BY <2>2, Zenon
    <3> HIDE DEF x
    <3> QED BY ONLY <3>1, <3>2
  <2> QED BY ONLY <2>2, <2>4, <2>5, Zenon DEF Carries
<1> QED BY <1>1, <1>4, <1>5, <1>6, <1>8, <1>9, <1>11, Zenon DEF Fits

-----------------------------------------------------------------------------
\* The candidates that Build passes to the planner.
Plain(derived) ==
    [i \in DOMAIN derived.pack.materials |->
       [id |-> derived.pack.materials[i].descriptor.id, capabilities |-> <<>>, dependsOn |-> {}]]

\* An envelope carries the digest of its body.
LEMMA Sealed ==
    ASSUME NEW kind, NEW id, NEW body
    PROVE  SealMeta(kind, id, body).content = body
BY Zenon DEF SealMeta

\* What the two envelopes hold.
IntentIs(intent, name, target, budget, author, id, derived, route) ==
    /\ IntentValid(intent)
    /\ intent = [meta |-> SealMeta("IntentPlan", id, intent.body), body |-> intent.body]
    /\ intent.body.id = id /\ intent.body.author = author /\ intent.body.budget = budget
    /\ intent.body.config = persistedConfigDigest(name, persistedTarget(target))
    /\ intent.body.target = [logicalRef |-> name, protocolFamily |-> target.protocol,
                             origin |-> route.origin]
    /\ intent.body.selectors = {derived.pack} /\ intent.body.support = derived.support
    /\ intent.body.denominator = Identifiers(Plain(derived))

ResolvedIs(resolved, name, target, id, derived, intent) ==
    LET config == persistedConfigDigest(name, persistedTarget(target))
    IN  /\ ResolvedValid(resolved)
        /\ resolved = [meta |-> SealMeta("ResolvedRunPlan", id, resolved.body),
                       body |-> resolved.body]
        /\ resolved.body.id = id /\ resolved.body.intent = intent.meta.ref
        /\ resolved.body.support = derived.support
        /\ resolved.body.target = [fingerprint |-> config, configuration |-> config,
                                   model |-> target.model]
        /\ resolved.body.budget = intent.body.budget
        /\ resolved.body.denominator = Identifiers(Plain(derived))

\* BuildIntent returns a valid intent or nothing.
LEMMA IntentFacts ==
    ASSUME NEW name, NEW target, NEW budget, NEW author, NEW id, NEW derived, NEW route,
           NEW intent \in IntentOf(name, target, budget, author, id, derived, route)
    PROVE  IntentIs(intent, name, target, budget, author, id, derived, route)
<1> DEFINE request == [id |-> id, config |-> persistedConfigDigest(name, persistedTarget(target)),
                       target |-> [logicalRef |-> name, protocolFamily |-> target.protocol,
                                   origin |-> route.origin],
                       selectors |-> {derived.pack}, support |-> derived.support,
                       budget |-> budget, author |-> author]
           candidates == Plain(derived)
           named == UNION {Range(candidates[i].capabilities) : i \in DOMAIN candidates}
           branches == [c \in named |->
                       {candidates[i].id : i \in {j \in DOMAIN candidates :
                          c \in Range(candidates[j].capabilities)}}]
           body == [id |-> request.id, config |-> request.config,
                 target |-> request.target, selectors |-> request.selectors,
                 support |-> request.support, budget |-> request.budget,
                 author |-> request.author, branches |-> branches,
                 denominator |-> Identifiers(candidates)]
           built == [meta |-> SealMeta("IntentPlan", request.id, body), body |-> body]
<1>1. intent \in BuildIntent(request, candidates)
  BY Zenon DEF IntentOf, Plain
<1>2. intent = built /\ IntentValid(intent)
  <2> HIDE DEF request, candidates
  <2> QED BY <1>1, Zenon DEF BuildIntent
<1> HIDE DEF candidates, branches, named
<1>3. /\ request.id = id /\ request.config = persistedConfigDigest(name, persistedTarget(target))
      /\ request.target = [logicalRef |-> name, protocolFamily |-> target.protocol,
                           origin |-> route.origin]
      /\ request.selectors = {derived.pack} /\ request.support = derived.support
      /\ request.budget = budget /\ request.author = author
  BY Zenon
<1> HIDE DEF request
<1>4. /\ body.id = request.id /\ body.config = request.config /\ body.target = request.target
      /\ body.selectors = request.selectors /\ body.support = request.support
      /\ body.budget = request.budget /\ body.author = request.author
      /\ body.denominator = Identifiers(candidates)
  BY Zenon
<1> HIDE DEF body
<1>5. intent.body = body
  BY <1>2, Zenon
<1>6. intent = [meta |-> SealMeta("IntentPlan", id, intent.body), body |-> intent.body]
  BY <1>2, <1>3, <1>5, Zenon
<1> QED BY <1>2, <1>3, <1>4, <1>5, <1>6, Zenon DEF IntentIs, candidates

\* ResolvePlan decides to execute every scenario, since none needs a capability.
LEMMA ResolvedFacts ==
    ASSUME NEW name, NEW target, NEW id, NEW derived, NEW intent,
           NEW resolved \in ResolvedOf(name, target, id, derived, intent)
    PROVE  ResolvedIs(resolved, name, target, id, derived, intent)
<1> DEFINE config == persistedConfigDigest(name, persistedTarget(target))
           request == [id |-> id, resolver |-> derived.driver, support |-> derived.support,
             artifacts |-> {derived.pack},
             target |-> [fingerprint |-> config, configuration |-> config,
                         model |-> target.model],
             runtime |-> [concurrency |-> 1, retries |-> 0,
                          timeout |-> intent.body.budget.hard.seconds]]
           candidates == Plain(derived)
<1>1. resolved \in ResolvePlan(intent, request, candidates, <<>>)
  BY Zenon DEF ResolvedOf, Plain
<1>2. /\ request.id = id /\ request.support = derived.support
      /\ request.target = [fingerprint |-> config, configuration |-> config, model |-> target.model]
  BY Zenon
<1> HIDE DEF request, config
<1>3. ResolvedValid(resolved) /\ \E facts : resolved = ResolveWith(intent, request, candidates, facts)
  BY <1>1, Zenon DEF ResolvePlan
<1>4. PICK facts : resolved = ResolveWith(intent, request, candidates, facts)
  BY <1>3, Zenon
<1> DEFINE decisions == [i \in DOMAIN candidates |-> Decide(facts, candidates[i])]
           body == [id |-> request.id, intent |-> intent.meta.ref,
                 resolver |-> request.resolver, support |-> request.support,
                 artifacts |-> request.artifacts, target |-> request.target,
                 runtime |-> request.runtime, budget |-> intent.body.budget,
                 scenarios |-> decisions,
                 denominator |-> {decisions[i].id : i \in {j \in DOMAIN decisions :
                                    decisions[j].disposition # "not_applicable"}}]
<1>5. resolved = [meta |-> SealMeta("ResolvedRunPlan", request.id, body), body |-> body]
  BY <1>4, Zenon DEF ResolveWith
<1>6. \A i \in DOMAIN candidates : candidates[i].capabilities = <<>>
  BY Zenon DEF Plain
<1>7. ASSUME NEW i \in DOMAIN candidates
      PROVE  decisions[i].id = candidates[i].id /\ decisions[i].disposition # "not_applicable"
  <2>1. Len(candidates[i].capabilities) = 0
    BY <1>6
  <2>2. 0 \in Nat /\ \A k \in 1..0 : FALSE
    OBVIOUS
  <2> HIDE DEF candidates
  <2>3. decisions[i] = [id |-> candidates[i].id, dependsOn |-> candidates[i].dependsOn,
                        disposition |-> Disposed(facts, candidates[i].capabilities, 0)]
    BY <2>1, <2>2, DecisionIs, Zenon
  <2>4. Disposed(facts, candidates[i].capabilities, 0) = "execute"
    BY <2>2, Zenon DEF Disposed
  <2> HIDE DEF decisions
  <2> QED BY <2>3, <2>4
<1>8. DOMAIN decisions = DOMAIN candidates
  BY Zenon
<1> HIDE DEF candidates, decisions
<1>9. {decisions[i].id : i \in {j \in DOMAIN decisions :
                                    decisions[j].disposition # "not_applicable"}}
      = Identifiers(candidates)
  BY <1>7, <1>8, Zenon DEF Identifiers
<1>10. /\ body.id = request.id /\ body.intent = intent.meta.ref /\ body.support = request.support
       /\ body.target = request.target /\ body.budget = intent.body.budget
       /\ body.denominator = Identifiers(candidates)
  BY <1>9, Zenon
<1> HIDE DEF body
<1>11. resolved.body = body
  BY <1>5, Zenon
<1>12. resolved = [meta |-> SealMeta("ResolvedRunPlan", id, resolved.body), body |-> resolved.body]
  BY <1>2, <1>5, <1>11, Zenon
<1> QED BY <1>2, <1>3, <1>10, <1>11, <1>12, Zenon DEF ResolvedIs, candidates, config

-----------------------------------------------------------------------------
\* A plan that Build derived along d.
Built(name, target, budget, author, first, second, plan, d) ==
    /\ d \in Derived(target)
    /\ plan.intent \in IntentOf(name, target, budget, author, first, d.artifacts, d.route)
    /\ plan.resolved \in ResolvedOf(name, target, second, d.artifacts, plan.intent)
    /\ plan = PlannedRun(name, target, plan.intent, plan.resolved)

\* What follows for its fields.
Whole(name, target, budget, author, first, second, plan, d) ==
    /\ Fits(target, d)
    /\ IntentIs(plan.intent, name, target, budget, author, first, d.artifacts, d.route)
    /\ ResolvedIs(plan.resolved, name, target, second, d.artifacts, plan.intent)
    /\ plan.name = name /\ plan.target = target
    /\ plan.execution = [name |-> name, target |-> target]

\* A plan that was derived is whole.
LEMMA BuiltIsWhole ==
    ASSUME NEW name, NEW target, NEW budget, NEW author, NEW first, NEW second, NEW plan, NEW d,
           Built(name, target, budget, author, first, second, plan, d)
    PROVE  Whole(name, target, budget, author, first, second, plan, d)
<1>1. Fits(target, d)
  BY DerivedFacts, Zenon DEF Built
<1>2. IntentIs(plan.intent, name, target, budget, author, first, d.artifacts, d.route)
  BY IntentFacts, Zenon DEF Built
<1>3. ResolvedIs(plan.resolved, name, target, second, d.artifacts, plan.intent)
  BY ResolvedFacts, Zenon DEF Built
<1>4. /\ plan.name = name /\ plan.target = target
      /\ plan.execution = [name |-> name, target |-> target]
  <2>1. plan = PlannedRun(name, target, plan.intent, plan.resolved)
    BY Zenon DEF Built
  <2> DEFINE i == plan.intent
             r == plan.resolved
  <2>2. plan = PlannedRun(name, target, i, r)
    BY <2>1
  <2> HIDE DEF i, r
  <2> QED BY <2>2, Zenon DEF PlannedRun
<1> QED BY <1>1, <1>2, <1>3, <1>4, Zenon DEF Whole

\* buildExact derives along the route and artifacts of the target.
LEMMA ExactIsBuilt ==
    ASSUME NEW name, NEW target, NEW budget, NEW author, NEW ids,
           NEW plan \in buildExact(name, target, budget, author, ids)
    PROVE  \E d : Built(name, target, budget, author, ids[1], ids[2], plan, d)
<1>1. PICK d \in Derived(target) :
        plan \in UNION {{PlannedRun(name, target, intent, resolved) :
              resolved \in ResolvedOf(name, target, ids[2], d.artifacts, intent)} :
           intent \in IntentOf(name, target, budget, author, ids[1], d.artifacts, d.route)}
  BY Zenon DEF buildExact
<1>2. PICK intent \in IntentOf(name, target, budget, author, ids[1], d.artifacts, d.route) :
        plan \in {PlannedRun(name, target, intent, resolved) :
              resolved \in ResolvedOf(name, target, ids[2], d.artifacts, intent)}
  BY <1>1, Zenon
<1>3. PICK resolved \in ResolvedOf(name, target, ids[2], d.artifacts, intent) :
        plan = PlannedRun(name, target, intent, resolved)
  BY <1>2, Zenon
<1>4. plan.intent = intent /\ plan.resolved = resolved
  BY <1>3, Zenon DEF PlannedRun
<1>5. Built(name, target, budget, author, ids[1], ids[2], plan, d)
  BY <1>3, <1>4, Zenon DEF Built
<1> QED BY <1>5, Zenon

\* And every such derivation is one of buildExact.
LEMMA BuiltIsExact ==
    ASSUME NEW name, NEW target, NEW budget, NEW author, NEW first, NEW second, NEW plan, NEW d,
           Built(name, target, budget, author, first, second, plan, d)
    PROVE  plan \in buildExact(name, target, budget, author, <<first, second>>)
<1> DEFINE ids == <<first, second>>
<1>1. ids[1] = first /\ ids[2] = second
  BY Zenon
<1> HIDE DEF ids
<1>2. plan \in {PlannedRun(name, target, plan.intent, resolved) :
              resolved \in ResolvedOf(name, target, ids[2], d.artifacts, plan.intent)}
  BY <1>1, Zenon DEF Built
<1> DEFINE Along(e) == UNION {{PlannedRun(name, target, intent, resolved) :
              resolved \in ResolvedOf(name, target, ids[2], e.artifacts, intent)} :
           intent \in IntentOf(name, target, budget, author, ids[1], e.artifacts, e.route)}
<1>3. plan \in Along(d)
  BY <1>1, <1>2, Zenon DEF Built
<1>4. plan \in buildExact(name, target, budget, author, ids)
  <2>1. d \in Derived(target)
    BY Zenon DEF Built
  <2>2. buildExact(name, target, budget, author, ids) = UNION {Along(e) : e \in Derived(target)}
    BY Zenon DEF buildExact
  <2> HIDE DEF Along
  <2>3. plan \in UNION {Along(e) : e \in Derived(target)}
    BY ONLY <1>3, <2>1, Zenon
  <2> QED BY ONLY <2>2, <2>3, Zenon
<1> QED BY <1>4, Zenon DEF ids

\* The name of the target, and the budget of a request without one.
RunName(request) == IF request.name = "" THEN "default" ELSE request.name
DefaultFor(request, budget) ==
    \E e \in Derived(request.target) : budget = defaultBudgetFor(e.artifacts.pack.materials)

\* Build's plan for a request.
BuiltFor(request, budget, plan, d) ==
    /\ Built(RunName(request), request.target, budget, "local-user", request.ids[1],
             request.ids[2], plan, d)
    /\ request.budget = {} => DefaultFor(request, budget)

\* Build returns such plans only.
LEMMA BuildFacts ==
    ASSUME NEW request, NEW plan \in Build(request)
    PROVE  \E budget, d : BuiltFor(request, budget, plan, d)
<1> DEFINE budgets == IF request.budget # {} THEN request.budget
                      ELSE {defaultBudgetFor(d.artifacts.pack.materials) :
                              d \in Derived(request.target)}
<1>1. plan \in UNION {buildExact(RunName(request), request.target, budget, "local-user", request.ids) :
                        budget \in {b \in budgets : BudgetValid(b)}}
  BY Zenon DEF Build, RunName
<1>2. PICK budget \in budgets :
         plan \in buildExact(RunName(request), request.target, budget, "local-user", request.ids)
  BY <1>1, Zenon
<1>3. PICK d : Built(RunName(request), request.target, budget, "local-user", request.ids[1],
                     request.ids[2], plan, d)
  BY <1>2, ExactIsBuilt, Zenon
<1>4. request.budget = {} => DefaultFor(request, budget)
  BY <1>2, Zenon DEF DefaultFor
<1>5. BuiltFor(request, budget, plan, d)
  BY <1>3, <1>4, Zenon DEF BuiltFor
<1> QED BY <1>5, Zenon

-----------------------------------------------------------------------------
\* What Build returns passes the checks of Execute.
LEMMA WholeIsPlanned ==
    ASSUME NEW name, NEW target, NEW budget, NEW author, NEW first, NEW second, NEW plan, NEW d,
           Built(name, target, budget, author, first, second, plan, d)
    PROVE  validatePlanned(plan)
<1>1. Whole(name, target, budget, author, first, second, plan, d)
  BY BuiltIsWhole, Zenon
<1>2. /\ plan.name = name /\ plan.target = target /\ plan.intent.body.budget = budget
      /\ plan.intent.body.author = author /\ plan.intent.body.id = first
      /\ plan.resolved.body.id = second /\ IntentValid(plan.intent) /\ ResolvedValid(plan.resolved)
      /\ plan.resolved.body.intent = plan.intent.meta.ref
  BY <1>1, Zenon DEF Whole, IntentIs, ResolvedIs
<1>3. plan \in buildExact(name, target, budget, author, <<first, second>>)
  BY BuiltIsExact, Zenon
<1> QED BY <1>2, <1>3, Zenon DEF validatePlanned

\* And its snapshot can be read back, but for the name that is reserved.
LEMMA WholePersists ==
    ASSUME NEW name, NEW target, NEW budget, NEW author, NEW first, NEW second, NEW plan, NEW d,
           Whole(name, target, budget, author, first, second, plan, d),
           name \notin {"", "latest"}
    PROVE  PersistedValid(newPersistedPlan(plan))
<1> DEFINE kept == newPersistedPlan(plan)
           public == persistedTarget(target)
           config == persistedConfigDigest(name, public)
           filled == [public EXCEPT !.auth =
                        {[type |-> a.type, header |-> a.header,
                          ref |-> [scheme |-> "env", value |-> "name"]] : a \in public.auth}]
<1>1. /\ kept.name = name /\ kept.target = public
      /\ kept.intent = plan.intent /\ kept.resolved = plan.resolved
  BY Zenon DEF newPersistedPlan, Whole
<1>2. /\ public.scheme = target.scheme /\ public.host = target.host /\ public.plain = target.plain
      /\ public.protocol = target.protocol /\ public.model = target.model
      /\ public.auth = {[type |-> auth.type, header |-> auth.header] : auth \in target.auth}
  BY Zenon DEF persistedTarget
<1>3. /\ filled.scheme = target.scheme /\ filled.host = target.host /\ filled.plain = target.plain
      /\ filled.protocol = target.protocol /\ filled.model = target.model
      /\ filled.auth = {[type |-> a.type, header |-> a.header,
                         ref |-> [scheme |-> "env", value |-> "name"]] : a \in public.auth}
  BY Zenon DEF persistedTarget
<1>4. TargetValid(target) /\ validateAuthConfig(target)
  BY Zenon DEF Whole, Fits
<1>5. TargetValid(filled)
  <2> HIDE DEF filled, public
  <2>1. ASSUME NEW b \in filled.auth PROVE AuthValid(b)
    <3>1. PICK a \in public.auth : b = [type |-> a.type, header |-> a.header,
                                        ref |-> [scheme |-> "env", value |-> "name"]]
      BY <1>3, Zenon
    <3>2. PICK auth \in target.auth : a = [type |-> auth.type, header |-> auth.header]
      BY <1>2, Zenon
    <3>3. AuthValid(auth)
      BY <1>4, Zenon DEF TargetValid
    <3>4. /\ b.type = auth.type /\ b.header = auth.header
          /\ b.ref = [scheme |-> "env", value |-> "name"]
      BY <3>1, <3>2, Zenon
    <3>5. ParseSecretReference(b.ref)
      <4>1. b.ref.scheme = "env" /\ b.ref.value = "name"
        BY ONLY <3>4
      <4> QED BY ONLY <4>1 DEF ParseSecretReference
    <3> QED BY <3>3, <3>4, <3>5, Zenon DEF AuthValid
  <2> QED BY <1>3, <1>4, <2>1, Zenon DEF TargetValid
<1>6. validateAuthConfig(public)
  <2> HIDE DEF public
  <2> SUFFICES ASSUME NEW a \in public.auth PROVE authHeaderName(a) # {}
    BY Zenon DEF validateAuthConfig
  <2>1. PICK auth \in target.auth : a = [type |-> auth.type, header |-> auth.header]
    BY <1>2, Zenon
  <2>2. a.type = auth.type /\ a.header = auth.header
    BY <2>1, Zenon
  <2>3. authHeaderName(a) = authHeaderName(auth)
    BY <2>2, Zenon DEF authHeaderName
  <2> QED BY <1>4, <2>3, Zenon DEF validateAuthConfig
<1>7. /\ IntentValid(plan.intent) /\ ResolvedValid(plan.resolved)
      /\ plan.intent = [meta |-> SealMeta("IntentPlan", first, plan.intent.body), body |-> plan.intent.body]
      /\ plan.resolved = [meta |-> SealMeta("ResolvedRunPlan", second, plan.resolved.body),
                          body |-> plan.resolved.body]
      /\ plan.resolved.body.intent = plan.intent.meta.ref
      /\ plan.intent.body.config = config
      /\ plan.intent.body.support = d.artifacts.support
      /\ plan.resolved.body.support = d.artifacts.support
  BY Zenon DEF Whole, IntentIs, ResolvedIs
<1>t. /\ plan.intent.body.target = [logicalRef |-> name, protocolFamily |-> target.protocol,
                                    origin |-> d.route.origin]
      /\ plan.resolved.body.target = [fingerprint |-> config, configuration |-> config,
                                      model |-> target.model]
      /\ d.route.origin = Origin(target)
  BY Zenon DEF Whole, IntentIs, ResolvedIs, Fits
<1>8. plan.intent.meta.content = plan.intent.body /\ plan.resolved.meta.content = plan.resolved.body
  <2> DEFINE a == plan.intent.body
             b == plan.resolved.body
  <2>1. /\ plan.intent = [meta |-> SealMeta("IntentPlan", first, a), body |-> a]
        /\ plan.resolved = [meta |-> SealMeta("ResolvedRunPlan", second, b), body |-> b]
    BY <1>7, Zenon
  <2>2. plan.intent.meta.content = a /\ plan.resolved.meta.content = b
    <3> HIDE DEF a, b
    <3>1. /\ plan.intent.meta = SealMeta("IntentPlan", first, a)
          /\ plan.resolved.meta = SealMeta("ResolvedRunPlan", second, b)
      BY ONLY <2>1
    <3>2. /\ SealMeta("IntentPlan", first, a).content = a
          /\ SealMeta("ResolvedRunPlan", second, b).content = b
      BY Sealed, Zenon
    <3> QED BY ONLY <3>1, <3>2
  <2> QED BY <2>2, Zenon
<1>9. Origin(public) = Origin(target)
  <2> HIDE DEF public
  <2> QED BY <1>2, Zenon DEF Origin
<1> HIDE DEF kept, filled, public, config
<1>10. /\ plan.intent.body.target.logicalRef = name
       /\ plan.intent.body.target.protocolFamily = target.protocol
       /\ plan.intent.body.target.origin = Origin(target)
       /\ plan.resolved.body.target.model = target.model
       /\ plan.resolved.body.target.fingerprint = config
       /\ plan.resolved.body.target.configuration = config
  BY ONLY <1>t
<1>11. TargetValid([kept.target EXCEPT !.auth =
           {[type |-> a.type, header |-> a.header,
             ref |-> [scheme |-> "env", value |-> "name"]] : a \in kept.target.auth}])
  BY <1>1, <1>5, Zenon DEF filled
<1>12. plan.intent.body.config = persistedConfigDigest(kept.name, kept.target)
  BY <1>1, <1>7, Zenon DEF config
<1>13. verifyIntentEnvelope(plan.intent) /\ verifyResolvedEnvelope(plan.resolved)
  BY <1>7, <1>8, Zenon DEF verifyIntentEnvelope, verifyResolvedEnvelope
<1>14. PersistedValid(kept)
  BY <1>1, <1>2, <1>6, <1>7, <1>9, <1>10, <1>11, <1>12, <1>13, Zenon DEF PersistedValid
<1> QED BY <1>14, Zenon DEF kept

-----------------------------------------------------------------------------
\* The four values add up, one after another.
LEMMA AddUpFour ==
    ASSUME NEW values, DOMAIN values = 1..4, Len(values) = 4,
           \A i \in 1..4 : values[i] \in Nat
    PROVE  AddUp(values) = values[1] + values[2] + values[3] + values[4]
<1> DEFINE Adds(s) == s = [n \in 0..Len(values) |-> IF n = 0 THEN 0 ELSE s[n - 1] + values[n]]
           g == CHOOSE s : Adds(s)
           s1 == values[1]
           s2 == s1 + values[2]
           s3 == s2 + values[3]
           s4 == s3 + values[4]
           f0 == [n \in 0..4 |-> IF n = 0 THEN 0 ELSE IF n = 1 THEN s1 ELSE IF n = 2 THEN s2
                                 ELSE IF n = 3 THEN s3 ELSE s4]
<1>1. AddUp(values) = g[Len(values)]
  BY Zenon DEF AddUp
<1>2. values[1] \in Nat /\ values[2] \in Nat /\ values[3] \in Nat /\ values[4] \in Nat
  OBVIOUS
<1>3. s1 \in Nat /\ s1 = 0 + values[1]
  BY <1>2
<1>4. /\ f0[0] = 0 /\ f0[1] = s1 /\ f0[2] = s2 /\ f0[3] = s3 /\ f0[4] = s4
  <2> HIDE DEF s1, s2, s3, s4
  <2> QED OBVIOUS
<1>5. ASSUME NEW n \in 0..4 PROVE f0[n] = IF n = 0 THEN 0 ELSE f0[n - 1] + values[n]
  <2>1. n = 0 \/ n = 1 \/ n = 2 \/ n = 3 \/ n = 4
    OBVIOUS
  <2>2. 1 - 1 = 0 /\ 2 - 1 = 1 /\ 3 - 1 = 2 /\ 4 - 1 = 3 /\ 1 # 0 /\ 2 # 0 /\ 3 # 0 /\ 4 # 0
    OBVIOUS
  <2>3. f0[1] = f0[0] + values[1] /\ f0[2] = f0[1] + values[2] /\ f0[3] = f0[2] + values[3]
        /\ f0[4] = f0[3] + values[4]
    BY <1>3, <1>4, Zenon
  <2> HIDE DEF f0
  <2> QED BY <1>4, <2>1, <2>2, <2>3, Zenon
<1>6. f0 = [n \in 0..4 |-> f0[n]]
  BY Zenon
<1> HIDE DEF f0
<1>7. f0 = [n \in 0..4 |-> IF n = 0 THEN 0 ELSE f0[n - 1] + values[n]]
  BY <1>5, <1>6, Zenon
<1>8. Adds(f0)
  BY <1>7, Zenon
<1>9. Adds(g)
  BY <1>8, Zenon
<1> HIDE DEF g
<1>10. \A n \in 0..4 : g[n] = IF n = 0 THEN 0 ELSE g[n - 1] + values[n]
  BY <1>9, Zenon
<1>11. g[0] = 0 /\ g[1] = g[0] + values[1] /\ g[2] = g[1] + values[2] /\ g[3] = g[2] + values[3]
       /\ g[4] = g[3] + values[4]
  BY ONLY <1>10
<1>12. g[4] = values[1] + values[2] + values[3] + values[4]
  BY ONLY <1>2, <1>11
<1> QED BY <1>1, <1>12, Zenon

\* The same value four times.
LEMMA AddUpSame ==
    ASSUME NEW m, DOMAIN m = 1..4, NEW c \in Nat, NEW values, values = [i \in DOMAIN m |-> c]
    PROVE  AddUp(values) = 4 * c
<1>1. values = [i \in 1..4 |-> c]
  BY Zenon
<1>2. DOMAIN values = 1..4 /\ Len(values) = 4 /\ \A i \in 1..4 : values[i] \in Nat
  BY ONLY <1>1
<1>3. values[1] = c /\ values[2] = c /\ values[3] = c /\ values[4] = c
  BY ONLY <1>1
<1>4. AddUp(values) = values[1] + values[2] + values[3] + values[4]
  BY <1>2, AddUpFour, Zenon
<1> QED BY <1>3, <1>4

\* What the default budget allows.
Covered(materials, budget) ==
    /\ \A f \in {"requests", "requestBytes", "responseBytes", "artifactBytes"} :
         SumOf(materials, f) <= budget.hard[f]
    /\ SumOf(materials, "output") <= budget.reservation.output

\* No request of the pack is starved under it.
LEMMA DefaultCovers ==
    ASSUME NEW target, NEW entries, IsPack(target.protocol, entries),
           NEW m, Carries(target, entries, m), NEW k, Carries(target, entries, k)
    PROVE  Covered(m, defaultBudgetFor(k))
<1> DEFINE budget == defaultBudgetFor(k)
           tokens == [i \in 1..4 |-> entries[i].tokens]
<1>1. /\ DOMAIN m = 1..4 /\ DOMAIN k = 1..4 /\ Len(k) = 4
      /\ \A i \in 1..4 : /\ m[i].body.tokens = entries[i].tokens
                         /\ k[i].descriptor = entries[i]
  BY Zenon DEF Carries
<1>2. [i \in DOMAIN m |-> m[i].body.tokens] = tokens
      /\ [i \in DOMAIN k |-> k[i].descriptor.tokens] = tokens
  BY <1>1, Zenon
<1>3. SumOf(m, "output") = AddUp(tokens)
  <2>1. \A x : Estimated(x)["output"] = x.body.tokens
    BY DEF Estimated
  <2>2. [i \in DOMAIN m |-> Estimated(m[i])["output"]] = [i \in DOMAIN m |-> m[i].body.tokens]
    BY <2>1, Zenon
  <2> QED BY <1>2, <2>2, Zenon DEF SumOf
<1>4. SumTokens(k) = AddUp(tokens)
  BY <1>2, Zenon DEF SumTokens
<1>5. AddUp(tokens) \in Int
  <2>1. DOMAIN tokens = 1..4 /\ Len(tokens) = 4 /\ \A i \in 1..4 : tokens[i] \in Nat
    BY DEF IsPack
  <2>2. AddUp(tokens) = tokens[1] + tokens[2] + tokens[3] + tokens[4]
    <3> HIDE DEF tokens
    <3> QED BY <2>1, AddUpFour, Zenon
  <2> HIDE DEF tokens
  <2>3. tokens[1] \in Nat /\ tokens[2] \in Nat /\ tokens[3] \in Nat /\ tokens[4] \in Nat
    BY <2>1
  <2> QED BY <2>2, <2>3
<1> HIDE DEF tokens
<1>6. budget = [DefaultBudget(4) EXCEPT !.reservation.output = AddUp(tokens)]
  BY <1>1, <1>4, Zenon DEF defaultBudgetFor
<1>7. /\ budget.hard = DefaultBudget(4).hard /\ budget.reservation.output = AddUp(tokens)
  <2> HIDE DEF budget
  <2> QED BY ONLY <1>6 DEF DefaultBudget
<1>8. /\ budget.hard["requests"] = 4 * 1 /\ budget.hard["requestBytes"] = 4 * 65536
      /\ budget.hard["responseBytes"] = 4 * 524288 /\ budget.hard["artifactBytes"] = 4 * 9437184
  <2> HIDE DEF budget
  <2> QED BY ONLY <1>7 DEF DefaultBudget
<1>9. \A x : /\ Estimated(x)["requests"] = 1 /\ Estimated(x)["requestBytes"] = 65536
             /\ Estimated(x)["responseBytes"] = 524288 /\ Estimated(x)["artifactBytes"] = 8519680
  BY DEF Estimated
<1>10. ASSUME NEW f, NEW c \in Nat, \A x : Estimated(x)[f] = c PROVE SumOf(m, f) = 4 * c
  <2> DEFINE values == [i \in DOMAIN m |-> Estimated(m[i])[f]]
  <2>1. values = [i \in DOMAIN m |-> c]
    BY <1>10, Zenon
  <2>2. SumOf(m, f) = AddUp(values)
    BY Zenon DEF SumOf
  <2> HIDE DEF values
  <2> QED BY <1>1, <2>1, <2>2, AddUpSame, Zenon
<1>11. 1 \in Nat /\ 65536 \in Nat /\ 524288 \in Nat /\ 8519680 \in Nat
  OBVIOUS
<1>12. /\ SumOf(m, "requests") = 4 * 1 /\ SumOf(m, "requestBytes") = 4 * 65536
       /\ SumOf(m, "responseBytes") = 4 * 524288 /\ SumOf(m, "artifactBytes") = 4 * 8519680
  <2>1. SumOf(m, "requests") = 4 * 1
    BY ONLY <1>9, <1>10, <1>11
  <2>2. SumOf(m, "requestBytes") = 4 * 65536
    BY ONLY <1>9, <1>10, <1>11
  <2>3. SumOf(m, "responseBytes") = 4 * 524288
    BY ONLY <1>9, <1>10, <1>11
  <2>4. SumOf(m, "artifactBytes") = 4 * 8519680
    BY ONLY <1>9, <1>10, <1>11
  <2> QED BY ONLY <2>1, <2>2, <2>3, <2>4
<1> HIDE DEF budget
<1>13. /\ SumOf(m, "requests") <= budget.hard["requests"]
       /\ SumOf(m, "requestBytes") <= budget.hard["requestBytes"]
       /\ SumOf(m, "responseBytes") <= budget.hard["responseBytes"]
       /\ SumOf(m, "artifactBytes") <= budget.hard["artifactBytes"]
  BY ONLY <1>8, <1>12
<1>14. SumOf(m, "output") <= budget.reservation.output
  BY ONLY <1>3, <1>5, <1>7
<1> QED BY <1>13, <1>14, Zenon DEF Covered, budget

-----------------------------------------------------------------------------
\* What the caller's changes leave of a plan: the envelopes' metadata, the
\* name it is executed under, and all of the executed target but its model.
Shaped(plan) ==
    plan \in [name : {plan.name}, target : {plan.target}, execution : {plan.execution},
              intent : {plan.intent}, resolved : {plan.resolved}]

Keeps(old, target, plan) ==
    /\ Shaped(plan)
    /\ plan.intent = [meta |-> old.intent.meta, body |-> plan.intent.body]
    /\ plan.resolved = [meta |-> old.resolved.meta, body |-> plan.resolved.body]
    /\ plan.execution = [name |-> old.name, target |-> plan.execution.target]
    /\ plan.execution.target \in {target, [target EXCEPT !.model = OtherModel]}

Held(request, plan) == \E old \in Build(request) : Keeps(old, request.target, plan)

\* A change to the target or the name.
LEMMA SurfaceKeeps ==
    ASSUME NEW old, NEW target, NEW plan, Keeps(old, target, plan), NEW new, Shaped(new),
           new.intent = plan.intent, new.resolved = plan.resolved, new.execution = plan.execution
    PROVE  Keeps(old, target, new)
BY Zenon DEF Keeps

\* A change behind the caller's pointers.
LEMMA SharedEditKeeps ==
    ASSUME NEW old, NEW target, NEW plan, Keeps(old, target, plan), NEW new \in SharedEdits(plan)
    PROVE  Keeps(old, target, new)
<1>1. Shaped(plan)
  BY Zenon DEF Keeps
<1>2. \/ new = [plan EXCEPT !.target.auth = {[auth EXCEPT !.ref = OtherRef] : auth \in @}]
      \/ new = [plan EXCEPT !.target.metadata = "edited"]
      \/ new = [plan EXCEPT !.resolved.body.scenarios[1].disposition = "skip"]
  BY Zenon DEF SharedEdits
<1>3. CASE new = [plan EXCEPT !.target.auth = {[auth EXCEPT !.ref = OtherRef] : auth \in @}]
  <2>1. /\ Shaped(new) /\ new.intent = plan.intent /\ new.resolved = plan.resolved
        /\ new.execution = plan.execution
    BY ONLY <1>1, <1>3, Zenon DEF Shaped
  <2> QED BY <2>1, SurfaceKeeps, Zenon
<1>4. CASE new = [plan EXCEPT !.target.metadata = "edited"]
  <2>1. /\ Shaped(new) /\ new.intent = plan.intent /\ new.resolved = plan.resolved
        /\ new.execution = plan.execution
    BY ONLY <1>1, <1>4 DEF Shaped
  <2> QED BY <2>1, SurfaceKeeps, Zenon
<1>5. CASE new = [plan EXCEPT !.resolved.body.scenarios[1].disposition = "skip"]
  <2>1. /\ Shaped(new) /\ new.intent = plan.intent /\ new.execution = plan.execution
        /\ new.resolved = [plan.resolved EXCEPT !.body.scenarios[1].disposition = "skip"]
    BY ONLY <1>1, <1>5 DEF Shaped
  <2>2. plan.resolved = [meta |-> old.resolved.meta, body |-> plan.resolved.body]
    BY Zenon DEF Keeps
  <2>3. new.resolved = [meta |-> old.resolved.meta, body |-> new.resolved.body]
    BY ONLY <2>1, <2>2
  <2> QED BY <2>1, <2>3, Zenon DEF Keeps
<1> QED BY <1>2, <1>3, <1>4, <1>5, Zenon

\* Any change of the caller's.
LEMMA OwnEditKeeps ==
    ASSUME NEW old, NEW target, NEW plan, Keeps(old, target, plan), NEW new \in OwnEdits(plan)
    PROVE  Keeps(old, target, new)
<1>1. /\ Shaped(plan)
      /\ plan.intent = [meta |-> old.intent.meta, body |-> plan.intent.body]
      /\ plan.resolved = [meta |-> old.resolved.meta, body |-> plan.resolved.body]
      /\ plan.execution = [name |-> old.name, target |-> plan.execution.target]
      /\ plan.execution.target \in {target, [target EXCEPT !.model = OtherModel]}
  BY Zenon DEF Keeps
<1>2. \/ new \in SharedEdits(plan)
      \/ new = [plan EXCEPT !.target.model = OtherModel]
      \/ new = [plan EXCEPT !.name = "renamed"]
      \/ new = [plan EXCEPT !.intent.body.budget.hard.requests = @ + 1]
      \/ new = [plan EXCEPT !.resolved.body.scenarios = SubSeq(@, 1, Len(@) - 1)]
      \/ new = [plan EXCEPT !.execution.target.model = OtherModel]
  BY Zenon DEF OwnEdits
<1>3. CASE new \in SharedEdits(plan)
  BY <1>3, SharedEditKeeps, Zenon
<1>4. CASE new = [plan EXCEPT !.target.model = OtherModel]
  <2>1. /\ Shaped(new) /\ new.intent = plan.intent /\ new.resolved = plan.resolved
        /\ new.execution = plan.execution
    BY ONLY <1>1, <1>4 DEF Shaped
  <2> QED BY <2>1, SurfaceKeeps, Zenon
<1>5. CASE new = [plan EXCEPT !.name = "renamed"]
  <2>1. /\ Shaped(new) /\ new.intent = plan.intent /\ new.resolved = plan.resolved
        /\ new.execution = plan.execution
    BY ONLY <1>1, <1>5 DEF Shaped
  <2> QED BY <2>1, SurfaceKeeps, Zenon
<1>6. CASE new = [plan EXCEPT !.intent.body.budget.hard.requests = @ + 1]
  <2> DEFINE more == plan.intent.body.budget.hard.requests + 1
  <2>1. /\ Shaped(new) /\ new.resolved = plan.resolved /\ new.execution = plan.execution
        /\ new.intent = [plan.intent EXCEPT !.body.budget.hard.requests = more]
    BY ONLY <1>1, <1>6 DEF Shaped
  <2> HIDE DEF more
  <2>2. new.intent = [meta |-> old.intent.meta, body |-> new.intent.body]
    BY ONLY <1>1, <2>1
  <2> QED BY <1>1, <2>1, <2>2, Zenon DEF Keeps
<1>7. CASE new = [plan EXCEPT !.resolved.body.scenarios = SubSeq(@, 1, Len(@) - 1)]
  <2> DEFINE fewer == SubSeq(plan.resolved.body.scenarios, 1, Len(plan.resolved.body.scenarios) - 1)
  <2>1. /\ Shaped(new) /\ new.intent = plan.intent /\ new.execution = plan.execution
        /\ new.resolved = [plan.resolved EXCEPT !.body.scenarios = fewer]
    BY ONLY <1>1, <1>7 DEF Shaped
  <2> HIDE DEF fewer
  <2>2. new.resolved = [meta |-> old.resolved.meta, body |-> new.resolved.body]
    BY ONLY <1>1, <2>1
  <2> QED BY <1>1, <2>1, <2>2, Zenon DEF Keeps
<1>8. CASE new = [plan EXCEPT !.execution.target.model = OtherModel]
  <2>1. /\ Shaped(new) /\ new.intent = plan.intent /\ new.resolved = plan.resolved
        /\ new.execution = [plan.execution EXCEPT !.target.model = OtherModel]
    BY ONLY <1>1, <1>8 DEF Shaped
  <2>2. new.execution = [name |-> old.name,
                         target |-> [plan.execution.target EXCEPT !.model = OtherModel]]
    BY ONLY <1>1, <2>1
  <2>3. new.execution.target = [plan.execution.target EXCEPT !.model = OtherModel]
    BY ONLY <2>2
  <2>4. [plan.execution.target EXCEPT !.model = OtherModel] = [target EXCEPT !.model = OtherModel]
    BY ONLY <1>1
  <2> QED BY <1>1, <2>1, <2>2, <2>3, <2>4, Zenon DEF Keeps
<1> QED BY <1>2, <1>3, <1>4, <1>5, <1>6, <1>7, <1>8, Zenon

\* What Build returns has the shape.
LEMMA BuildKeeps ==
    ASSUME NEW request, NEW plan \in Build(request)
    PROVE  Keeps(plan, request.target, plan)
<1>1. PICK budget, d : BuiltFor(request, budget, plan, d)
  BY BuildFacts, Zenon
<1> DEFINE name == RunName(request)
           target == request.target
<1>2. /\ Built(name, target, budget, "local-user", request.ids[1], request.ids[2], plan, d)
      /\ Whole(name, target, budget, "local-user", request.ids[1], request.ids[2], plan, d)
  BY <1>1, BuiltIsWhole, Zenon DEF BuiltFor
<1> HIDE DEF name, target
<1>3. plan = [name |-> name, target |-> target, execution |-> [name |-> name, target |-> target],
              intent |-> plan.intent, resolved |-> plan.resolved]
  BY <1>2, Zenon DEF Built, PlannedRun
<1>4. /\ plan.intent = [meta |-> SealMeta("IntentPlan", request.ids[1], plan.intent.body),
                        body |-> plan.intent.body]
      /\ plan.resolved = [meta |-> SealMeta("ResolvedRunPlan", request.ids[2], plan.resolved.body),
                          body |-> plan.resolved.body]
      /\ plan.name = name /\ plan.execution = [name |-> name, target |-> target]
  BY <1>2, Zenon DEF Whole, IntentIs, ResolvedIs
<1>5. Shaped(plan)
  BY ONLY <1>3 DEF Shaped
<1>6. plan.intent = [meta |-> plan.intent.meta, body |-> plan.intent.body]
  BY ONLY <1>4
<1>7. plan.resolved = [meta |-> plan.resolved.meta, body |-> plan.resolved.body]
  BY ONLY <1>4
<1>8. plan.execution.target = target
  BY ONLY <1>4
<1>9. plan.execution = [name |-> plan.name, target |-> plan.execution.target]
  BY ONLY <1>4, <1>8
<1> QED BY <1>5, <1>6, <1>7, <1>8, <1>9, Zenon DEF Keeps, target

-----------------------------------------------------------------------------
\* What the envelopes of a plan say of the configuration it was made for.
Says(plan, name, target) ==
    /\ plan.intent.meta.content = plan.intent.body
    /\ plan.resolved.meta.content = plan.resolved.body
    /\ plan.resolved.body.target.model = target.model
    /\ plan.execution.name = name /\ plan.execution.target = target

\* A whole plan says so.
LEMMA WholeSays ==
    ASSUME NEW name, NEW target, NEW budget, NEW author, NEW first, NEW second, NEW plan, NEW d,
           Whole(name, target, budget, author, first, second, plan, d)
    PROVE  Says(plan, name, target)
<1>1. /\ plan.intent = [meta |-> SealMeta("IntentPlan", first, plan.intent.body),
                        body |-> plan.intent.body]
      /\ plan.resolved = [meta |-> SealMeta("ResolvedRunPlan", second, plan.resolved.body),
                          body |-> plan.resolved.body]
      /\ plan.resolved.body.target =
            [fingerprint |-> persistedConfigDigest(name, persistedTarget(target)),
             configuration |-> persistedConfigDigest(name, persistedTarget(target)),
             model |-> target.model]
      /\ plan.execution = [name |-> name, target |-> target]
  BY Zenon DEF Whole, IntentIs, ResolvedIs
<1>2. /\ plan.intent.meta = SealMeta("IntentPlan", first, plan.intent.body)
      /\ plan.resolved.meta = SealMeta("ResolvedRunPlan", second, plan.resolved.body)
  BY ONLY <1>1
<1>3. /\ plan.intent.meta.content = plan.intent.body
      /\ plan.resolved.meta.content = plan.resolved.body
  <2>1. SealMeta("IntentPlan", first, plan.intent.body).content = plan.intent.body
    BY ONLY Sealed, Zenon
  <2>2. SealMeta("ResolvedRunPlan", second, plan.resolved.body).content = plan.resolved.body
    BY ONLY Sealed, Zenon
  <2> QED BY ONLY <1>2, <2>1, <2>2
<1>4. /\ plan.resolved.body.target.model = target.model
      /\ plan.execution.name = name /\ plan.execution.target = target
  BY ONLY <1>1
<1> QED BY <1>3, <1>4, Zenon DEF Says

\* A changed plan that passes validatePlanned has not been changed after all.
LEMMA ValidatedIsBuilt ==
    ASSUME NEW request \in PlanRequests, NEW plan, Held(request, plan), validatePlanned(plan)
    PROVE  plan \in Build(request)
<1> DEFINE target == request.target
<1>1. PICK old \in Build(request) : Keeps(old, target, plan)
  BY Zenon DEF Held
<1>2. PICK budget, d : BuiltFor(request, budget, old, d)
  BY <1>1, BuildFacts, Zenon
<1>3. /\ Built(RunName(request), target, budget, "local-user", request.ids[1], request.ids[2], old, d)
      /\ Whole(RunName(request), target, budget, "local-user", request.ids[1], request.ids[2], old, d)
  BY <1>2, BuiltIsWhole, Zenon DEF BuiltFor
<1>4. PICK expected \in buildExact(plan.name, plan.target, plan.intent.body.budget,
                                   plan.intent.body.author,
                                   <<plan.intent.body.id, plan.resolved.body.id>>) :
         /\ plan.execution = expected.execution /\ plan.intent = expected.intent
         /\ plan.resolved = expected.resolved
  BY Zenon DEF validatePlanned
<1> DEFINE ids == <<plan.intent.body.id, plan.resolved.body.id>>
<1>5. PICK e : Whole(plan.name, plan.target, plan.intent.body.budget, plan.intent.body.author,
                     ids[1], ids[2], expected, e)
  BY <1>4, ExactIsBuilt, BuiltIsWhole, ZenonT(30)
<1>6. /\ plan.intent.meta.content = plan.intent.body
      /\ plan.resolved.meta.content = plan.resolved.body
      /\ plan.resolved.body.target.model = plan.target.model
      /\ plan.execution.name = plan.name /\ plan.execution.target = plan.target
  <2>1. Says(expected, plan.name, plan.target)
    BY <1>5, WholeSays, Zenon
  <2> QED BY ONLY <1>4, <2>1 DEF Says
<1>7. /\ old.intent.meta.content = old.intent.body
      /\ old.resolved.meta.content = old.resolved.body
      /\ old.resolved.body.target.model = target.model
      /\ old.execution.name = RunName(request) /\ old.execution.target = target
      /\ old.name = RunName(request) /\ old.target = target
      /\ old.execution = [name |-> RunName(request), target |-> target]
  <2>1. Says(old, RunName(request), target)
    BY <1>3, WholeSays, Zenon
  <2>2. /\ old.name = RunName(request) /\ old.target = target
        /\ old.execution = [name |-> RunName(request), target |-> target]
    BY <1>3, Zenon DEF Whole
  <2> QED BY ONLY <2>1, <2>2, Zenon DEF Says
<1>8. Keeps(old, target, old)
  BY BuildKeeps, Zenon
<1>9. plan.intent = old.intent
  <2>1. plan.intent = [meta |-> old.intent.meta, body |-> plan.intent.body]
    BY <1>1, Zenon DEF Keeps
  <2>2. old.intent = [meta |-> old.intent.meta, body |-> old.intent.body]
    BY <1>8, Zenon DEF Keeps
  <2>3. plan.intent.meta = old.intent.meta
    BY ONLY <2>1
  <2>4. plan.intent.body = old.intent.body
    BY <1>6, <1>7, <2>3, Zenon
  <2> QED BY ONLY <2>1, <2>2, <2>4, Zenon
<1>10. plan.resolved = old.resolved
  <2>1. plan.resolved = [meta |-> old.resolved.meta, body |-> plan.resolved.body]
    BY <1>1, Zenon DEF Keeps
  <2>2. old.resolved = [meta |-> old.resolved.meta, body |-> old.resolved.body]
    BY <1>8, Zenon DEF Keeps
  <2>3. plan.resolved.meta = old.resolved.meta
    BY ONLY <2>1
  <2>4. plan.resolved.body = old.resolved.body
    BY <1>6, <1>7, <2>3, Zenon
  <2> QED BY ONLY <2>1, <2>2, <2>4, Zenon
<1>11. plan.name = old.name
  <2>1. plan.execution = [name |-> old.name, target |-> plan.execution.target]
    BY <1>1, Zenon DEF Keeps
  <2>2. plan.execution.name = old.name
    BY ONLY <2>1
  <2> QED BY <1>6, <2>2, Zenon
<1>12. plan.target = target
  <2>1. plan.target \in {target, [target EXCEPT !.model = OtherModel]}
    BY <1>1, <1>6, Zenon DEF Keeps
  <2>2. plan.target.model = target.model
    BY <1>6, <1>7, <1>10, Zenon
  <2>3. target = [scheme |-> target.scheme, host |-> target.host, plain |-> target.plain,
                  path |-> target.path, escaped |-> target.escaped, protocol |-> target.protocol,
                  model |-> target.model, auth |-> target.auth, metadata |-> target.metadata]
    BY PlanningConstants, Zenon
  <2> HIDE DEF target
  <2>4. CASE plan.target = [target EXCEPT !.model = OtherModel]
    <3>1. plan.target.model = OtherModel
      BY ONLY <2>3, <2>4
    <3>2. OtherModel = target.model
      BY <2>2, <3>1, Zenon
    <3>3. [target EXCEPT !.model = target.model] = target
      BY ONLY <2>3
    <3> QED BY ONLY <2>4, <3>2, <3>3, Zenon
  <2> QED BY <2>1, <2>4, Zenon
<1>13. plan.execution = old.execution
  <2>1. plan.execution = [name |-> old.name, target |-> plan.execution.target]
    BY <1>1, Zenon DEF Keeps
  <2> QED BY ONLY <1>6, <1>7, <1>12, <2>1, Zenon
<1>14. plan = old
  <2>1. Shaped(plan) /\ Shaped(old)
    BY <1>1, <1>8, Zenon DEF Keeps
  <2>2. old.target = plan.target
    BY <1>7, <1>12, Zenon
  <2> QED BY ONLY <1>9, <1>10, <1>11, <1>13, <2>1, <2>2 DEF Shaped
<1> QED BY <1>1, <1>14, Zenon

\* And one nobody changed passes every check, but for the reserved name.
LEMMA BuiltPasses ==
    ASSUME NEW request, NEW plan \in Build(request)
    PROVE  /\ validatePlanned(plan)
           /\ request.name # "latest" => PlanJSON(plan) # {}
<1>1. PICK budget, d : BuiltFor(request, budget, plan, d)
  BY BuildFacts, Zenon
<1>2. /\ Built(RunName(request), request.target, budget, "local-user", request.ids[1],
               request.ids[2], plan, d)
      /\ Whole(RunName(request), request.target, budget, "local-user", request.ids[1],
               request.ids[2], plan, d)
  BY <1>1, BuiltIsWhole, Zenon DEF BuiltFor
<1>3. validatePlanned(plan)
  BY <1>2, WholeIsPlanned, Zenon
<1>4. ASSUME request.name # "latest" PROVE PlanJSON(plan) # {}
  <2>1. RunName(request) \notin {"", "latest"}
    BY <1>4, Zenon DEF RunName
  <2>2. PersistedValid(newPersistedPlan(plan))
    BY <1>2, <2>1, WholePersists, Zenon
  <2> QED BY <1>3, <2>2, Zenon DEF PlanJSON
<1> QED BY <1>3, <1>4, Zenon

-----------------------------------------------------------------------------
\* What an admitted run sends and keeps, for the request its plan was built from.
AsPlanned(request, plan, snapshot, sends) ==
    /\ plan.target = request.target
    /\ \A send \in sends :
         /\ send.plan = plan.resolved.body
         /\ send.material.body.model = request.target.model
         /\ {h.ref : h \in send.headers} = {a.ref : a \in request.target.auth}
    /\ {send.material.descriptor.id : send \in sends} = plan.intent.body.denominator
    /\ plan.intent.body.denominator = plan.resolved.body.denominator
    /\ DecodePlanJSON(snapshot)
    /\ snapshot.target = persistedTarget(request.target)
    /\ \A pack \in plan.intent.body.selectors :
         request.budget = {} =>
           /\ \A f \in {"requests", "requestBytes", "responseBytes", "artifactBytes"} :
                SumOf(pack.materials, f) <= plan.resolved.body.budget.hard[f]
           /\ SumOf(pack.materials, "output") <= plan.resolved.body.budget.reservation.output

\* The requests that materializeScenarios makes of a plan.
Sent(plan, headers) ==
    UNION {UNION {materializeScenarios(d.artifacts, plan.resolved.meta.content, h) :
                    h \in headers} : d \in Derived(plan.target)}

Request(content, d, i, h) ==
    [plan |-> content, material |-> d.artifacts.pack.materials[i], headers |-> h]

ComeFrom(sends, target, content, headers) ==
    /\ \A send \in sends : \E d \in Derived(target) : \E h \in headers :
         \E i \in DOMAIN d.artifacts.pack.materials : send = Request(content, d, i, h)
    /\ \A d \in Derived(target) : \A h \in headers :
         \A i \in DOMAIN d.artifacts.pack.materials : Request(content, d, i, h) \in sends

\* Each comes from an artifact, a scenario of it and the resolved headers.
LEMMA SentIs ==
    ASSUME NEW plan, NEW headers
    PROVE  ComeFrom(Sent(plan, headers), plan.target, plan.resolved.meta.content, headers)
<1> DEFINE content == plan.resolved.meta.content
           Inner(d) == UNION {materializeScenarios(d.artifacts, content, h) : h \in headers}
<1>1. Sent(plan, headers) = UNION {Inner(d) : d \in Derived(plan.target)}
  BY Zenon DEF Sent
<1>2. \A d, h : materializeScenarios(d.artifacts, content, h) =
                  {Request(content, d, i, h) : i \in DOMAIN d.artifacts.pack.materials}
  BY Zenon DEF materializeScenarios, Request
<1> HIDE DEF content
<1>3. ASSUME NEW send \in Sent(plan, headers)
      PROVE  \E d \in Derived(plan.target) : \E h \in headers :
               \E i \in DOMAIN d.artifacts.pack.materials : send = Request(content, d, i, h)
  <2>1. PICK d \in Derived(plan.target) : send \in Inner(d)
    <3> HIDE DEF Inner
    <3> QED BY <1>1, <1>3, Zenon
  <2>2. PICK h \in headers : send \in materializeScenarios(d.artifacts, content, h)
    BY <2>1, Zenon
  <2>3. materializeScenarios(d.artifacts, content, h) =
          {Request(content, d, i, h) : i \in DOMAIN d.artifacts.pack.materials}
    BY <1>2, Zenon
  <2>4. PICK i \in DOMAIN d.artifacts.pack.materials : send = Request(content, d, i, h)
    BY ONLY <2>2, <2>3, Zenon
  <2> QED BY ONLY <2>4, Zenon
<1>4. ASSUME NEW d \in Derived(plan.target), NEW h \in headers,
             NEW i \in DOMAIN d.artifacts.pack.materials
      PROVE  Request(content, d, i, h) \in Sent(plan, headers)
  <2>1. Request(content, d, i, h) \in materializeScenarios(d.artifacts, content, h)
    BY <1>2, ZenonT(30)
  <2>2. Request(content, d, i, h) \in Inner(d)
    BY <2>1, Zenon
  <2> HIDE DEF Inner
  <2> QED BY <1>1, <2>2, Zenon
<1> QED BY <1>3, <1>4, Zenon DEF ComeFrom, content

\* The resolved headers carry the references of the target.
LEMMA HeadersCarry ==
    ASSUME NEW target, validateAuthConfig(target), NEW credential,
           NEW headers \in resolveAuth(target, credential)
    PROVE  {h.ref : h \in headers} = {a.ref : a \in target.auth}
<1>1. CASE target.auth = {}
  <2>1. headers = {}
    BY <1>1, Zenon DEF resolveAuth
  <2> QED BY <1>1, <2>1, Zenon
<1>2. CASE target.auth # {}
  <2> DEFINE Of(auth) == {[header |-> name, ref |-> auth.ref] : name \in authHeaderName(auth)}
  <2>1. headers = UNION {Of(auth) : auth \in target.auth}
    BY <1>2, Zenon DEF resolveAuth
  <2>2. ASSUME NEW auth \in target.auth PROVE \E h \in Of(auth) : h.ref = auth.ref
    <3>1. PICK name \in authHeaderName(auth) : TRUE
      BY Zenon DEF validateAuthConfig
    <3>2. [header |-> name, ref |-> auth.ref] \in Of(auth)
      BY <3>1, Zenon
    <3>3. [header |-> name, ref |-> auth.ref].ref = auth.ref
      BY Zenon
    <3> QED BY <3>2, <3>3, Zenon
  <2>3. ASSUME NEW auth, NEW h \in Of(auth) PROVE h.ref = auth.ref
    <3>1. PICK name \in authHeaderName(auth) : h = [header |-> name, ref |-> auth.ref]
      BY <2>3, Zenon
    <3> QED BY ONLY <3>1
  <2> HIDE DEF Of
  <2>4. ASSUME NEW h \in headers PROVE \E a \in target.auth : h.ref = a.ref
    <3>1. PICK a \in target.auth : h \in Of(a)
      BY <2>1, <2>4, Zenon
    <3>2. h.ref = a.ref
      BY <2>3, <3>1, Zenon
    <3> QED BY <3>2, Zenon
  <2>5. ASSUME NEW a \in target.auth PROVE \E h \in headers : h.ref = a.ref
    BY <2>1, <2>2, Zenon
  <2> QED BY ONLY <2>4, <2>5
<1> QED BY <1>1, <1>2, Zenon

\* An admitted plan is sent as planned.
LEMMA AdmittedIsPlanned ==
    ASSUME NEW request, NEW plan \in Build(request), NEW credential,
           PlanJSON(plan) # {}, resolveAuth(plan.target, credential) # {}
    PROVE  AsPlanned(request, plan, CHOOSE snapshot \in PlanJSON(plan) : TRUE,
                     Sent(plan, resolveAuth(plan.target, credential)))
<1> DEFINE target == request.target
           headers == resolveAuth(target, credential)
           sends == Sent(plan, headers)
           snapshot == CHOOSE s \in PlanJSON(plan) : TRUE
           content == plan.resolved.meta.content
<1>1. PICK budget, d0 : BuiltFor(request, budget, plan, d0)
  BY BuildFacts, Zenon
<1>2. /\ Built(RunName(request), target, budget, "local-user", request.ids[1], request.ids[2], plan, d0)
      /\ Whole(RunName(request), target, budget, "local-user", request.ids[1], request.ids[2], plan, d0)
      /\ request.budget = {} => DefaultFor(request, budget)
  BY <1>1, BuiltIsWhole, Zenon DEF BuiltFor
<1>3. plan.target = target /\ d0 \in Derived(target) /\ Fits(target, d0)
  BY <1>2, Zenon DEF Whole, Built
<1>4. Says(plan, RunName(request), target)
  BY <1>2, WholeSays, Zenon
<1>5. /\ plan.intent.body.selectors = {d0.artifacts.pack}
      /\ plan.intent.body.denominator = Identifiers(Plain(d0.artifacts))
      /\ plan.resolved.body.denominator = Identifiers(Plain(d0.artifacts))
      /\ plan.resolved.body.budget = budget
  BY <1>2, Zenon DEF Whole, IntentIs, ResolvedIs
<1>6. PICK entries : /\ IsPack(target.protocol, entries)
                     /\ Carries(target, entries, d0.artifacts.pack.materials)
  BY <1>3, Zenon DEF Fits
<1>7. ASSUME NEW d \in Derived(target) PROVE Carries(target, entries, d.artifacts.pack.materials)
  <2>1. Fits(target, d)
    BY DerivedFacts, Zenon
  <2>2. PICK others : /\ IsPack(target.protocol, others)
                      /\ Carries(target, others, d.artifacts.pack.materials)
    BY <2>1, Zenon DEF Fits
  <2>3. others = entries
    BY <1>6, <2>2, Zenon DEF IsPack
  <2> QED BY <2>2, <2>3, Zenon
<1>8. validateAuthConfig(target)
  BY <1>3, Zenon DEF Fits
<1> HIDE DEF target, headers, sends, snapshot, content
<1>9. /\ \A send \in sends : \E d \in Derived(target) : \E h \in headers :
              \E i \in DOMAIN d.artifacts.pack.materials : send = Request(content, d, i, h)
      /\ \A d \in Derived(target) : \A h \in headers :
              \A i \in DOMAIN d.artifacts.pack.materials : Request(content, d, i, h) \in sends
  <2>1. ComeFrom(sends, plan.target, content, headers)
    BY SentIs, Zenon DEF sends, content
  <2>2. ComeFrom(sends, target, content, headers)
    BY ONLY <1>3, <2>1, Zenon
  <2> QED BY ONLY <2>2, Zenon DEF ComeFrom
<1>10. \A d, i, h : /\ Request(content, d, i, h).plan = content
                    /\ Request(content, d, i, h).material = d.artifacts.pack.materials[i]
                    /\ Request(content, d, i, h).headers = h
  BY Zenon DEF Request
<1>11. ASSUME NEW send \in sends
       PROVE  /\ send.plan = plan.resolved.body
              /\ send.material.body.model = target.model
              /\ {h.ref : h \in send.headers} = {a.ref : a \in target.auth}
  <2>1a. PICK d \in Derived(target) : \E h \in headers :
             \E i \in DOMAIN d.artifacts.pack.materials : send = Request(content, d, i, h)
    BY <1>9, Zenon
  <2>1b. PICK h \in headers :
             \E i \in DOMAIN d.artifacts.pack.materials : send = Request(content, d, i, h)
    BY <2>1a, Zenon
  <2>1. PICK i \in DOMAIN d.artifacts.pack.materials : send = Request(content, d, i, h)
    BY <2>1b, Zenon
  <2>2. /\ send.plan = content /\ send.material = d.artifacts.pack.materials[i]
        /\ send.headers = h
    <3>1. /\ Request(content, d, i, h).plan = content /\ Request(content, d, i, h).headers = h
          /\ Request(content, d, i, h).material = d.artifacts.pack.materials[i]
      BY ONLY Zenon DEF Request
    <3> QED BY ONLY <2>1, <3>1, Zenon
  <2>3. i \in 1..4 /\ d.artifacts.pack.materials[i].body.model = target.model
    BY <1>7, Zenon DEF Carries
  <2>4. {x.ref : x \in h} = {a.ref : a \in target.auth}
    BY <1>8, HeadersCarry, Zenon DEF headers
  <2>5. content = plan.resolved.body
    BY <1>4, Zenon DEF Says, content
  <2> QED BY <2>2, <2>3, <2>4, <2>5, Zenon
<1>12. {send.material.descriptor.id : send \in sends} = {entries[i].id : i \in 1..4}
  <2>1. ASSUME NEW send \in sends PROVE \E i \in 1..4 : send.material.descriptor.id = entries[i].id
    <3>1a. PICK d \in Derived(target) : \E h \in headers :
               \E i \in DOMAIN d.artifacts.pack.materials : send = Request(content, d, i, h)
      BY <1>9, Zenon
    <3>1b. PICK h \in headers :
               \E i \in DOMAIN d.artifacts.pack.materials : send = Request(content, d, i, h)
      BY <3>1a, Zenon
    <3>1. PICK i \in DOMAIN d.artifacts.pack.materials : send = Request(content, d, i, h)
      BY <3>1b, Zenon
    <3>2. send.material = d.artifacts.pack.materials[i]
      BY <1>10, <3>1, Zenon
    <3>3. i \in 1..4 /\ d.artifacts.pack.materials[i].descriptor = entries[i]
      BY <1>7, Zenon DEF Carries
    <3> QED BY <3>2, <3>3, Zenon
  <2>2. ASSUME NEW i \in 1..4 PROVE \E send \in sends : send.material.descriptor.id = entries[i].id
    <3>1. PICK h \in headers : TRUE
      BY <1>3, Zenon DEF headers
    <3>2. /\ i \in DOMAIN d0.artifacts.pack.materials
          /\ d0.artifacts.pack.materials[i].descriptor = entries[i]
      BY <1>6, Zenon DEF Carries
    <3>3. Request(content, d0, i, h) \in sends
      BY <1>3, <1>9, <3>2, Zenon
    <3>4. Request(content, d0, i, h).material = d0.artifacts.pack.materials[i]
      BY <1>10, Zenon
    <3>5. Request(content, d0, i, h).material.descriptor.id = entries[i].id
      BY <3>2, <3>4, Zenon
    <3> QED BY <3>3, <3>5, Zenon
  <2> QED BY ONLY <2>1, <2>2
<1>13. Identifiers(Plain(d0.artifacts)) = {entries[i].id : i \in 1..4}
  <2> DEFINE materials == d0.artifacts.pack.materials
  <2>1. DOMAIN materials = 1..4 /\ \A i \in 1..4 : materials[i].descriptor = entries[i]
    BY <1>6, Zenon DEF Carries
  <2>2. /\ DOMAIN Plain(d0.artifacts) = 1..4
        /\ \A i \in 1..4 : Plain(d0.artifacts)[i].id = entries[i].id
    <3>1. Plain(d0.artifacts) = [i \in DOMAIN materials |->
             [id |-> materials[i].descriptor.id, capabilities |-> <<>>, dependsOn |-> {}]]
      BY Zenon DEF Plain
    <3> HIDE DEF materials
    <3>2. Plain(d0.artifacts) = [i \in 1..4 |->
             [id |-> materials[i].descriptor.id, capabilities |-> <<>>, dependsOn |-> {}]]
      BY <2>1, <3>1, Zenon
    <3> QED BY ONLY <2>1, <3>2
  <2> QED BY ONLY <2>2, Zenon DEF Identifiers
<1>14. DecodePlanJSON(snapshot) /\ snapshot.target = persistedTarget(target)
  <2>1. snapshot \in PlanJSON(plan)
    BY Zenon DEF snapshot
  <2>2. snapshot = newPersistedPlan(plan) /\ PersistedValid(snapshot)
    BY <2>1, Zenon DEF PlanJSON
  <2>3. newPersistedPlan(plan).target = persistedTarget(plan.target)
    BY Zenon DEF newPersistedPlan
  <2> QED BY <1>3, <2>2, <2>3, Zenon DEF DecodePlanJSON
<1>15. ASSUME NEW pack \in plan.intent.body.selectors, request.budget = {}
       PROVE  Covered(pack.materials, plan.resolved.body.budget)
  <2>1. PICK e \in Derived(target) : budget = defaultBudgetFor(e.artifacts.pack.materials)
    BY <1>2, <1>15, Zenon DEF DefaultFor, target
  <2>2. Carries(target, entries, e.artifacts.pack.materials)
    BY <1>7, Zenon
  <2>3. pack = d0.artifacts.pack
    BY <1>5, Zenon
  <2>4. Covered(d0.artifacts.pack.materials, defaultBudgetFor(e.artifacts.pack.materials))
    BY <1>6, <2>2, DefaultCovers, Zenon
  <2> QED BY <1>5, <2>1, <2>3, <2>4, Zenon
<1>16. sends = Sent(plan, resolveAuth(plan.target, credential))
  BY <1>3, Zenon DEF sends, headers
<1>17. AsPlanned(request, plan, snapshot, sends)
  <2>1. \A pack \in plan.intent.body.selectors : request.budget = {} =>
           /\ \A f \in {"requests", "requestBytes", "responseBytes", "artifactBytes"} :
                SumOf(pack.materials, f) <= plan.resolved.body.budget.hard[f]
           /\ SumOf(pack.materials, "output") <= plan.resolved.body.budget.reservation.output
    BY <1>15, Zenon DEF Covered
  <2>2. {send.material.descriptor.id : send \in sends} = plan.intent.body.denominator
        /\ plan.intent.body.denominator = plan.resolved.body.denominator
    BY <1>5, <1>12, <1>13, Zenon
  <2> QED BY ONLY <1>3, <1>11, <1>14, <2>1, <2>2, Zenon DEF AsPlanned, target
<1> QED BY ONLY <1>16, <1>17, Zenon DEF snapshot

-----------------------------------------------------------------------------
\* The inductive invariant: up to the copy that Execute takes, the caller holds what
\* Build returned but for its own changes.
HeldAfter(request, plan, edits) ==
    /\ request \in PlanRequests
    /\ Held(request, plan)
    /\ edits = 0 => plan \in Build(request)

PlanningInv ==
    /\ planned \in [stage : {planned.stage}, request : {planned.request},
                    caller : {planned.caller}, frozen : {planned.frozen},
                    snapshot : {planned.snapshot}, sends : {planned.sends},
                    edits : {planned.edits}]
    /\ planned.edits \in Nat
    /\ planned.stage \in {"built", "checked"} =>
         HeldAfter(planned.request, planned.caller, planned.edits)
    /\ planned.stage = "frozen" => HeldAfter(planned.request, planned.frozen, planned.edits)
    /\ planned.stage = "admitted" =>
         AsPlanned(planned.request, planned.frozen, planned.snapshot, planned.sends)
    /\ planned.stage = "refused" => planned.edits > 0 \/ planned.request.name = "latest"

\* Build's own plan.
LEMMA BuildInv ==
    ASSUME PlanningInv, BuildPlan PROVE PlanningInv'
<1>1. PICK request \in PlanRequests :
         \/ \E plan \in Build(request) :
              planned' = [planned EXCEPT !.stage = "built", !.request = request, !.caller = plan]
         \/ planned' = [planned EXCEPT !.stage = "unbuildable", !.request = request]
  BY Zenon DEF BuildPlan
<1>2. /\ planned \in [stage : {planned.stage}, request : {planned.request},
                      caller : {planned.caller}, frozen : {planned.frozen},
                      snapshot : {planned.snapshot}, sends : {planned.sends},
                      edits : {planned.edits}]
      /\ planned.edits \in Nat
  BY Zenon DEF PlanningInv
<1>3. ASSUME NEW plan \in Build(request),
             planned' = [planned EXCEPT !.stage = "built", !.request = request, !.caller = plan]
      PROVE  PlanningInv'
  <2>1. /\ planned' \in [stage : {planned'.stage}, request : {planned'.request},
                         caller : {planned'.caller}, frozen : {planned'.frozen},
                         snapshot : {planned'.snapshot}, sends : {planned'.sends},
                         edits : {planned'.edits}]
        /\ planned'.stage = "built" /\ planned'.request = request /\ planned'.caller = plan
        /\ planned'.edits = planned.edits
    BY ONLY <1>2, <1>3, Zenon
  <2>2. HeldAfter(request, plan, planned.edits)
    BY <1>3, BuildKeeps, Zenon DEF HeldAfter, Held
  <2>3. "built" # "frozen" /\ "built" # "admitted" /\ "built" # "refused"
    OBVIOUS
  <2> QED BY ONLY <1>2, <2>1, <2>2, <2>3, Zenon DEF PlanningInv
<1>4. ASSUME planned' = [planned EXCEPT !.stage = "unbuildable", !.request = request]
      PROVE  PlanningInv'
  <2>1. /\ planned' \in [stage : {planned'.stage}, request : {planned'.request},
                         caller : {planned'.caller}, frozen : {planned'.frozen},
                         snapshot : {planned'.snapshot}, sends : {planned'.sends},
                         edits : {planned'.edits}]
        /\ planned'.stage = "unbuildable" /\ planned'.edits = planned.edits
    BY ONLY <1>2, <1>4, Zenon
  <2>2. "unbuildable" \notin {"built", "checked", "frozen", "admitted", "refused"}
    OBVIOUS
  <2> QED BY ONLY <1>2, <2>1, <2>2, Zenon DEF PlanningInv
<1> QED BY <1>1, <1>3, <1>4, Zenon

\* A change by the caller or another goroutine.
LEMMA EditInv ==
    ASSUME PlanningInv, EditPlan PROVE PlanningInv'
<1>1. planned.stage \in {"built", "checked"} /\
      \E plan \in OwnEdits(planned.caller) :
         planned' = [planned EXCEPT !.caller = plan, !.edits = @ + 1]
  <2> DEFINE Edits == CASE planned.stage = "built" -> OwnEdits(planned.caller)
                        [] planned.stage = "checked" -> SharedEdits(planned.caller)
                        [] OTHER -> {}
  <2>1. "built" # "checked"
    OBVIOUS
  <2>2. /\ planned.stage = "built" => Edits = OwnEdits(planned.caller)
        /\ planned.stage = "checked" => Edits = SharedEdits(planned.caller)
        /\ planned.stage \notin {"built", "checked"} => Edits = {}
    BY <2>1, Zenon
  <2>3. \E plan \in Edits : planned' = [planned EXCEPT !.caller = plan, !.edits = @ + 1]
    BY Zenon DEF EditPlan
  <2>4. SharedEdits(planned.caller) \subseteq OwnEdits(planned.caller)
    BY Zenon DEF OwnEdits
  <2> HIDE DEF Edits
  <2> QED BY ONLY <2>2, <2>3, <2>4, Zenon
<1>2. PICK plan \in OwnEdits(planned.caller) :
         planned' = [planned EXCEPT !.caller = plan, !.edits = @ + 1]
  BY <1>1, Zenon
<1>3. /\ planned \in [stage : {planned.stage}, request : {planned.request},
                      caller : {planned.caller}, frozen : {planned.frozen},
                      snapshot : {planned.snapshot}, sends : {planned.sends},
                      edits : {planned.edits}]
      /\ planned.edits \in Nat
      /\ HeldAfter(planned.request, planned.caller, planned.edits)
  BY <1>1, Zenon DEF PlanningInv
<1>4. /\ planned' \in [stage : {planned'.stage}, request : {planned'.request},
                       caller : {planned'.caller}, frozen : {planned'.frozen},
                       snapshot : {planned'.snapshot}, sends : {planned'.sends},
                       edits : {planned'.edits}]
      /\ planned'.stage = planned.stage /\ planned'.request = planned.request
      /\ planned'.caller = plan /\ planned'.edits = planned.edits + 1
  BY ONLY <1>2, <1>3, Zenon
<1>5. planned'.edits \in Nat /\ planned'.edits # 0
  BY ONLY <1>3, <1>4
<1>6. HeldAfter(planned.request, plan, planned'.edits)
  <2>1. PICK old \in Build(planned.request) : Keeps(old, planned.request.target, planned.caller)
    BY <1>3, Zenon DEF HeldAfter, Held
  <2>2. Keeps(old, planned.request.target, plan)
    BY <2>1, OwnEditKeeps, Zenon
  <2> QED BY <1>3, <1>5, <2>2, Zenon DEF HeldAfter, Held
<1>7. planned.stage # "frozen" /\ planned.stage # "admitted" /\ planned.stage # "refused"
  BY ONLY <1>1
<1> QED BY ONLY <1>4, <1>5, <1>6, <1>7, Zenon DEF PlanningInv

\* The first check, and the copy.
LEMMA CheckFreezeInv ==
    ASSUME PlanningInv, CheckPlan \/ FreezePlan PROVE PlanningInv'
<1>1. /\ planned \in [stage : {planned.stage}, request : {planned.request},
                      caller : {planned.caller}, frozen : {planned.frozen},
                      snapshot : {planned.snapshot}, sends : {planned.sends},
                      edits : {planned.edits}]
      /\ planned.edits \in Nat
  BY Zenon DEF PlanningInv
<1>2. CASE CheckPlan
  <2> DEFINE next == IF validatePlanned(planned.caller) THEN "checked" ELSE "refused"
  <2>1. planned.stage = "built" /\ planned' = [planned EXCEPT !.stage = next]
    BY <1>2, Zenon DEF CheckPlan
  <2>2. HeldAfter(planned.request, planned.caller, planned.edits)
    BY <2>1, Zenon DEF PlanningInv
  <2>3. next = "checked" \/ (next = "refused" /\ ~validatePlanned(planned.caller))
    BY Zenon
  <2>4. ~validatePlanned(planned.caller) => planned.edits # 0
    BY <2>2, BuiltPasses, Zenon DEF HeldAfter
  <2> HIDE DEF next
  <2>5. /\ planned' \in [stage : {planned'.stage}, request : {planned'.request},
                         caller : {planned'.caller}, frozen : {planned'.frozen},
                         snapshot : {planned'.snapshot}, sends : {planned'.sends},
                         edits : {planned'.edits}]
        /\ planned'.stage = next /\ planned'.request = planned.request
        /\ planned'.caller = planned.caller /\ planned'.edits = planned.edits
    BY ONLY <1>1, <2>1, Zenon
  <2>6. /\ next # "frozen" /\ next # "admitted" /\ (next = "refused" => next # "built" /\ next # "checked")
    BY ONLY <2>3
  <2>7. next = "refused" => planned'.edits > 0
    BY ONLY <1>1, <2>3, <2>4, <2>5
  <2> QED BY ONLY <1>1, <2>2, <2>5, <2>6, <2>7, Zenon DEF PlanningInv
<1>3. CASE FreezePlan
  <2>1. /\ planned.stage = "checked"
        /\ planned' = [planned EXCEPT !.stage = "frozen", !.frozen = planned.caller]
    BY <1>3, Zenon DEF FreezePlan
  <2>2. HeldAfter(planned.request, planned.caller, planned.edits)
    BY <2>1, Zenon DEF PlanningInv
  <2>3. /\ planned' \in [stage : {planned'.stage}, request : {planned'.request},
                         caller : {planned'.caller}, frozen : {planned'.frozen},
                         snapshot : {planned'.snapshot}, sends : {planned'.sends},
                         edits : {planned'.edits}]
        /\ planned'.stage = "frozen" /\ planned'.request = planned.request
        /\ planned'.frozen = planned.caller /\ planned'.edits = planned.edits
    BY ONLY <1>1, <2>1, Zenon
  <2>4. "frozen" # "built" /\ "frozen" # "checked" /\ "frozen" # "admitted" /\ "frozen" # "refused"
    OBVIOUS
  <2> QED BY ONLY <1>1, <2>2, <2>3, <2>4, Zenon DEF PlanningInv
<1> QED BY <1>2, <1>3, Zenon

\* The rest of Execute.
LEMMA AdmitInv ==
    ASSUME PlanningInv, AdmitPlan PROVE PlanningInv'
<1> DEFINE plan == planned.frozen
           snapshot == CHOOSE s \in PlanJSON(plan) : TRUE
<1>1. PICK credential \in {"none", "empty", "short", "good"} :
         planned' = IF ~validatePlanned(plan) \/ PlanJSON(plan) = {}
                    THEN [planned EXCEPT !.stage = "refused"]
                    ELSE IF resolveAuth(plan.target, credential) = {}
                    THEN [planned EXCEPT !.stage = "no credential"]
                    ELSE [planned EXCEPT !.stage = "admitted", !.snapshot = snapshot,
                                         !.sends = Sent(plan, resolveAuth(plan.target, credential))]
  BY Zenon DEF AdmitPlan, Sent
<1> DEFINE sends == Sent(plan, resolveAuth(plan.target, credential))
<1>2. /\ planned \in [stage : {planned.stage}, request : {planned.request},
                      caller : {planned.caller}, frozen : {planned.frozen},
                      snapshot : {planned.snapshot}, sends : {planned.sends},
                      edits : {planned.edits}]
      /\ planned.edits \in Nat
      /\ HeldAfter(planned.request, plan, planned.edits)
  BY Zenon DEF PlanningInv, AdmitPlan
<1>3. CASE ~validatePlanned(plan) \/ PlanJSON(plan) = {}
  <2>1. planned' = [planned EXCEPT !.stage = "refused"]
    BY <1>1, <1>3, Zenon
  <2>2. /\ planned' \in [stage : {planned'.stage}, request : {planned'.request},
                         caller : {planned'.caller}, frozen : {planned'.frozen},
                         snapshot : {planned'.snapshot}, sends : {planned'.sends},
                         edits : {planned'.edits}]
        /\ planned'.stage = "refused" /\ planned'.request = planned.request
        /\ planned'.edits = planned.edits
    BY ONLY <1>2, <2>1, Zenon
  <2>3. planned.edits # 0 \/ planned.request.name = "latest"
    BY <1>2, <1>3, BuiltPasses, Zenon DEF HeldAfter
  <2>4. planned'.edits > 0 \/ planned'.request.name = "latest"
    BY ONLY <1>2, <2>2, <2>3
  <2>5. "refused" # "built" /\ "refused" # "checked" /\ "refused" # "frozen" /\ "refused" # "admitted"
    OBVIOUS
  <2> QED BY ONLY <1>2, <2>2, <2>4, <2>5, Zenon DEF PlanningInv
<1>4. CASE validatePlanned(plan) /\ PlanJSON(plan) # {}
  <2>1. CASE resolveAuth(plan.target, credential) = {}
    <3>1. planned' = [planned EXCEPT !.stage = "no credential"]
      BY <1>1, <1>4, <2>1, Zenon
    <3>2. /\ planned' \in [stage : {planned'.stage}, request : {planned'.request},
                           caller : {planned'.caller}, frozen : {planned'.frozen},
                           snapshot : {planned'.snapshot}, sends : {planned'.sends},
                           edits : {planned'.edits}]
          /\ planned'.stage = "no credential" /\ planned'.edits = planned.edits
      BY ONLY <1>2, <3>1, Zenon
    <3>3. "no credential" \notin {"built", "checked", "frozen", "admitted", "refused"}
      OBVIOUS
    <3> QED BY ONLY <1>2, <3>2, <3>3, Zenon DEF PlanningInv
  <2>2. CASE resolveAuth(plan.target, credential) # {}
    <3>1. planned' = [planned EXCEPT !.stage = "admitted", !.snapshot = snapshot, !.sends = sends]
      BY <1>1, <1>4, <2>2, Zenon
    <3>2. plan \in Build(planned.request)
      BY <1>2, <1>4, ValidatedIsBuilt, Zenon DEF HeldAfter
    <3>3. AsPlanned(planned.request, plan, snapshot, sends)
      BY <1>4, <2>2, <3>2, AdmittedIsPlanned, Zenon
    <3> HIDE DEF snapshot, sends
    <3>4. /\ planned' \in [stage : {planned'.stage}, request : {planned'.request},
                           caller : {planned'.caller}, frozen : {planned'.frozen},
                           snapshot : {planned'.snapshot}, sends : {planned'.sends},
                           edits : {planned'.edits}]
          /\ planned'.stage = "admitted" /\ planned'.edits = planned.edits
          /\ planned'.request = planned.request /\ planned'.frozen = planned.frozen
          /\ planned'.snapshot = snapshot /\ planned'.sends = sends
      BY ONLY <1>2, <3>1, Zenon
    <3>5. "admitted" # "built" /\ "admitted" # "checked" /\ "admitted" # "frozen"
          /\ "admitted" # "refused"
      OBVIOUS
    <3> QED BY ONLY <1>2, <3>3, <3>4, <3>5, Zenon DEF PlanningInv
  <2> QED BY <2>1, <2>2, Zenon
<1> QED BY <1>3, <1>4, Zenon

\* Every step preserves the inductive invariant.
LEMMA PlanningStep ==
    PlanningInv /\ [PlanningNext]_planned => PlanningInv'
<1>1. ASSUME PlanningInv, UNCHANGED planned PROVE PlanningInv'
  BY <1>1, Zenon DEF PlanningInv
<1> QED BY <1>1, BuildInv, EditInv, CheckFreezeInv, AdmitInv, Zenon DEF PlanningNext

\* It holds at the start.
LEMMA PlanningStart == PlanningInit => PlanningInv
BY DEF PlanningInit, PlanningInv

\* A run sends what was planned and keeps a record of it that can be read back, for
\* every set of requests and however often the caller or another goroutine changes
\* the plan that Build returned before Execute has its own copy (execute.go:64-80).
THEOREM SendsAreAsPlanned == PlanningSpec => []SendsWhatWasPlanned
<1>1. PlanningInv => SendsWhatWasPlanned
  BY Zenon DEF PlanningInv, SendsWhatWasPlanned, AsPlanned
<1> QED BY <1>1, PlanningStart, PlanningStep, PTL DEF PlanningSpec

-----------------------------------------------------------------------------
(* The minimizer. *)

\* The larger and the smaller of two numbers.
LEMMA OfTwo ==
    ASSUME NEW a \in Nat, NEW b \in Nat
    PROVE  /\ Min({a, b}) = IF a <= b THEN a ELSE b
           /\ Max({a, b}) = IF a >= b THEN a ELSE b
<1>1. (\E x \in {a, b} : \A y \in {a, b} : x =< y) /\ (\E x \in {a, b} : \A y \in {a, b} : x >= y)
  OBVIOUS
<1>2. Min({a, b}) \in {a, b} /\ \A y \in {a, b} : Min({a, b}) =< y
  BY <1>1, Zenon DEF Min
<1>3. Max({a, b}) \in {a, b} /\ \A y \in {a, b} : Max({a, b}) >= y
  BY <1>1, Zenon DEF Max
<1> QED BY <1>2, <1>3

\* Chunks have one item once there are as many as items.
LEMMA ChunkFacts ==
    ASSUME NEW n \in Nat, NEW g \in Nat, g >= 2
    PROVE  /\ (n + g - 1) \div g \in Nat
           /\ 1 <= n /\ n <= g => (n + g - 1) \div g = 1
OBVIOUS

\* A sequence without the items after the first a up to the b-th.
Cut(s, a, b) == SubSeq(s, 1, a) \o SubSeq(s, b + 1, Len(s))

\* It is shorter by what was taken out.
Shortens(s, a, b) == Len(Cut(s, a, b)) = Len(s) - (b - a)

\* What is left is a sequence of the same items, shorter by what was taken out.
LEMMA CutFacts ==
    ASSUME NEW S, NEW s \in Seq(S), NEW a \in Nat, NEW b \in Nat, a <= b, b <= Len(s)
    PROVE  /\ Cut(s, a, b) \in Seq(S)
           /\ Shortens(s, a, b)
<1> DEFINE p == SubSeq(s, 1, a)
           q == SubSeq(s, b + 1, Len(s))
<1>1. Len(s) \in Nat /\ \A i \in 1..Len(s) : s[i] \in S
  BY LenProperties
<1>2. (\A i \in 1..a : s[i] \in S) /\ (\A i \in (b + 1)..Len(s) : s[i] \in S)
  BY <1>1
<1>3. 1 \in Int /\ a \in Int /\ b + 1 \in Int /\ Len(s) \in Int
  BY <1>1
<1>4. p \in Seq(S) /\ Len(p) = IF 1 <= a THEN a - 1 + 1 ELSE 0
  BY ONLY <1>2, <1>3, SubSeqProperties, SMTT(20)
<1>5. q \in Seq(S) /\ Len(q) = IF b + 1 <= Len(s) THEN Len(s) - (b + 1) + 1 ELSE 0
  BY ONLY <1>2, <1>3, SubSeqProperties, SMTT(20)
<1> HIDE DEF p, q
<1>6. p \o q \in Seq(S) /\ Len(p \o q) = Len(p) + Len(q)
  BY <1>4, <1>5, ConcatProperties, Zenon
<1>7. Len(p) + Len(q) = Len(s) - (b - a)
  <2>1. Len(p) = a
    BY <1>4
  <2>2. Len(q) = Len(s) - b
    BY <1>1, <1>5
  <2> QED BY <1>1, <2>1, <2>2
<1> QED BY <1>6, <1>7, Zenon DEF Cut, Shortens, p, q

\* To take out one item is to remove it.
LEMMA CutOne ==
    ASSUME NEW s, NEW i \in Nat
    PROVE  Cut(s, i, i + 1) = Without(s, i + 1)
<1>1. (i + 1) - 1 = i
  OBVIOUS
<1> QED BY <1>1, Zenon DEF Cut, Without

-----------------------------------------------------------------------------
\* DDMin's variables.
Items == UNION {Range(input) : input \in MinimizerInputs}
Places == {"check input", "round", "check", "returned"}
Results == {"none", "insufficient_samples", "error", "flaky_detected", "unchanged", "minimized",
            "budget_exhausted"}
Searches == [pc : Places, input : Seq(Items), current : Seq(Items), candidate : Seq(Items),
             granularity : Nat, start : Nat, flaky : BOOLEAN, count : Nat,
             tried : Nat, passes : Nat, failures : Nat, status : Results]
Settings == [attempts : Int, required : Int, limit : Nat]

\* What stays true of the input, and of the items that have been refuted.
Shrinks(d) == Len(d.current) <= Len(d.input)
Refuted(d, n, ref) == \A i \in 1..n : Without(d.current, i) \in ref

\* The place the search has come to, with what was confirmed and refuted.
PlaceOK(d, con, ref) ==
    /\ d.pc = "check input" => d.candidate = d.current /\ d.granularity >= 2
    /\ d.pc \in {"round", "check"} =>
          d.granularity >= 2 /\ Len(d.current) >= 2 /\ d.current \in con
    /\ d.pc = "check" =>
          /\ d.start < Len(d.current)
          /\ d.candidate = Cut(d.current, d.start, Min({d.start + ChunkSize(d), Len(d.current)}))
          /\ d.granularity >= Len(d.current) /\ d.flaky = FALSE => Refuted(d, d.start, ref)
    /\ d.pc = "returned" =>
          /\ d.status \notin {"error", "insufficient_samples"} => d.current \in con
          /\ d.status \in {"minimized", "unchanged"} /\ Len(d.current) >= 2 =>
                Refuted(d, Len(d.current), ref)
          /\ d.status = "minimized" => Len(d.current) < Len(d.input)

\* The inductive invariant.
MinimizerInv ==
    /\ options \in Settings /\ ddmin \in Searches
    /\ ddmin.count <= options.limit
    /\ Shrinks(ddmin)
    /\ PlaceOK(ddmin, confirmed, refuted)

\* The records a step leads to.
LEMMA ReturnFields ==
    ASSUME NEW d \in Searches, NEW status \in Results
    PROVE  LET r == ReturnResult(d, status)
           IN  /\ r \in Searches /\ r.pc = "returned" /\ r.status = status
               /\ r.current = d.current /\ r.input = d.input /\ r.count = d.count
<1>1. "returned" \in Places
  BY Zenon DEF Places
<1> QED BY <1>1, Zenon DEF ReturnResult, Searches

\* To return keeps the invariant, when the result claims no more than was found.
LEMMA Returns ==
    ASSUME NEW d \in Searches, Shrinks(d), NEW con, NEW ref,
           NEW status \in Results \ {"minimized", "unchanged"},
           status \notin {"error", "insufficient_samples"} => d.current \in con
    PROVE  LET r == ReturnResult(d, status)
           IN  r \in Searches /\ r.count = d.count /\ Shrinks(r) /\ PlaceOK(r, con, ref)
<1> DEFINE r == ReturnResult(d, status)
<1>1. /\ r \in Searches /\ r.pc = "returned" /\ r.status = status
      /\ r.current = d.current /\ r.input = d.input /\ r.count = d.count
  BY ReturnFields, Zenon
<1> HIDE DEF r
<1>2. "returned" \notin {"check input", "round", "check"}
  OBVIOUS
<1>3. Shrinks(r) /\ PlaceOK(r, con, ref)
  BY <1>1, <1>2, Zenon DEF Shrinks, PlaceOK
<1> QED BY <1>1, <1>3, Zenon DEF r

\* After the loop.
LEMMA Finishes ==
    ASSUME NEW d \in Searches, Shrinks(d), NEW con, NEW ref, d.current \in con,
           Len(d.current) >= 2 /\ d.flaky = FALSE => Refuted(d, Len(d.current), ref)
    PROVE  LET r == Finished(d)
           IN  r \in Searches /\ r.count = d.count /\ Shrinks(r) /\ PlaceOK(r, con, ref)
<1> DEFINE status == IF d.flaky THEN "flaky_detected"
                     ELSE IF Len(d.current) = Len(d.input) THEN "unchanged" ELSE "minimized"
           r == ReturnResult(d, status)
<1>1. status \in Results /\ d.flaky \in BOOLEAN
  BY Zenon DEF Results, Searches
<1>2. /\ r \in Searches /\ r.pc = "returned" /\ r.status = status
      /\ r.current = d.current /\ r.input = d.input /\ r.count = d.count
  BY <1>1, ReturnFields, Zenon
<1>3. status \in {"minimized", "unchanged"} => d.flaky = FALSE
  BY <1>1, Zenon
<1>4. status = "minimized" => Len(d.current) # Len(d.input)
  BY Zenon
<1>5. Len(d.current) \in Nat /\ Len(d.input) \in Nat
  BY LenProperties, Zenon DEF Searches
<1>6. status = "minimized" => Len(d.current) < Len(d.input)
  <2> HIDE DEF status
  <2> QED BY <1>4, <1>5 DEF Shrinks
<1> HIDE DEF r, status
<1>7. "returned" \notin {"check input", "round", "check"}
  OBVIOUS
<1>8. status \in {"minimized", "unchanged"} /\ Len(d.current) >= 2 => Refuted(r, Len(r.current), ref)
  BY <1>2, <1>3, Zenon DEF Refuted
<1>9. Shrinks(r) /\ PlaceOK(r, con, ref)
  BY <1>2, <1>6, <1>7, <1>8, Zenon DEF Shrinks, PlaceOK
<1>10. r = Finished(d)
  BY Zenon DEF Finished, r, status
<1> QED BY <1>2, <1>9, <1>10, Zenon

\* A round begins, or there is nothing left to take out.
LEMMA RoundBegins ==
    ASSUME NEW d \in Searches, Shrinks(d), NEW con, NEW ref, d.current \in con, d.granularity >= 2
    PROVE  LET r == Round(d)
           IN  r \in Searches /\ r.count = d.count /\ Shrinks(r) /\ PlaceOK(r, con, ref)
<1>1. CASE Len(d.current) >= 2
  <2> DEFINE r == [d EXCEPT !.pc = "round"]
  <2>1. "round" \in Places
    BY Zenon DEF Places
  <2>2. /\ r \in Searches /\ r.pc = "round" /\ r.current = d.current /\ r.input = d.input
        /\ r.count = d.count /\ r.granularity = d.granularity
    BY <2>1, Zenon DEF Searches
  <2> HIDE DEF r
  <2>3. "round" \notin {"check input", "check", "returned"}
    OBVIOUS
  <2>4. Shrinks(r) /\ PlaceOK(r, con, ref)
    BY <1>1, <2>2, <2>3, Zenon DEF Shrinks, PlaceOK
  <2>5. r = Round(d)
    BY <1>1, Zenon DEF Round, r
  <2> QED BY <2>2, <2>4, <2>5, Zenon
<1>2. CASE ~(Len(d.current) >= 2)
  BY <1>2, Finishes, Zenon DEF Round
<1> QED BY <1>1, <1>2

\* A candidate is put to the check.
LEMMA Checks ==
    ASSUME NEW d \in Searches, Shrinks(d), NEW con, NEW ref, d.current \in con,
           d.granularity >= 2, Len(d.current) >= 2, NEW start \in Nat, start < Len(d.current),
           d.granularity >= Len(d.current) /\ d.flaky = FALSE => Refuted(d, start, ref)
    PROVE  LET r == CheckAt(d, start)
           IN  r \in Searches /\ r.count = d.count /\ Shrinks(r) /\ PlaceOK(r, con, ref)
<1> DEFINE end == Min({start + ChunkSize(d), Len(d.current)})
           new == Cut(d.current, start, end)
           r == [d EXCEPT !.pc = "check", !.start = start, !.tried = 0, !.passes = 0,
                          !.failures = 0, !.candidate = new]
<1>1. Len(d.current) \in Nat /\ d.granularity \in Nat /\ d.current \in Seq(Items)
  BY LenProperties, Zenon DEF Searches
<1>2. ChunkSize(d) \in Nat
  BY <1>1, ChunkFacts, Zenon DEF ChunkSize
<1>3. start + ChunkSize(d) \in Nat
  BY <1>2
<1>4. end = IF start + ChunkSize(d) <= Len(d.current) THEN start + ChunkSize(d) ELSE Len(d.current)
  BY <1>1, <1>3, OfTwo, Zenon
<1>5. end \in Nat /\ start <= end /\ end <= Len(d.current)
  BY <1>1, <1>2, <1>4
<1>6. new \in Seq(Items)
  <2> HIDE DEF end
  <2> QED BY <1>1, <1>5, CutFacts, Zenon
<1>7. CheckAt(d, start) = r
  BY Zenon DEF CheckAt, Cut
<1> HIDE DEF new
<1>8. "check" \in Places /\ 0 \in Nat
  BY Zenon DEF Places
<1>9. /\ r \in Searches /\ r.pc = "check" /\ r.start = start /\ r.candidate = new
      /\ r.current = d.current /\ r.input = d.input /\ r.count = d.count
      /\ r.granularity = d.granularity /\ r.flaky = d.flaky
  BY <1>6, <1>8, Zenon DEF Searches
<1> HIDE DEF r
<1>10. ChunkSize(r) = ChunkSize(d)
  BY <1>9, Zenon DEF ChunkSize
<1>11. r.candidate = Cut(r.current, r.start, Min({r.start + ChunkSize(r), Len(r.current)}))
  BY <1>9, <1>10, Zenon DEF new
<1>12. "check" \notin {"check input", "returned"}
  OBVIOUS
<1>13. Refuted(d, start, ref) => Refuted(r, r.start, ref)
  BY <1>9, Zenon DEF Refuted
<1>14. Shrinks(r) /\ PlaceOK(r, con, ref)
  BY <1>9, <1>11, <1>12, <1>13, Zenon DEF Shrinks, PlaceOK
<1> QED BY <1>7, <1>9, <1>14, Zenon

\* The chunk stays: what follows the verdict on a candidate that did not reproduce.
LEMMA ChunkStays ==
    ASSUME NEW d \in Searches, Shrinks(d), NEW con, NEW ref, d.current \in con,
           d.granularity >= 2, Len(d.current) >= 2, d.start < Len(d.current),
           d.granularity >= Len(d.current) /\ d.flaky = FALSE => Refuted(d, d.start + 1, ref)
    PROVE  LET r == NextChunk(d)
           IN  r \in Searches /\ r.count = d.count /\ Shrinks(r) /\ PlaceOK(r, con, ref)
<1> DEFINE n == Len(d.current)
           c == ChunkSize(d)
<1>1. n \in Nat /\ d.granularity \in Nat /\ d.start \in Nat
  BY LenProperties, Zenon DEF Searches
<1>2. c \in Nat /\ (1 <= n /\ n <= d.granularity => c = 1)
  BY <1>1, ChunkFacts, Zenon DEF ChunkSize
<1> HIDE DEF n, c
<1>3. d.granularity >= n => c = 1
  BY <1>1, <1>2 DEF n
<1>4. CASE d.start + c < n
  <2>1. d.start + c \in Nat
    BY <1>1, <1>2
  <2>2. d.granularity >= n /\ d.flaky = FALSE => Refuted(d, d.start + c, ref)
    BY <1>3, Zenon DEF n
  <2>3. NextChunk(d) = CheckAt(d, d.start + c)
    BY <1>4, Zenon DEF NextChunk, n, c
  <2> QED BY <1>4, <2>1, <2>2, <2>3, Checks, Zenon DEF n
<1>5. CASE ~(d.start + c < n) /\ d.granularity >= n
  <2>1. d.start + 1 = n
    BY <1>1, <1>3, <1>5 DEF n
  <2>2. d.flaky = FALSE => Refuted(d, n, ref)
    BY <1>5, <2>1, Zenon DEF n
  <2>3. NextChunk(d) = Finished(d)
    BY <1>5, Zenon DEF NextChunk, n, c
  <2> QED BY <2>2, <2>3, Finishes, Zenon DEF n
<1>6. CASE ~(d.start + c < n) /\ ~(d.granularity >= n)
  <2> DEFINE g == Min({n, 2 * d.granularity})
             r == [d EXCEPT !.pc = "round", !.granularity = g]
  <2>1. 2 * d.granularity \in Nat
    BY <1>1
  <2>2. g = IF n <= 2 * d.granularity THEN n ELSE 2 * d.granularity
    BY <1>1, <2>1, OfTwo, Zenon
  <2>3. g \in Nat /\ g >= 2
    BY <1>1, <2>2 DEF n
  <2>4. NextChunk(d) = r
    BY <1>6, Zenon DEF NextChunk, n, c
  <2> HIDE DEF g
  <2>5. "round" \in Places
    BY Zenon DEF Places
  <2>6. /\ r \in Searches /\ r.pc = "round" /\ r.current = d.current /\ r.input = d.input
        /\ r.count = d.count /\ r.granularity = g
    BY <2>3, <2>5, Zenon DEF Searches
  <2> HIDE DEF r
  <2>7. "round" \notin {"check input", "check", "returned"}
    OBVIOUS
  <2>8. Shrinks(r) /\ PlaceOK(r, con, ref)
    BY <2>3, <2>6, <2>7, Zenon DEF Shrinks, PlaceOK
  <2> QED BY <2>4, <2>6, <2>8, Zenon
<1> QED BY <1>4, <1>5, <1>6, Zenon

\* The items that the check takes out: fewer are left, and a single one is removed.
LEMMA CandidateFacts ==
    ASSUME NEW d \in Searches, NEW con, NEW ref, PlaceOK(d, con, ref), d.pc = "check"
    PROVE  /\ Len(d.candidate) <= Len(d.current)
           /\ d.granularity >= Len(d.current) => d.candidate = Without(d.current, d.start + 1)
<1> DEFINE n == Len(d.current)
           c == ChunkSize(d)
           end == Min({d.start + c, n})
<1>1. n \in Nat /\ d.granularity \in Nat /\ d.start \in Nat /\ d.current \in Seq(Items)
  BY LenProperties, Zenon DEF Searches
<1>2. d.granularity >= 2 /\ n >= 2 /\ d.start < n /\ d.candidate = Cut(d.current, d.start, end)
  BY Zenon DEF PlaceOK
<1>3. c \in Nat /\ (1 <= n /\ n <= d.granularity => c = 1)
  BY <1>1, <1>2, ChunkFacts, Zenon DEF ChunkSize
<1> HIDE DEF c
<1>4. d.start + c \in Nat
  BY <1>1, <1>3
<1>5. end = IF d.start + c <= n THEN d.start + c ELSE n
  BY <1>1, <1>4, OfTwo, Zenon
<1> HIDE DEF n, end
<1>6. end \in Nat /\ d.start <= end /\ end <= n
  BY <1>1, <1>2, <1>3, <1>5
<1>7. Len(d.candidate) = n - (end - d.start)
  <2>1. end <= Len(d.current)
    BY <1>6, Zenon DEF n
  <2>2. Shortens(d.current, d.start, end)
    BY ONLY <1>1, <1>6, <2>1, CutFacts, Zenon
  <2> QED BY <1>2, <2>2, Zenon DEF Shortens, n
<1>8. Len(d.candidate) <= n
  BY <1>1, <1>6, <1>7
<1>9. ASSUME d.granularity >= n PROVE d.candidate = Without(d.current, d.start + 1)
  <2>1. end = d.start + 1
    BY <1>1, <1>2, <1>3, <1>5, <1>9, SMTT(30)
  <2> QED BY <1>1, <1>2, <2>1, CutOne, Zenon
<1> QED BY <1>8, <1>9, Zenon DEF n

\* What DDMin does with a verdict keeps the invariant.
LEMMA DecisionKeeps ==
    ASSUME NEW d \in Searches, Shrinks(d), NEW con, NEW ref, NEW con1, NEW ref1,
           PlaceOK(d, con, ref), d.pc \in {"check", "check input"}, d.granularity >= 2,
           NEW verdict \in {"reproduced", "refuted", "inconclusive"},
           con \subseteq con1, verdict = "reproduced" => d.candidate \in con1,
           verdict # "reproduced" => ref \subseteq ref1,
           verdict = "refuted" => d.candidate \in ref1
    PROVE  LET r == Decided(d, verdict)
           IN  r \in Searches /\ r.count = d.count /\ Shrinks(r) /\ PlaceOK(r, con1, ref1)
<1>0. "check" # "check input" /\ "inconclusive" # "refuted" /\ "refuted" # "reproduced"
      /\ "inconclusive" # "reproduced"
  BY Zenon
<1>1. CASE d.pc = "check input"
  <2>1. CASE verdict = "inconclusive"
    <3>1. "insufficient_samples" \in Results \ {"minimized", "unchanged"}
      BY Zenon DEF Results
    <3>2. Decided(d, verdict) = ReturnResult(d, "insufficient_samples")
      BY <1>0, <1>1, <2>1, Zenon DEF Decided
    <3> QED BY <3>1, <3>2, Returns, Zenon
  <2>2. CASE verdict = "refuted"
    <3>1. "error" \in Results \ {"minimized", "unchanged"}
      BY Zenon DEF Results
    <3>2. Decided(d, verdict) = ReturnResult(d, "error")
      BY <1>0, <1>1, <2>2, Zenon DEF Decided
    <3> QED BY <3>1, <3>2, Returns, Zenon
  <2>3. CASE verdict = "reproduced"
    <3>1. Decided(d, verdict) = Round(d)
      BY <1>0, <1>1, <2>3, Zenon DEF Decided
    <3>2. d.current \in con1
      BY <1>1, <2>3, Zenon DEF PlaceOK
    <3> QED BY <3>1, <3>2, RoundBegins, Zenon
  <2> QED BY <2>1, <2>2, <2>3, Zenon
<1>2. CASE d.pc = "check"
  <2>1. /\ Len(d.current) >= 2 /\ d.current \in con1 /\ d.start < Len(d.current)
        /\ d.granularity >= Len(d.current) /\ d.flaky = FALSE => Refuted(d, d.start, ref)
    BY <1>2, Zenon DEF PlaceOK
  <2>2. /\ Len(d.candidate) <= Len(d.current)
        /\ d.granularity >= Len(d.current) => d.candidate = Without(d.current, d.start + 1)
    BY <1>2, CandidateFacts, Zenon
  <2>3. /\ Len(d.candidate) \in Nat /\ Len(d.current) \in Nat /\ Len(d.input) \in Nat
        /\ d.start \in Nat /\ d.granularity \in Nat /\ d.candidate \in Seq(Items)
    BY LenProperties, Zenon DEF Searches
  <2>4. CASE verdict = "inconclusive"
    <3> DEFINE e == [d EXCEPT !.flaky = TRUE]
    <3>1. /\ e \in Searches /\ e.flaky = TRUE /\ e.current = d.current /\ e.input = d.input
          /\ e.count = d.count /\ e.granularity = d.granularity /\ e.start = d.start
      BY Zenon DEF Searches
    <3>2. Decided(d, verdict) = NextChunk(e)
      BY <1>0, <1>2, <2>4 DEF Decided
    <3> HIDE DEF e
    <3>3. Shrinks(e)
      BY <3>1, Zenon DEF Shrinks
    <3>4. e.flaky # FALSE
      BY <3>1, Zenon
    <3>5. LET r == NextChunk(e)
          IN  r \in Searches /\ r.count = e.count /\ Shrinks(r) /\ PlaceOK(r, con1, ref1)
      BY <2>1, <3>1, <3>3, <3>4, ChunkStays, Zenon
    <3> QED BY <3>1, <3>2, <3>5, Zenon
  <2>5. CASE verdict = "refuted"
    <3>1. Decided(d, verdict) = NextChunk(d)
      BY <1>0, <1>2, <2>5 DEF Decided
    <3>2. \A i \in 1..(d.start + 1) : i \in 1..d.start \/ i = d.start + 1
      BY ONLY <2>3
    <3>3. d.granularity >= Len(d.current) /\ d.flaky = FALSE => Refuted(d, d.start + 1, ref1)
      BY <1>0, <2>1, <2>2, <2>5, <3>2, Zenon DEF Refuted
    <3> QED BY <2>1, <3>1, <3>3, ChunkStays, Zenon
  <2>6. CASE verdict = "reproduced"
    <3> DEFINE g == Max({2, d.granularity - 1})
               e == [d EXCEPT !.current = d.candidate, !.granularity = g]
    <3>1. 2 \in Nat /\ d.granularity - 1 \in Nat
      BY ONLY <2>3, d.granularity >= 2
    <3>2. g = IF 2 >= d.granularity - 1 THEN 2 ELSE d.granularity - 1
      BY <3>1, OfTwo, Zenon
    <3>3. g \in Nat /\ g >= 2
      <4> HIDE DEF g
      <4> QED BY ONLY <2>3, <3>1, <3>2
    <3>4. Decided(d, verdict) = Round(e)
      BY <1>0, <1>2, <2>6 DEF Decided
    <3> HIDE DEF g
    <3>5. /\ e \in Searches /\ e.current = d.candidate /\ e.input = d.input
          /\ e.count = d.count /\ e.granularity = g
      BY <2>3, <3>3, Zenon DEF Searches
    <3> HIDE DEF e
    <3>6. Len(e.current) <= Len(e.input)
      <4>1. Len(d.current) <= Len(d.input)
        BY Zenon DEF Shrinks
      <4>2. Len(d.candidate) <= Len(d.input)
        BY ONLY <2>2, <2>3, <4>1
      <4> QED BY <3>5, <4>2, Zenon
    <3>7. Shrinks(e) /\ e.current \in con1 /\ e.granularity >= 2
      BY <2>6, <3>3, <3>5, <3>6, Zenon DEF Shrinks
    <3>8. LET r == Round(e)
          IN  r \in Searches /\ r.count = e.count /\ Shrinks(r) /\ PlaceOK(r, con1, ref1)
      BY <3>5, <3>7, RoundBegins, Zenon
    <3> QED BY <3>4, <3>5, <3>8, Zenon
  <2> QED BY <2>4, <2>5, <2>6, Zenon
<1> QED BY <1>1, <1>2, Zenon

\* The counters of one more evaluation.
LEMMA OneMore ==
    ASSUME NEW count \in Nat, NEW tried \in Nat, NEW passes \in Nat, NEW failures \in Nat,
           NEW limit \in Nat, count < limit, NEW x \in {0, 1}, NEW y \in {0, 1}
    PROVE  /\ count + 1 \in Nat /\ tried + 1 \in Nat /\ passes + x \in Nat /\ failures + y \in Nat
           /\ count + 1 <= limit
OBVIOUS

\* One more evaluation changes the counters only.
LEMMA Counted ==
    ASSUME MinimizerInv, NEW outcome \in {"match", "no match", "failed"},
           ddmin.count < options.limit
    PROVE  LET d == [ddmin EXCEPT !.count = @ + 1, !.tried = @ + 1,
                                  !.passes = @ + IF outcome = "match" THEN 1 ELSE 0,
                                  !.failures = @ + IF outcome = "no match" THEN 1 ELSE 0]
           IN  /\ d \in Searches /\ d.count <= options.limit /\ Shrinks(d)
               /\ PlaceOK(d, confirmed, refuted)
               /\ d.pc = ddmin.pc /\ d.granularity = ddmin.granularity
<1> DEFINE a == ddmin.passes + IF outcome = "match" THEN 1 ELSE 0
           b == ddmin.failures + IF outcome = "no match" THEN 1 ELSE 0
           d == [ddmin EXCEPT !.count = ddmin.count + 1, !.tried = ddmin.tried + 1,
                              !.passes = a, !.failures = b]
<1>1. ddmin \in Searches /\ options.limit \in Nat
  BY Zenon DEF MinimizerInv, Settings
<1>2. ddmin.count \in Nat /\ ddmin.tried \in Nat /\ ddmin.passes \in Nat /\ ddmin.failures \in Nat
  BY <1>1, Zenon DEF Searches
<1>i. (IF outcome = "match" THEN 1 ELSE 0) \in {0, 1} /\ (IF outcome = "no match" THEN 1 ELSE 0) \in {0, 1}
  BY Zenon
<1>3. /\ ddmin.count + 1 \in Nat /\ ddmin.tried + 1 \in Nat /\ a \in Nat /\ b \in Nat
      /\ ddmin.count + 1 <= options.limit
  BY <1>1, <1>2, <1>i, OneMore, ZenonT(30)
<1> HIDE DEF a, b
<1>4. /\ d \in Searches /\ d.count = ddmin.count + 1 /\ d.pc = ddmin.pc
      /\ d.granularity = ddmin.granularity /\ d.current = ddmin.current /\ d.input = ddmin.input
      /\ d.candidate = ddmin.candidate /\ d.start = ddmin.start /\ d.flaky = ddmin.flaky
      /\ d.status = ddmin.status
  BY <1>1, <1>3, Zenon DEF Searches
<1> HIDE DEF d
<1>5. ChunkSize(d) = ChunkSize(ddmin)
  BY <1>4, Zenon DEF ChunkSize
<1>6. Shrinks(d)
  BY <1>4, Zenon DEF MinimizerInv, Shrinks
<1>7. \A n : Refuted(ddmin, n, refuted) => Refuted(d, n, refuted)
  BY <1>4, Zenon DEF Refuted
<1>8. PlaceOK(d, confirmed, refuted)
  BY <1>4, <1>5, <1>7, Zenon DEF MinimizerInv, PlaceOK
<1> QED BY <1>3, <1>4, <1>6, <1>8, Zenon DEF d, a, b

\* One evaluation of the predicate.
LEMMA EvaluateKeeps ==
    ASSUME MinimizerInv, NEW outcome \in {"match", "no match", "failed"}, Evaluate(outcome)
    PROVE  MinimizerInv'
<1> DEFINE d == [ddmin EXCEPT !.count = @ + 1, !.tried = @ + 1,
                              !.passes = @ + IF outcome = "match" THEN 1 ELSE 0,
                              !.failures = @ + IF outcome = "no match" THEN 1 ELSE 0]
           verdict == CheckVerdict(d)
<1>1. /\ ddmin.pc \in {"check", "check input"} /\ ddmin.count < options.limit
      /\ ddmin' = IF verdict = "open" THEN d ELSE Decided(d, verdict)
      /\ confirmed' = IF verdict = "reproduced" THEN confirmed \union {d.candidate} ELSE confirmed
      /\ refuted' = CASE verdict = "refuted"    -> refuted \union {d.candidate}
                      [] verdict = "reproduced" -> refuted \ {d.candidate}
                      [] OTHER                  -> refuted
      /\ options' = options
  BY Zenon DEF Evaluate
<1>2. /\ d \in Searches /\ d.count <= options.limit /\ Shrinks(d)
      /\ PlaceOK(d, confirmed, refuted)
      /\ d.pc = ddmin.pc /\ d.granularity = ddmin.granularity
  BY <1>1, Counted, Zenon
<1>3. verdict \in {"reproduced", "refuted", "inconclusive", "open"}
  BY Zenon DEF CheckVerdict
<1> HIDE DEF d, verdict
<1>4. /\ verdict = "reproduced" => verdict # "refuted" /\ verdict # "open"
      /\ verdict = "refuted" => verdict # "reproduced" /\ verdict # "open"
      /\ verdict = "inconclusive" => verdict # "refuted" /\ verdict # "reproduced" /\ verdict # "open"
      /\ verdict = "open" => verdict # "refuted" /\ verdict # "reproduced"
  BY Zenon
<1>5. options' \in Settings
  BY <1>1, Zenon DEF MinimizerInv
<1>6. CASE verdict = "open"
  <2>1. ddmin' = d /\ confirmed' = confirmed /\ refuted' = refuted
    BY <1>1, <1>4, <1>6, Zenon
  <2> QED BY <1>1, <1>2, <1>5, <2>1, Zenon DEF MinimizerInv
<1>7. CASE verdict # "open"
  <2>1. ddmin' = Decided(d, verdict) /\ verdict \in {"reproduced", "refuted", "inconclusive"}
    BY <1>1, <1>3, <1>7, Zenon
  <2>2. /\ confirmed \subseteq confirmed' /\ (verdict = "reproduced" => d.candidate \in confirmed')
    BY <1>1, Zenon
  <2>3. verdict = "refuted" => refuted' = refuted \union {d.candidate}
    BY <1>1, Zenon
  <2>4. verdict = "inconclusive" => refuted' = refuted
    BY <1>1, <1>4, Zenon
  <2>5. /\ (verdict # "reproduced" => refuted \subseteq refuted')
        /\ (verdict = "refuted" => d.candidate \in refuted')
    BY <2>1, <2>3, <2>4, Zenon
  <2>6. d.pc \in {"check", "check input"} /\ d.granularity >= 2
    BY <1>1, <1>2, Zenon DEF PlaceOK
  <2>7. LET r == Decided(d, verdict)
        IN  r \in Searches /\ r.count = d.count /\ Shrinks(r) /\ PlaceOK(r, confirmed', refuted')
    BY <1>2, <2>1, <2>2, <2>5, <2>6, DecisionKeeps, ZenonT(30)
  <2> QED BY <1>1, <1>2, <1>5, <2>1, <2>7, Zenon DEF MinimizerInv
<1> QED BY <1>6, <1>7, Zenon

\* The other steps.
LEMMA SearchStep == MinimizerInv /\ [MinimizerNext]_minimizerVars => MinimizerInv'
<1> SUFFICES ASSUME MinimizerInv, [MinimizerNext]_minimizerVars PROVE MinimizerInv'
  OBVIOUS
<1>0. ddmin \in Searches /\ Shrinks(ddmin) /\ PlaceOK(ddmin, confirmed, refuted)
  BY Zenon DEF MinimizerInv
<1>1. ASSUME NEW status \in Results \ {"minimized", "unchanged"},
             status \notin {"error", "insufficient_samples"} => ddmin.current \in confirmed,
             ddmin' = ReturnResult(ddmin, status), UNCHANGED <<options, confirmed, refuted>>
      PROVE  MinimizerInv'
  <2>1. LET r == ReturnResult(ddmin, status)
        IN  r \in Searches /\ r.count = ddmin.count /\ Shrinks(r) /\ PlaceOK(r, confirmed, refuted)
    BY <1>0, <1>1, Returns, Zenon
  <2>2. options' = options /\ confirmed' = confirmed /\ refuted' = refuted
    BY <1>1, Zenon
  <2> QED BY <1>1, <2>1, <2>2, Zenon DEF MinimizerInv
<1>2. "error" \in Results \ {"minimized", "unchanged"}
      /\ "budget_exhausted" \in Results \ {"minimized", "unchanged"}
  BY DEF Results
<1>3. CASE Exhausted
  <2>1. ddmin.pc = "check" => ddmin.current \in confirmed
    BY <1>0, Zenon DEF PlaceOK
  <2> QED BY <1>1, <1>2, <1>3, <2>1, Zenon DEF Exhausted
<1>4. CASE BeginRound
  <2>1. ddmin.pc = "round" /\ UNCHANGED <<options, confirmed, refuted>>
    BY <1>4, Zenon DEF BeginRound
  <2>2. CASE ddmin' = CheckAt(ddmin, 0)
    <3>1. ddmin.granularity >= 2 /\ Len(ddmin.current) >= 2 /\ ddmin.current \in confirmed
      BY <1>0, <2>1, Zenon DEF PlaceOK
    <3>2. 0 \in Nat /\ 0 < Len(ddmin.current) /\ \A i \in 1..0 : FALSE
      <4>1. Len(ddmin.current) \in Nat
        BY <1>0, LenProperties, Zenon DEF Searches
      <4> QED BY <3>1, <4>1
    <3>3. Refuted(ddmin, 0, refuted)
      BY <3>2, Zenon DEF Refuted
    <3>4. LET r == CheckAt(ddmin, 0)
          IN  r \in Searches /\ r.count = ddmin.count /\ Shrinks(r) /\ PlaceOK(r, confirmed, refuted)
      BY <1>0, <3>1, <3>2, <3>3, Checks, Zenon
    <3>5. options' = options /\ confirmed' = confirmed /\ refuted' = refuted
      BY <2>1, Zenon
    <3> QED BY <2>2, <3>4, <3>5, Zenon DEF MinimizerInv
  <2>3. CASE ddmin' = ReturnResult(ddmin, "error")
    BY <1>1, <1>2, <2>1, <2>3, Zenon
  <2> QED BY <1>4, <2>2, <2>3, Zenon DEF BeginRound
<1>5. CASE \E outcome \in {"match", "no match", "failed"} : Evaluate(outcome)
  BY <1>5, EvaluateKeeps, Zenon
<1>6. CASE UNCHANGED minimizerVars
  <2>1. options' = options /\ ddmin' = ddmin /\ confirmed' = confirmed /\ refuted' = refuted
    BY <1>6, Zenon DEF minimizerVars
  <2> QED BY <2>1, Zenon DEF MinimizerInv
<1> QED BY <1>3, <1>4, <1>5, <1>6, Zenon DEF MinimizerNext

\* DDMin begins in the invariant.
LEMMA SearchBegins == MinimizerInit => MinimizerInv
<1> SUFFICES ASSUME MinimizerInit PROVE MinimizerInv
  OBVIOUS
<1>1. options \in Settings /\ options.limit >= 1
  <2>1. PICK o \in MinimizerOptions : options \in normalizeOptions(o)
    BY Zenon DEF MinimizerInit
  <2> DEFINE attempts == IF o.attempts = 0 THEN 1 ELSE o.attempts
             required == IF o.required = 0 THEN attempts ELSE o.required
             limit    == IF o.limit = 0 THEN DefaultMaxEvaluations ELSE o.limit
  <2>2. options = [attempts |-> attempts, required |-> required, limit |-> limit] /\ limit >= 1
    BY <2>1, Zenon DEF normalizeOptions
  <2>3. o.attempts \in Int /\ o.required \in Int /\ o.limit \in Int
    BY MinimizerConstants, Zenon
  <2>4. attempts \in Int /\ required \in Int /\ limit \in Nat
    BY <2>2, <2>3 DEF DefaultMaxEvaluations
  <2> HIDE DEF attempts, required, limit
  <2> QED BY <2>2, <2>4, Zenon DEF Settings
<1>2. PICK input \in MinimizerInputs :
          ddmin = [pc |-> "check input", input |-> input, current |-> input, candidate |-> input,
                   granularity |-> 2, start |-> 0, flaky |-> FALSE, count |-> 0,
                   tried |-> 0, passes |-> 0, failures |-> 0, status |-> "none"]
  BY Zenon DEF MinimizerInit
<1>3. input \in Seq(Items)
  <2>1. input \in Seq(Range(input)) /\ Range(input) \subseteq Items
    BY MinimizerConstants, Zenon DEF Items
  <2> QED BY <2>1, SeqMonotonic, Zenon
<1>4. "check input" \in Places /\ "none" \in Results /\ 0 \in Nat /\ 2 \in Nat /\ 2 >= 2
  BY DEF Places, Results
<1>5. /\ ddmin \in Searches /\ ddmin.pc = "check input" /\ ddmin.current = input
      /\ ddmin.candidate = input /\ ddmin.input = input /\ ddmin.granularity = 2 /\ ddmin.count = 0
  BY <1>2, <1>3, <1>4, Zenon DEF Searches
<1>6. "check input" \notin {"round", "check", "returned"}
  OBVIOUS
<1>7. Len(input) <= Len(input) /\ 0 <= options.limit
  <2>1. Len(input) \in Nat /\ options.limit \in Nat
    BY <1>1, <1>3, LenProperties, Zenon DEF Settings
  <2> QED BY <2>1
<1>8. Shrinks(ddmin) /\ ddmin.count <= options.limit
  BY <1>5, <1>7, Zenon DEF Shrinks
<1>9. PlaceOK(ddmin, confirmed, refuted)
  BY <1>4, <1>5, <1>6, Zenon DEF PlaceOK
<1> QED BY <1>1, <1>5, <1>8, <1>9, Zenon DEF MinimizerInv

\* However flaky the predicate and wherever the budget ends, what DDMin returns was
\* confirmed, and is 1-minimal when it says so; for every input and every options.
THEOREM ResultsAreMinimal == MinimizerSpec => []ResultIsMinimal
<1>1. MinimizerInv => ResultIsMinimal
  <2> SUFFICES ASSUME MinimizerInv, ddmin.pc = "returned" PROVE ResultIsMinimal
    BY Zenon DEF ResultIsMinimal
  <2>1. DOMAIN ddmin.current = 1..Len(ddmin.current)
    <3>1. ddmin.current \in Seq(Items)
      BY Zenon DEF MinimizerInv, Searches
    <3> QED BY <3>1, LenProperties, Zenon
  <2> QED BY <2>1, Zenon DEF MinimizerInv, PlaceOK, Refuted, ResultIsMinimal
<1> QED BY <1>1, SearchBegins, SearchStep, PTL DEF MinimizerSpec

=============================================================================
