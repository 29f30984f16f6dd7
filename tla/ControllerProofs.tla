-------------------------- MODULE ControllerProofs --------------------------
(***************************************************************************)
(* The advice of an error message works, and test processes agree with the *)
(* orchestrator, for any configured controllers and number of attempts.    *)
(***************************************************************************)
EXTENDS ControllerResolution, FiniteSetTheorems, TLAPS

-----------------------------------------------------------------------------
(* The registry.                                                            *)

Names == {"ACI", "SDWAN", "CC", "MERAKI", "FMC", "ISE", "IOSXE", "NXOS"}

\* The controllers are the keys of the registry.
LEMMA Keys == Controllers = Names
BY DEF Controllers, Registry, Names

\* There are finitely many controllers.
LEMMA NamesFinite == IsFiniteSet(Names)
<1>1. ASSUME NEW S, IsFiniteSet(S), NEW x
      PROVE  IsFiniteSet(S \cup {x})
  BY <1>1, FS_AddElement
<1> DEFINE A == ({"ACI"} \cup {"SDWAN"}) \cup {"CC"}
           B == ((A \cup {"MERAKI"}) \cup {"FMC"}) \cup {"ISE"}
<1>2. IsFiniteSet({"ACI"})
  BY FS_Singleton
<1>3. IsFiniteSet(A)
  BY <1>1, <1>2
<1>4. IsFiniteSet(B)
  <2> HIDE DEF A
  <2>1. QED BY <1>1, <1>3
<1>5. IsFiniteSet((B \cup {"IOSXE"}) \cup {"NXOS"})
  <2> HIDE DEF B
  <2>1. QED BY <1>1, <1>4
<1>6. Names = (B \cup {"IOSXE"}) \cup {"NXOS"}
  BY DEF Names
<1>7. QED BY <1>5, <1>6

\* A controller has one credential set or two; the first one names the URL
\* variable of the registry; where the second names another URL, the sets
\* differ in nothing else.
LEMMA SetFacts ==
    ASSUME NEW k \in Controllers
    PROVE  /\ DOMAIN Sets(k) = {1} \/ DOMAIN Sets(k) = {1, 2}
           /\ Sets(k)[1].url = Registry[k].url
           /\ 2 \in DOMAIN Sets(k) =>
                  \/ Sets(k)[2].url = Sets(k)[1].url
                  \/ /\ Sets(k)[2].method = Sets(k)[1].method
                     /\ Sets(k)[2].other = Sets(k)[1].other
<1>1. k \in Names
  BY Keys
<1>2. CASE k \in {"SDWAN"}
  BY <1>2 DEF Sets, Registry, Set
<1>3. CASE k \in {"IOSXE"}
  <2>1. /\ DOMAIN Sets(k) = {1, 2} /\ Registry[k].url = "IOSXE_URL"
        /\ Sets(k)[1].url = "IOSXE_URL"
    BY <1>3 DEF Sets, Registry, Set
  <2>2. /\ Sets(k)[1].method = "session" /\ Sets(k)[2].method = "session"
    BY <1>3 DEF Sets, Registry, Set
  <2>3. Sets(k)[2].other = Sets(k)[1].other
    <3> DEFINE rest == {"IOSXE_USERNAME", "IOSXE_PASSWORD"}
    <3>1. Registry["IOSXE"].sets = <<Set("session", "IOSXE_URL", rest),
                                     Set("session", "IOSXE_HOST", rest)>>
      BY DEF Registry
    <3> HIDE DEF rest
    <3>2. QED BY <1>3, <3>1 DEF Sets, Set
  <2>4. QED BY <2>1, <2>2, <2>3
<1>4. CASE k \in {"ACI", "CC", "MERAKI", "FMC", "ISE", "NXOS"}
  BY <1>4 DEF Sets, Registry, Set
<1>5. QED BY <1>1, <1>2, <1>3, <1>4 DEF Names

\* The variables of each controller.
VarsOf ==
    [ACI    |-> {"ACI_URL", "ACI_USERNAME", "ACI_PASSWORD"},
     SDWAN  |-> {"SDWAN_URL", "SDWAN_API_TOKEN", "SDWAN_USERNAME", "SDWAN_PASSWORD"},
     CC     |-> {"CC_URL", "CC_USERNAME", "CC_PASSWORD"},
     MERAKI |-> {"MERAKI_URL", "MERAKI_USERNAME", "MERAKI_PASSWORD"},
     FMC    |-> {"FMC_URL", "FMC_USERNAME", "FMC_PASSWORD"},
     ISE    |-> {"ISE_URL", "ISE_USERNAME", "ISE_PASSWORD"},
     IOSXE  |-> {"IOSXE_URL", "IOSXE_HOST", "IOSXE_USERNAME", "IOSXE_PASSWORD"},
     NXOS   |-> {"NXOS_HOST", "NXOS_USERNAME", "NXOS_PASSWORD"}]

\* The variables of a controller are those of its credential sets, and no two
\* controllers share one.
LEMMA VarFacts ==
    ASSUME NEW k \in Controllers
    PROVE  AllEnvVars(k) = VarsOf[k]
<1>1. k \in Names
  BY Keys
<1>2. CASE k \in {"SDWAN"}
  <2>1. SetsOf(k) = {Sets(k)[1], Sets(k)[2]}
    BY <1>2 DEF SetsOf, Sets, Registry, Set
  <2>2. AllEnvVars(k) = EnvVars(Sets(k)[1]) \cup EnvVars(Sets(k)[2])
    BY <2>1 DEF AllEnvVars
  <2>3. QED BY <1>2, <2>2 DEF EnvVars, Sets, Registry, Set, VarsOf
<1>3. CASE k \in {"IOSXE"}
  <2>1. SetsOf(k) = {Sets(k)[1], Sets(k)[2]}
    BY <1>3 DEF SetsOf, Sets, Registry, Set
  <2>2. AllEnvVars(k) = EnvVars(Sets(k)[1]) \cup EnvVars(Sets(k)[2])
    BY <2>1 DEF AllEnvVars
  <2>3. QED BY <1>3, <2>2 DEF EnvVars, Sets, Registry, Set, VarsOf
<1>4. CASE k \in {"ACI", "CC", "MERAKI", "FMC", "ISE", "NXOS"}
  <2>1. SetsOf(k) = {Sets(k)[1]}
    BY <1>4 DEF SetsOf, Sets, Registry, Set
  <2>2. AllEnvVars(k) = EnvVars(Sets(k)[1])
    BY <2>1 DEF AllEnvVars
  <2>3. QED BY <1>4, <2>2 DEF EnvVars, Sets, Registry, Set, VarsOf
<1>5. QED BY <1>1, <1>2, <1>3, <1>4 DEF Names

\* No two controllers share a variable.
LEMMA Disjoint ==
    ASSUME NEW k \in Controllers, NEW l \in Controllers, k # l
    PROVE  AllEnvVars(k) \cap AllEnvVars(l) = {}
<1>1. k \in Names /\ l \in Names
  BY Keys
<1>2. VarsOf[k] \cap VarsOf[l] = {}
  BY <1>1 DEF Names, VarsOf
<1>3. QED BY <1>2, VarFacts

\* Of some credential sets of a controller there is a first one.
LEMMA FirstExists ==
    ASSUME NEW k \in Controllers, NEW I \in SUBSET DOMAIN Sets(k), I # {}
    PROVE  First(I) \in I /\ \A j \in I : First(I) <= j
<1>1. \E i \in I : \A j \in I : i <= j
  <2>1. I \subseteq {1, 2}
    BY SetFacts
  <2>2. CASE 1 \in I
    BY <2>1, <2>2
  <2>3. CASE 1 \notin I
    <3>1. 2 \in I /\ \A j \in I : j = 2
      BY <2>1, <2>3
    <3>2. QED BY <3>1
  <2>4. QED BY <2>2, <2>3
<1>2. QED BY <1>1 DEF First

\* The variables of a credential set are variables of its controller, and the
\* URL is one of them.
LEMMA SetVars ==
    ASSUME NEW k \in Controllers
    PROVE  /\ \A s \in SetsOf(k) : EnvVars(s) \subseteq AllEnvVars(k)
                                   /\ s.url \in EnvVars(s)
           /\ \A i \in DOMAIN Sets(k) : Sets(k)[i] \in SetsOf(k)
BY DEF SetsOf, EnvVars, AllEnvVars

\* Only variables of configured controllers are ever set.
LEMMA ConfiguredVars ==
    ASSUME NEW k \in Controllers, NEW v \in AllEnvVars(k), v \in Variables
    PROVE  k \in Configured
<1>1. PICK c \in Configured : v \in AllEnvVars(c)
  BY DEF Variables
<1>2. c \in Controllers
  BY ConfiguredAssumption
<1>3. QED BY <1>1, <1>2, Disjoint

\* The first matching set of a complete controller is one of its sets.
LEMMA MatchedSet ==
    ASSUME NEW k \in Complete
    PROVE  /\ k \in Controllers
           /\ First(Satisfied(k)) \in Satisfied(k)
           /\ Satisfied(k) \in SUBSET DOMAIN Sets(k)
<1>1. k \in Controllers /\ Satisfied(k) # {}
  BY DEF Complete
<1>2. Satisfied(k) \in SUBSET DOMAIN Sets(k)
  BY DEF Satisfied
<1>3. QED BY <1>1, <1>2, FirstExists
-----------------------------------------------------------------------------
(* The inductive invariant.                                                 *)

EnvOK == env \in [Variables -> {"unset", "blank", "set"}]

\* A refusal says what is wrong with the environment as it is.
ErrorInv ==
    phase = "refused" =>
        \/ error.kind = "multiple" /\ error.controllers = Complete
        \/ /\ error.kind = "incomplete" /\ Complete = {}
           /\ error.controllers = Partial
        \/ /\ error.kind = "none found" /\ Complete = {}
           /\ error.controllers = Controllers

\* After the advice was followed, its controller is the only complete one.
AdviceInv ==
    advice # "none" =>
        /\ phase = "resolve" => Complete = {advice}
        /\ phase # "refused"
        /\ phase \in {"resolved", "child"} => context.controller = advice

\* What was resolved is the only complete controller, with its first matching
\* credential set.
ContextInv ==
    phase \in {"resolved", "child"} =>
        \E k \in Controllers :
            /\ Complete = {k}
            /\ context = [controller |-> k, method |-> Matched(k).method]

IInv == EnvOK /\ ErrorInv /\ AdviceInv /\ ContextInv
-----------------------------------------------------------------------------
(* What the environment decides, and what the user's change of it does.     *)

\* The resolution depends on nothing but the environment.
LEMMA SameEnv ==
    ASSUME env' = env
    PROVE  /\ Complete' = Complete /\ Partial' = Partial
           /\ \A k \in Controllers : Matched(k)' = Matched(k)
BY DEF Complete, Partial, Matched, Satisfied, IsEnvVarSet

\* Unsetting what the message lists for one of several complete controllers
\* leaves that one complete, and no other.
LEMMA UnsetWorks ==
    ASSUME EnvOK, NEW k \in Complete, error.controllers = Complete,
           env' = [v \in Variables |-> IF v \in ToUnset(k) THEN "unset" ELSE env[v]]
    PROVE  Complete' = {k}
<1>0. k \in Controllers
  BY MatchedSet
<1>1. \A v \in ToUnset(k) : \E l \in Complete \ {k} : v \in AllEnvVars(l)
  BY DEF ToUnset
<1>2. Satisfied(k)' # {}
  <2>1. PICK i \in DOMAIN Sets(k) : \A v \in EnvVars(Sets(k)[i]) : IsEnvVarSet(v)
    BY MatchedSet DEF Satisfied
  <2>2. ASSUME NEW v \in EnvVars(Sets(k)[i])
        PROVE  v \in Variables /\ env'[v] = "set"
    <3>1. v \in Variables /\ env[v] = "set" /\ v \in AllEnvVars(k)
      BY <1>0, <2>1, SetVars DEF IsEnvVarSet
    <3>2. v \notin ToUnset(k)
      BY <1>0, <1>1, <3>1, Disjoint, MatchedSet
    <3>3. QED BY <3>1, <3>2
  <2>3. QED BY <2>2 DEF Satisfied, IsEnvVarSet
<1>3. ASSUME NEW l \in Controllers \ {k}, NEW i \in Satisfied(l)'
      PROVE  FALSE
  <2>1. /\ i \in DOMAIN Sets(l)
        /\ \A v \in EnvVars(Sets(l)[i]) : v \in Variables /\ env'[v] = "set"
    BY <1>3 DEF Satisfied, IsEnvVarSet
  <2>2. \A v \in EnvVars(Sets(l)[i]) : v \notin ToUnset(k) /\ env[v] = "set"
    BY <2>1
  <2>3. i \in Satisfied(l)
    BY <2>1, <2>2 DEF Satisfied, IsEnvVarSet
  <2>4. l \in Complete
    BY <2>3 DEF Complete
  <2>5. Sets(l)[i].url \in EnvVars(Sets(l)[i]) /\ Sets(l)[i].url \in AllEnvVars(l)
    BY <2>1, SetVars
  <2>6. Sets(l)[i].url \in ToUnset(k)
    BY <1>3, <2>4, <2>5 DEF ToUnset
  <2>7. QED BY <2>2, <2>5, <2>6
<1>4. QED BY <1>0, <1>2, <1>3 DEF Complete

\* Setting the variables of a credential set, when no controller is complete,
\* completes that controller and no other.
LEMMA ComplementWorks ==
    ASSUME EnvOK, Complete = {}, NEW k \in Controllers, k \in Configured,
           NEW s \in SetsOf(k),
           env' = [v \in Variables |-> IF v \in EnvVars(s) THEN "set" ELSE env[v]]
    PROVE  Complete' = {k}
<1>1. EnvVars(s) \subseteq AllEnvVars(k) /\ EnvVars(s) \subseteq Variables
  BY SetVars DEF Variables
<1>2. Satisfied(k)' # {}
  <2>1. PICK i \in DOMAIN Sets(k) : Sets(k)[i] = s
    BY DEF SetsOf
  <2>2. \A v \in EnvVars(Sets(k)[i]) : v \in Variables /\ env'[v] = "set"
    BY <1>1, <2>1
  <2>3. QED BY <2>2 DEF Satisfied, IsEnvVarSet
<1>3. ASSUME NEW l \in Controllers \ {k}, NEW i \in Satisfied(l)'
      PROVE  FALSE
  <2>1. /\ i \in DOMAIN Sets(l)
        /\ \A v \in EnvVars(Sets(l)[i]) : v \in Variables /\ env'[v] = "set"
    BY <1>3 DEF Satisfied, IsEnvVarSet
  <2>2. \A v \in EnvVars(Sets(l)[i]) : v \notin EnvVars(s)
    BY <1>1, <1>3, <2>1, Disjoint, SetVars
  <2>3. i \in Satisfied(l)
    BY <2>1, <2>2 DEF Satisfied, IsEnvVarSet
  <2>4. QED BY <2>3 DEF Complete
<1>4. QED BY <1>2, <1>3 DEF Complete

\* A controller with some of its variables set is configured.
LEMMA PartialConfigured == \A k \in Partial : k \in Controllers /\ k \in Configured
BY ConfiguredVars DEF Partial, IsEnvVarSet

\* So is one with a complete set.
LEMMA CompleteConfigured == \A k \in Complete : k \in Configured
<1> SUFFICES ASSUME NEW k \in Complete PROVE k \in Configured
  OBVIOUS
<1>1. k \in Controllers
  BY DEF Complete
<1>2. PICK i \in DOMAIN Sets(k) : \A v \in EnvVars(Sets(k)[i]) : IsEnvVarSet(v)
  BY DEF Complete, Satisfied
<1>3. Sets(k)[i].url \in AllEnvVars(k) /\ Sets(k)[i].url \in EnvVars(Sets(k)[i])
  BY <1>1, SetVars
<1>4. QED BY <1>1, <1>2, <1>3, ConfiguredVars DEF IsEnvVarSet
-----------------------------------------------------------------------------
(* The invariant is inductive.                                              *)

\* The invariant holds in every environment before it is looked at.
LEMMA IInit == Init => IInv
BY DEF Init, IInv, EnvOK, ErrorInv, AdviceInv, ContextInv

\* Resolving the controller keeps the invariant: what is resolved is the only
\* complete one, hence the one the user chose.
LEMMA ResolveStep ==
    ASSUME IInv, Resolve
    PROVE  IInv'
<1>1. PICK k \in Complete : Complete = {k}
  <2>1. Cardinality(Complete) = 1
    BY DEF Resolve
  <2>2. IsFiniteSet(Complete)
    <3>1. Complete \in SUBSET Names
      BY Keys DEF Complete
    <3>2. QED BY <3>1, NamesFinite, FS_Subset
  <2>3. QED BY <2>1, <2>2, FS_Singleton
<1>2. k \in Controllers /\ (CHOOSE c \in Complete : TRUE) = k
  BY <1>1, MatchedSet
<1>3. /\ context' = [controller |-> k, method |-> Matched(k).method]
      /\ phase' = "resolved" /\ phase = "resolve"
      /\ UNCHANGED <<env, error, advice>>
  BY <1>2 DEF Resolve
<1>4. Complete' = {k} /\ Matched(k)' = Matched(k)
  BY <1>1, <1>2, <1>3, SameEnv
<1>5. EnvOK' /\ ErrorInv'
  BY <1>3 DEF IInv, EnvOK, ErrorInv
<1>6. AdviceInv'
  BY <1>1, <1>3 DEF IInv, AdviceInv
<1>7. ContextInv'
  BY <1>2, <1>3, <1>4 DEF ContextInv
<1>8. QED BY <1>5, <1>6, <1>7 DEF IInv

\* A refusal describes the environment, and cannot follow a good change of it.
LEMMA RefuseStep ==
    ASSUME IInv, Refuse
    PROVE  IInv'
<1>1. /\ phase = "resolve" /\ phase' = "refused" /\ UNCHANGED <<env, advice>>
      /\ Cardinality(Complete) # 1
  BY DEF Refuse
<1>2. Complete' = Complete /\ Partial' = Partial
  BY <1>1, SameEnv
<1>3. advice = "none"
  <2>1. SUFFICES ASSUME Complete = {advice} PROVE FALSE
    BY <1>1 DEF IInv, AdviceInv
  <2>2. QED BY <1>1, <2>1, FS_Singleton
<1>4. ErrorInv'
  <2>1. CASE Complete # {}
    <3>1. error' = [kind |-> "multiple", controllers |-> Complete]
      BY <2>1 DEF Refuse
    <3>2. QED BY <1>2, <3>1 DEF ErrorInv
  <2>2. CASE Complete = {} /\ Partial # {}
    <3>1. error' = [kind |-> "incomplete", controllers |-> Partial]
      BY <2>2 DEF Refuse
    <3>2. QED BY <1>2, <2>2, <3>1 DEF ErrorInv
  <2>3. CASE Complete = {} /\ Partial = {}
    <3>1. error' = [kind |-> "none found", controllers |-> Controllers]
      BY <2>3 DEF Refuse
    <3>2. QED BY <1>2, <2>3, <3>1 DEF ErrorInv
  <2>4. QED BY <2>1, <2>2, <2>3
<1>5. EnvOK' /\ AdviceInv' /\ ContextInv'
  BY <1>1, <1>3 DEF IInv, EnvOK, AdviceInv, ContextInv
<1>6. QED BY <1>4, <1>5 DEF IInv

\* After the user has tried again, the invariant asks one thing of the change:
\* that the chosen controller is the only complete one.
LEMMA AgainStep ==
    ASSUME NEW k \in Controllers, Complete' = {k}, EnvOK',
           advice' = k, phase' = "resolve"
    PROVE  IInv'
BY DEF IInv, ErrorInv, AdviceInv, ContextInv

\* Whichever message the user follows, the change works.
LEMMA AdviceStep ==
    ASSUME IInv, UnsetOthers \/ SetMissing \/ SetCredentials
    PROVE  IInv'
<1>1. CASE UnsetOthers
  <2>1. error.controllers = Complete
    BY <1>1 DEF UnsetOthers, IInv, ErrorInv
  <2>2. PICK k \in Complete :
            Again(k, [v \in Variables |-> IF v \in ToUnset(k) THEN "unset" ELSE env[v]])
    BY <1>1, <2>1 DEF UnsetOthers
  <2>3. /\ env' = [v \in Variables |-> IF v \in ToUnset(k) THEN "unset" ELSE env[v]]
        /\ advice' = k /\ phase' = "resolve"
    BY <2>2 DEF Again
  <2>4. Complete' = {k}
    BY <2>1, <2>3, UnsetWorks DEF IInv
  <2>5. EnvOK'
    BY <2>3 DEF IInv, EnvOK
  <2>6. QED BY <2>3, <2>4, <2>5, MatchedSet, AgainStep
<1>2. ASSUME NEW k \in Controllers, k \in Configured, Complete = {}, Complement(k)
      PROVE  IInv'
  <2>1. PICK s \in SetsOf(k) :
            Again(k, [v \in Variables |-> IF v \in EnvVars(s) THEN "set" ELSE env[v]])
    BY <1>2 DEF Complement
  <2>2. /\ env' = [v \in Variables |-> IF v \in EnvVars(s) THEN "set" ELSE env[v]]
        /\ advice' = k /\ phase' = "resolve"
    BY <2>1 DEF Again
  <2>3. Complete' = {k}
    BY <1>2, <2>2, ComplementWorks DEF IInv
  <2>4. EnvOK'
    BY <2>2 DEF IInv, EnvOK
  <2>5. QED BY <2>2, <2>3, <2>4, AgainStep
<1>3. CASE SetMissing
  <2>1. error.controllers = Partial /\ Complete = {}
    BY <1>3 DEF SetMissing, IInv, ErrorInv
  <2>2. PICK k \in Partial : Complement(k)
    BY <1>3, <2>1 DEF SetMissing
  <2>3. QED BY <1>2, <2>1, <2>2, PartialConfigured
<1>4. CASE SetCredentials
  <2>1. error.controllers = Controllers /\ Complete = {}
    BY <1>4 DEF SetCredentials, IInv, ErrorInv
  <2>2. PICK k \in Controllers \cap Configured : Complement(k)
    BY <1>4, <2>1 DEF SetCredentials
  <2>3. QED BY <1>2, <2>1, <2>2
<1>5. QED BY <1>1, <1>3, <1>4

\* The invariant holds in every step.
LEMMA IStep ==
    ASSUME IInv, [Next]_vars
    PROVE  IInv'
<1>1. CASE StartTest
  <2>1. /\ phase = "resolved" /\ phase' = "child"
        /\ UNCHANGED <<env, context, error, advice>>
    BY <1>1 DEF StartTest
  <2>2. Complete' = Complete /\ \A k \in Controllers : Matched(k)' = Matched(k)
    BY <2>1, SameEnv
  <2>3. ContextInv'
    BY <2>1, <2>2 DEF IInv, ContextInv
  <2>4. QED BY <2>1, <2>3 DEF IInv, EnvOK, ErrorInv, AdviceInv
<1>2. CASE UNCHANGED vars
  <2>1. UNCHANGED <<env, phase, context, error, advice>>
    BY <1>2 DEF vars
  <2>2. /\ Complete' = Complete /\ Partial' = Partial
        /\ \A k \in Controllers : Matched(k)' = Matched(k)
    BY <2>1, SameEnv
  <2>3. ContextInv'
    BY <2>1, <2>2 DEF IInv, ContextInv
  <2>4. QED BY <2>1, <2>2, <2>3 DEF IInv, EnvOK, ErrorInv, AdviceInv
<1>3. QED BY <1>1, <1>2, ResolveStep, RefuseStep, AdviceStep DEF Next

(* Whoever changes the environment as the error message says, for one of the *)
(* controllers it names, gets that controller: no second try is refused.    *)
THEOREM AdviceHelps == Spec => []AdviceWorks
<1>1. ASSUME ContextInv, AdviceInv, phase \in {"resolve", "resolved", "refused", "child"}
      PROVE  AdviceWorks
  BY <1>1 DEF AdviceInv, AdviceWorks
<1> DEFINE I == IInv /\ phase \in {"resolve", "resolved", "refused", "child"}
<1>2. Init => I
  BY IInit DEF Init
<1>3. I /\ [Next]_vars => I'
  <2>1. ASSUME I, [Next]_vars
        PROVE  phase' \in {"resolve", "resolved", "refused", "child"}
    BY <2>1
    DEF Next, Resolve, Refuse, UnsetOthers, SetMissing, SetCredentials,
        Complement, Again, StartTest, vars
  <2>2. QED BY <2>1, IStep
<1>4. I => AdviceWorks
  BY <1>1 DEF IInv
<1>5. QED BY <1>2, <1>3, <1>4, PTL DEF Spec
-----------------------------------------------------------------------------
(* The test process.                                                        *)

\* For the resolved controller the lookups of a test process find the URL and
\* all credentials in one complete set, with the URL of both lookups the same.
LEMMA LookupsAgree ==
    ASSUME NEW k \in Complete
    PROVE  /\ Params(k, Matched(k).method).missing = {}
           /\ UrlVariable(k) \in Params(k, Matched(k).method).params
           /\ Params(k, Matched(k).method).params \subseteq Variables
<1> DEFINE method == Matched(k).method
           candidates == {i \in DOMAIN Sets(k) : Sets(k)[i].method = method}
           Missing(i) == {v \in EnvVars(Sets(k)[i]) : ~HasValue(v)}
           Given(i) == Cardinality(EnvVars(Sets(k)[i]) \ Missing(i))
           full == {i \in candidates : Missing(i) = {}}
           chosen == First(full)
<1>0. k \in Controllers /\ First(Satisfied(k)) \in Satisfied(k)
  BY MatchedSet
<1>1. \A v : HasValue(v) <=> IsEnvVarSet(v)
  BY DEF HasValue, IsEnvVarSet
<1>2. First(Satisfied(k)) \in full
  BY <1>0, <1>1 DEF Satisfied, Matched
<1>3. full \in SUBSET DOMAIN Sets(k) /\ full # {}
  BY <1>2
<1>4. chosen \in full /\ \A j \in full : chosen <= j
  <2> HIDE DEF full
  <2>1. QED BY <1>0, <1>3, FirstExists
<1>5. /\ chosen \in DOMAIN Sets(k) /\ Sets(k)[chosen].method = method
      /\ Missing(chosen) = {}
  BY <1>4
<1>6. /\ Params(k, method).missing = {}
      /\ Params(k, method).params = EnvVars(Sets(k)[chosen])
  <2>1. Params(k, method)
            = [params |-> EnvVars(Sets(k)[chosen]) \ Missing(chosen),
               missing |-> Missing(chosen)]
    BY <1>3 DEF Params
  <2> HIDE DEF full, chosen
  <2>2. QED BY <1>5, <2>1
<1>9. EnvVars(Sets(k)[chosen]) \subseteq Variables
  BY <1>5 DEF HasValue
<1> HIDE DEF method
<1>7. UrlVariable(k) \in EnvVars(Sets(k)[chosen])
  <2>1. /\ \A v \in EnvVars(Sets(k)[chosen]) : HasValue(v)
        /\ EnvVars(Sets(k)[chosen]) = {Sets(k)[chosen].url} \cup Sets(k)[chosen].other
    BY <1>5 DEF EnvVars
  <2>2. chosen = 1 \/ (chosen = 2 /\ 2 \in DOMAIN Sets(k))
    BY <1>0, <1>5, SetFacts
  <2>3. 1 \in DOMAIN Sets(k) /\ Sets(k)[1].url = Registry[k].url
    BY <1>0, SetFacts
  <2>4. CASE HasValue(Registry[k].url)
    <3>1. UrlVariable(k) = Registry[k].url
      BY <2>4 DEF UrlVariable
    <3>2. CASE chosen = 1
      BY <2>1, <2>3, <3>1, <3>2
    <3>3. CASE chosen = 2 /\ Sets(k)[2].url = Sets(k)[1].url
      BY <2>1, <2>3, <3>1, <3>3
    <3>4. CASE /\ chosen = 2 /\ Sets(k)[2].method = Sets(k)[1].method
               /\ Sets(k)[2].other = Sets(k)[1].other
      <4>1. \A v \in EnvVars(Sets(k)[1]) : HasValue(v)
        BY <2>1, <2>3, <2>4, <3>4 DEF EnvVars
      <4>2. 1 \in full
        BY <1>5, <2>3, <3>4, <4>1
      <4>3. chosen <= 1
        BY <1>4, <4>2
      <4>4. QED BY <3>4, <4>3
    <3>5. QED BY <1>0, <2>2, <3>2, <3>3, <3>4, SetFacts
  <2>5. CASE ~HasValue(Registry[k].url)
    <3> DEFINE others == {i \in DOMAIN Sets(k) : HasValue(Sets(k)[i].url)}
    <3>1. chosen = 2 /\ HasValue(Sets(k)[2].url) /\ 1 \notin others
      BY <2>1, <2>2, <2>3, <2>5
    <3>2. others = {2}
      BY <1>0, <2>2, <3>1, SetFacts
    <3>3. UrlVariable(k) = Sets(k)[First(others)].url
      BY <2>5, <3>2 DEF UrlVariable
    <3>4. First(others) = 2
      BY <3>2 DEF First
    <3>5. QED BY <2>1, <3>1, <3>3, <3>4
  <2>6. QED BY <2>4, <2>5
<1>8. QED BY <1>6, <1>7, <1>9 DEF method

(* A test process, told or not, ends up with the controller and the method   *)
(* of the orchestrator, all its credentials, and one URL.                   *)
THEOREM ProcessesAgree == Spec => []TestsAgree
<1>1. ASSUME IInv, TestsAgree, [Next]_vars
      PROVE  TestsAgree'
  <2>1. CASE StartTest
    <3>1. phase = "resolved" /\ phase' = "child" /\ context' = context
      BY <2>1 DEF StartTest
    <3>2. PICK k \in Controllers :
              /\ Complete = {k}
              /\ context = [controller |-> k, method |-> Matched(k).method]
      BY <1>1, <3>1 DEF IInv, ContextInv
    <3>3. OwnContext = context
      <4>1. Detected = k
        BY <3>2 DEF Detected
      <4>2. Satisfied(k) # {}
        BY <3>2 DEF Complete
      <4>3. QED BY <3>2, <4>1, <4>2 DEF OwnContext, InferAuthMethod
    <3>4. child' = [context |-> context, url |-> UrlVariable(k),
                    params |-> Params(k, Matched(k).method).params,
                    missing |-> Params(k, Matched(k).method).missing]
      <4>1. context.controller = k /\ context.method = Matched(k).method
        BY <3>2
      <4>2. QED BY <2>1, <3>3, <4>1 DEF StartTest
    <3>5. QED BY <3>1, <3>2, <3>4, LookupsAgree DEF TestsAgree
  <2>2. CASE Resolve \/ Refuse \/ UnsetOthers \/ SetMissing \/ SetCredentials
    <3>1. phase' # "child"
      BY <2>2
      DEF Resolve, Refuse, UnsetOthers, SetMissing, SetCredentials, Complement,
          Again
    <3>2. QED BY <3>1 DEF TestsAgree
  <2>3. CASE UNCHANGED vars
    BY <1>1, <2>3 DEF vars, TestsAgree
  <2>4. QED BY <1>1, <2>1, <2>2, <2>3 DEF Next
<1>2. Init => TestsAgree
  BY DEF Init, TestsAgree
<1>3. QED BY <1>1, <1>2, IInit, IStep, PTL DEF Spec

-----------------------------------------------------------------------------
(* Types.                                                                   *)

\* The methods of the registry.
LEMMA MethodFacts ==
    ASSUME NEW k \in Controllers, NEW i \in DOMAIN Sets(k)
    PROVE  Sets(k)[i].method \in {"session", "token"}
<1>1. k \in Names
  BY Keys
<1>2. CASE k \in {"SDWAN"}
  BY <1>2 DEF Sets, Registry, Set
<1>3. CASE k \in {"IOSXE"}
  BY <1>3 DEF Sets, Registry, Set
<1>4. CASE k \in {"ACI", "CC", "MERAKI", "FMC", "ISE", "NXOS"}
  BY <1>4 DEF Sets, Registry, Set
<1>5. QED BY <1>1, <1>2, <1>3, <1>4 DEF Names

\* What is resolved is a controller with one of its methods.
LEMMA ContextType ==
    ASSUME NEW k \in Complete
    PROVE  [controller |-> k, method |-> Matched(k).method] \in Contexts
<1>1. k \in Controllers /\ First(Satisfied(k)) \in DOMAIN Sets(k)
  BY MatchedSet
<1>2. Matched(k).method \in {"session", "token"}
  BY <1>1, MethodFacts DEF Matched
<1>3. QED BY <1>1, <1>2 DEF Contexts

\* A change of the environment is well-typed.
LEMMA AgainTypes ==
    ASSUME TypeOK, NEW k \in Configured,
           NEW changed \in [Variables -> {"unset", "blank", "set"}], Again(k, changed)
    PROVE  TypeOK'
<1>1. tries' \in 0 .. MaxTries
  <2>1. tries \in 0 .. MaxTries
    BY DEF TypeOK
  <2>2. tries < MaxTries /\ tries' = tries + 1
    BY DEF Again
  <2>3. QED BY <2>1, <2>2, ConfiguredAssumption
<1>2. error'.kind = "none" /\ error'.controllers = {}
  BY DEF Again, NoError
<1>3. QED BY <1>1, <1>2 DEF TypeOK, Again

(* A context that was resolved or looked up names a controller and one of    *)
(* its methods, and what a test finds are variables of the environment.     *)
THEOREM TypeCorrect == Spec => []TypeOK
<1>1. Init => TypeOK
  BY ConfiguredAssumption DEF Init, TypeOK, NoContext, NoError, NoChild, Contexts
<1>2. ASSUME IInv, TypeOK, [Next]_vars
      PROVE  TypeOK'
  <2>1. CASE Resolve
    <3>1. PICK k \in Controllers :
              context' = [controller |-> k, method |-> Matched(k)'.method] /\ k \in Complete'
      <4>1. IInv' /\ phase' = "resolved"
        BY <1>2, <2>1, IStep DEF Resolve
      <4>2. QED BY <4>1 DEF IInv, ContextInv
    <3>2. Complete' = Complete /\ \A c \in Controllers : Matched(c)' = Matched(c)
      BY <2>1, SameEnv DEF Resolve
    <3>3. context' \in Contexts
      BY <3>1, <3>2, ContextType
    <3>4. QED BY <1>2, <2>1, <3>3 DEF TypeOK, Resolve
  <2>2. CASE Refuse
    <3>1. Complete \subseteq Controllers /\ Partial \subseteq Controllers
      BY DEF Complete, Partial
    <3>2. /\ error'.kind \in {"none", "multiple", "incomplete", "none found"}
          /\ error'.controllers \subseteq Controllers
      BY <2>2, <3>1 DEF Refuse
    <3>3. QED BY <1>2, <2>2, <3>2 DEF TypeOK, Refuse
  <2>3. CASE UnsetOthers
    <3>1. PICK k \in error.controllers :
              Again(k, [v \in Variables |-> IF v \in ToUnset(k) THEN "unset" ELSE env[v]])
      BY <2>3 DEF UnsetOthers
    <3>2. k \in Complete
      BY <1>2, <2>3, <3>1 DEF IInv, ErrorInv, UnsetOthers
    <3>3. k \in Configured
      BY <3>2, CompleteConfigured
    <3>4. [v \in Variables |-> IF v \in ToUnset(k) THEN "unset" ELSE env[v]]
              \in [Variables -> {"unset", "blank", "set"}]
      BY <1>2 DEF TypeOK
    <3>5. QED BY <1>2, <3>1, <3>3, <3>4, AgainTypes
  <2>4. ASSUME NEW k \in Configured, Complement(k)
        PROVE  TypeOK'
    <3>1. PICK s \in SetsOf(k) :
              Again(k, [v \in Variables |-> IF v \in EnvVars(s) THEN "set" ELSE env[v]])
      BY <2>4 DEF Complement
    <3>2. [v \in Variables |-> IF v \in EnvVars(s) THEN "set" ELSE env[v]]
              \in [Variables -> {"unset", "blank", "set"}]
      BY <1>2 DEF TypeOK
    <3>3. QED BY <1>2, <3>1, <3>2, AgainTypes
  <2>5. CASE SetMissing
    <3>1. PICK k \in error.controllers : Complement(k)
      BY <2>5 DEF SetMissing
    <3>2. k \in Partial
      BY <1>2, <2>5, <3>1 DEF IInv, ErrorInv, SetMissing
    <3>3. QED BY <2>4, <3>1, <3>2, PartialConfigured
  <2>6. CASE SetCredentials
    BY <2>4, <2>6 DEF SetCredentials
  <2>7. CASE StartTest
    <3>1. PICK k \in Complete : context = [controller |-> k, method |-> Matched(k).method]
      BY <1>2, <2>7 DEF IInv, ContextInv, StartTest
    <3>2. PICK c \in {context, OwnContext} :
              child' = [context |-> c, url |-> UrlVariable(c.controller),
                        params |-> Params(c.controller, c.method).params,
                        missing |-> Params(c.controller, c.method).missing]
      BY <2>7 DEF StartTest
    <3>3. c = [controller |-> k, method |-> Matched(k).method]
      <4>1. Detected = k /\ Satisfied(k) # {}
        <5>1. Complete = {k}
          BY <1>2, <2>7, <3>1 DEF IInv, ContextInv, StartTest
        <5>2. QED BY <5>1 DEF Detected, Complete
      <4>2. QED BY <3>1, <3>2, <4>1 DEF OwnContext, InferAuthMethod
    <3>4. c \in Contexts
      BY <3>3, ContextType
    <3>5. c.controller = k /\ c.method = Matched(k).method
      BY <3>3
    <3>6. /\ child'.context \in Contexts /\ child'.url \in Variables
          /\ child'.params \cup child'.missing \subseteq Variables
      BY <3>2, <3>4, <3>5, LookupsAgree
    <3>7. QED BY <1>2, <2>7, <3>6 DEF TypeOK, StartTest
  <2>8. CASE UNCHANGED vars
    BY <1>2, <2>8 DEF TypeOK, vars
  <2>9. QED BY <1>2, <2>1, <2>2, <2>3, <2>5, <2>6, <2>7, <2>8 DEF Next
<1>3. QED BY <1>1, <1>2, IInit, IStep, PTL DEF Spec
=============================================================================
