------------------------ MODULE ControllerResolution ------------------------
(***************************************************************************)
(* Which controller a run talks to (core/controller.py, _env.py): the      *)
(* orchestrator resolves it from the environment once, or tells the user   *)
(* how to change the environment; each test process is handed the result   *)
(* in an environment variable, or resolves it again, and looks up the URL  *)
(* and the credentials on its own.                                         *)
(*                                                                         *)
(* The resolution and the lookups treat blank variables, alternative       *)
(* credential sets and several configured controllers each in their own    *)
(* code; the properties relate them.  The values are left out.             *)
(*                                                                         *)
(* Definitions whose comment begins with "Mutant" are faulty versions of   *)
(* the definition after them; no specification uses them.                  *)
(***************************************************************************)
EXTENDS Integers, Sequences, FiniteSets

CONSTANTS
    Configured,  \* bound: the controllers whose variables may be set
    MaxTries     \* bound on the attempts of the user

(***************************************************************************)
(* CONTROLLER_REGISTRY: url_env_var and the credential sets in the order   *)
(* in which they are tried.                                                *)
(***************************************************************************)
Set(method, url, other) == [method |-> method, url |-> url, other |-> other]

Registry ==
    [ACI    |-> [url |-> "ACI_URL", sets |->
                    <<Set("session", "ACI_URL", {"ACI_USERNAME", "ACI_PASSWORD"})>>],
     SDWAN  |-> [url |-> "SDWAN_URL", sets |->
                    <<Set("token", "SDWAN_URL", {"SDWAN_API_TOKEN"}),
                      Set("session", "SDWAN_URL", {"SDWAN_USERNAME", "SDWAN_PASSWORD"})>>],
     CC     |-> [url |-> "CC_URL", sets |->
                    <<Set("session", "CC_URL", {"CC_USERNAME", "CC_PASSWORD"})>>],
     MERAKI |-> [url |-> "MERAKI_URL", sets |->
                    <<Set("session", "MERAKI_URL", {"MERAKI_USERNAME", "MERAKI_PASSWORD"})>>],
     FMC    |-> [url |-> "FMC_URL", sets |->
                    <<Set("session", "FMC_URL", {"FMC_USERNAME", "FMC_PASSWORD"})>>],
     ISE    |-> [url |-> "ISE_URL", sets |->
                    <<Set("session", "ISE_URL", {"ISE_USERNAME", "ISE_PASSWORD"})>>],
     IOSXE  |-> [url |-> "IOSXE_URL", sets |->
                    <<Set("session", "IOSXE_URL", {"IOSXE_USERNAME", "IOSXE_PASSWORD"}),
                      Set("session", "IOSXE_HOST", {"IOSXE_USERNAME", "IOSXE_PASSWORD"})>>],
     NXOS   |-> [url |-> "NXOS_HOST", sets |->
                    <<Set("session", "NXOS_HOST", {"NXOS_USERNAME", "NXOS_PASSWORD"})>>]]

Controllers == DOMAIN Registry
ASSUME ConfiguredAssumption == Configured \subseteq Controllers /\ MaxTries \in Nat

Sets(k)    == Registry[k].sets
SetsOf(k)  == {Sets(k)[i] : i \in DOMAIN Sets(k)}
EnvVars(s) == {s.url} \cup s.other
AllEnvVars(k) == UNION {EnvVars(s) : s \in SetsOf(k)}
Variables  == UNION {AllEnvVars(k) : k \in Configured}

VARIABLES
    env,      \* env[v]: is variable v of the environment set?
    phase,    \* "resolve", "resolved", "refused" or "child"
    context,  \* ControllerContext
    error,    \* the ResolutionError and its controllers
    advice,   \* the controller the user has chosen to follow the message for
    tries,    \* changes of the environment
    child     \* what a test process has looked up

vars == <<env, phase, context, error, advice, tries, child>>

NoContext == [controller |-> "none", method |-> "none"]
NoError   == [kind |-> "none", controllers |-> {}]
NoChild   == [context |-> NoContext, url |-> "none", params |-> {}, missing |-> {}]

Init == /\ env \in [Variables -> {"unset", "blank", "set"}]
        /\ phase = "resolve" /\ tries = 0 /\ advice = "none"
        /\ context = NoContext /\ error = NoError /\ child = NoChild

(***************************************************************************)
(* Looking at the environment.                                             *)
(***************************************************************************)
\* os.environ.get(v, "").strip() is not empty.
HasValue(v) == v \in Variables /\ env[v] = "set"

\* Mutant: blanks count.
NotUnset(v) == v \in Variables /\ env[v] # "unset"

\* is_env_var_set().
IsEnvVarSet(v) == v \in Variables /\ env[v] = "set"

Satisfied(k) == {i \in DOMAIN Sets(k) : \A v \in EnvVars(Sets(k)[i]) : IsEnvVarSet(v)}
First(I)     == CHOOSE i \in I : \A j \in I : i <= j

\* _find_credential_sets().
Complete == {k \in Controllers : Satisfied(k) # {}}
Partial  == {k \in Controllers \ Complete : \E v \in AllEnvVars(k) : IsEnvVarSet(v)}

Matched(k) == Sets(k)[First(Satisfied(k))]

\* _infer_auth_method().
InferAuthMethod(k) == IF Satisfied(k) = {} THEN "session" ELSE Matched(k).method

(***************************************************************************)
(* resolve_controller().                                                   *)
(***************************************************************************)
Resolve ==
    /\ phase = "resolve"
    /\ Cardinality(Complete) = 1
    /\ LET k == CHOOSE k \in Complete : TRUE
       IN  context' = [controller |-> k, method |-> Matched(k).method]
    /\ phase' = "resolved"
    /\ UNCHANGED <<env, error, advice, tries, child>>

Refuse ==
    /\ phase = "resolve"
    /\ Cardinality(Complete) # 1
    /\ error' = IF Complete # {} THEN [kind |-> "multiple", controllers |-> Complete]
                ELSE IF Partial # {} THEN [kind |-> "incomplete", controllers |-> Partial]
                ELSE [kind |-> "none found", controllers |-> Controllers]
    /\ phase' = "refused"
    /\ UNCHANGED <<env, context, advice, tries, child>>

(***************************************************************************)
(* The user follows format_resolution_error() for one of the controllers   *)
(* it names.                                                               *)
(***************************************************************************)
\* Mutant: only the URLs of the other controllers are named.
UrlsOnly(k) == {Registry[other].url : other \in error.controllers \ {k}}

\* The variables "To use k only: unset ..." lists.
ToUnset(k) == UNION {AllEnvVars(other) : other \in error.controllers \ {k}}

Again(k, changed) ==
    /\ tries < MaxTries
    /\ env' = changed
    /\ advice' = k /\ tries' = tries + 1
    /\ error' = NoError
    /\ phase' = "resolve"
    /\ UNCHANGED <<context, child>>

UnsetOthers ==
    /\ phase = "refused" /\ error.kind = "multiple"
    /\ \E k \in error.controllers :
           Again(k, [v \in Variables |-> IF v \in ToUnset(k) THEN "unset" ELSE env[v]])

Complement(k) ==
    \E s \in SetsOf(k) :
        Again(k, [v \in Variables |-> IF v \in EnvVars(s) THEN "set" ELSE env[v]])

\* "Accepted credential sets" of one of the controllers with a gap.
SetMissing ==
    /\ phase = "refused" /\ error.kind = "incomplete"
    /\ \E k \in error.controllers : Complement(k)

\* "export ..." for any controller.
SetCredentials ==
    /\ phase = "refused" /\ error.kind = "none found"
    /\ \E k \in error.controllers \cap Configured : Complement(k)

(***************************************************************************)
(* setup() of a test, in its own process.                                  *)
(***************************************************************************)
\* detect_controller_type() resolves the controller again.
Detected == CHOOSE k \in Complete : TRUE

\* get_controller_context() without a context that was handed over.
OwnContext == [controller |-> Detected, method |-> InferAuthMethod(Detected)]

\* get_controller_url(): url_env_var, or that of another credential set.
UrlVariable(k) ==
    IF HasValue(Registry[k].url) THEN Registry[k].url
    ELSE LET others == {i \in DOMAIN Sets(k) : HasValue(Sets(k)[i].url)}
         IN  IF others = {} THEN "none" ELSE Sets(k)[First(others)].url

\* get_connection_params(): the first satisfied set of the method, or else the
\* one with the most variables for the error message.
Params(k, method) ==
    LET candidates == {i \in DOMAIN Sets(k) : Sets(k)[i].method = method}
        Missing(i) == {v \in EnvVars(Sets(k)[i]) : ~HasValue(v)}
        Given(i)   == Cardinality(EnvVars(Sets(k)[i]) \ Missing(i))
        full       == {i \in candidates : Missing(i) = {}}
        chosen     == IF full # {} THEN First(full)
                      ELSE First({i \in candidates : \A j \in candidates : Given(j) <= Given(i)})
    IN  [params |-> EnvVars(Sets(k)[chosen]) \ Missing(chosen), missing |-> Missing(chosen)]

StartTest ==
    /\ phase = "resolved"
    /\ \E c \in {context, OwnContext} :
           LET found == Params(c.controller, c.method)
           IN  child' = [context |-> c, url |-> UrlVariable(c.controller),
                         params |-> found.params, missing |-> found.missing]
    /\ phase' = "child"
    /\ UNCHANGED <<env, context, error, advice, tries>>

Next == Resolve \/ Refuse \/ UnsetOthers \/ SetMissing \/ SetCredentials \/ StartTest

Spec == Init /\ [][Next]_vars

(***************************************************************************)
(* Properties.                                                             *)
(***************************************************************************)
Contexts == [controller: Controllers \cup {"none"}, method: {"none", "session", "token"}]

TypeOK ==
    /\ env \in [Variables -> {"unset", "blank", "set"}]
    /\ phase \in {"resolve", "resolved", "refused", "child"}
    /\ context \in Contexts
    /\ error.kind \in {"none", "multiple", "incomplete", "none found"}
    /\ error.controllers \subseteq Controllers
    /\ advice \in Configured \cup {"none"} /\ tries \in 0 .. MaxTries
    /\ child.context \in Contexts
    /\ child.url \in Variables \cup {"none"}
    /\ child.params \cup child.missing \subseteq Variables

\* Whoever does what the error message says for a controller gets that
\* controller: the message names enough variables, and a second resolution
\* finds neither another controller nor a gap.
AdviceWorks ==
    advice # "none" /\ phase # "resolve" =>
        phase \in {"resolved", "child"} /\ context.controller = advice

\* A test process ends up with the controller and the method of the
\* orchestrator, whether it was told or not; it finds a URL and all
\* credentials, and both lookups take the URL from the same variable.
TestsAgree ==
    phase = "child" =>
        /\ child.context = context
        /\ child.missing = {}
        /\ child.url \in child.params
=============================================================================
