------------------------- MODULE TestProcessProofs -------------------------
(***************************************************************************)
(* Safety of TestProcess for any items, commands and limits.               *)
(*                                                                         *)
(* The seconds of a delay are an integer here: that powers of two are      *)
(* positive is beyond the provers, and nothing depends on it.              *)
(***************************************************************************)
EXTENDS TestProcess, WellFoundedInduction, TLAPS

-----------------------------------------------------------------------------
(* The downtime of a recovery.                                              *)

\* Sums[n]: the functions that are RecoveryDowntime as far as n.
Sums(n) == {g \in [0 .. n -> Int] :
                /\ g[0] = 0
                /\ \A a \in 1 .. n : g[a] = g[a - 1] + Delay(a - 1)}

\* A delay is a number of seconds.
LEMMA DelayType == \A a \in Nat : Delay(a) \in Int
<1>1. ASSUME NEW a \in Nat
      PROVE  2^a \in Int
  OBVIOUS
<1>2. QED BY <1>1, RetriesAssumption DEF Delay

\* The delays can be added up as far as one likes.
LEMMA SumsExist == \A n \in Nat : Sums(n) # {}
<1> DEFINE T == {n \in Nat : Sums(n) = {}}
<1> SUFFICES ASSUME T # {} PROVE FALSE
  OBVIOUS
<1>1. PICK n \in T : \A m \in T : ~(<<m, n>> \in OpToRel(<, Nat))
  BY NatLessThanWellFounded, WFMin
<1>2. n \in Nat /\ Sums(n) = {} /\ \A m \in Nat : m < n => Sums(m) # {}
  BY <1>1 DEF OpToRel
<1>3. n # 0
  <2>1. [a \in 0 .. 0 |-> 0] \in Sums(0)
    BY DEF Sums
  <2>2. QED BY <1>2, <2>1
<1>4. n - 1 \in Nat /\ n - 1 < n
  BY <1>2, <1>3
<1>5. PICK g \in [0 .. n - 1 -> Int] : /\ g[0] = 0
                                      /\ \A a \in 1 .. n - 1 : g[a] = g[a - 1] + Delay(a - 1)
  BY <1>2, <1>4 DEF Sums
<1> DEFINE h == [a \in 0 .. n |-> IF a = n THEN g[n - 1] + Delay(n - 1) ELSE g[a]]
<1>6. /\ h[0] = 0 /\ h[n] = g[n - 1] + Delay(n - 1)
      /\ \A a \in 0 .. n - 1 : h[a] = g[a]
  BY <1>2, <1>3, <1>4, <1>5
<1>7. h \in [0 .. n -> Int]
  BY <1>4, <1>5, DelayType
<1> HIDE DEF h
<1>8. ASSUME NEW a \in 1 .. n
      PROVE  h[a] = h[a - 1] + Delay(a - 1)
  <2>1. a - 1 \in 0 .. n - 1 /\ (a # n => a \in 1 .. n - 1 /\ a \in 0 .. n - 1)
    BY <1>2
  <2>2. QED BY <1>5, <1>6, <2>1
<1>9. h \in Sums(n)
  BY <1>6, <1>7, <1>8 DEF Sums
<1>10. QED BY <1>2, <1>9

\* What the recursion of RecoveryDowntime says is so.
LEMMA DowntimeFacts ==
    /\ RecoveryDowntime[0] = 0
    /\ \A a \in 0 .. MaxRetries : RecoveryDowntime[a] \in Int
    /\ \A a \in 0 .. MaxRetries - 1 : RecoveryDowntime[a + 1] = RecoveryDowntime[a] + Delay(a)
<1>1. MaxRetries \in Nat
  BY RetriesAssumption
<1>2. PICK g \in Sums(MaxRetries) : TRUE
  BY <1>1, SumsExist
<1>3. /\ g \in [0 .. MaxRetries -> Int] /\ g[0] = 0
      /\ \A a \in 1 .. MaxRetries : g[a] = g[a - 1] + Delay(a - 1)
  BY DEF Sums
<1>4. ASSUME NEW a \in 0 .. MaxRetries
      PROVE  g[a] = IF a = 0 THEN 0 ELSE g[a - 1] + Delay(a - 1)
  BY <1>1, <1>3
<1> DEFINE Is(f) == f = [a \in 0 .. MaxRetries |-> IF a = 0 THEN 0 ELSE f[a - 1] + Delay(a - 1)]
<1>5. Is(g)
  BY <1>3, <1>4
<1>6. Is(RecoveryDowntime)
  BY <1>5 DEF RecoveryDowntime
<1> HIDE DEF Is
<1>7. ASSUME NEW a \in 0 .. MaxRetries
      PROVE  RecoveryDowntime[a] = IF a = 0 THEN 0 ELSE RecoveryDowntime[a - 1] + Delay(a - 1)
  BY <1>6 DEF Is
<1>8. RecoveryDowntime[0] = 0
  BY <1>1, <1>7
<1>9. \A a \in 0 .. MaxRetries - 1 : RecoveryDowntime[a + 1] = RecoveryDowntime[a] + Delay(a)
  BY <1>1, <1>7
\* A first number with another value than g would have a predecessor like that.
<1> DEFINE T == {a \in Nat : a <= MaxRetries /\ RecoveryDowntime[a] # g[a]}
<1>10. T = {}
  <2> SUFFICES ASSUME T # {} PROVE FALSE
    OBVIOUS
  <2>1. PICK n \in T : \A m \in T : ~(<<m, n>> \in OpToRel(<, Nat))
    BY NatLessThanWellFounded, WFMin
  <2>a. n \in Nat /\ n <= MaxRetries /\ RecoveryDowntime[n] # g[n]
    BY <2>1
  <2>b. ASSUME NEW m \in Nat, m < n
        PROVE  RecoveryDowntime[m] = g[m]
    <3>1. m \notin T
      BY <2>1, <2>a, <2>b DEF OpToRel
    <3>2. m <= MaxRetries
      BY <1>1, <2>a, <2>b
    <3>3. QED BY <3>1, <3>2
  <2>2. /\ n \in Nat /\ n <= MaxRetries /\ RecoveryDowntime[n] # g[n]
        /\ \A m \in Nat : m < n => RecoveryDowntime[m] = g[m]
    BY <2>a, <2>b
  <2>3. n # 0 /\ n - 1 \in Nat /\ n - 1 < n /\ n \in 1 .. MaxRetries
    BY <1>1, <1>3, <1>8, <2>2
  <2>4. RecoveryDowntime[n] = RecoveryDowntime[n - 1] + Delay(n - 1)
    BY <1>7, <2>3
  <2>5. QED BY <1>3, <2>2, <2>3, <2>4
<1>11. \A a \in 0 .. MaxRetries : RecoveryDowntime[a] \in Int
  BY <1>1, <1>3, <1>10
<1>12. QED BY <1>8, <1>9, <1>11

-----------------------------------------------------------------------------
(* Requests.                                                                *)

Requests == [pc: {"idle", "files", "ran", "sent", "backoff", "pause", "returned", "raised"},
             attempt: 0 .. MaxRetries - 1, smart: BOOLEAN, round: 1 .. SmartAttempts,
             waited: Int, temp: SUBSET Files, out: Codes \cup {"none", "error", "torn"}]

\* The attempts after which a call has slept, or sleeps.
Tried(r) == IF r.pc = "backoff" THEN r.attempt + 1 ELSE r.attempt

\* The extra seconds slept after n attempts, at most.
Extra(n) == IF n <= ExtraAttempts THEN n * ExtraDelay ELSE ExtraAttempts * ExtraDelay

\* A call has slept the downtime of its attempts and perhaps extra seconds.
SleptWell(r) ==
    /\ r.pc = "backoff" => r.attempt < MaxRetries - 1
    /\ RecoveryDowntime[Tried(r)] <= r.waited
    /\ r.waited <= RecoveryDowntime[Tried(r)] + Extra(Tried(r))

\* Who works on its files holds up the loop; who has some left works on them or
\* has raised.
Tidy(r, mine) ==
    /\ r.pc \in {"files", "ran"} => mine
    /\ r.temp # {} => r.pc \in {"files", "ran", "raised"}

ApiInv ==
    /\ platform \in {"Darwin", "Linux"} /\ req \in [Callers -> Requests]
    /\ busy \in Callers \cup {NoItem}
    /\ recoveries \in Nat /\ downtime \in Int /\ slept \in Int
    /\ \A c \in Callers : SleptWell(req[c]) /\ Tidy(req[c], busy = c)
    /\ DowntimeWasSlept

\* The extra seconds grow with the attempts, up to their limit.
LEMMA ExtraFacts ==
    /\ Extra(0) = 0
    /\ \A n \in Nat : Extra(n) \in Nat /\ Extra(n) <= ExtraAttempts * ExtraDelay
    /\ \A n \in Nat : Extra(n) <= Extra(n + 1)
    /\ \A n \in Nat : n < ExtraAttempts => Extra(n + 1) = Extra(n) + ExtraDelay
<1>1. ExtraAttempts \in Nat /\ ExtraDelay \in Nat
  BY RetriesAssumption
<1>2. \A n, a, b \in Nat : n <= a => n * b <= a * b
  OBVIOUS
<1>3. \A n, b \in Nat : n * b \in Nat /\ (n + 1) * b = n * b + b /\ 0 * b = 0
  OBVIOUS
<1>4. Extra(0) = 0
  BY <1>1, <1>3 DEF Extra
<1>5. \A n \in Nat : Extra(n) \in Nat /\ Extra(n) <= ExtraAttempts * ExtraDelay
  BY <1>1, <1>2, <1>3 DEF Extra
<1>6. \A n \in Nat : n < ExtraAttempts => Extra(n + 1) = Extra(n) + ExtraDelay
  BY <1>1, <1>3 DEF Extra
<1>7. ASSUME NEW n \in Nat
      PROVE  Extra(n) <= Extra(n + 1)
  <2>1. CASE n < ExtraAttempts
    BY <1>1, <1>5, <1>6, <2>1
  <2>2. CASE n >= ExtraAttempts
    BY <1>1, <1>3, <2>2 DEF Extra
  <2>3. QED BY <1>1, <2>1, <2>2
<1>8. QED BY <1>4, <1>5, <1>6, <1>7

\* A call that begins anew has slept nothing.
LEMMA FreshSlept ==
    ASSUME NEW r \in Requests, r.attempt = 0, r.waited = 0, r.pc # "backoff"
    PROVE  SleptWell(r)
BY DowntimeFacts, ExtraFacts DEF SleptWell, Tried

\* A call that is over has slept its downtime, and has files left only if it raised.
LEMMA OverFacts ==
    ASSUME NEW r \in Requests, NEW pc \in {"returned", "raised"}, r.temp # {} => pc = "raised"
    PROVE  Over(r, pc) \in Requests /\ SleptWell(Over(r, pc)) /\ Tidy(Over(r, pc), FALSE)
<1>1. 0 \in 0 .. MaxRetries - 1 /\ 1 \in 1 .. SmartAttempts
  BY RetriesAssumption
<1>2. /\ Over(r, pc) \in Requests /\ Over(r, pc).attempt = 0 /\ Over(r, pc).waited = 0
      /\ Over(r, pc).pc = pc /\ Over(r, pc).temp = r.temp
  <2>1. r.temp \in SUBSET Files
    BY DEF Requests
  <2>2. /\ NewRequest \in Requests /\ NewRequest.attempt = 0 /\ NewRequest.waited = 0
        /\ NewRequest.smart = FALSE /\ NewRequest.round = 1 /\ NewRequest.out = "none"
    BY <1>1 DEF NewRequest, Requests
  <2>3. QED BY <2>1, <2>2 DEF Over, Requests
<1>3. QED BY <1>2, FreshSlept DEF Tidy

\* One step of one call.
LEMMA Replaced ==
    ASSUME ApiInv, NEW c \in Callers, NEW r \in Requests, SleptWell(r), Tidy(r, busy' = c),
           req' = [req EXCEPT ![c] = r],
           busy' = busy \/ (busy \in {c, NoItem} /\ busy' \in {c, NoItem}),
           UNCHANGED platform, recoveries' \in Nat, downtime' \in Int, slept' \in Int,
           DowntimeWasSlept'
    PROVE  ApiInv'
<1>1. req' \in [Callers -> Requests] /\ req'[c] = r /\ \A d \in Callers \ {c} : req'[d] = req[d]
  BY DEF ApiInv
<1>2. busy' \in Callers \cup {NoItem}
  BY DEF ApiInv
<1>3. \A d \in Callers \ {c} : d # NoItem /\ (busy = d => busy' = d)
  BY CallersAssumption DEF Callers
<1>4. ASSUME NEW d \in Callers \ {c}
      PROVE  SleptWell(req'[d]) /\ Tidy(req'[d], busy' = d)
  BY <1>1, <1>3 DEF ApiInv, Tidy
<1>5. QED BY <1>1, <1>2, <1>4 DEF ApiInv

\* One that leaves the counters alone.
LEMMA ReplacedOnly ==
    ASSUME ApiInv, NEW c \in Callers, NEW r \in Requests, SleptWell(r), Tidy(r, busy' = c),
           req' = [req EXCEPT ![c] = r],
           busy' = busy \/ (busy \in {c, NoItem} /\ busy' \in {c, NoItem}),
           UNCHANGED <<platform, recoveries, downtime, slept>>
    PROVE  ApiInv'
<1>1. recoveries' \in Nat /\ downtime' \in Int /\ slept' \in Int /\ DowntimeWasSlept'
  BY DEF ApiInv, DowntimeWasSlept
<1>2. QED BY <1>1, Replaced

\* An attempt begins with no files and the sleeps of those before it.
LEMMA AttemptStep ==
    ASSUME ApiInv, NEW c \in Callers, LoopFree(c), NEW r \in Requests, r.temp = {},
           RecoveryDowntime[r.attempt] <= r.waited,
           r.waited <= RecoveryDowntime[r.attempt] + Extra(r.attempt),
           Attempt(c, r), UNCHANGED <<platform, recoveries, downtime, slept>>
    PROVE  ApiInv'
<1>1. PICK pc \in {"files", "sent"} : /\ req' = [req EXCEPT ![c] = [r EXCEPT !.pc = pc]]
                                      /\ pc = "files" => busy' = c
                                      /\ pc = "sent" => busy' = busy
  BY DEF Attempt
<1>2. /\ [r EXCEPT !.pc = pc] \in Requests /\ [r EXCEPT !.pc = pc].pc = pc
      /\ [r EXCEPT !.pc = pc].attempt = r.attempt /\ [r EXCEPT !.pc = pc].waited = r.waited
      /\ [r EXCEPT !.pc = pc].temp = {}
  BY DEF Requests
<1>3. SleptWell([r EXCEPT !.pc = pc]) /\ Tidy([r EXCEPT !.pc = pc], busy' = c)
  BY <1>1, <1>2 DEF SleptWell, Tried, Tidy
<1>4. busy' = busy \/ (busy \in {c, NoItem} /\ busy' \in {c, NoItem})
  BY <1>1 DEF LoopFree
<1>5. QED BY <1>1, <1>2, <1>3, <1>4, ReplacedOnly

\* A call that begins keeps the invariant.
LEMMA BeginStep ==
    ASSUME ApiInv, NEW c \in Callers, Begin(c)
    PROVE  ApiInv'
<1>1. PICK smart \in BOOLEAN : Attempt(c, [req[c] EXCEPT !.smart = smart])
  BY DEF Begin
<1>2. req[c] \in Requests /\ req[c].pc = "idle" /\ SleptWell(req[c]) /\ Tidy(req[c], busy = c)
  BY DEF ApiInv, Begin
<1> DEFINE r == [req[c] EXCEPT !.smart = smart]
<1>3. /\ r \in Requests /\ r.temp = req[c].temp /\ r.attempt = req[c].attempt
      /\ r.waited = req[c].waited
  BY <1>2 DEF Requests
<1> HIDE DEF r
<1>4. /\ r.temp = {} /\ RecoveryDowntime[r.attempt] <= r.waited
      /\ r.waited <= RecoveryDowntime[r.attempt] + Extra(r.attempt)
  BY <1>2, <1>3 DEF SleptWell, Tried, Tidy
<1>5. Attempt(c, r)
  BY <1>1 DEF r
<1>6. LoopFree(c) /\ UNCHANGED <<platform, recoveries, downtime, slept>>
  BY DEF Begin
<1>7. QED BY <1>3, <1>4, <1>5, <1>6, AttemptStep

\* An attempt that ends has left no files, or raises an error of the file system.
LEMMA FailedStep ==
    ASSUME ApiInv, NEW c \in Callers, LoopFree(c), req[c].pc \in {"files", "ran", "sent"},
           NEW e \in Errors, NEW temp \in SUBSET Files, temp = {} \/ e = "os",
           Failed(c, e, temp)
    PROVE  ApiInv'
<1>1. req[c] \in Requests /\ SleptWell(req[c])
  BY DEF ApiInv
<1> DEFINE r == [req[c] EXCEPT !.temp = temp, !.out = "none"]
<1>2. /\ r \in Requests /\ r.temp = temp /\ r.attempt = req[c].attempt
      /\ r.waited = req[c].waited /\ r.pc = req[c].pc /\ r.attempt \in 0 .. MaxRetries - 1
      /\ r.waited \in Int
  BY <1>1 DEF Requests
<1>3. /\ busy' = NoItem /\ UNCHANGED <<platform, recoveries, downtime, slept>>
      /\ busy \in {c, NoItem}
      /\ \/ req' = [req EXCEPT ![c] = Escapes(r, e)]
         \/ /\ e \in NetworkErrors /\ r.attempt # MaxRetries - 1
            /\ req' = [req EXCEPT ![c] = [r EXCEPT !.pc = "backoff", !.waited = @ + Sleep(r.attempt, e)]]
  BY DEF Failed, LoopFree
<1> HIDE DEF r
<1>4. ASSUME NEW q \in Requests, SleptWell(q), Tidy(q, FALSE), req' = [req EXCEPT ![c] = q]
      PROVE  ApiInv'
  <2>1. Tidy(q, busy' = c)
    BY <1>4 DEF Tidy
  <2>2. QED BY <1>3, <1>4, <2>1, ReplacedOnly
<1>5. CASE req' = [req EXCEPT ![c] = Over(r, "raised")]
  BY <1>2, <1>4, <1>5, OverFacts
<1>6. CASE e \in TransientErrors /\ req' = [req EXCEPT ![c] = [r EXCEPT !.pc = "pause"]]
  <2> DEFINE q == [r EXCEPT !.pc = "pause"]
  <2>1. /\ q \in Requests /\ q.pc = "pause" /\ q.attempt = r.attempt /\ q.waited = r.waited
        /\ q.temp = temp
    BY <1>2 DEF Requests
  <2>2. temp = {}
    BY <1>6 DEF TransientErrors
  <2>3. SleptWell(q) /\ Tidy(q, FALSE)
    BY <1>1, <1>2, <2>1, <2>2 DEF SleptWell, Tried, Tidy
  <2>4. QED BY <1>4, <1>6, <2>1, <2>3
<1>7. CASE /\ e \in NetworkErrors /\ r.attempt # MaxRetries - 1
           /\ req' = [req EXCEPT ![c] = [r EXCEPT !.pc = "backoff", !.waited = @ + Sleep(r.attempt, e)]]
  <2> DEFINE q == [r EXCEPT !.pc = "backoff", !.waited = @ + Sleep(r.attempt, e)]
  <2>1. r.attempt \in Nat /\ MaxRetries \in Nat /\ r.attempt < MaxRetries - 1
    BY <1>2, <1>7, RetriesAssumption
  <2>2. /\ Delay(r.attempt) \in Int /\ ExtraDelay \in Nat /\ ExtraAttempts \in Nat
        /\ Sleep(r.attempt, e) \in Int
        /\ Sleep(r.attempt, e) \in {Delay(r.attempt), Delay(r.attempt) + ExtraDelay}
        /\ Sleep(r.attempt, e) # Delay(r.attempt) => r.attempt < ExtraAttempts
    <3>1. Delay(r.attempt) \in Int /\ ExtraDelay \in Nat /\ ExtraAttempts \in Nat
      BY <2>1, DelayType, RetriesAssumption
    <3>2. QED BY <3>1 DEF Sleep
  <2>3. /\ q \in Requests /\ q.pc = "backoff" /\ q.attempt = r.attempt
        /\ q.waited = r.waited + Sleep(r.attempt, e) /\ q.temp = temp
    <3>1. PICK w \in Int : w = r.waited + Sleep(r.attempt, e)
      BY <1>2, <2>2
    <3>2. q = [r EXCEPT !.pc = "backoff", !.waited = w]
      BY <3>1
    <3> HIDE DEF q
    <3>3. QED BY <1>2, <3>1, <3>2 DEF Requests
  <2>4. temp = {}
    BY <1>7 DEF NetworkErrors
  <2> HIDE DEF q
  <2>5. /\ RecoveryDowntime[r.attempt] <= r.waited
        /\ r.waited <= RecoveryDowntime[r.attempt] + Extra(r.attempt)
    BY <1>1, <1>2 DEF SleptWell, Tried
  <2>6. /\ RecoveryDowntime[r.attempt] \in Int /\ RecoveryDowntime[r.attempt + 1] \in Int
        /\ RecoveryDowntime[r.attempt + 1] = RecoveryDowntime[r.attempt] + Delay(r.attempt)
    BY <1>2, <2>1, DowntimeFacts
  <2>7. /\ Extra(r.attempt) \in Nat /\ Extra(r.attempt + 1) \in Nat
        /\ Extra(r.attempt) <= Extra(r.attempt + 1)
        /\ r.attempt < ExtraAttempts => Extra(r.attempt + 1) = Extra(r.attempt) + ExtraDelay
    BY <2>1, ExtraFacts
  <2>8. /\ RecoveryDowntime[r.attempt + 1] <= q.waited
        /\ q.waited <= RecoveryDowntime[r.attempt + 1] + Extra(r.attempt + 1)
    BY <1>2, <2>2, <2>3, <2>5, <2>6, <2>7
  <2>9. SleptWell(q) /\ Tidy(q, FALSE)
    BY <2>1, <2>3, <2>4, <2>8 DEF SleptWell, Tried, Tidy
  <2>10. req' = [req EXCEPT ![c] = q]
    BY <1>7 DEF q
  <2>11. QED BY <1>4, <2>3, <2>9, <2>10
<1>8. QED BY <1>3, <1>5, <1>6, <1>7 DEF Escapes

\* An attempt that got an answer, to be repeated or not, keeps the invariant.
LEMMA SucceededStep ==
    ASSUME ApiInv, NEW c \in Callers, LoopFree(c), req[c].pc \in {"ran", "sent"},
           NEW code \in Codes, Succeeded(c, code, {})
    PROVE  ApiInv'
<1>1. req[c] \in Requests /\ SleptWell(req[c])
  BY DEF ApiInv
<1> DEFINE r == [req[c] EXCEPT !.temp = {}, !.out = "none"]
<1>2. /\ r \in Requests /\ r.temp = {} /\ r.attempt = req[c].attempt
      /\ r.waited = req[c].waited /\ r.pc = req[c].pc /\ r.attempt \in 0 .. MaxRetries - 1
      /\ r.waited \in Int
  BY <1>1 DEF Requests
<1>3. PICK q \in Answers(r, code) : req' = [req EXCEPT ![c] = q]
  BY DEF Succeeded
<1>4. /\ recoveries' = IF r.attempt > 0 THEN recoveries + 1 ELSE recoveries
      /\ downtime' = downtime + RecoveryDowntime[r.attempt]
      /\ slept' = IF r.attempt > 0 THEN slept + r.waited ELSE slept
      /\ busy' = NoItem /\ UNCHANGED platform /\ busy \in {c, NoItem}
  BY DEF Succeeded, LoopFree
<1> HIDE DEF r
<1>5. q \in Requests /\ SleptWell(q) /\ Tidy(q, busy' = c)
  <2>1. q \in {[r EXCEPT !.pc = "pause"], Over(r, "returned"), Over(r, "raised")}
    BY <1>3 DEF Answers
  <2>2. CASE q = [r EXCEPT !.pc = "pause"]
    <3>1. /\ q \in Requests /\ q.pc = "pause" /\ q.attempt = r.attempt /\ q.waited = r.waited
          /\ q.temp = {}
      BY <1>2, <2>2 DEF Requests
    <3>2. QED BY <1>1, <1>2, <3>1 DEF SleptWell, Tried, Tidy
  <2>3. ASSUME NEW pc \in {"returned", "raised"}, q = Over(r, pc)
        PROVE  q \in Requests /\ SleptWell(q) /\ Tidy(q, busy' = c)
    <3>1. q \in Requests /\ SleptWell(q) /\ Tidy(q, FALSE)
      BY <1>2, <2>3, OverFacts
    <3>2. QED BY <3>1 DEF Tidy
  <2>4. QED BY <2>1, <2>2, <2>3
\* What the recovery adds to both sides.
<1>6. /\ recoveries \in Nat /\ downtime \in Int /\ slept \in Int
      /\ downtime <= slept /\ slept <= downtime + recoveries * ExtraAttempts * ExtraDelay
  BY DEF ApiInv, DowntimeWasSlept
<1>7. /\ r.attempt \in Nat /\ RecoveryDowntime[r.attempt] \in Int
      /\ RecoveryDowntime[r.attempt] <= r.waited
      /\ r.waited <= RecoveryDowntime[r.attempt] + Extra(r.attempt)
      /\ RecoveryDowntime[0] = 0
  <2>1. r.attempt \in Nat /\ r.attempt \in 0 .. MaxRetries
    BY <1>2, RetriesAssumption
  <2>2. QED BY <1>1, <1>2, <2>1, DowntimeFacts DEF SleptWell, Tried
<1>8. /\ ExtraAttempts * ExtraDelay \in Nat
      /\ Extra(r.attempt) \in Nat /\ Extra(r.attempt) <= ExtraAttempts * ExtraDelay
      /\ (recoveries + 1) * ExtraAttempts * ExtraDelay
            = recoveries * ExtraAttempts * ExtraDelay + ExtraAttempts * ExtraDelay
      /\ recoveries * ExtraAttempts * ExtraDelay \in Nat
  <2>1. \A a, b, n \in Nat : /\ a * b \in Nat /\ n * a * b \in Nat
                             /\ (n + 1) * a * b = n * a * b + a * b
    OBVIOUS
  <2>2. QED BY <1>6, <1>7, <2>1, ExtraFacts, RetriesAssumption
<1>9. recoveries' \in Nat /\ downtime' \in Int /\ slept' \in Int /\ DowntimeWasSlept'
  <2>1. CASE r.attempt = 0
    <3>1. UNCHANGED <<recoveries, slept>> /\ downtime' = downtime
      BY <1>4, <1>6, <1>7, <2>1
    <3>2. QED BY <1>6, <3>1 DEF DowntimeWasSlept
  <2>2. CASE r.attempt > 0
    <3>1. /\ recoveries' = recoveries + 1 /\ slept' = slept + r.waited
          /\ downtime' = downtime + RecoveryDowntime[r.attempt]
      BY <1>4, <2>2
    <3>2. downtime' <= slept'
      BY <1>2, <1>6, <1>7, <3>1
    <3>3. slept' <= downtime' + recoveries * ExtraAttempts * ExtraDelay + ExtraAttempts * ExtraDelay
      BY <1>2, <1>6, <1>7, <1>8, <3>1
    <3>4. downtime' + recoveries' * ExtraAttempts * ExtraDelay
            = downtime' + recoveries * ExtraAttempts * ExtraDelay + ExtraAttempts * ExtraDelay
      <4>1. downtime' \in Int
        BY <1>6, <1>7, <3>1
      <4>2. QED BY <1>8, <3>1, <4>1
    <3>5. QED BY <1>2, <1>6, <1>7, <3>1, <3>2, <3>3, <3>4 DEF DowntimeWasSlept
  <2>3. QED BY <1>7, <2>1, <2>2
<1>10. QED BY <1>3, <1>4, <1>5, <1>9, Replaced

\* Every step of a request keeps the invariant of the requests.
LEMMA RequestStepKeeps ==
    ASSUME ApiInv, NEW c \in Callers, RequestStep(c)
    PROVE  ApiInv'
<1>1. req[c] \in Requests /\ SleptWell(req[c]) /\ Tidy(req[c], busy = c)
  BY DEF ApiInv
<1>2. req[c].pc \in {"files", "ran"} => LoopFree(c)
  BY <1>1 DEF Tidy, LoopFree
<1>3. CASE HttpxAnswers(c)
  BY <1>3, SucceededStep DEF HttpxAnswers
<1>4. CASE HttpxRaises(c)
  BY <1>4, FailedStep DEF HttpxRaises, HttpxErrors, Errors
<1>5. CASE BadData(c)
  BY <1>2, <1>5, FailedStep DEF BadData, Errors
<1>6. CASE CreateFile(c)
  <2> DEFINE r == [req[c] EXCEPT !.temp = @ \cup {NextFile(@)}]
  <2>1. NextFile(req[c].temp) \in Files
    BY DEF NextFile, Files
  <2>2. /\ r \in Requests /\ r.pc = "files" /\ r.attempt = req[c].attempt
        /\ r.waited = req[c].waited
    BY <1>1, <1>6, <2>1 DEF CreateFile, Requests
  <2>3. SleptWell(r) /\ Tidy(r, busy' = c)
    BY <1>1, <1>6, <2>2 DEF CreateFile, SleptWell, Tried, Tidy
  <2>4. req' = [req EXCEPT ![c] = r] /\ UNCHANGED <<platform, busy, recoveries, downtime, slept>>
    BY <1>6 DEF CreateFile, ApiInv
  <2>5. QED BY <2>2, <2>3, <2>4, ReplacedOnly
<1>7. CASE FileFails(c)
  <2>1. req[c].temp \in SUBSET Files /\ NextFile(req[c].temp) \in Files
    BY <1>1 DEF Requests, NextFile, Files
  <2>2. PICK temp \in SUBSET Files : Failed(c, "os", temp)
    BY <1>7, <2>1 DEF FileFails
  <2>3. QED BY <1>2, <1>7, <2>2, FailedStep DEF FileFails, Errors
<1>8. CASE RunScript(c)
  <2>1. PICK out \in Codes \cup {"error", "torn"} : req' = [req EXCEPT ![c].pc = "ran", ![c].out = out]
    BY <1>8 DEF RunScript, Codes
  <2> DEFINE r == [req[c] EXCEPT !.pc = "ran", !.out = out]
  <2>2. /\ r \in Requests /\ r.pc = "ran" /\ r.attempt = req[c].attempt
        /\ r.waited = req[c].waited
    BY <1>1 DEF Requests
  <2>3. SleptWell(r) /\ Tidy(r, busy' = c)
    BY <1>1, <1>8, <2>2 DEF RunScript, SleptWell, Tried, Tidy
  <2>4. req' = [req EXCEPT ![c] = r] /\ UNCHANGED <<platform, busy, recoveries, downtime, slept>>
    BY <1>8, <2>1 DEF RunScript, ApiInv
  <2>5. QED BY <2>2, <2>3, <2>4, ReplacedOnly
<1>9. CASE ReadAnswer(c)
  <2>1. req[c].pc = "ran" /\ LoopFree(c)
    BY <1>2, <1>9 DEF ReadAnswer
  <2>2. CASE req[c].out \in Codes
    BY <1>9, <2>1, <2>2, SucceededStep DEF ReadAnswer
  <2>3. CASE req[c].out \notin Codes
    BY <1>9, <2>1, <2>3, FailedStep DEF ReadAnswer, Errors
  <2>4. QED BY <2>2, <2>3
<1>10. CASE WakeUp(c)
  <2> DEFINE r == [req[c] EXCEPT !.attempt = @ + 1]
  <2>1. req[c].pc = "backoff" /\ req[c].attempt < MaxRetries - 1 /\ req[c].temp = {}
    BY <1>1, <1>10 DEF WakeUp, SleptWell, Tidy
  <2>2. req[c].attempt + 1 \in 0 .. MaxRetries - 1
    BY <1>1, <2>1, RetriesAssumption DEF Requests
  <2>3. /\ r \in Requests /\ r.attempt = req[c].attempt + 1 /\ r.waited = req[c].waited
        /\ r.temp = {}
    BY <1>1, <2>1, <2>2 DEF Requests
  <2>4. Attempt(c, r) /\ LoopFree(c) /\ UNCHANGED <<platform, recoveries, downtime, slept>>
    BY <1>10 DEF WakeUp
  <2> HIDE DEF r
  <2>5. /\ RecoveryDowntime[r.attempt] <= r.waited
        /\ r.waited <= RecoveryDowntime[r.attempt] + Extra(r.attempt)
    BY <1>1, <2>1, <2>3 DEF SleptWell, Tried
  <2>6. QED BY <2>3, <2>4, <2>5, AttemptStep
<1>11. CASE NextRound(c)
  <2>1. req[c].temp = {}
    BY <1>1, <1>11 DEF NextRound, Tidy
  <2>2. CASE req[c].round < SmartAttempts
    <3> DEFINE r == [req[c] EXCEPT !.round = @ + 1, !.attempt = 0, !.waited = 0]
    <3>1. req[c].round + 1 \in 1 .. SmartAttempts /\ 0 \in 0 .. MaxRetries - 1
      BY <1>1, <2>2, RetriesAssumption DEF Requests
    <3>2. r \in Requests /\ r.attempt = 0 /\ r.waited = 0 /\ r.temp = {}
      <4>1. PICK n \in 1 .. SmartAttempts : n = req[c].round + 1
        BY <3>1
      <4>2. PICK old \in Requests : old = req[c]
        BY <1>1
      <4>3. r = [old EXCEPT !.round = n, !.attempt = 0, !.waited = 0]
        BY <4>1, <4>2
      <4> HIDE DEF r
      <4> DEFINE q1 == [old EXCEPT !.round = n]
                 q2 == [q1 EXCEPT !.attempt = 0]
      <4>4. r = [q2 EXCEPT !.waited = 0]
        BY <4>3 DEF Requests
      <4>5. q1 \in Requests /\ q1.temp = {}
        BY <2>1, <4>2 DEF Requests
      <4> HIDE DEF q1
      <4>6. q2 \in Requests /\ q2.temp = {} /\ q2.attempt = 0
        BY <3>1, <4>5 DEF Requests
      <4> HIDE DEF q2
      <4>7. QED BY <4>4, <4>6 DEF Requests
    <3>3. Attempt(c, r) /\ LoopFree(c) /\ UNCHANGED <<platform, recoveries, downtime, slept>>
      BY <1>11, <2>2 DEF NextRound
    <3> HIDE DEF r
    <3>4. /\ RecoveryDowntime[r.attempt] <= r.waited
          /\ r.waited <= RecoveryDowntime[r.attempt] + Extra(r.attempt)
      BY <3>2, DowntimeFacts, ExtraFacts
    <3>5. QED BY <3>2, <3>3, <3>4, AttemptStep
  <2>3. CASE ~(req[c].round < SmartAttempts)
    <3>1. /\ req' = [req EXCEPT ![c] = Over(req[c], "raised")] /\ UNCHANGED busy
          /\ UNCHANGED <<platform, recoveries, downtime, slept>>
      BY <1>11, <2>3 DEF NextRound, ApiInv
    <3>2. /\ Over(req[c], "raised") \in Requests /\ SleptWell(Over(req[c], "raised"))
          /\ Tidy(Over(req[c], "raised"), FALSE)
      BY <1>1, OverFacts
    <3>3. Tidy(Over(req[c], "raised"), busy' = c)
      BY <3>2 DEF Tidy
    <3>4. QED BY <3>1, <3>2, <3>3, ReplacedOnly
  <2>4. QED BY <2>2, <2>3
<1>12. QED BY <1>3, <1>4, <1>5, <1>6, <1>7, <1>8, <1>9, <1>10, <1>11 DEF RequestStep

-----------------------------------------------------------------------------
(* The test.                                                                *)

Ended == phase \in {"cleanup", "done"}
Final == {"passed", "failed", "skipped"}

TestTypeOK ==
    /\ kind \in {"api", "ssh"} /\ phase \in {"setup", "connect", "verify", "cleanup", "done"}
    /\ stage \in [Items -> {"none", "absent", "waiting", "calling", "done"}]
    /\ results \subseteq Statuses /\ failing \in BOOLEAN /\ broken \in BOOLEAN
    /\ jsonl \in {"none", "unfinished"} \cup Final

\* There are results only once the items are known, and those are known all at once.
StageInv ==
    /\ phase \in {"setup", "connect"} => \A c \in Items : stage[c] = "none"
    /\ (\E c \in Items : stage[c] = "none") => results = {} /\ ~failing
    /\ (\E c \in Items : stage[c] = "none") => \A c \in Items : stage[c] = "none"

\* A call that raised has a failed result, until the verdict is given.
RaisedInv ==
    /\ failing => "FAILED" \in results
    /\ ~Ended => verdict = "none"
    /\ RaisedFails

\* Once all results are in, the verdict and the records are computed from them.
JudgedInv ==
    Ended /\ results # {} /\ ~broken =>
        /\ recorded = {MapStatus(s) : s \in results}
        /\ verdict \in {OverallResult(results)} \cup StepResults(results)

\* The file gets its last record from the others, the summary its line from it.
ShownInv ==
    /\ jsonl \in Final => phase = "done" /\ jsonl = OverallStatus
    /\ shown \in Final => shown = jsonl

SshInv == Ssh!SshTypeOK /\ CachedWasAnswered

TestInv == TestTypeOK /\ StageInv /\ RaisedInv /\ JudgedInv /\ ShownInv

IInv == ApiInv /\ SshInv /\ TestInv

-----------------------------------------------------------------------------
(* What keeps the parts of the invariant.                                   *)

\* A step that leaves the requests alone keeps their invariant.
LEMMA ApiStays ==
    ASSUME ApiInv, UNCHANGED apiVars
    PROVE  ApiInv'
<1>1. UNCHANGED <<platform, req, busy, recoveries, downtime, slept>>
  BY DEF apiVars
<1>2. DowntimeWasSlept'
  BY <1>1 DEF ApiInv, DowntimeWasSlept
<1>3. \A c \in Callers : SleptWell(req'[c]) /\ Tidy(req'[c], busy' = c)
  BY <1>1 DEF ApiInv
<1>4. QED BY <1>1, <1>2, <1>3 DEF ApiInv

\* A step that leaves the commands alone keeps their invariant.
LEMMA SshStays ==
    ASSUME SshInv, UNCHANGED <<cache, call, request>>, brokered' \in BOOLEAN
    PROVE  SshInv'
BY DEF SshInv, CachedWasAnswered, Ssh!SshTypeOK, Ssh!CachedWasAnswered

\* A call that is not answered is no reason for what is in the cache.
LEMMA CallReplaced ==
    ASSUME SshInv, NEW c \in Items, NEW q \in Ssh!Call, call' = [call EXCEPT ![c] = q],
           cache' \in [Commands -> {"none", "fresh", "old"}],
           request' \in [Items -> {"none", "queued", "sent"}], UNCHANGED brokered,
           \/ call[c].pc \notin Ssh!Answered
           \/ q.pc \in Ssh!Answered /\ q.command = call[c].command,
           \A k \in Commands : cache'[k] # "none" =>
               \/ cache[k] # "none"
               \/ q.command = k /\ q.pc \in Ssh!Answered
    PROVE  SshInv'
<1>1. call \in [Items -> Ssh!Call] /\ brokered \in BOOLEAN
  BY DEF SshInv, Ssh!SshTypeOK
<1>2. /\ call' \in [Items -> Ssh!Call] /\ call'[c] = q
      /\ \A d \in Items : d # c => call'[d] = call[d]
  BY <1>1
<1>3. ASSUME NEW k \in Commands, cache'[k] # "none"
      PROVE  \E d \in Items : call'[d].command = k /\ call'[d].pc \in Ssh!Answered
  <2>1. CASE q.command = k /\ q.pc \in Ssh!Answered
    BY <1>2, <2>1
  <2>2. CASE cache[k] # "none"
    <3>1. PICK d \in Items : call[d].command = k /\ call[d].pc \in Ssh!Answered
      BY <2>2 DEF SshInv, CachedWasAnswered, Ssh!CachedWasAnswered
    <3>2. CASE d = c
      BY <1>2, <3>1, <3>2
    <3>3. CASE d # c
      BY <1>2, <3>1, <3>3
    <3>4. QED BY <3>2, <3>3
  <2>3. QED BY <1>3, <2>1, <2>2
<1>4. Ssh!CachedWasAnswered'
  BY <1>3 DEF Ssh!CachedWasAnswered
<1>5. Ssh!SshTypeOK'
  BY <1>1, <1>2 DEF Ssh!SshTypeOK
<1>6. QED BY <1>4, <1>5 DEF SshInv, CachedWasAnswered

\* A look into the cache adds nothing, a write only the command written.
LEMMA CacheFacts ==
    ASSUME SshInv, NEW k \in Commands
    PROVE  /\ Ssh!Get(k) \in [Commands -> {"none", "fresh", "old"}]
           /\ \A l \in Commands : Ssh!Get(k)[l] # "none" => cache[l] # "none"
           /\ Ssh!Put(k) \in [Commands -> {"none", "fresh", "old"}]
           /\ \A l \in Commands : Ssh!Put(k)[l] # "none" => l = k \/ cache[l] # "none"
BY DEF SshInv, Ssh!SshTypeOK, Ssh!Get, Ssh!Put

\* Issuing a command keeps the invariant of the commands.
LEMMA IssueStep ==
    ASSUME SshInv, NEW c \in Items, Ssh!Issue(c)
    PROVE  SshInv'
<1>1. PICK k \in Commands, genie \in BOOLEAN, pc \in {"returned", "pool"} :
          /\ call' = [call EXCEPT ![c] = [pc |-> pc, command |-> k, genie |-> genie]]
          /\ cache' = IF genie THEN cache ELSE Ssh!Get(k)
  BY DEF Ssh!Issue
<1>2. call[c].pc = "idle" /\ UNCHANGED <<brokered, request>>
  BY DEF Ssh!Issue
<1> DEFINE q == [pc |-> pc, command |-> k, genie |-> genie]
<1>3. q \in Ssh!Call
  BY DEF Ssh!Call
<1>4. /\ cache \in [Commands -> {"none", "fresh", "old"}]
      /\ request' \in [Items -> {"none", "queued", "sent"}]
  BY <1>2 DEF SshInv, Ssh!SshTypeOK
<1>5. /\ cache' \in [Commands -> {"none", "fresh", "old"}]
      /\ \A l \in Commands : cache'[l] # "none" => cache[l] # "none"
  BY <1>1, <1>4, CacheFacts
<1>6. QED BY <1>1, <1>2, <1>3, <1>4, <1>5, CallReplaced DEF Ssh!Answered

\* Every step of a command keeps the invariant of the commands.
LEMMA SshStepKeeps ==
    ASSUME SshInv, NEW c \in Items, Ssh!SshStep(c)
    PROVE  SshInv'
<1>1. /\ call \in [Items -> Ssh!Call] /\ cache \in [Commands -> {"none", "fresh", "old"}]
      /\ request \in [Items -> {"none", "queued", "sent"}] /\ brokered \in BOOLEAN
      /\ call[c] \in Ssh!Call /\ call[c].command \in Commands
  BY DEF SshInv, Ssh!SshTypeOK, Ssh!Call
\* A step that moves the call along.
<1>2. ASSUME NEW pc \in {"working", "answered", "returned", "unparsed", "nothing", "raised"}, Ssh!Goto(c, pc),
             \/ call[c].pc \notin Ssh!Answered
             \/ pc \in Ssh!Answered,
             cache' = cache \/ cache' = Ssh!Get(call[c].command)
                 \/ (cache' = Ssh!Put(call[c].command) /\ pc \in Ssh!Answered),
             request' \in [Items -> {"none", "queued", "sent"}], UNCHANGED brokered
      PROVE  SshInv'
  <2> DEFINE q == [call[c] EXCEPT !.pc = pc]
  <2>1. q \in Ssh!Call /\ q.pc = pc /\ q.command = call[c].command
    BY <1>1 DEF Ssh!Call
  <2>2. call' = [call EXCEPT ![c] = q]
    BY <1>1, <1>2 DEF Ssh!Goto
  <2>3. /\ cache' \in [Commands -> {"none", "fresh", "old"}]
        /\ \A l \in Commands : cache'[l] # "none" =>
               \/ cache[l] # "none"
               \/ l = call[c].command /\ pc \in Ssh!Answered
    BY <1>1, <1>2, CacheFacts
  <2> HIDE DEF q
  <2>4. QED BY <1>2, <2>1, <2>2, <2>3, CallReplaced
<1>3. ASSUME Ssh!Fail(c), call[c].pc = "working", UNCHANGED <<cache, brokered>>,
             request' \in [Items -> {"none", "queued", "sent"}]
      PROVE  SshInv'
  BY <1>2, <1>3 DEF Ssh!Fail, Ssh!Answered
<1>4. CASE Ssh!Finish(c)
  <2>1. /\ call[c].pc = "answered" /\ Ssh!Goto(c, "returned")
        /\ cache' = cache \/ cache' = Ssh!Put(call[c].command)
        /\ UNCHANGED <<brokered, request>>
    BY <1>4 DEF Ssh!Finish
  <2>2. QED BY <1>1, <1>2, <2>1 DEF Ssh!Answered
<1>13. CASE Ssh!ParserFails(c)
  <2>1. /\ \/ call[c].pc = "pool" /\ Ssh!Goto(c, "nothing")
           \/ Ssh!Goto(c, "unparsed")
        /\ UNCHANGED <<brokered, cache, request>>
    BY <1>13 DEF Ssh!ParserFails, Ssh!GetsThread
  <2>2. QED BY <1>1, <1>2, <2>1 DEF Ssh!Answered
<1>5. CASE Ssh!Work(c)
  <2>1. /\ call[c].pc = "pool" /\ UNCHANGED brokered
        /\ \E pc \in {"working", "answered"} : Ssh!Goto(c, pc)
        /\ cache' = cache \/ cache' = Ssh!Get(call[c].command)
        /\ request' = request \/ request' = [request EXCEPT ![c] = "queued"]
    BY <1>5 DEF Ssh!Work, Ssh!GetsThread
  <2>2. request' \in [Items -> {"none", "queued", "sent"}]
    BY <1>1, <2>1
  <2>3. PICK pc \in {"working", "answered"} : Ssh!Goto(c, pc)
    BY <2>1
  <2>4. QED BY <1>2, <2>1, <2>2, <2>3 DEF Ssh!Answered
<1>6. CASE Ssh!DeviceAnswers(c)
  <2>1. /\ call[c].pc = "working" /\ UNCHANGED <<brokered, cache, request>>
        /\ Ssh!Goto(c, "answered") \/ Ssh!Fail(c)
    BY <1>6 DEF Ssh!DeviceAnswers
  <2>2. QED BY <1>1, <1>2, <1>3, <2>1 DEF Ssh!Answered
<1>7. CASE Ssh!TimeOut(c)
  <2>1. call[c].pc = "working" /\ UNCHANGED <<brokered, cache, request>> /\ Ssh!Fail(c)
    BY <1>7 DEF Ssh!TimeOut
  <2>2. QED BY <1>1, <1>3, <2>1
<1>8. ASSUME UNCHANGED <<brokered, cache, call>>, request' \in [Items -> {"none", "queued", "sent"}]
      PROVE  SshInv'
  BY <1>8 DEF SshInv, CachedWasAnswered, Ssh!SshTypeOK, Ssh!CachedWasAnswered
<1>9. CASE Ssh!Send(c)
  BY <1>1, <1>8, <1>9 DEF Ssh!Send
<1>10. CASE Ssh!BrokerAnswers(c)
  <2>1. request' \in [Items -> {"none", "queued", "sent"}] /\ UNCHANGED brokered
    BY <1>1, <1>10 DEF Ssh!BrokerAnswers
  <2>2. CASE call[c].pc = "working"
    <3>1. Ssh!Goto(c, "answered") /\ cache' = Ssh!Put(call[c].command)
      BY <1>10, <2>2 DEF Ssh!BrokerAnswers
    <3>2. QED BY <1>2, <2>1, <2>2, <3>1 DEF Ssh!Answered
  <2>3. CASE call[c].pc # "working"
    BY <1>8, <1>10, <2>1, <2>3 DEF Ssh!BrokerAnswers
  <2>4. QED BY <2>2, <2>3
<1>11. CASE Ssh!BrokerRefuses(c)
  <2>1. request' \in [Items -> {"none", "queued", "sent"}] /\ UNCHANGED <<brokered, cache>>
    BY <1>1, <1>11 DEF Ssh!BrokerRefuses
  <2>2. CASE call[c].pc = "working"
    BY <1>3, <1>11, <2>1, <2>2 DEF Ssh!BrokerRefuses
  <2>3. CASE call[c].pc # "working"
    BY <1>8, <1>11, <2>1, <2>3 DEF Ssh!BrokerRefuses
  <2>4. QED BY <2>2, <2>3
<1>12. QED BY <1>4, <1>5, <1>6, <1>7, <1>9, <1>10, <1>11, <1>13 DEF Ssh!SshStep

\* The computations on results, for those of the documented statuses.
LEMMA PlainFacts ==
    ASSUME NEW S \in SUBSET Plain, S # {}
    PROVE  /\ {MapStatus(s) : s \in S} # {}
           /\ "failed" \in {MapStatus(s) : s \in S} <=> "FAILED" \in S
           /\ "errored" \notin {MapStatus(s) : s \in S}
           /\ {MapStatus(s) : s \in S} = {"skipped"} <=> S = {"SKIPPED"}
           /\ StepResults(S) \subseteq {"failed"}
           /\ StepResults(S) # {} => "FAILED" \in S
           /\ "FAILED" \in S => OverallResult(S) = "failed"
           /\ "FAILED" \notin S => OverallResult(S) = IF S = {"SKIPPED"} THEN "skipped" ELSE "passed"
<1>1. \A s \in Plain : /\ MapStatus(s) = IF s = "PASSED" THEN "passed"
                                          ELSE IF s = "FAILED" THEN "failed" ELSE "skipped"
                       /\ IsFailed(s) <=> s = "FAILED"
  BY DEF Plain, MapStatus, IsFailed
<1> DEFINE M == {MapStatus(s) : s \in S}
<1>2. PICK s \in S : TRUE
  OBVIOUS
<1>3. M # {} /\ MapStatus(s) \in M
  BY <1>2
<1>4. "failed" \in M <=> "FAILED" \in S
  <2>1. "FAILED" \in S => MapStatus("FAILED") \in M
    OBVIOUS
  <2>2. "failed" \in M => \E t \in S : MapStatus(t) = "failed"
    OBVIOUS
  <2> HIDE DEF M
  <2>3. QED BY <1>1, <2>1, <2>2 DEF Plain
<1>5. "errored" \notin M
  BY <1>1
<1>6. M = {"skipped"} <=> S = {"SKIPPED"}
  <2>1. ASSUME M = {"skipped"} PROVE S = {"SKIPPED"}
    <3>1. \A t \in S : MapStatus(t) = "skipped"
      BY <2>1
    <3>2. QED BY <1>1, <1>2, <3>1 DEF Plain
  <2>2. ASSUME S = {"SKIPPED"} PROVE M = {"skipped"}
    <3>1. M = {MapStatus("SKIPPED")}
      BY <2>2
    <3>2. QED BY <1>1, <3>1 DEF Plain
  <2>3. QED BY <2>1, <2>2
<1>7. StepResults(S) \subseteq {"failed"} /\ (StepResults(S) # {} => "FAILED" \in S)
  <2>1. \A t \in S \ {"PASSED", "SKIPPED"} : t = "FAILED" /\ IsFailed(t)
    BY <1>1 DEF Plain
  <2>2. QED BY <2>1 DEF StepResults
<1>8. /\ "FAILED" \in S => OverallResult(S) = "failed"
      /\ "FAILED" \notin S => OverallResult(S) = IF S = {"SKIPPED"} THEN "skipped" ELSE "passed"
  <2>1. (\E t \in S : IsFailed(t)) <=> "FAILED" \in S
    BY <1>1 DEF Plain
  <2>2. "FAILED" \notin S => ("SKIPPED" \in S /\ "PASSED" \notin S <=> S = {"SKIPPED"})
    BY DEF Plain
  <2>3. QED BY <2>1, <2>2 DEF OverallResult
<1>9. QED BY <1>3, <1>4, <1>5, <1>6, <1>7, <1>8

\* Two computations on the same results come to the same.
LEMMA Agreement == TestInv => PlainResultsAgree
<1> SUFFICES ASSUME TestInv, results # {}, results \subseteq Plain, ~broken, shown \in Final
             PROVE  shown = verdict
  BY DEF PlainResultsAgree, Final
<1>1. shown = jsonl /\ jsonl \in Final /\ phase = "done" /\ jsonl = OverallStatus
  BY DEF TestInv, ShownInv
<1>2. /\ recorded = {MapStatus(s) : s \in results}
      /\ verdict \in {OverallResult(results)} \cup StepResults(results)
  BY <1>1 DEF TestInv, JudgedInv, Ended
<1>3. /\ recorded # {} /\ ("failed" \in recorded <=> "FAILED" \in results)
      /\ "errored" \notin recorded /\ (recorded = {"skipped"} <=> results = {"SKIPPED"})
  BY <1>2, PlainFacts
<1>4. CASE "FAILED" \in results
  <2>1. OverallResult(results) = "failed" /\ StepResults(results) \subseteq {"failed"}
    BY <1>4, PlainFacts
  <2>2. verdict = "failed"
    BY <1>2, <2>1
  <2>3. OverallStatus = "failed"
    BY <1>3, <1>4 DEF OverallStatus
  <2>4. QED BY <1>1, <2>2, <2>3
<1>5. CASE "FAILED" \notin results
  <2>1. /\ OverallResult(results) = IF results = {"SKIPPED"} THEN "skipped" ELSE "passed"
        /\ StepResults(results) = {}
    BY <1>5, PlainFacts
  <2>2. verdict = IF results = {"SKIPPED"} THEN "skipped" ELSE "passed"
    BY <1>2, <2>1
  <2>3. recorded \cap {"failed", "errored"} = {}
    BY <1>3, <1>5
  <2>4. OverallStatus = IF recorded = {"skipped"} THEN "skipped" ELSE "passed"
    BY <1>3, <2>3 DEF OverallStatus
  <2>5. QED BY <1>1, <1>3, <2>2, <2>4
<1>6. QED BY <1>4, <1>5

\* A step that leaves the test alone keeps its invariant.
LEMMA TestStays ==
    ASSUME TestInv, UNCHANGED <<test, shown>>
    PROVE  TestInv'
<1>1. UNCHANGED <<kind, phase, stage, results, failing, recorded, broken, jsonl, verdict, shown>>
  BY DEF test, items, file
<1>2. TestTypeOK' /\ StageInv'
  BY <1>1 DEF TestInv, TestTypeOK, StageInv
<1>3. RaisedInv'
  BY <1>1 DEF TestInv, RaisedInv, RaisedFails, Ended
<1>4. JudgedInv'
  BY <1>1 DEF TestInv, JudgedInv, Ended
<1>5. ShownInv'
  BY <1>1 DEF TestInv, ShownInv, OverallStatus
<1>6. QED BY <1>2, <1>3, <1>4, <1>5 DEF TestInv

\* Until a result is in and the verdict is given there is nothing to agree with.
LEMMA NotJudged ==
    ASSUME TestInv, ~Ended, jsonl' \in {"none", "unfinished"}, UNCHANGED shown,
           ~Ended' \/ results' = {}
    PROVE  JudgedInv' /\ ShownInv'
<1>1. jsonl \notin Final /\ shown \notin Final
  BY DEF TestInv, ShownInv, Ended
<1>2. jsonl' \notin Final
  BY DEF Final
<1>3. QED BY <1>1, <1>2 DEF JudgedInv, ShownInv

\* Before the cleanup the JSONL file has no summary.
LEMMA UnfinishedBefore ==
    ASSUME TestInv, ~Ended
    PROVE  jsonl \in {"none", "unfinished"}
BY DEF TestInv, TestTypeOK, ShownInv, Ended

\* A step of the setup keeps the invariant of the test.
LEMMA SetupStep ==
    ASSUME TestInv, Setup
    PROVE  TestInv'
<1>1. phase \in {"setup", "connect"} /\ ~Ended
  BY DEF Setup, OwnSetup, SetupRefuses, OpenCollector, SetupSucceeds, AskBroker, BeginLogin,
     SetupFails, BrokerEndsSetup, Ended
<1>2. /\ \A c \in Items : stage[c] = "none"
      /\ results = {} /\ ~failing /\ verdict = "none"
  BY <1>1, CallersAssumption DEF TestInv, StageInv, RaisedInv
<1>3. CASE BeginLogin
  BY <1>3, TestStays DEF BeginLogin
<1>4. ASSUME ~BeginLogin
      PROVE  /\ UNCHANGED <<kind, items, recorded, broken, shown>>
             /\ phase' \in {"setup", "connect", "verify", "cleanup"} /\ jsonl' \in {"none", "unfinished"}
             /\ phase' # "cleanup" => verdict' = "none"
             /\ phase' = "cleanup" => verdict' \in {"failed", "errored"}
  <2>1. CASE SetupRefuses
    BY <2>1 DEF SetupRefuses, file
  <2>2. CASE OpenCollector
    BY <1>2, <2>2 DEF OpenCollector
  <2>3. CASE SetupSucceeds
    BY <1>2, <2>3 DEF SetupSucceeds, file
  <2>4. CASE SetupFails
    BY <2>4 DEF SetupFails, file
  <2>5. CASE AskBroker
    BY <1>2, <2>5 DEF AskBroker, file
  <2>6. CASE BrokerEndsSetup
    <3>1. jsonl \in {"none", "unfinished"}
      BY <1>1, UnfinishedBefore
    <3>2. QED BY <1>2, <2>6, <3>1 DEF BrokerEndsSetup, file
  <2>7. QED BY <1>4, <2>1, <2>2, <2>3, <2>4, <2>5, <2>6 DEF Setup, OwnSetup
<1>5. CASE ~BeginLogin
  <2>1. /\ UNCHANGED <<kind, stage, results, failing, recorded, broken, shown>>
        /\ phase' \in {"setup", "connect", "verify", "cleanup"} /\ jsonl' \in {"none", "unfinished"}
        /\ phase' # "cleanup" => verdict' = "none"
        /\ phase' = "cleanup" => verdict' \in {"failed", "errored"}
    BY <1>4, <1>5 DEF items
  <2>2. TestTypeOK' /\ StageInv'
    BY <1>2, <2>1 DEF TestInv, TestTypeOK, StageInv
  <2>3. RaisedInv'
    BY <1>2, <2>1 DEF RaisedInv, RaisedFails, Ended
  <2>4. JudgedInv' /\ ShownInv'
    BY <1>1, <1>2, <2>1, NotJudged
  <2>5. QED BY <2>2, <2>3, <2>4 DEF TestInv
<1>6. QED BY <1>3, <1>5

\* A step of an item keeps the invariant of the test.
LEMMA ItemStep ==
    ASSUME TestInv, NEW c \in Items, Item(c)
    PROVE  TestInv'
<1>1. phase = "verify" /\ ~Ended /\ stage[c] \in {"waiting", "calling"}
  BY DEF Item, StartItem, EndItem, Ended
<1>2. \A d \in Items : stage[d] # "none"
  BY <1>1 DEF TestInv, StageInv
<1>3. /\ \E s \in {"calling", "done"} : stage' = [stage EXCEPT ![c] = s]
      /\ results' \subseteq Statuses /\ results \subseteq results'
      /\ failing' \in BOOLEAN /\ (failing' => failing \/ "FAILED" \in results')
      /\ UNCHANGED <<kind, phase, recorded, broken, jsonl, verdict, shown>>
  <2>1. CASE StartItem(c)
    <3>1. /\ stage' = [stage EXCEPT ![c] = "calling"]
          /\ UNCHANGED <<kind, phase, results, failing, file, verdict, shown>>
      BY <2>1 DEF StartItem
    <3>2. QED BY <3>1 DEF file, TestInv, TestTypeOK
  <2>2. CASE EndItem(c)
    <3>1. /\ stage' = [stage EXCEPT ![c] = "done"]
          /\ \E S \in Outcomes(c) : results' = results \cup S
          /\ failing' = (failing \/ CallRaised(c))
          /\ UNCHANGED <<kind, phase, file, verdict, shown>>
      BY <2>2 DEF EndItem
    <3>2. PICK S \in Outcomes(c) : results' = results \cup S
      BY <3>1
    <3>3. S \subseteq Statuses /\ (CallRaised(c) => "FAILED" \in S)
      BY DEF Outcomes, Statuses, Plain
    <3>4. failing \in BOOLEAN /\ results \subseteq Statuses
      BY DEF TestInv, TestTypeOK
    <3>5. failing' \in BOOLEAN /\ (failing' => failing \/ CallRaised(c))
      BY <3>1, <3>4 DEF CallRaised
    <3>6. QED BY <3>1, <3>2, <3>3, <3>4, <3>5 DEF file
  <2>3. QED BY <2>1, <2>2 DEF Item
<1>4. /\ stage' \in [Items -> {"none", "absent", "waiting", "calling", "done"}]
      /\ \A d \in Items : stage'[d] # "none"
  BY <1>2, <1>3 DEF TestInv, TestTypeOK
<1>5. TestTypeOK' /\ StageInv'
  BY <1>1, <1>3, <1>4 DEF TestInv, TestTypeOK, StageInv
<1>6. verdict = "none" /\ (failing => "FAILED" \in results)
  BY <1>1 DEF TestInv, RaisedInv
<1>7. RaisedInv'
  BY <1>1, <1>3, <1>6 DEF RaisedInv, RaisedFails
<1>8. jsonl' \in {"none", "unfinished"} /\ ~Ended'
  BY <1>1, <1>3, UnfinishedBefore DEF Ended
<1>9. JudgedInv' /\ ShownInv'
  BY <1>1, <1>3, <1>8, NotJudged
<1>10. QED BY <1>5, <1>7, <1>9 DEF TestInv

\* Verdict and report status are statuses, and a failed result fails the verdict.
LEMMA StatusTypes ==
    /\ OverallResult(results) \in Final
    /\ \A raising : StepVerdicts(raising) \subseteq {"failed", "errored"}
    /\ "FAILED" \in results => OverallResult(results) = "failed"
    /\ OverallStatus \in Final
<1>1. \A S : StepResults(S) \subseteq {"failed", "errored"}
  BY DEF StepResults
<1>2. \A raising : StepVerdicts(raising) \subseteq {"failed", "errored"}
  BY <1>1 DEF StepVerdicts
<1>3. IsFailed("FAILED")
  BY DEF IsFailed
<1>4. QED BY <1>2, <1>3 DEF OverallResult, OverallStatus, Final

\* Items, judgement and summary record keep the invariant of the test.
LEMMA VerdictStep ==
    ASSUME TestInv, Verdict
    PROVE  TestInv'
<1>1. CASE GetItems
  <2>1. /\ phase = "verify" /\ \A c \in Items : stage[c] = "none"
        /\ stage' \in [Items -> {"absent", "waiting"}]
        /\ results' \in {{}, {"SKIPPED"}}
        /\ UNCHANGED <<kind, phase, failing, recorded, broken, jsonl, verdict, shown>>
    BY <1>1 DEF GetItems, file
  <2>2. ~failing /\ verdict = "none" /\ ~Ended /\ jsonl \in {"none", "unfinished"}
    <3>1. ~Ended
      BY <2>1 DEF Ended
    <3>2. QED BY <2>1, <3>1, UnfinishedBefore, CallersAssumption DEF TestInv, StageInv, RaisedInv
  <2>3. \A c \in Items : stage'[c] \in {"absent", "waiting"}
    BY <2>1
  <2>4. TestTypeOK' /\ StageInv'
    <3>1. stage' \in [Items -> {"none", "absent", "waiting", "calling", "done"}]
      BY <2>1
    <3>2. results' \subseteq Statuses
      BY <2>1 DEF Statuses, Plain
    <3>3. TestTypeOK'
      BY <2>1, <3>1, <3>2 DEF TestInv, TestTypeOK
    <3>4. StageInv'
      BY <2>1, <2>3 DEF StageInv
    <3>5. QED BY <3>3, <3>4
  <2>5. RaisedInv'
    BY <2>1, <2>2 DEF RaisedInv, RaisedFails
  <2>6. JudgedInv' /\ ShownInv'
    <3>1. ~Ended'
      BY <2>1 DEF Ended
    <3>2. QED BY <2>1, <2>2, <3>1, NotJudged
  <2>7. QED BY <2>4, <2>5, <2>6 DEF TestInv
<1>2. CASE VerificationRaises
  <2>1. /\ phase = "verify" /\ \A c \in Items : stage[c] = "none"
        /\ verdict' = "errored" /\ phase' = "cleanup"
        /\ UNCHANGED <<kind, stage, results, failing, recorded, broken, jsonl, shown>>
    BY <1>2 DEF VerificationRaises, items, file
  <2>2. results = {} /\ ~failing /\ ~Ended /\ jsonl \in {"none", "unfinished"}
    <3>1. ~Ended
      BY <2>1 DEF Ended
    <3>2. QED BY <2>1, <3>1, UnfinishedBefore, CallersAssumption DEF TestInv, StageInv
  <2>3. TestTypeOK' /\ StageInv'
    BY <2>1, <2>2 DEF TestInv, TestTypeOK, StageInv
  <2>4. RaisedInv'
    BY <2>1, <2>2 DEF RaisedInv, RaisedFails, Ended
  <2>5. JudgedInv' /\ ShownInv'
    BY <2>1, <2>2, NotJudged
  <2>6. QED BY <2>3, <2>4, <2>5 DEF TestInv
<1>3. CASE Judge
  <2>1. /\ phase = "verify" /\ \A c \in Items : stage[c] \in {"absent", "done"}
        /\ phase' = "cleanup"
        /\ UNCHANGED <<kind, stage, results, failing, jsonl, shown>>
    BY <1>3 DEF Judge, items
  <2>a. PICK raising \in SUBSET results :
            /\ \E lost \in SUBSET raising : recorded' = Record(lost)
            /\ broken' = (raising # {})
            /\ verdict' \in {OverallResult(results)} \cup StepVerdicts(raising)
    BY <1>3 DEF Judge
  <2>b. PICK lost \in SUBSET raising : recorded' = Record(lost)
    BY <2>a
  <2>2. /\ recorded' = Record(lost) /\ broken' = (raising # {})
        /\ verdict' \in {OverallResult(results)} \cup StepVerdicts(raising)
    BY <2>a, <2>b
  <2>3. ~Ended /\ jsonl \in {"none", "unfinished"} /\ jsonl \notin Final /\ shown \notin Final
    <3>1. ~Ended
      BY <2>1 DEF Ended
    <3>2. QED BY <3>1, UnfinishedBefore DEF TestInv, ShownInv, Ended, Final
  <2>4. TestTypeOK' /\ StageInv'
    BY <2>1, <2>2 DEF TestInv, TestTypeOK, StageInv
  <2>5. RaisedInv'
    <3>1. failing => "FAILED" \in results
      BY DEF TestInv, RaisedInv
    <3>2. failing => verdict' \in {"failed", "errored"}
      BY <2>2, <3>1, StatusTypes
    <3>3. Ended'
      BY <2>1 DEF Ended
    <3>4. QED BY <2>1, <3>1, <3>2, <3>3 DEF RaisedInv, RaisedFails
  <2>6. JudgedInv'
    <3> SUFFICES ASSUME ~broken'
                 PROVE  /\ recorded' = {MapStatus(s) : s \in results}
                        /\ verdict' \in {OverallResult(results)} \cup StepResults(results)
      BY <2>1 DEF JudgedInv, OverallResult, StepResults
    <3>1. raising = {} /\ lost = {}
      BY <2>2
    <3>2. results \ lost = results /\ results \ raising = results
      BY <3>1
    <3>3. StepVerdicts(raising) = StepResults(results)
      BY <3>1, <3>2 DEF StepVerdicts
    <3>4. Record(lost) = {MapStatus(s) : s \in results}
      BY <3>2 DEF Record
    <3>5. QED BY <2>2, <3>3, <3>4
  <2>7. ShownInv'
    BY <2>1, <2>3 DEF ShownInv
  <2>8. QED BY <2>4, <2>5, <2>6, <2>7 DEF TestInv
<1>4. CASE Cleanup
  <2>1. /\ phase = "cleanup" /\ phase' = "done"
        /\ jsonl' \in IF jsonl = "none" THEN {jsonl} ELSE {OverallStatus, "unfinished"}
        /\ UNCHANGED <<kind, stage, results, failing, recorded, broken, verdict, shown>>
    BY <1>4 DEF Cleanup, items
  <2>2. jsonl \notin Final /\ shown \notin Final
    BY <2>1 DEF TestInv, ShownInv
  <2>3. TestTypeOK' /\ StageInv'
    BY <2>1, StatusTypes DEF TestInv, TestTypeOK, StageInv
  <2>4. RaisedInv'
    BY <2>1 DEF TestInv, RaisedInv, RaisedFails, Ended
  <2>5. JudgedInv'
    BY <2>1 DEF TestInv, JudgedInv, Ended
  <2>6. OverallStatus' = OverallStatus
    BY <2>1 DEF OverallStatus
  <2>7. jsonl' \in Final => jsonl' = OverallStatus
    BY <2>1 DEF Final
  <2>8. ShownInv'
    BY <2>1, <2>2, <2>6, <2>7 DEF ShownInv
  <2>9. QED BY <2>3, <2>4, <2>5, <2>8 DEF TestInv
<1>5. QED BY <1>1, <1>2, <1>3, <1>4 DEF Verdict

\* The line in the summary report keeps the invariant of the test.
LEMMA ReportStep ==
    ASSUME TestInv, Report
    PROVE  TestInv'
<1>1. /\ shown' \in {"left out", SummaryLine}
      /\ UNCHANGED <<kind, phase, stage, results, failing, recorded, broken, jsonl, verdict>>
  BY DEF Report, test, items, file
<1>2. shown' \in Final => shown' = jsonl
  BY <1>1 DEF SummaryLine, Final
<1>3. TestTypeOK' /\ StageInv'
  BY <1>1 DEF TestInv, TestTypeOK, StageInv
<1>4. RaisedInv' /\ JudgedInv'
  BY <1>1 DEF TestInv, RaisedInv, RaisedFails, JudgedInv, Ended
<1>5. ShownInv'
  BY <1>1, <1>2 DEF TestInv, ShownInv, OverallStatus
<1>6. QED BY <1>3, <1>4, <1>5 DEF TestInv

-----------------------------------------------------------------------------
(* The invariant.                                                           *)

\* The invariant holds before the setup.
LEMMA InitIInv == Init => IInv
<1> SUFFICES ASSUME Init PROVE IInv
  OBVIOUS
<1>1. NewRequest \in Requests /\ NewRequest.attempt = 0 /\ NewRequest.waited = 0
      /\ NewRequest.pc = "idle" /\ NewRequest.temp = {}
  <2>1. 0 \in 0 .. MaxRetries - 1 /\ 1 \in 1 .. SmartAttempts
    BY RetriesAssumption
  <2>2. QED BY <2>1 DEF NewRequest, Requests
<1>2. SleptWell(NewRequest) /\ Tidy(NewRequest, FALSE)
  BY <1>1, FreshSlept DEF Tidy
<1>3. /\ platform \in {"Darwin", "Linux"} /\ req = [c \in Callers |-> NewRequest]
      /\ busy = NoItem /\ recoveries = 0 /\ downtime = 0 /\ slept = 0
  BY DEF Init, ApiInit
<1>4. DowntimeWasSlept
  <2>1. ExtraAttempts \in Nat /\ ExtraDelay \in Nat
    BY RetriesAssumption
  <2>2. \A a, b \in Nat : 0 * a * b = 0
    OBVIOUS
  <2>3. QED BY <1>3, <2>1, <2>2 DEF DowntimeWasSlept
<1>5. ApiInv
  <2>1. \A c \in Callers : SleptWell(req[c]) /\ Tidy(req[c], busy = c)
    BY <1>1, <1>2, <1>3 DEF Tidy
  <2>2. req \in [Callers -> Requests]
    BY <1>1, <1>3
  <2>3. QED BY <1>3, <1>4, <2>1, <2>2 DEF ApiInv
<1>6. SshInv
  <2>1. PICK k \in Commands : k = CHOOSE l \in Commands : TRUE
    BY LimitsAssumption
  <2>2. [pc |-> "idle", command |-> k, genie |-> FALSE] \in Ssh!Call
    BY DEF Ssh!Call
  <2>3. /\ brokered = FALSE /\ cache = [l \in Commands |-> "none"]
        /\ call = [c \in Items |-> [pc |-> "idle", command |-> k, genie |-> FALSE]]
        /\ request = [c \in Items |-> "none"]
    BY <2>1 DEF Init, Ssh!SshInit
  <2>4. Ssh!SshTypeOK
    BY <2>2, <2>3 DEF Ssh!SshTypeOK
  <2>5. Ssh!CachedWasAnswered
    BY <2>3 DEF Ssh!CachedWasAnswered
  <2>6. QED BY <2>4, <2>5 DEF SshInv, CachedWasAnswered
<1>7. TestTypeOK /\ StageInv
  BY DEF Init, TestTypeOK, StageInv
<1>8. RaisedInv /\ JudgedInv /\ ShownInv
  BY DEF Init, RaisedInv, RaisedFails, JudgedInv, ShownInv, Ended, Final
<1>9. QED BY <1>5, <1>6, <1>7, <1>8 DEF IInv, TestInv

\* Every step of the test, its requests and its commands keeps the invariant.
LEMMA StepIInv == IInv /\ [Next]_vars => IInv'
<1> SUFFICES ASSUME IInv, [Next]_vars PROVE IInv'
  OBVIOUS
<1>1. ApiInv /\ SshInv /\ TestInv
  BY DEF IInv
<1>2. ApiInv'
  <2>1. CASE UNCHANGED apiVars
    BY <1>1, <2>1, ApiStays
  <2>2. ASSUME NEW c \in Callers, Begin(c) PROVE ApiInv'
    BY <1>1, <2>2, BeginStep
  <2>3. ASSUME NEW c \in Callers, RequestStep(c) PROVE ApiInv'
    BY <1>1, <2>3, RequestStepKeeps
  <2>4. Login \in Callers /\ \A c \in Items : c \in Callers
    BY DEF Callers
  <2>5. CASE Setup
    <3>1. CASE SetupRefuses \/ OpenCollector \/ SetupFails \/ SetupSucceeds \/ BrokerEndsSetup
      BY <2>1, <3>1 DEF SetupRefuses, OpenCollector, SetupFails, SetupSucceeds, BrokerEndsSetup,
         calls
    <3>2. CASE AskBroker
      BY <2>1, <3>2 DEF AskBroker
    <3>3. CASE BeginLogin
      BY <2>2, <2>4, <3>3 DEF BeginLogin
    <3>4. QED BY <2>5, <3>1, <3>2, <3>3 DEF Setup, OwnSetup
  <2>6. CASE Verdict
    BY <2>1, <2>6 DEF Verdict, GetItems, VerificationRaises, Judge, Cleanup, calls
  <2>7. ASSUME NEW c \in Items, Item(c) PROVE ApiInv'
    BY <2>1, <2>2, <2>4, <2>7 DEF Item, StartItem, EndItem, calls
  <2>8. ASSUME NEW c \in Callers, ApiCall(c) PROVE ApiInv'
    BY <2>3, <2>8 DEF ApiCall
  <2>9. ASSUME NEW c \in Items, SshCall(c) PROVE ApiInv'
    BY <2>1, <2>9 DEF SshCall
  <2>10. CASE Report \/ Age
    BY <2>1, <2>10 DEF Report, Age, calls
  <2>11. CASE UNCHANGED vars
    BY <2>1, <2>11 DEF vars, calls
  <2>12. QED BY <2>5, <2>6, <2>7, <2>8, <2>9, <2>10, <2>11 DEF Next
<1>3. SshInv'
  <2>1. CASE UNCHANGED sshVars
    BY <1>1, <2>1, SshStays DEF sshVars, SshInv, Ssh!SshTypeOK
  <2>2. CASE UNCHANGED <<cache, call, request>> /\ brokered' \in BOOLEAN
    BY <1>1, <2>2, SshStays
  <2>3. CASE Setup
    <3>1. CASE SetupRefuses \/ OpenCollector \/ SetupFails \/ SetupSucceeds \/ BrokerEndsSetup
      BY <2>1, <3>1 DEF SetupRefuses, OpenCollector, SetupFails, SetupSucceeds, BrokerEndsSetup,
         calls
    <3>2. CASE AskBroker
      BY <2>2, <3>2 DEF AskBroker
    <3>3. CASE BeginLogin
      BY <2>1, <3>3 DEF BeginLogin
    <3>4. QED BY <2>3, <3>1, <3>2, <3>3 DEF Setup, OwnSetup
  <2>4. CASE Verdict
    BY <2>1, <2>4 DEF Verdict, GetItems, VerificationRaises, Judge, Cleanup, calls
  <2>5. ASSUME NEW c \in Items, Item(c) PROVE SshInv'
    BY <1>1, <2>1, <2>5, IssueStep DEF Item, StartItem, EndItem, calls
  <2>6. ASSUME NEW c \in Callers, ApiCall(c) PROVE SshInv'
    BY <2>1, <2>6 DEF ApiCall
  <2>7. ASSUME NEW c \in Items, SshCall(c) PROVE SshInv'
    BY <1>1, <2>7, SshStepKeeps DEF SshCall
  <2>8. CASE Age
    <3>1. PICK k \in Commands : Ssh!Expire(k)
      BY <2>8 DEF Age
    <3>2. QED BY <1>1, <3>1 DEF SshInv, CachedWasAnswered, Ssh!SshTypeOK, Ssh!CachedWasAnswered,
              Ssh!Expire, Ssh!Hit
  <2>9. CASE Report
    BY <2>1, <2>9 DEF Report, calls
  <2>10. CASE UNCHANGED vars
    BY <2>1, <2>10 DEF vars, calls
  <2>11. QED BY <2>3, <2>4, <2>5, <2>6, <2>7, <2>8, <2>9, <2>10 DEF Next
<1>4. TestInv'
  <2>1. ASSUME UNCHANGED <<test, shown>> PROVE TestInv'
    BY <1>1, <2>1, TestStays
  <2>2. CASE Setup
    BY <1>1, <2>2, SetupStep
  <2>3. CASE Verdict
    BY <1>1, <2>3, VerdictStep
  <2>4. CASE Report
    BY <1>1, <2>4, ReportStep
  <2>5. ASSUME NEW c \in Items, Item(c) PROVE TestInv'
    BY <1>1, <2>5, ItemStep
  <2>6. ASSUME NEW c \in Callers, ApiCall(c) PROVE TestInv'
    BY <2>1, <2>6 DEF ApiCall
  <2>7. ASSUME NEW c \in Items, SshCall(c) PROVE TestInv'
    BY <2>1, <2>7 DEF SshCall
  <2>8. CASE Age
    BY <2>1, <2>8 DEF Age
  <2>9. CASE UNCHANGED vars
    BY <2>1, <2>9 DEF vars
  <2>10. QED BY <2>2, <2>3, <2>4, <2>5, <2>6, <2>7, <2>8, <2>9 DEF Next
<1>5. QED BY <1>2, <1>3, <1>4 DEF IInv

\* The invariant holds in every reachable state.
LEMMA Inductive == Spec => []IInv
BY InitIInv, StepIInv, PTL DEF Spec

-----------------------------------------------------------------------------
(* Theorems.                                                                *)

\* The temporary files of a request or a login, which hold passwords, are gone
\* once their call goes on; only a call that could not write one of them, and
\* fails, leaves any behind (SubprocessHttpClient and execute_auth_subprocess).
THEOREM FilesAreDeleted == Spec => []NoTempFileLeft
<1>1. IInv => NoTempFileLeft
  <2> SUFFICES ASSUME IInv, NEW c \in Callers, req[c].temp # {}, busy # c
               PROVE  req[c].pc = "raised"
    BY DEF NoTempFileLeft
  <2>1. Tidy(req[c], busy = c)
    BY DEF IInv, ApiInv
  <2>2. QED BY <2>1 DEF Tidy
<1>2. QED BY <1>1, Inductive, PTL

\* The downtime reported for the controller is the time slept for it by the
\* calls that recovered, but for the extra seconds after disconnections, for
\* any number of attempts and any delays (execute_with_retry).
THEOREM DowntimeIsSlept == Spec => []DowntimeWasSlept
<1>1. IInv => DowntimeWasSlept
  BY DEF IInv, ApiInv
<1>2. QED BY <1>1, Inductive, PTL

\* A call of an item that raised after all its retries fails the test
\* (run_verification_async and process_results_smart).
THEOREM FailuresCount == Spec => []RaisedFails
<1>1. IInv => RaisedFails
  BY DEF IInv, TestInv, RaisedInv
<1>2. QED BY <1>1, Inductive, PTL

\* PyATS and the summary report tell the same of a test whose results have the
\* documented statuses (determine_overall_test_result and
\* _determine_overall_status).
THEOREM AccountsAgree == Spec => []PlainResultsAgree
<1>1. IInv => PlainResultsAgree
  BY Agreement DEF IInv
<1>2. QED BY <1>1, Inductive, PTL

\* The command cache answers only with what some command got in time, however
\* many threads, timeouts, late answers and failing parsers (execute_command,
\* parse_output).
THEOREM CacheIsHonest == Spec => []CachedWasAnswered
<1>1. IInv => CachedWasAnswered
  BY DEF IInv, SshInv
<1>2. QED BY <1>1, Inductive, PTL
=============================================================================
