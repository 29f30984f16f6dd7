----------------------- MODULE BatchingReporterProofs -----------------------
(***************************************************************************)
(* Safety of BatchingReporter for any sizes and any number of messages.    *)
(***************************************************************************)
EXTENDS BatchingReporter, SequenceTheorems, TLAPS

-----------------------------------------------------------------------------
(* Sequences of messages.                                                   *)

Increasing(s) == \A i, j \in 1 .. Len(s) : i < j => s[i] < s[j]

Before(A, B) == \A m \in A, n \in B : m < n

\* Messages are numbered.
LEMMA MessagesAreNumbers == Messages \subseteq Nat
BY BoundAssumption DEF Messages

\* The messages of a sequence are those at its positions.
LEMMA ToSetFacts ==
    ASSUME NEW s \in Seq(Messages)
    PROVE  /\ ToSet(s) \subseteq Messages
           /\ \A i \in 1 .. Len(s) : s[i] \in ToSet(s)
           /\ \A m \in ToSet(s) : \E i \in 1 .. Len(s) : m = s[i]
           /\ s = <<>> <=> ToSet(s) = {}
<1>1. DOMAIN s = 1 .. Len(s) /\ Len(s) \in Nat /\ \A i \in 1 .. Len(s) : s[i] \in Messages
  BY LenProperties, ElementOfSeq
<1>2. s # <<>> => Len(s) # 0
  BY EmptySeq
<1>3. \A i \in 1 .. Len(s) : s[i] \in ToSet(s)
  BY <1>1 DEF ToSet
<1>4. \A m \in ToSet(s) : \E i \in 1 .. Len(s) : m = s[i]
  BY <1>1 DEF ToSet
<1>5. ToSet(s) \subseteq Messages
  BY <1>1, <1>4
<1>6. s # <<>> => ToSet(s) # {}
  <2>1. s # <<>> => 1 \in 1 .. Len(s)
    BY <1>1, <1>2
  <2>2. QED BY <1>3, <2>1
<1>7. s = <<>> => ToSet(s) = {}
  BY <1>4
<1>8. QED BY <1>3, <1>4, <1>5, <1>6, <1>7

\* The empty sequence has no messages, in order.
LEMMA Empty ==
    /\ ToSet(<<>>) = {} /\ Increasing(<<>>) /\ <<>> \in Seq(Messages) /\ Len(<<>>) = 0
BY DEF ToSet, Increasing

\* A later message appended keeps the order.
LEMMA Appended ==
    ASSUME NEW s \in Seq(Messages), NEW m \in Messages
    PROVE  /\ Append(s, m) \in Seq(Messages) /\ Len(Append(s, m)) = Len(s) + 1
           /\ ToSet(Append(s, m)) = ToSet(s) \cup {m}
           /\ Increasing(s) /\ Before(ToSet(s), {m}) => Increasing(Append(s, m))
<1> DEFINE t == Append(s, m)
<1>1. /\ t \in Seq(Messages) /\ Len(t) = Len(s) + 1 /\ Len(s) \in Nat
      /\ \A i \in 1 .. Len(s) : t[i] = s[i]
      /\ t[Len(s) + 1] = m
  BY AppendProperties, LenProperties
<1> HIDE DEF t
<1>2. ToSet(t) = ToSet(s) \cup {m}
  <2>1. \A x \in ToSet(t) : x \in ToSet(s) \cup {m}
    <3> SUFFICES ASSUME NEW x \in ToSet(t) PROVE x \in ToSet(s) \cup {m}
      OBVIOUS
    <3>1. PICK i \in 1 .. Len(t) : x = t[i]
      BY <1>1, ToSetFacts
    <3>2. i \in 1 .. Len(s) \/ i = Len(s) + 1
      BY <1>1
    <3>3. QED BY <1>1, <3>1, <3>2, ToSetFacts
  <2>2. \A x \in ToSet(s) : x \in ToSet(t)
    <3> SUFFICES ASSUME NEW x \in ToSet(s) PROVE x \in ToSet(t)
      OBVIOUS
    <3>1. PICK i \in 1 .. Len(s) : x = s[i]
      BY ToSetFacts
    <3>2. i \in 1 .. Len(t) /\ x = t[i]
      BY <1>1, <3>1
    <3>3. QED BY <1>1, <3>2, ToSetFacts
  <2>3. m \in ToSet(t)
    <3>1. Len(s) + 1 \in 1 .. Len(t)
      BY <1>1
    <3>2. QED BY <1>1, <3>1, ToSetFacts
  <2>4. QED BY <2>1, <2>2, <2>3
<1>3. ASSUME Increasing(s), Before(ToSet(s), {m}), NEW i \in 1 .. Len(t), NEW j \in 1 .. Len(t),
             i < j
      PROVE  t[i] < t[j]
  <2>1. i \in 1 .. Len(s) /\ t[i] = s[i] /\ s[i] \in ToSet(s)
    BY <1>1, <1>3, ToSetFacts
  <2>2. CASE j \in 1 .. Len(s)
    BY <1>1, <1>3, <2>1, <2>2 DEF Increasing
  <2>3. CASE j = Len(s) + 1
    BY <1>1, <1>3, <2>1, <2>3 DEF Before
  <2>4. QED BY <1>1, <2>2, <2>3
<1>4. Increasing(s) /\ Before(ToSet(s), {m}) => Increasing(t)
  BY <1>3 DEF Increasing
<1>5. QED BY <1>1, <1>2, <1>4 DEF t

\* Head and tail of a sequence have its messages, the first before the others.
LEMMA Split ==
    ASSUME NEW s \in Seq(Messages), s # <<>>
    PROVE  /\ Head(s) \in Messages /\ Tail(s) \in Seq(Messages) /\ Len(Tail(s)) = Len(s) - 1
           /\ ToSet(s) = {Head(s)} \cup ToSet(Tail(s))
           /\ Increasing(s) => /\ Increasing(Tail(s)) /\ Before({Head(s)}, ToSet(Tail(s)))
<1> DEFINE t == Tail(s)
           h == Head(s)
<1>1. /\ h \in Messages /\ t \in Seq(Messages) /\ Len(t) = Len(s) - 1
      /\ \A i \in 1 .. Len(t) : t[i] = s[i + 1]
      /\ h = s[1] /\ Len(s) \in Nat \ {0} /\ Len(t) \in Nat
  BY HeadTailProperties, EmptySeq, LenProperties
<1> HIDE DEF t, h
<1>2. ToSet(s) = {h} \cup ToSet(t)
  <2>1. ASSUME NEW x \in ToSet(s) PROVE x \in {h} \cup ToSet(t)
    <3>1. PICK i \in 1 .. Len(s) : x = s[i]
      BY ToSetFacts
    <3>2. CASE i = 1
      BY <1>1, <3>1, <3>2
    <3>3. CASE i # 1
      <4>1. i - 1 \in 1 .. Len(t) /\ (i - 1) + 1 = i
        BY <1>1, <3>3
      <4>2. t[i - 1] = x
        BY <1>1, <3>1, <4>1
      <4>3. QED BY <1>1, <4>1, <4>2, ToSetFacts
    <3>4. QED BY <3>2, <3>3
  <2>2. ASSUME NEW x \in ToSet(t) PROVE x \in ToSet(s)
    <3>1. PICK i \in 1 .. Len(t) : x = t[i]
      BY <1>1, ToSetFacts
    <3>2. i + 1 \in 1 .. Len(s) /\ x = s[i + 1]
      BY <1>1, <3>1
    <3>3. QED BY <3>2, ToSetFacts
  <2>3. h \in ToSet(s)
    <3>1. 1 \in 1 .. Len(s)
      BY <1>1
    <3>2. QED BY <1>1, <3>1, ToSetFacts
  <2>4. QED BY <2>1, <2>2, <2>3
<1>3. ASSUME Increasing(s) PROVE Increasing(t) /\ Before({h}, ToSet(t))
  <2>1. \A i \in 1 .. Len(t) : i + 1 \in 1 .. Len(s) /\ t[i] = s[i + 1]
    BY <1>1
  <2>2. Increasing(t)
    <3> SUFFICES ASSUME NEW i \in 1 .. Len(t), NEW j \in 1 .. Len(t), i < j PROVE t[i] < t[j]
      BY DEF Increasing
    <3>1. i + 1 < j + 1
      OBVIOUS
    <3>2. QED BY <1>3, <2>1, <3>1 DEF Increasing
  <2>3. ASSUME NEW x \in ToSet(t) PROVE h < x
    <3>1. PICK i \in 1 .. Len(t) : x = t[i]
      BY <1>1, ToSetFacts
    <3>2. 1 \in 1 .. Len(s) /\ 1 < i + 1
      BY <1>1
    <3>3. QED BY <1>1, <1>3, <2>1, <3>1, <3>2 DEF Increasing
  <2>4. QED BY <2>2, <2>3 DEF Before
<1>4. QED BY <1>1, <1>2, <1>3 DEF t, h

\* A sequence followed by one of later messages is in order.
LEMMA Joined ==
    ASSUME NEW s \in Seq(Messages), NEW t \in Seq(Messages)
    PROVE  /\ s \o t \in Seq(Messages) /\ ToSet(s \o t) = ToSet(s) \cup ToSet(t)
           /\ Increasing(s) /\ Increasing(t) /\ Before(ToSet(s), ToSet(t)) => Increasing(s \o t)
<1> DEFINE u == s \o t
<1>1. /\ u \in Seq(Messages) /\ Len(u) = Len(s) + Len(t) /\ Len(s) \in Nat /\ Len(t) \in Nat
      /\ \A i \in 1 .. Len(s) : u[i] = s[i]
      /\ \A i \in 1 .. Len(t) : u[Len(s) + i] = t[i]
  BY ConcatProperties, LenProperties
<1> HIDE DEF u
<1>2. ASSUME NEW i \in 1 .. Len(u)
      PROVE  \/ i \in 1 .. Len(s) /\ u[i] = s[i] /\ u[i] \in ToSet(s)
             \/ /\ i - Len(s) \in 1 .. Len(t) /\ u[i] = t[i - Len(s)] /\ u[i] \in ToSet(t)
                /\ i > Len(s)
  <2>1. CASE i \in 1 .. Len(s)
    BY <1>1, <2>1, ToSetFacts
  <2>2. CASE i \notin 1 .. Len(s)
    <3>1. i - Len(s) \in 1 .. Len(t) /\ Len(s) + (i - Len(s)) = i /\ i > Len(s)
      BY <1>1, <2>2
    <3>2. u[i] = t[i - Len(s)]
      BY <1>1, <3>1
    <3>3. QED BY <3>1, <3>2, ToSetFacts
  <2>3. QED BY <2>1, <2>2
<1>3. ToSet(u) = ToSet(s) \cup ToSet(t)
  <2>1. ASSUME NEW x \in ToSet(u) PROVE x \in ToSet(s) \cup ToSet(t)
    BY <1>1, <1>2, ToSetFacts
  <2>2. ASSUME NEW x \in ToSet(s) PROVE x \in ToSet(u)
    <3>1. PICK i \in 1 .. Len(s) : x = s[i]
      BY ToSetFacts
    <3>2. i \in 1 .. Len(u) /\ x = u[i]
      BY <1>1, <3>1
    <3>3. QED BY <1>1, <3>2, ToSetFacts
  <2>3. ASSUME NEW x \in ToSet(t) PROVE x \in ToSet(u)
    <3>1. PICK i \in 1 .. Len(t) : x = t[i]
      BY ToSetFacts
    <3>2. Len(s) + i \in 1 .. Len(u) /\ x = u[Len(s) + i]
      BY <1>1, <3>1
    <3>3. QED BY <1>1, <3>2, ToSetFacts
  <2>4. QED BY <2>1, <2>2, <2>3
<1>4. ASSUME Increasing(s), Increasing(t), Before(ToSet(s), ToSet(t)),
             NEW i \in 1 .. Len(u), NEW j \in 1 .. Len(u), i < j
      PROVE  u[i] < u[j]
  <2>1. CASE i \in 1 .. Len(s) /\ j \in 1 .. Len(s)
    BY <1>1, <1>4, <2>1 DEF Increasing
  <2>2. CASE i \in 1 .. Len(s) /\ j \notin 1 .. Len(s)
    <3>1. u[i] = s[i] /\ s[i] \in ToSet(s)
      BY <1>1, <2>2, ToSetFacts
    <3>2. u[j] \in ToSet(t)
      BY <1>2, <2>2
    <3>3. QED BY <1>4, <3>1, <3>2 DEF Before
  <2>3. CASE i \notin 1 .. Len(s)
    <3>1. /\ i - Len(s) \in 1 .. Len(t) /\ u[i] = t[i - Len(s)] /\ i > Len(s)
      BY <1>2, <2>3
    <3>2. j \notin 1 .. Len(s)
      BY <1>1, <1>4, <3>1
    <3>3. j - Len(s) \in 1 .. Len(t) /\ u[j] = t[j - Len(s)]
      BY <1>2, <3>2
    <3>4. i - Len(s) < j - Len(s)
      BY <1>1, <1>4
    <3>5. QED BY <1>4, <3>1, <3>3, <3>4 DEF Increasing
  <2>4. QED BY <2>1, <2>2, <2>3
<1>5. Increasing(s) /\ Increasing(t) /\ Before(ToSet(s), ToSet(t)) => Increasing(u)
  BY <1>4 DEF Increasing
<1>6. QED BY <1>1, <1>3, <1>5 DEF u

\* What the reporter accepts of a batch keeps its order.
LEMMA PartFacts ==
    ASSUME NEW b \in Seq(Messages), NEW s \in Parts(b)
    PROVE  /\ s \in Seq(Messages) /\ ToSet(s) \subseteq ToSet(b)
           /\ Increasing(b) => Increasing(s)
<1>1. PICK n \in 1 .. Len(b) : \E f \in [1 .. n -> DOMAIN b] :
          /\ \A i, j \in 1 .. n : i < j => f[i] < f[j]
          /\ s = [i \in 1 .. n |-> b[f[i]]]
  BY DEF Parts
<1>2. PICK f \in [1 .. n -> DOMAIN b] :
          /\ \A i, j \in 1 .. n : i < j => f[i] < f[j]
          /\ s = [i \in 1 .. n |-> b[f[i]]]
  BY <1>1
<1>3. DOMAIN b = 1 .. Len(b) /\ Len(b) \in Nat /\ n \in Nat
  BY LenProperties
<1>4. \A i \in 1 .. n : s[i] = b[f[i]] /\ f[i] \in 1 .. Len(b) /\ s[i] \in ToSet(b)
  BY <1>2, <1>3, ToSetFacts
<1>5. \A i \in 1 .. n : s[i] \in Messages
  BY <1>4, ToSetFacts
<1>6. s \in Seq(Messages) /\ Len(s) = n
  BY <1>2, <1>3, <1>5
<1>7. ToSet(s) \subseteq ToSet(b)
  <2> SUFFICES ASSUME NEW x \in ToSet(s) PROVE x \in ToSet(b)
    OBVIOUS
  <2>1. PICK i \in 1 .. Len(s) : x = s[i]
    BY <1>6, ToSetFacts
  <2>2. QED BY <1>4, <1>6, <2>1
<1>8. Increasing(b) => Increasing(s)
  BY <1>2, <1>4, <1>6 DEF Increasing
<1>9. QED BY <1>6, <1>7, <1>8

-----------------------------------------------------------------------------
(* The invariant.                                                           *)

\* What is sent, then what the worker holds, then the queue, then the buffer: the
\* order of the messages.
OrderInv ==
    /\ Increasing(reported) /\ Increasing(batch) /\ Increasing(queue) /\ Increasing(messages)
    /\ Before(ToSet(reported), ToSet(batch) \cup ToSet(queue) \cup ToSet(messages))
    /\ Before(ToSet(batch), ToSet(queue) \cup ToSet(messages))
    /\ Before(ToSet(queue), ToSet(messages))

Everywhere ==
    ToSet(messages) \cup ToSet(queue) \cup ToSet(batch) \cup ToSet(reported)
        \cup refused \cup disk \cup dumps \cup dump \cup overwritten

\* Place i, of the nine there are, is the one where m is.
At(m, i) ==
    /\ m \in ToSet(messages) <=> i = 1
    /\ m \in ToSet(queue)    <=> i = 2
    /\ m \in ToSet(batch)    <=> i = 3
    /\ m \in ToSet(reported) <=> i = 4
    /\ m \in refused         <=> i = 5
    /\ m \in disk            <=> i = 6
    /\ m \in dumps           <=> i = 7
    /\ m \in dump            <=> i = 8
    /\ m \in overwritten     <=> i = 9

\* A message is somewhere, once, as soon as it is buffered.
PlaceInv ==
    /\ Everywhere \subseteq 1 .. count
    /\ \A m \in 1 .. count : \E i \in 1 .. 9 : At(m, i)

\* There is a worker from the first burst on, and no queue before; the worker
\* holds messages only between taking and sending.
ThreadInv ==
    /\ overflow <=> worker # "none"
    /\ ~overflow => queue = <<>>
    /\ worker \notin {"account", "more"} => batch = <<>>
    /\ test = "run" => Len(messages) < BatchSize
    /\ test \in {"drain", "join", "down"} => messages = <<>>
    /\ test \in {"join", "down"} /\ ~gaveUp => queue = <<>>
    /\ test = "down" /\ ~gaveUp => worker \in {"none", "ended"}

IInv == TypeOK /\ OrderInv /\ PlaceInv /\ MemoryIsAccounted /\ ThreadInv

-----------------------------------------------------------------------------
(* Sending.                                                                 *)

\* A batch that is sent is divided between the reporter's two, or is dumped.
LEMMA SendFacts ==
    ASSUME TypeOK, NEW b \in Seq(Messages), Send(b)
    PROVE  /\ reported' \in Seq(Messages)
           /\ \A set \in {refused', collected', dumps', dump', overwritten'} : set \subseteq Messages
           /\ \/ /\ \E A \in SUBSET ToSet(b) : /\ ToSet(reported') = ToSet(reported) \cup A
                                             /\ refused' = refused \cup (ToSet(b) \ A)
                 /\ UNCHANGED <<dumps, dump, overwritten>>
              \/ /\ UNCHANGED <<reported, refused, dumps>>
                 /\ dump' = ToSet(b) /\ overwritten' = overwritten \cup dump
           /\ (Increasing(reported) /\ Increasing(b) /\ Before(ToSet(reported), ToSet(b)))
                 => Increasing(reported')
           /\ ToSet(reported') \subseteq ToSet(reported) \cup ToSet(b)
<1>1. /\ reported \in Seq(Messages)
      /\ refused \subseteq Messages /\ collected \subseteq Messages /\ dumps \subseteq Messages
      /\ dump \subseteq Messages /\ overwritten \subseteq Messages
      /\ ToSet(b) \subseteq Messages
  BY ToSetFacts DEF TypeOK
<1>2. CASE Report(b)
  <2>1. PICK s \in Parts(b) : /\ reported' = reported \o s
                              /\ refused' = refused \cup (ToSet(b) \ ToSet(s))
    BY <1>2 DEF Report
  <2>2. /\ collected' = collected \cup {m \in ToSet(b) : TypeSeen(m) = "step_stop"}
        /\ UNCHANGED <<dumps, dump, overwritten>>
    BY <1>2 DEF Report
  <2>3. /\ s \in Seq(Messages) /\ ToSet(s) \subseteq ToSet(b)
        /\ Increasing(b) => Increasing(s)
    BY PartFacts
  <2>4. /\ reported' \in Seq(Messages) /\ ToSet(reported') = ToSet(reported) \cup ToSet(s)
        /\ Increasing(reported) /\ Increasing(s) /\ Before(ToSet(reported), ToSet(s))
              => Increasing(reported')
    BY <1>1, <2>1, <2>3, Joined
  <2>5. Before(ToSet(reported), ToSet(b)) => Before(ToSet(reported), ToSet(s))
    BY <2>3 DEF Before
  <2>6. refused' \subseteq Messages /\ collected' \subseteq Messages
    BY <1>1, <2>1, <2>2
  <2>7. \E A \in SUBSET ToSet(b) : /\ ToSet(reported') = ToSet(reported) \cup A
                                  /\ refused' = refused \cup (ToSet(b) \ A)
    BY <2>1, <2>3, <2>4
  <2>8. ToSet(reported') \subseteq ToSet(reported) \cup ToSet(b)
    BY <2>3, <2>4
  <2>9. \A set \in {refused', collected', dumps', dump', overwritten'} : set \subseteq Messages
    BY <1>1, <2>2, <2>6
  <2>10. QED BY <2>2, <2>3, <2>4, <2>5, <2>7, <2>8, <2>9
<1>3. CASE Dump(b)
  <2>1. /\ dump' = ToSet(b) /\ overwritten' = overwritten \cup dump
        /\ collected' \subseteq collected \cup ToSet(b)
        /\ UNCHANGED <<reported, refused, dumps>>
    BY <1>3 DEF Dump
  <2>2. \A set \in {refused', collected', dumps', dump', overwritten'} : set \subseteq Messages
    BY <1>1, <2>1
  <2>3. QED BY <1>1, <2>1, <2>2
<1>4. QED BY <1>2, <1>3 DEF Send

-----------------------------------------------------------------------------
(* What each step does to the messages.                                     *)

\* Buffering a message, the flush it may cause included, keeps the invariant.
LEMMA AddStep ==
    ASSUME IInv, NEW burst \in BOOLEAN, NEW late \in BOOLEAN, AddMessage(burst, late)
    PROVE  IInv'
<1>1. /\ test = "run" /\ count < MaxMessages /\ count' = count + 1
      /\ messages' = Append(messages, count + 1)
      /\ queueMode' = burst /\ overflow' \in {overflow, TRUE}
      /\ \/ overflow' = overflow /\ worker' = worker
         \/ overflow' = TRUE /\ worker' = IF worker = "none" THEN "top" ELSE worker
      /\ test' \in {"flush", "run"}
      /\ test' = "run" => Len(messages) + 1 < BatchSize
      /\ UNCHANGED <<queue, memory, disk, gaveUp, batch, stop, reported, refused, collected, dumps,
                     dump, overwritten>>
  <2>1. Len(messages) \in Nat /\ BatchSize \in Nat
    BY LenProperties, SizesAssumption DEF IInv, TypeOK
  <2>2. ~(Len(messages) + 1 >= BatchSize) => Len(messages) + 1 < BatchSize
    BY <2>1
  <2>3. QED BY <2>2 DEF AddMessage, HandleOverflow, queueVars, sendVars
<1>2. /\ count \in Nat /\ count + 1 \in Messages /\ messages \in Seq(Messages)
      /\ Len(messages) < BatchSize /\ Len(messages) \in Nat /\ BatchSize \in Nat
  BY <1>1, BoundAssumption, SizesAssumption, LenProperties
     DEF IInv, TypeOK, ThreadInv, Messages
<1>3. /\ messages' \in Seq(Messages) /\ Len(messages') = Len(messages) + 1
      /\ ToSet(messages') = ToSet(messages) \cup {count + 1}
      /\ Increasing(messages) /\ Before(ToSet(messages), {count + 1}) => Increasing(messages')
  BY <1>1, <1>2, Appended
<1>4. \A m \in 1 .. count : m < count + 1 /\ m # count + 1
  BY <1>2
<1>5. Everywhere \subseteq 1 .. count
  BY DEF IInv, PlaceInv
<1>6. OrderInv'
  <2>1. /\ Before(ToSet(messages), {count + 1}) /\ Before(ToSet(reported), {count + 1})
        /\ Before(ToSet(batch), {count + 1}) /\ Before(ToSet(queue), {count + 1})
    BY <1>4, <1>5 DEF Before, Everywhere
  <2>2. Increasing(messages')
    BY <1>3, <2>1 DEF IInv, OrderInv
  <2>3. /\ Increasing(reported') /\ Increasing(batch') /\ Increasing(queue')
        /\ Before(ToSet(reported'), ToSet(batch') \cup ToSet(queue') \cup ToSet(messages'))
        /\ Before(ToSet(batch'), ToSet(queue') \cup ToSet(messages'))
        /\ Before(ToSet(queue'), ToSet(messages'))
    BY <1>1, <1>3, <2>1 DEF IInv, OrderInv, Before
  <2>4. QED BY <2>2, <2>3 DEF OrderInv
<1>7. PlaceInv'
  <2>1. Everywhere' \subseteq 1 .. count'
    <3>1. Everywhere' = Everywhere \cup {count + 1}
      BY <1>1, <1>3 DEF Everywhere
    <3>2. QED BY <1>1, <1>2, <1>5, <3>1
  <2>2. ASSUME NEW m \in 1 .. count
        PROVE  \E i \in 1 .. 9 : At(m, i)'
    <3>1. PICK i \in 1 .. 9 : At(m, i)
      BY DEF IInv, PlaceInv
    <3>2. At(m, i)'
      BY <1>1, <1>3, <1>4, <3>1 DEF At
    <3>3. QED BY <3>2
  <2>3. ASSUME NEW m \in {count + 1}
        PROVE  At(m, 1)'
    <3>1. m \notin Everywhere /\ m \in ToSet(messages')
      BY <1>2, <1>3, <1>5
    <3>2. QED BY <1>1, <1>3, <3>1 DEF At, Everywhere
  <2>4. ASSUME NEW m \in 1 .. count'
        PROVE  \E i \in 1 .. 9 : At(m, i)'
    <3>1. m \in 1 .. count \/ m \in {count + 1}
      BY <1>1, <1>2
    <3>2. 1 \in 1 .. 9
      OBVIOUS
    <3>3. QED BY <2>2, <2>3, <3>1, <3>2
  <2>5. QED BY <2>1, <2>4 DEF PlaceInv
<1>8. TypeOK'
  <2>1. count' \in 0 .. MaxMessages
    BY <1>1, <1>2, BoundAssumption
  <2>2. Len(messages') <= BatchSize
    BY <1>2, <1>3
  <2>3. QED BY <1>1, <1>3, <2>1, <2>2 DEF IInv, TypeOK
<1>9. MemoryIsAccounted'
  BY <1>1 DEF IInv, MemoryIsAccounted
<1>10. ThreadInv'
  BY <1>1, <1>2, <1>3 DEF IInv, ThreadInv
<1>11. QED BY <1>6, <1>7, <1>8, <1>9, <1>10 DEF IInv

\* A batch leaves the buffer, or the worker's hands, and is sent.
LEMMA Divided ==
    ASSUME IInv, NEW b \in Seq(Messages), Send(b), UNCHANGED <<count, queue, disk>>,
           \/ b = messages /\ messages' = <<>> /\ UNCHANGED batch /\ batch = <<>> /\ queue = <<>>
           \/ b = batch /\ batch' = <<>> /\ UNCHANGED messages
    PROVE  OrderInv' /\ PlaceInv'
<1>1. /\ Increasing(b) /\ Before(ToSet(reported), ToSet(b)) /\ ToSet(b) \subseteq Everywhere
  BY DEF IInv, OrderInv, Before, Everywhere
<1>2. /\ Increasing(reported')
      /\ ToSet(reported') \subseteq ToSet(reported) \cup ToSet(b)
      /\ \/ /\ \E A \in SUBSET ToSet(b) : /\ ToSet(reported') = ToSet(reported) \cup A
                                        /\ refused' = refused \cup (ToSet(b) \ A)
            /\ UNCHANGED <<dumps, dump, overwritten>>
         \/ /\ UNCHANGED <<reported, refused, dumps>>
            /\ dump' = ToSet(b) /\ overwritten' = overwritten \cup dump
  BY <1>1, SendFacts DEF IInv, OrderInv
<1>3. \/ /\ b = messages /\ ToSet(messages') = {} /\ ToSet(batch') = ToSet(batch)
         /\ ToSet(batch) = {} /\ ToSet(queue) = {}
      \/ b = batch /\ ToSet(batch') = {} /\ ToSet(messages') = ToSet(messages)
  BY Empty
<1>4. UNCHANGED <<count, queue, disk>> /\ ToSet(queue') = ToSet(queue)
  OBVIOUS
<1>5. OrderInv'
  <2>1. Increasing(batch') /\ Increasing(queue') /\ Increasing(messages')
    BY Empty DEF IInv, OrderInv
  <2>2. /\ Before(ToSet(reported), ToSet(batch) \cup ToSet(queue) \cup ToSet(messages))
        /\ Before(ToSet(batch), ToSet(queue) \cup ToSet(messages))
        /\ Before(ToSet(queue), ToSet(messages))
    BY DEF IInv, OrderInv
  <2>3. /\ Before(ToSet(reported'), ToSet(batch') \cup ToSet(queue') \cup ToSet(messages'))
        /\ Before(ToSet(batch'), ToSet(queue') \cup ToSet(messages'))
        /\ Before(ToSet(queue'), ToSet(messages'))
    <3>1. CASE /\ b = messages /\ ToSet(messages') = {} /\ ToSet(batch') = ToSet(batch)
               /\ ToSet(batch) = {} /\ ToSet(queue) = {}
      BY <1>4, <3>1 DEF Before
    <3>2. CASE b = batch /\ ToSet(batch') = {} /\ ToSet(messages') = ToSet(messages)
      BY <1>2, <1>4, <2>2, <3>2 DEF Before
    <3>3. QED BY <1>3, <3>1, <3>2
  <2>4. QED BY <1>2, <2>1, <2>3 DEF OrderInv
<1>6. Everywhere' \subseteq 1 .. count'
  <2>1. Everywhere' \subseteq Everywhere
    BY <1>1, <1>2, <1>3, <1>4 DEF Everywhere
  <2>2. QED BY <1>4, <2>1 DEF IInv, PlaceInv
<1>7. ASSUME NEW m \in 1 .. count'
      PROVE  \E i \in 1 .. 9 : At(m, i)'
  <2>1. PICK i \in 1 .. 9 : At(m, i)
    BY <1>4, <1>7 DEF IInv, PlaceInv
  <2>2. CASE m \notin ToSet(b) /\ ~(m \in dump /\ dump' # dump)
    <3>1. At(m, i)'
      BY <1>2, <1>3, <1>4, <2>1, <2>2 DEF At
    <3>2. QED BY <3>1
  <2>3. CASE m \notin ToSet(b) /\ m \in dump /\ dump' # dump
    <3>1. At(m, 9)'
      BY <1>2, <1>3, <1>4, <2>1, <2>3 DEF At
    <3>2. 9 \in 1 .. 9
      OBVIOUS
    <3>3. QED BY <3>1, <3>2
  <2>4. CASE m \in ToSet(b)
    <3>1. i = 1 \/ i = 3
      BY <1>3, <2>1, <2>4 DEF At
    <3>2. m \notin ToSet(messages') /\ m \notin ToSet(batch') /\ m \notin ToSet(queue')
      BY <1>3, <1>4, <2>1, <2>4, <3>1 DEF At
    <3>3. /\ m \notin ToSet(reported) /\ m \notin refused /\ m \notin disk'
          /\ m \notin dumps /\ m \notin dump /\ m \notin overwritten
      BY <1>4, <2>1, <3>1 DEF At
    <3>4. CASE /\ UNCHANGED <<reported, refused, dumps>>
               /\ dump' = ToSet(b) /\ overwritten' = overwritten \cup dump
      <4>1. At(m, 8)'
        BY <2>4, <3>2, <3>3, <3>4 DEF At
      <4>2. 8 \in 1 .. 9
        OBVIOUS
      <4>3. QED BY <4>1, <4>2
    <3>5. ASSUME NEW A \in SUBSET ToSet(b), ToSet(reported') = ToSet(reported) \cup A,
                 refused' = refused \cup (ToSet(b) \ A), UNCHANGED <<dumps, dump, overwritten>>
          PROVE  \E j \in 1 .. 9 : At(m, j)'
      <4>1. m \in A => At(m, 4)'
        BY <2>4, <3>2, <3>3, <3>5 DEF At
      <4>2. m \notin A => At(m, 5)'
        BY <2>4, <3>2, <3>3, <3>5 DEF At
      <4>3. 4 \in 1 .. 9 /\ 5 \in 1 .. 9
        OBVIOUS
      <4>4. QED BY <4>1, <4>2, <4>3
    <3>6. QED BY <1>2, <3>4, <3>5
  <2>5. QED BY <2>2, <2>3, <2>4
<1>8. QED BY <1>5, <1>6, <1>7 DEF PlaceInv

\* A flush that sends its batch directly keeps the invariant.
LEMMA FlushStep ==
    ASSUME IInv, FlushDirectly
    PROVE  IInv'
<1>1. /\ test \in {"flush", "lastFlush"} /\ ~overflow /\ Send(messages) /\ messages' = <<>>
      /\ UNCHANGED <<count, queueMode, overflow, queue, memory, disk, test, gaveUp, worker, batch, stop>>
  BY DEF FlushDirectly, Flushing, queueVars, workerVars
<1>2. worker = "none" /\ batch = <<>> /\ queue = <<>> /\ messages \in Seq(Messages)
  BY <1>1 DEF IInv, ThreadInv, TypeOK
<1>3. OrderInv' /\ PlaceInv'
  BY <1>1, <1>2, Divided
<1>4. TypeOK'
  <2>1. /\ reported' \in Seq(Messages)
        /\ \A set \in {refused', collected', dumps', dump', overwritten'} : set \subseteq Messages
    BY <1>1, <1>2, SendFacts DEF IInv
  <2>2. messages' \in Seq(Messages) /\ Len(messages') <= BatchSize
    BY <1>1, Empty, SizesAssumption
  <2>3. QED BY <1>1, <2>1, <2>2 DEF IInv, TypeOK
<1>5. MemoryIsAccounted'
  BY <1>1 DEF IInv, MemoryIsAccounted
<1>6. ThreadInv'
  BY <1>1 DEF IInv, ThreadInv
<1>7. QED BY <1>3, <1>4, <1>5, <1>6 DEF IInv

\* Sending the batch of the worker keeps the invariant.
LEMMA SendBatchStep ==
    ASSUME IInv, SendBatch
    PROVE  IInv'
<1>1. /\ worker = "more" /\ Send(batch) /\ batch' = <<>> /\ worker' = "top"
      /\ UNCHANGED <<count, messages, queueMode, overflow, queue, memory, disk, test, gaveUp, stop>>
  BY DEF SendBatch, accumulatorVars, queueVars
<1>2. batch \in Seq(Messages)
  BY DEF IInv, TypeOK
<1>3. OrderInv' /\ PlaceInv'
  BY <1>1, <1>2, Divided
<1>4. TypeOK'
  <2>1. /\ reported' \in Seq(Messages)
        /\ \A set \in {refused', collected', dumps', dump', overwritten'} : set \subseteq Messages
    BY <1>1, <1>2, SendFacts DEF IInv
  <2>2. batch' \in Seq(Messages) /\ Len(batch') <= BatchSize
    BY <1>1, Empty, SizesAssumption
  <2>3. QED BY <1>1, <2>1, <2>2 DEF IInv, TypeOK
<1>5. MemoryIsAccounted'
  BY <1>1 DEF IInv, MemoryIsAccounted
<1>6. ThreadInv'
  BY <1>1 DEF IInv, ThreadInv
<1>7. QED BY <1>3, <1>4, <1>5, <1>6 DEF IInv

\* A message moves from the buffer to the queue, or to a file.
LEMMA EnqueueStep ==
    ASSUME IInv, Enqueue
    PROVE  IInv'
<1>1. /\ test \in {"flush", "lastFlush"} /\ overflow /\ messages # <<>> /\ messages' = Tail(messages)
      /\ UNCHANGED <<count, queueMode, overflow, test, gaveUp, worker, batch, stop, reported, refused,
                     collected, dumps, dump, overwritten>>
  BY DEF Enqueue, Flushing, workerVars, sendVars
<1>2. /\ messages \in Seq(Messages) /\ queue \in Seq(Messages) /\ Len(queue) \in Nat
      /\ Len(messages) \in Nat /\ Len(messages) <= BatchSize /\ Len(queue) <= QueueSize
      /\ memory \in Nat /\ memory <= MemoryLimit /\ BatchSize \in Nat /\ QueueSize \in Nat
      /\ MemoryLimit \in Nat
  BY SizesAssumption, LenProperties DEF IInv, TypeOK
<1>3. PICK h \in Messages : h = Head(messages)
  BY <1>1, <1>2, Split
<1>4. /\ messages' \in Seq(Messages) /\ Len(messages') = Len(messages) - 1
      /\ ToSet(messages) = {h} \cup ToSet(messages')
      /\ Increasing(messages') /\ Before({h}, ToSet(messages'))
  BY <1>1, <1>2, <1>3, Split DEF IInv, OrderInv
<1>5. h \notin ToSet(messages')
  BY <1>3, <1>4, MessagesAreNumbers DEF Before
<1>6. \/ disk' = disk \cup {h} /\ UNCHANGED <<queue, memory>>
      \/ /\ queue' = Append(queue, h) /\ memory' = memory + 1 /\ UNCHANGED disk
         /\ memory + 1 <= MemoryLimit /\ Len(queue) < QueueSize
  <2>1. CASE memory + 1 > MemoryLimit \/ Len(queue) >= QueueSize
    BY <1>3, <2>1 DEF Enqueue
  <2>2. CASE ~(memory + 1 > MemoryLimit \/ Len(queue) >= QueueSize)
    <3>1. memory + 1 <= MemoryLimit /\ Len(queue) < QueueSize
      BY <1>2, <2>2
    <3>2. QED BY <1>3, <2>2, <3>1 DEF Enqueue
  <2>3. QED BY <2>1, <2>2
<1>7. /\ Append(queue, h) \in Seq(Messages) /\ Len(Append(queue, h)) = Len(queue) + 1
      /\ ToSet(Append(queue, h)) = ToSet(queue) \cup {h}
      /\ Increasing(Append(queue, h))
  <2>1. Increasing(queue) /\ Before(ToSet(queue), {h})
    BY <1>4 DEF IInv, OrderInv, Before
  <2>2. QED BY <1>2, <2>1, Appended
<1>8. \/ ToSet(queue') = ToSet(queue) /\ disk' = disk \cup {h}
      \/ ToSet(queue') = ToSet(queue) \cup {h} /\ disk' = disk
  BY <1>6, <1>7
<1>9. OrderInv'
  <2>1. Increasing(reported') /\ Increasing(batch') /\ Increasing(queue') /\ Increasing(messages')
    BY <1>1, <1>4, <1>6, <1>7 DEF IInv, OrderInv
  <2>2. /\ Before(ToSet(reported), ToSet(batch) \cup ToSet(queue) \cup ToSet(messages))
        /\ Before(ToSet(batch), ToSet(queue) \cup ToSet(messages))
        /\ Before(ToSet(queue), ToSet(messages))
    BY DEF IInv, OrderInv
  <2>3. ToSet(reported') = ToSet(reported) /\ ToSet(batch') = ToSet(batch)
    BY <1>1
  <2>4. /\ Before(ToSet(reported'), ToSet(batch') \cup ToSet(queue') \cup ToSet(messages'))
        /\ Before(ToSet(batch'), ToSet(queue') \cup ToSet(messages'))
        /\ Before(ToSet(queue'), ToSet(messages'))
    BY <1>4, <1>8, <2>2, <2>3 DEF Before
  <2>5. QED BY <2>1, <2>4 DEF OrderInv
<1>10. PlaceInv'
  <2>1. Everywhere' \subseteq 1 .. count'
    <3>1. Everywhere' \subseteq Everywhere
      BY <1>1, <1>4, <1>8 DEF Everywhere
    <3>2. QED BY <1>1, <3>1 DEF IInv, PlaceInv
  <2>2. ASSUME NEW m \in 1 .. count'
        PROVE  \E i \in 1 .. 9 : At(m, i)'
    <3>1. PICK i \in 1 .. 9 : At(m, i)
      BY <1>1, <2>2 DEF IInv, PlaceInv
    <3>2. CASE m # h
      <4>1. At(m, i)'
        BY <1>1, <1>4, <1>8, <3>1, <3>2 DEF At
      <4>2. QED BY <4>1
    <3>3. CASE m = h
      <4>1. i = 1
        BY <1>4, <3>1, <3>3 DEF At
      <4>2. /\ m \notin ToSet(messages') /\ m \notin ToSet(queue) /\ m \notin disk
            /\ m \notin ToSet(batch') /\ m \notin ToSet(reported') /\ m \notin refused'
            /\ m \notin dumps' /\ m \notin dump' /\ m \notin overwritten'
        BY <1>1, <1>5, <3>1, <3>3, <4>1 DEF At
      <4>3. At(m, 2)' \/ At(m, 6)'
        BY <1>8, <3>3, <4>2 DEF At
      <4>4. 2 \in 1 .. 9 /\ 6 \in 1 .. 9
        OBVIOUS
      <4>5. QED BY <4>3, <4>4
    <3>4. QED BY <3>2, <3>3
  <2>3. QED BY <2>1, <2>2 DEF PlaceInv
<1>11. TypeOK'
  <2>1. disk' \subseteq Messages
    BY <1>6 DEF IInv, TypeOK
  <2>2. /\ queue' \in Seq(Messages) /\ Len(queue') <= QueueSize /\ memory' \in 0 .. MemoryLimit
        /\ Len(messages') <= BatchSize
    <3>1. Len(messages') <= BatchSize
      BY <1>2, <1>4
    <3>2. CASE UNCHANGED <<queue, memory>>
      BY <1>2, <3>1, <3>2
    <3>3. CASE /\ queue' = Append(queue, h) /\ memory' = memory + 1
               /\ memory + 1 <= MemoryLimit /\ Len(queue) < QueueSize
      <4>1. queue' \in Seq(Messages) /\ Len(queue') = Len(queue) + 1
        BY <1>7, <3>3
      <4>2. QED BY <1>2, <3>1, <3>3, <4>1
    <3>4. QED BY <1>6, <3>2, <3>3
  <2>3. QED BY <1>1, <1>4, <2>1, <2>2 DEF IInv, TypeOK
<1>12. MemoryIsAccounted'
  <2>1. memory = Len(queue) + (IF worker = "account" THEN 1 ELSE 0)
    BY DEF IInv, MemoryIsAccounted
  <2>2. \/ memory' = memory /\ Len(queue') = Len(queue)
        \/ memory' = memory + 1 /\ Len(queue') = Len(queue) + 1
    BY <1>6, <1>7
  <2>3. memory' = Len(queue') + (IF worker' = "account" THEN 1 ELSE 0)
    BY <1>1, <1>2, <2>1, <2>2
  <2>4. QED BY <2>3 DEF MemoryIsAccounted
<1>13. ThreadInv'
  BY <1>1 DEF IInv, ThreadInv
<1>14. QED BY <1>9, <1>10, <1>11, <1>12, <1>13 DEF IInv

\* The worker takes the head of the queue.
LEMMA TakeStep ==
    ASSUME IInv, Take
    PROVE  IInv'
<1>1. /\ worker \in {"take", "more"} /\ worker' = "account" /\ queue # <<>>
      /\ worker = "more" => Len(batch) < BatchSize
      /\ batch' = Append(batch, Head(queue)) /\ queue' = Tail(queue)
      /\ UNCHANGED <<count, messages, queueMode, overflow, memory, disk, test, gaveUp, stop, reported,
                     refused, collected, dumps, dump, overwritten>>
  BY DEF Take, accumulatorVars, sendVars
<1>2. /\ batch \in Seq(Messages) /\ queue \in Seq(Messages) /\ Len(queue) \in Nat
      /\ Len(batch) \in Nat /\ Len(queue) <= QueueSize /\ BatchSize \in Nat \ {0}
      /\ QueueSize \in Nat /\ memory \in Nat
  BY SizesAssumption, LenProperties DEF IInv, TypeOK
<1>3. PICK h \in Messages : h = Head(queue)
  BY <1>1, <1>2, Split
<1>4. /\ queue' \in Seq(Messages) /\ Len(queue') = Len(queue) - 1
      /\ ToSet(queue) = {h} \cup ToSet(queue')
      /\ Increasing(queue') /\ Before({h}, ToSet(queue'))
  BY <1>1, <1>2, <1>3, Split DEF IInv, OrderInv
<1>5. h \notin ToSet(queue')
  BY <1>3, <1>4, MessagesAreNumbers DEF Before
<1>6. /\ batch' \in Seq(Messages) /\ Len(batch') = Len(batch) + 1
      /\ ToSet(batch') = ToSet(batch) \cup {h} /\ Increasing(batch')
  <2>1. Increasing(batch) /\ Before(ToSet(batch), {h})
    BY <1>4 DEF IInv, OrderInv, Before
  <2>2. batch' = Append(batch, h)
    BY <1>1, <1>3
  <2>3. QED BY <1>2, <2>1, <2>2, Appended
<1>7. Len(batch) < BatchSize
  <2>1. worker = "take" => Len(batch) = 0
    BY Empty DEF IInv, ThreadInv
  <2>2. QED BY <1>1, <1>2, <2>1
<1>8. OrderInv'
  <2>1. Increasing(reported') /\ Increasing(batch') /\ Increasing(queue') /\ Increasing(messages')
    BY <1>1, <1>4, <1>6 DEF IInv, OrderInv
  <2>2. /\ Before(ToSet(reported), ToSet(batch) \cup ToSet(queue) \cup ToSet(messages))
        /\ Before(ToSet(batch), ToSet(queue) \cup ToSet(messages))
        /\ Before(ToSet(queue), ToSet(messages))
    BY DEF IInv, OrderInv
  <2>3. ToSet(reported') = ToSet(reported) /\ ToSet(messages') = ToSet(messages)
    BY <1>1
  <2>4. /\ Before(ToSet(reported'), ToSet(batch') \cup ToSet(queue') \cup ToSet(messages'))
        /\ Before(ToSet(batch'), ToSet(queue') \cup ToSet(messages'))
        /\ Before(ToSet(queue'), ToSet(messages'))
    BY <1>4, <1>6, <2>2, <2>3 DEF Before
  <2>5. QED BY <2>1, <2>4 DEF OrderInv
<1>9. PlaceInv'
  <2>1. Everywhere' \subseteq 1 .. count'
    <3>1. Everywhere' \subseteq Everywhere
      BY <1>1, <1>4, <1>6 DEF Everywhere
    <3>2. QED BY <1>1, <3>1 DEF IInv, PlaceInv
  <2>2. ASSUME NEW m \in 1 .. count'
        PROVE  \E i \in 1 .. 9 : At(m, i)'
    <3>1. PICK i \in 1 .. 9 : At(m, i)
      BY <1>1, <2>2 DEF IInv, PlaceInv
    <3>2. CASE m # h
      <4>1. At(m, i)'
        BY <1>1, <1>4, <1>6, <3>1, <3>2 DEF At
      <4>2. QED BY <4>1
    <3>3. CASE m = h
      <4>1. i = 2
        BY <1>4, <3>1, <3>3 DEF At
      <4>2. At(m, 3)'
        BY <1>1, <1>5, <1>6, <3>1, <3>3, <4>1 DEF At
      <4>3. 3 \in 1 .. 9
        OBVIOUS
      <4>4. QED BY <4>2, <4>3
    <3>4. QED BY <3>2, <3>3
  <2>3. QED BY <2>1, <2>2 DEF PlaceInv
<1>10. TypeOK'
  <2>1. Len(batch') <= BatchSize /\ Len(queue') <= QueueSize
    BY <1>2, <1>4, <1>6, <1>7
  <2>2. QED BY <1>1, <1>4, <1>6, <2>1 DEF IInv, TypeOK
<1>11. MemoryIsAccounted'
  <2>1. memory = Len(queue)
    BY <1>1, <1>2 DEF IInv, MemoryIsAccounted
  <2>2. memory' = Len(queue') + 1
    BY <1>1, <1>2, <1>4, <2>1
  <2>3. QED BY <1>1, <2>2 DEF MemoryIsAccounted
<1>12. ThreadInv'
  BY <1>1 DEF IInv, ThreadInv
<1>13. QED BY <1>8, <1>9, <1>10, <1>11, <1>12 DEF IInv

\* A step of the clock keeps the invariant.
LEMMA TickStep ==
    ASSUME IInv, Tick
    PROVE  IInv'
<1>1. /\ dumps' = dumps \cup dump /\ dump' = {}
      /\ UNCHANGED <<count, messages, queueMode, overflow, queue, memory, disk, test, gaveUp, worker,
                     batch, stop, reported, refused, collected, overwritten>>
  BY DEF Tick, accumulatorVars, queueVars, workerVars
<1>2. OrderInv'
  BY <1>1 DEF IInv, OrderInv
<1>3. PlaceInv'
  <2>1. Everywhere' = Everywhere
    BY <1>1 DEF Everywhere
  <2>2. ASSUME NEW m \in 1 .. count'
        PROVE  \E i \in 1 .. 9 : At(m, i)'
    <3>1. PICK i \in 1 .. 9 : At(m, i)
      BY <1>1, <2>2 DEF IInv, PlaceInv
    <3>2. i # 8 => At(m, i)'
      BY <1>1, <3>1 DEF At
    <3>3. i = 8 => At(m, 7)'
      BY <1>1, <3>1 DEF At
    <3>4. 7 \in 1 .. 9
      OBVIOUS
    <3>5. QED BY <3>2, <3>3, <3>4
  <2>3. QED BY <1>1, <2>1, <2>2 DEF IInv, PlaceInv
<1>4. TypeOK'
  BY <1>1 DEF IInv, TypeOK
<1>5. MemoryIsAccounted' /\ ThreadInv'
  BY <1>1 DEF IInv, MemoryIsAccounted, ThreadInv
<1>6. QED BY <1>2, <1>3, <1>4, <1>5 DEF IInv

\* The other steps move no message.
LEMMA StillStep ==
    ASSUME IInv,
           UNCHANGED <<count, messages, queueMode, overflow, queue, disk, batch, reported, refused,
                       collected, dumps, dump, overwritten>>,
           memory' \in 0 .. MemoryLimit, MemoryIsAccounted', ThreadInv',
           test' \in {"run", "flush", "lastFlush", "drain", "join", "down"}, gaveUp' \in BOOLEAN,
           worker' \in {"none", "top", "take", "account", "more", "ended"}, stop' \in BOOLEAN
    PROVE  IInv'
<1>1. OrderInv'
  BY DEF IInv, OrderInv
<1>2. PlaceInv'
  <2>1. Everywhere' = Everywhere
    BY DEF Everywhere
  <2>2. \A m, i : At(m, i) => At(m, i)'
    BY DEF At
  <2>3. \A m \in 1 .. count : \E i \in 1 .. 9 : At(m, i)
    BY DEF IInv, PlaceInv
  <2>4. ASSUME NEW m \in 1 .. count'
        PROVE  \E i \in 1 .. 9 : At(m, i)'
    <3>1. PICK i \in 1 .. 9 : At(m, i)
      BY <2>3
    <3>2. QED BY <2>2, <3>1
  <2>5. Everywhere' \subseteq 1 .. count'
    BY <2>1 DEF IInv, PlaceInv
  <2>6. QED BY <2>4, <2>5 DEF PlaceInv
<1>3. TypeOK'
  BY DEF IInv, TypeOK
<1>4. QED BY <1>1, <1>2, <1>3 DEF IInv

\* The steps of the test thread that only change what it is doing.
LEMMA TestSteps ==
    ASSUME IInv, Flushed \/ Shutdown \/ StopWorker \/ Join \/ GiveUpDraining \/ GiveUpJoining
    PROVE  IInv'
<1>1. /\ UNCHANGED <<count, messages, queueMode, overflow, queue, memory, disk, worker, batch,
                     reported, refused, collected, dumps, dump, overwritten>>
      /\ test' \in {"run", "flush", "lastFlush", "drain", "join", "down"}
      /\ gaveUp' \in {gaveUp, TRUE} /\ stop' \in {stop, TRUE}
  BY DEF Flushed, Shutdown, StopWorker, Join, GiveUpDraining, GiveUpJoining,
         accumulatorVars, queueVars, workerVars, sendVars
<1>2. TypeOK /\ MemoryIsAccounted /\ ThreadInv
  BY DEF IInv
<1>3. MemoryIsAccounted'
  BY <1>1, <1>2 DEF MemoryIsAccounted
<1>4. ThreadInv'
  <2>1. CASE Flushed
    <3>1. /\ messages = <<>> /\ test \in {"flush", "lastFlush"} /\ UNCHANGED gaveUp
          /\ test' = "run" \/ (test' = "down" /\ worker = "none") \/ test' = "drain"
      BY <2>1 DEF Flushed, Flushing
    <3>2. Len(messages) < BatchSize
      BY <3>1, Empty, SizesAssumption
    <3>3. QED BY <1>1, <1>2, <3>1, <3>2 DEF ThreadInv
  <2>2. CASE Shutdown
    BY <1>1, <1>2, <2>2 DEF Shutdown, ThreadInv
  <2>3. CASE StopWorker
    BY <1>1, <1>2, <2>3 DEF StopWorker, ThreadInv
  <2>4. CASE Join
    BY <1>1, <1>2, <2>4 DEF Join, ThreadInv
  <2>5. CASE GiveUpDraining
    BY <1>1, <1>2, <2>5 DEF GiveUpDraining, ThreadInv
  <2>6. CASE GiveUpJoining
    BY <1>1, <1>2, <2>6 DEF GiveUpJoining, ThreadInv
  <2>7. QED BY <2>1, <2>2, <2>3, <2>4, <2>5, <2>6
<1>5. QED BY <1>1, <1>2, <1>3, <1>4, StillStep DEF TypeOK

\* Those of the worker.
LEMMA WorkerSteps ==
    ASSUME IInv, GoOn \/ NothingThere \/ Account \/ WorkerEnds
    PROVE  IInv'
<1>1. /\ UNCHANGED <<count, messages, queueMode, overflow, queue, disk, test, gaveUp, batch, stop,
                     reported, refused, collected, dumps, dump, overwritten>>
      /\ worker' \in {"top", "take", "more", "ended"}
      /\ memory' \in {memory, memory - 1}
  BY DEF GoOn, NothingThere, Account, WorkerEnds, accumulatorVars, queueVars, sendVars
<1>2. /\ TypeOK /\ MemoryIsAccounted /\ ThreadInv
      /\ queue \in Seq(Messages) /\ Len(queue) \in Nat /\ memory \in 0 .. MemoryLimit
      /\ MemoryLimit \in Nat
  BY LenProperties, SizesAssumption DEF IInv, TypeOK
<1>3. MemoryIsAccounted' /\ memory' \in 0 .. MemoryLimit
  <2>1. CASE GoOn \/ NothingThere \/ WorkerEnds
    BY <1>1, <1>2, <2>1 DEF GoOn, NothingThere, WorkerEnds, queueVars, MemoryIsAccounted
  <2>2. CASE Account
    <3>1. worker = "account" /\ worker' = "more" /\ memory' = memory - 1 /\ queue' = queue
      BY <2>2 DEF Account
    <3>2. memory = Len(queue) + 1
      BY <1>2, <3>1 DEF MemoryIsAccounted
    <3>3. memory' = Len(queue') /\ memory' \in 0 .. MemoryLimit
      BY <1>2, <3>1, <3>2
    <3>4. QED BY <1>2, <3>1, <3>3 DEF MemoryIsAccounted
  <2>3. QED BY <2>1, <2>2
<1>4. ThreadInv'
  <2>1. CASE GoOn
    BY <1>1, <1>2, <2>1 DEF GoOn, ThreadInv
  <2>2. CASE NothingThere
    BY <1>1, <1>2, <2>2 DEF NothingThere, ThreadInv
  <2>3. CASE Account
    BY <1>1, <1>2, <2>3 DEF Account, ThreadInv
  <2>4. CASE WorkerEnds
    BY <1>1, <1>2, <2>4 DEF WorkerEnds, ThreadInv
  <2>5. QED BY <2>1, <2>2, <2>3, <2>4
<1>5. QED BY <1>1, <1>2, <1>3, <1>4, StillStep DEF TypeOK

-----------------------------------------------------------------------------
(* The invariant holds.                                                     *)

\* The invariant holds of a reporter that has seen nothing.
LEMMA InitIInv == Init => IInv
<1> SUFFICES ASSUME Init PROVE IInv
  OBVIOUS
<1>1. /\ count = 0 /\ messages = <<>> /\ queueMode = FALSE /\ overflow = FALSE /\ queue = <<>>
      /\ memory = 0 /\ test = "run" /\ gaveUp = FALSE /\ worker = "none" /\ batch = <<>>
      /\ stop = FALSE /\ reported = <<>> /\ refused = {} /\ collected = {} /\ disk = {}
      /\ dumps = {} /\ dump = {} /\ overwritten = {}
  BY DEF Init
<1>2. TypeOK
  <2>1. 0 \in 0 .. MaxMessages /\ 0 \in 0 .. MemoryLimit /\ 0 <= BatchSize /\ 0 <= QueueSize
    BY SizesAssumption, BoundAssumption
  <2>2. /\ messages \in Seq(Messages) /\ Len(messages) = 0 /\ queue \in Seq(Messages)
        /\ Len(queue) = 0 /\ batch \in Seq(Messages) /\ Len(batch) = 0
        /\ reported \in Seq(Messages)
    BY <1>1, Empty
  <2>3. \A set \in {refused, collected, disk, dumps, dump, overwritten} : set \subseteq Messages
    BY <1>1
  <2>4. QED BY <1>1, <2>1, <2>2, <2>3 DEF TypeOK
<1>3. ToSet(messages) = {} /\ ToSet(queue) = {} /\ ToSet(batch) = {} /\ ToSet(reported) = {}
  BY <1>1, Empty
<1>4. OrderInv
  BY <1>1, <1>3, Empty DEF OrderInv, Before
<1>5. PlaceInv
  BY <1>1, <1>3 DEF PlaceInv, Everywhere
<1>6. MemoryIsAccounted
  BY <1>1, Empty DEF MemoryIsAccounted
<1>7. ThreadInv
  BY <1>1, Empty, SizesAssumption DEF ThreadInv
<1>8. QED BY <1>2, <1>4, <1>5, <1>6, <1>7 DEF IInv

\* Every step of the test thread or the worker keeps the invariant.
LEMMA StepIInv == IInv /\ [Next]_vars => IInv'
<1> SUFFICES ASSUME IInv, [Next]_vars PROVE IInv'
  OBVIOUS
<1>1. ASSUME NEW burst \in BOOLEAN, NEW late \in BOOLEAN, AddMessage(burst, late)
      PROVE  IInv'
  BY <1>1, AddStep
<1>2. CASE FlushDirectly
  BY <1>2, FlushStep
<1>3. CASE Enqueue
  BY <1>3, EnqueueStep
<1>4. CASE Flushed \/ Shutdown \/ StopWorker \/ Join \/ GiveUpDraining \/ GiveUpJoining
  BY <1>4, TestSteps
<1>5. CASE GoOn \/ NothingThere \/ Account \/ WorkerEnds
  BY <1>5, WorkerSteps
<1>6. CASE Take
  BY <1>6, TakeStep
<1>7. CASE SendBatch
  BY <1>7, SendBatchStep
<1>8. CASE Tick
  BY <1>8, TickStep
<1>9. CASE UNCHANGED vars
  <2>1. UNCHANGED <<count, messages, queueMode, overflow, queue, memory, disk, test, gaveUp, worker,
                    batch, stop, reported, refused, collected, dumps, dump, overwritten>>
    BY <1>9 DEF vars, accumulatorVars, queueVars, workerVars, sendVars
  <2>2. MemoryIsAccounted' /\ ThreadInv'
    BY <2>1 DEF IInv, MemoryIsAccounted, ThreadInv
  <2>3. QED BY <2>1, <2>2, StillStep DEF IInv, TypeOK
<1>10. QED BY <1>1, <1>2, <1>3, <1>4, <1>5, <1>6, <1>7, <1>8, <1>9 DEF Next, TestStep, WorkerStep

\* The invariant holds in every reachable state.
LEMMA Inductive == Spec => []IInv
BY InitIInv, StepIInv, PTL DEF Spec

-----------------------------------------------------------------------------
(* Theorems.                                                                *)

\* The types, with the limits of the buffer, the queue and its memory.
THEOREM TypeCorrect == Spec => []TypeOK
<1>1. IInv => TypeOK
  BY DEF IInv
<1>2. QED BY <1>1, Inductive, PTL

\* The reporter gets the messages in the order in which they were buffered, from
\* two threads and through a queue (_handle_batch_flush, _drain_loop).
THEOREM ReportedInOrder == Spec => []InOrder
<1>1. IInv => InOrder
  BY DEF IInv, OrderInv, Increasing, InOrder
<1>2. QED BY <1>1, Inductive, PTL

\* No handover between the threads loses a message or duplicates it (enqueue,
\* dequeue_batch, _process_drained_batch).
THEOREM NothingIsLost == Spec => []EachInOnePlace
<1>1. IInv => EachInOnePlace
  <2> SUFFICES ASSUME IInv, NEW m \in 1 .. count
               PROVE  \E i \in DOMAIN Places :
                          /\ m \in Places[i]
                          /\ \A j \in DOMAIN Places \ {i} : m \notin Places[j]
    BY DEF EachInOnePlace
  <2>1. PICK i \in 1 .. 9 : At(m, i)
    BY DEF IInv, PlaceInv
  <2>2. DOMAIN Places = 1 .. 9
    BY DEF Places
  <2>3. /\ Places[1] = ToSet(messages) /\ Places[2] = ToSet(queue) /\ Places[3] = ToSet(batch)
        /\ Places[4] = ToSet(reported) /\ Places[5] = refused /\ Places[6] = disk
        /\ Places[7] = dumps /\ Places[8] = dump /\ Places[9] = overwritten
    BY DEF Places
  <2>4. ASSUME NEW j \in 1 .. 9
        PROVE  m \in Places[j] <=> j = i
    <3>1. j \in {1, 2, 3, 4, 5, 6, 7, 8, 9}
      OBVIOUS
    <3>2. QED BY <2>1, <2>3, <3>1 DEF At
  <2>5. QED BY <2>2, <2>4
<1>2. QED BY <1>1, Inductive, PTL

\* The memory estimate of the overflow queue does not drift (enqueue, dequeue).
THEOREM MemoryIsRight == Spec => []MemoryIsAccounted
<1>1. IInv => MemoryIsAccounted
  BY DEF IInv
<1>2. QED BY <1>1, Inductive, PTL

\* A shutdown that did not run out of time leaves nothing to be sent (shutdown).
THEOREM ShutdownIsComplete == Spec => []ShutdownProcessesAll
<1>1. IInv => ShutdownProcessesAll
  BY DEF IInv, ThreadInv, ShutdownProcessesAll
<1>2. QED BY <1>1, Inductive, PTL
=============================================================================
