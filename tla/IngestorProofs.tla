--------------------------- MODULE IngestorProofs ---------------------------
(***************************************************************************)
(* What an ACK and the loop's exit guarantee, for any batches, channels of *)
(* any capacity and any number of batches sent again.                      *)
(***************************************************************************)
EXTENDS Ingestor, SequenceTheorems, WellFoundedInduction, TLAPS

TypeOK ==
  /\ sent \in [Batches -> {"new", "waiting", "acked"}]
  /\ serving \in BOOLEAN /\ closed \in BOOLEAN
  /\ recv \in Seq(Batches) /\ events \in Seq(Batches)
  /\ out \in Seq(Batches) /\ processed \in Seq(Batches)
  /\ pump \in {"take", "push", "ack", "done"}
  /\ loop \in {"read", "check", "process", "exit"}

(* What the pump holds, and what it has pushed of it.                      *)
Queued == Range(events) \cup Range(out) \cup Range(processed)

PumpSound ==
  /\ pump \in {"push", "ack"} => \E b \in Batches : hand = <<b>>
  /\ pump \in {"take", "done"} => hand = <<>>
  /\ pump = "ack" /\ Head(hand) \notin Unusable => Head(hand) \in Queued
  /\ pump = "done" => ~ serving /\ recv = <<>>
  /\ closed => pump = "done"

(* The loop leaves only when it has collected nothing and saw the flag.    *)
LoopSound ==
  /\ loop \in {"check", "exit"} => out = <<>>
  /\ loop = "exit" => closed

IngestorInv == TypeOK /\ PumpSound /\ LoopSound /\ AckedIsQueued

LEMMA RangeOfConcat ==
  ASSUME NEW S, NEW s \in Seq(S), NEW t \in Seq(S)
  PROVE  Range(s \o t) = Range(s) \cup Range(t)
<1>1. \A i \in DOMAIN (s \o t) : (s \o t)[i] \in Range(s) \cup Range(t)
  BY DEF Range
<1>2. \A i \in DOMAIN s : i \in DOMAIN (s \o t) /\ (s \o t)[i] = s[i]
  OBVIOUS
<1>3. \A i \in DOMAIN t : i + Len(s) \in DOMAIN (s \o t) /\ (s \o t)[i + Len(s)] = t[i]
  OBVIOUS
<1> QED BY <1>1, <1>2, <1>3 DEF Range

LEMMA RangeOfSingle ==
  ASSUME NEW b
  PROVE  Range(<<b>>) = {b}
  BY DEF Range

LEMMA RangeOfCons ==
  ASSUME NEW S, NEW s \in Seq(S), s # <<>>
  PROVE  /\ Head(s) \in S /\ Tail(s) \in Seq(S)
         /\ Range(s) = {Head(s)} \cup Range(Tail(s))
<1>1. Head(s) \in S /\ <<Head(s)>> \in Seq(S) /\ Tail(s) \in Seq(S)
  OBVIOUS
<1>2. s = <<Head(s)>> \o Tail(s)
  OBVIOUS
<1>3. Range(<<Head(s)>> \o Tail(s)) = Range(<<Head(s)>>) \cup Range(Tail(s))
  BY <1>1, RangeOfConcat
<1>4. Range(<<Head(s)>>) = {Head(s)}
  BY RangeOfSingle
<1> QED BY <1>1, <1>2, <1>3, <1>4

LEMMA InitInv == Init => IngestorInv
<1> SUFFICES ASSUME Init PROVE IngestorInv
  OBVIOUS
<1> USE DEF Init
<1>1. TypeOK
  <2>1. sent \in [Batches -> {"new", "waiting", "acked"}]
    OBVIOUS
  <2>2. <<>> \in Seq(Batches)
    OBVIOUS
  <2> QED BY <2>1, <2>2 DEF TypeOK
<1>2. PumpSound /\ LoopSound /\ AckedIsQueued
  BY DEF PumpSound, LoopSound, AckedIsQueued
<1> QED BY <1>1, <1>2 DEF IngestorInv

(* A step after which the queues hold together what they held, and of      *)
(* which no shipper hears, loses no acknowledged batch.                    *)
LEMMA QuietStep ==
  ASSUME IngestorInv, sent' = sent, Queued \ Unusable \subseteq Queued'
  PROVE  AckedIsQueued'
  BY DEF IngestorInv, AckedIsQueued, Queued

LEMMA SendInv ==
  ASSUME IngestorInv, NEW b \in Batches, Send(b) \/ Resend(b)
  PROVE  IngestorInv'
<1> USE DEF IngestorInv, loopVars, shipperVars
<1>1. Arrives(b) /\ (\A a \in Batches : sent'[a] = "acked" => sent[a] = "acked")
  BY DEF Send, Resend, TypeOK
<1>2. TypeOK'
  <2>1. sent' \in [Batches -> {"new", "waiting", "acked"}]
    BY DEF Send, Resend, TypeOK
  <2>2. recv' \in Seq(Batches)
    BY <1>1 DEF Arrives, TypeOK
  <2> QED BY <1>1, <2>1, <2>2 DEF Arrives, TypeOK
<1>3. PumpSound'
  BY <1>1 DEF Arrives, PumpSound, Queued
<1>4. LoopSound' /\ AckedIsQueued'
  BY <1>1 DEF Arrives, LoopSound, AckedIsQueued
<1> QED BY <1>2, <1>3, <1>4

LEMMA CloseInv ==
  ASSUME IngestorInv, Close
  PROVE  IngestorInv'
  BY DEF Close, IngestorInv, TypeOK, PumpSound, LoopSound, AckedIsQueued, Queued,
         loopVars, shipperVars

LEMMA TakeInv ==
  ASSUME IngestorInv, Take
  PROVE  IngestorInv'
<1> USE DEF Take, IngestorInv, loopVars, shipperVars
<1>1. Head(recv) \in Batches /\ Tail(recv) \in Seq(Batches)
  BY RangeOfCons DEF TypeOK
<1>2. TypeOK'
  BY <1>1 DEF TypeOK
<1>3. PumpSound'
  BY <1>1 DEF PumpSound
<1>4. LoopSound' /\ AckedIsQueued'
  BY DEF LoopSound, AckedIsQueued
<1> QED BY <1>2, <1>3, <1>4

LEMMA PushInv ==
  ASSUME IngestorInv, Push
  PROVE  IngestorInv'
<1> USE DEF Push, PushBlocks, IngestorInv, loopVars, shipperVars
<1>1. PICK b \in Batches : hand = <<b>>
  BY DEF PumpSound
<1>2. hand \in Seq(Batches) /\ events \in Seq(Batches) /\ Head(hand) = b
  BY <1>1 DEF TypeOK
<1>3. TypeOK'
  BY <1>2 DEF TypeOK
<1>4. Range(events') = Range(events) \cup {b}
  <2>1. Range(events \o hand) = Range(events) \cup Range(hand)
    BY <1>2, RangeOfConcat
  <2>2. Range(hand) = {b}
    BY <1>1, RangeOfSingle
  <2> QED BY <2>1, <2>2
<1>5. Queued' = Queued \cup {b}
  BY <1>4 DEF Queued
<1>6. PumpSound'
  BY <1>1, <1>2, <1>5 DEF PumpSound
<1>7. AckedIsQueued'
  BY <1>5, QuietStep
<1> QED BY <1>3, <1>6, <1>7 DEF LoopSound

LEMMA AckInv ==
  ASSUME IngestorInv, Ack
  PROVE  IngestorInv'
<1> USE DEF Ack, IngestorInv, loopVars, shipperVars
<1>1. \A a \in Batches : sent'[a] = "acked" => sent[a] = "acked" \/ a = Head(hand)
  BY DEF TypeOK
<1>2. TypeOK'
  BY DEF TypeOK
<1>3. PumpSound' /\ LoopSound'
  BY DEF PumpSound, LoopSound
<1>4. AckedIsQueued'
  BY <1>1 DEF AckedIsQueued, PumpSound, Queued
<1> QED BY <1>2, <1>3, <1>4

LEMMA EndInv ==
  ASSUME IngestorInv, End
  PROVE  IngestorInv'
  BY DEF End, Drained, IngestorInv, TypeOK, PumpSound, LoopSound, AckedIsQueued, Queued,
         loopVars, shipperVars

LEMMA ReadNextInv ==
  ASSUME IngestorInv, ReadNext
  PROVE  IngestorInv'
<1> USE DEF ReadNext, IngestorInv, loopVars, shipperVars
<1> DEFINE got == Parsed(Head(events))
<1>1. Head(events) \in Batches /\ Tail(events) \in Seq(Batches)
        /\ Range(events) = {Head(events)} \cup Range(Tail(events))
  BY RangeOfCons DEF TypeOK
<1>2. got \in Seq(Batches)
  BY <1>1 DEF Parsed
<1>3. Range(got) = {Head(events)} \ Unusable
  <2>1. Range(<<>>) = {}
    BY DEF Range
  <2> QED BY <2>1, RangeOfSingle DEF Parsed
<1>4. TypeOK' /\ Range(out') = Range(out) \cup Range(got)
  <2>1. out \in Seq(Batches) /\ out' = out \o got
    BY DEF TypeOK
  <2>2. Range(out \o got) = Range(out) \cup Range(got)
    BY <1>2, <2>1, RangeOfConcat
  <2>3. out \o got \in Seq(Batches)
    BY <1>2, <2>1
  <2> HIDE DEF got
  <2> QED BY <1>1, <2>1, <2>2, <2>3 DEF TypeOK
<1>5. Queued \ Unusable \subseteq Queued'
  BY <1>1, <1>3, <1>4 DEF Queued
<1>6. AckedIsQueued'
  BY <1>5, QuietStep
<1>7. PumpSound' /\ LoopSound'
  BY <1>5 DEF PumpSound, LoopSound
<1> QED BY <1>4, <1>6, <1>7

LEMMA ReadEndInv ==
  ASSUME IngestorInv, ReadEnd \/ Check
  PROVE  IngestorInv'
  BY DEF ReadEnd, Check, IngestorInv, TypeOK, PumpSound, LoopSound, AckedIsQueued, Queued,
         loopVars, shipperVars

LEMMA ProcessInv ==
  ASSUME IngestorInv, Process
  PROVE  IngestorInv'
<1> USE DEF Process, IngestorInv, loopVars, shipperVars
<1>1. TypeOK' /\ Range(processed') = Range(processed) \cup Range(out)
  <2>1. Range(processed \o out) = Range(processed) \cup Range(out)
    BY RangeOfConcat DEF TypeOK
  <2> QED BY <2>1 DEF TypeOK
<1>2. Queued' = Queued
  <2>1. Range(out') = {}
    BY DEF Range
  <2> QED BY <1>1, <2>1 DEF Queued
<1>3. AckedIsQueued'
  BY <1>2, QuietStep
<1>4. PumpSound' /\ LoopSound'
  BY <1>2 DEF PumpSound, LoopSound
<1> QED BY <1>1, <1>3, <1>4

(* The strengthening of AckedIsQueued and ExitAfterDrain that every step    *)
(* keeps: what the pump and the loop hold and know at each of their steps. *)
THEOREM InvHolds == Spec => []IngestorInv
<1>1. IngestorInv /\ [Next]_vars => IngestorInv'
  <2> SUFFICES ASSUME IngestorInv, [Next]_vars PROVE IngestorInv'
    OBVIOUS
  <2>1. ASSUME NEW b \in Batches, Send(b) \/ Resend(b) PROVE IngestorInv'
    BY <2>1, SendInv
  <2>2. CASE Close
    BY <2>2, CloseInv
  <2>3. CASE Pump
    BY <2>3, TakeInv, PushInv, AckInv, EndInv DEF Pump
  <2>4. CASE Loop
    BY <2>4, ReadNextInv, ReadEndInv, ProcessInv DEF Loop
  <2>5. CASE UNCHANGED vars
    BY <2>5 DEF vars, IngestorInv, TypeOK, PumpSound, LoopSound, AckedIsQueued, Queued
  <2> QED BY <2>1, <2>2, <2>3, <2>4, <2>5 DEF Next
<1> QED BY InitInv, <1>1, PTL DEF Spec

(* An acknowledged batch that holds anything usable is never with the      *)
(* server or the pump alone: the ACK of the pump comes after the push into *)
(* the events channel (ingestor.go, the goroutine of Accept).              *)
THEOREM AckedIsQueuedHolds == Spec => []AckedIsQueued
  BY InvHolds, PTL DEF IngestorInv

(* The loop exits only after the pump has drained the server, whenever the *)
(* ingestor is closed: the flag is set after the last batch was pushed.    *)
THEOREM ExitAfterDrainHolds == Spec => []ExitAfterDrain
<1>1. IngestorInv => ExitAfterDrain
  BY DEF IngestorInv, PumpSound, LoopSound, ExitAfterDrain
<1> QED BY InvHolds, <1>1, PTL

----------------------------------------------------------------------------
(* First in, first out.                                                    *)

(* Induction over the numbers, for a property given as a set.              *)
LEMMA Induction ==
  ASSUME NEW T, 0 \in T, \A n \in Nat : n \in T => n + 1 \in T
  PROVE  \A n \in Nat : n \in T
<1> DEFINE R == OpToRel(<, Nat)
           Bad == Nat \ T
<1>1. IsWellFoundedOn(R, Nat) /\ R = {ss \in Nat \X Nat : ss[1] < ss[2]}
  BY NatLessThanWellFounded DEF OpToRel
<1> HIDE DEF R
<1>2. SUFFICES ASSUME Bad # {} PROVE FALSE
  OBVIOUS
<1>3. PICK n \in Bad : \A m \in Bad : <<m, n>> \notin R
  BY <1>1, <1>2, WFMin
<1>4. n \in Nat /\ n # 0
  OBVIOUS
<1>5. n - 1 \in Nat /\ <<n - 1, n>> \in R /\ n = (n - 1) + 1
  BY <1>1, <1>4
<1>6. n - 1 \in T
  BY <1>3, <1>5
<1> QED BY <1>3, <1>5, <1>6

LEMMA ParsedFacts ==
  ASSUME NEW b \in Batches
  PROVE  Parsed(b) \in Seq(Batches)
BY DEF Parsed

(* f[k] is what is usable of the first k batches of s.                     *)
Collecting(f, s, n) ==
  f = [k \in 0..n |-> IF k = 0 THEN <<>> ELSE f[k - 1] \o Parsed(s[k])]

LEMMA CollectingExists ==
  ASSUME NEW s \in Seq(Batches)
  PROVE  \E f \in [0..Len(s) -> Seq(Batches)] : Collecting(f, s, Len(s))
<1> DEFINE V == Seq(Batches)
           T == {n \in Nat : n <= Len(s) => \E f \in [0..n -> V] : Collecting(f, s, n)}
<1>1. 0 \in T
  <2>1. Collecting([k \in 0..0 |-> <<>>], s, 0)
    BY DEF Collecting
  <2>2. [k \in 0..0 |-> <<>>] \in [0..0 -> V]
    OBVIOUS
  <2> QED BY <2>1, <2>2
<1>2. ASSUME NEW n \in Nat, n \in T PROVE n + 1 \in T
  <2> SUFFICES ASSUME n + 1 <= Len(s)
               PROVE  \E f \in [0..(n + 1) -> V] : Collecting(f, s, n + 1)
    OBVIOUS
  <2>1. PICK f \in [0..n -> V] : Collecting(f, s, n)
    BY <1>2
  <2> DEFINE v == f[n] \o Parsed(s[n + 1])
             g == [i \in 0..(n + 1) |-> IF i = n + 1 THEN v ELSE f[i]]
  <2>2. \A i \in 0..n : f[i] \in V /\ f[i] = IF i = 0 THEN <<>> ELSE f[i - 1] \o Parsed(s[i])
    BY <2>1 DEF Collecting
  <2>3. v \in V
    <3>1. f[n] \in V
      BY <2>2
    <3>2. n + 1 \in 1..Len(s)
      OBVIOUS
    <3>3. Parsed(s[n + 1]) \in V
      BY <3>2, ParsedFacts
    <3> QED BY <3>1, <3>3
  <2>4. \A i \in 0..(n + 1) : g[i] = IF i = n + 1 THEN v ELSE f[i]
    OBVIOUS
  <2> HIDE DEF v, V
  <2>5. g \in [0..(n + 1) -> V]
    BY <2>2, <2>3
  <2>6. g = [i \in 0..(n + 1) |-> g[i]]
    OBVIOUS
  <2> HIDE DEF g
  <2>7. ASSUME NEW i \in 0..(n + 1)
        PROVE  g[i] = IF i = 0 THEN <<>> ELSE g[i - 1] \o Parsed(s[i])
    <3>1. CASE i = n + 1
      <4>1. i - 1 = n /\ n \in 0..(n + 1) /\ n # n + 1 /\ i # 0
        BY <3>1
      <4>2. g[n] = f[n] /\ g[i] = f[n] \o Parsed(s[i])
        BY <2>4, <3>1, <4>1 DEF v
      <4> QED BY <4>1, <4>2
    <3>2. CASE i # n + 1
      <4>1. i \in 0..n /\ g[i] = f[i]
        BY <2>4, <3>2
      <4>2. ASSUME i # 0 PROVE g[i - 1] = f[i - 1]
        BY <2>4, <4>1, <4>2
      <4> QED BY <2>2, <4>1, <4>2
    <3> QED BY <3>1, <3>2
  <2>8. Collecting(g, s, n + 1)
    BY <2>6, <2>7 DEF Collecting
  <2> QED BY <2>5, <2>8
<1> HIDE DEF T
<1>3. Len(s) \in T
  BY <1>1, <1>2, Induction
<1> QED BY <1>3 DEF T

UsableOf(f, s) ==
  /\ f \in [0..Len(s) -> Seq(Batches)] /\ f[0] = <<>>
  /\ \A k \in Nat : k + 1 <= Len(s) => f[k + 1] = f[k] \o Parsed(s[k + 1])

LEMMA UsableFacts ==
  ASSUME NEW s \in Seq(Batches)
  PROVE  Usable(s) \in Seq(Batches) /\ \E f : UsableOf(f, s) /\ Usable(s) = f[Len(s)]
<1> DEFINE n == Len(s)
           c == CHOOSE f : Collecting(f, s, n)
<1>1. Usable(s) = c[n]
  BY DEF Usable, Collecting
<1>2. Collecting(c, s, n)
  BY CollectingExists
<1>3. n \in Nat
  OBVIOUS
<1> HIDE DEF c, n
<1>4. \A k \in 0..n : c[k] = IF k = 0 THEN <<>> ELSE c[k - 1] \o Parsed(s[k])
  BY <1>2 DEF Collecting
<1>5. DOMAIN c = 0..n /\ c = [k \in 0..n |-> c[k]]
  BY <1>2 DEF Collecting
<1>6. c[0] = <<>>
  BY <1>3, <1>4
<1>7. ASSUME NEW k \in Nat, k + 1 <= n PROVE c[k + 1] = c[k] \o Parsed(s[k + 1])
  <2>1. k + 1 \in 0..n /\ k + 1 # 0 /\ (k + 1) - 1 = k
    BY <1>3, <1>7
  <2> QED BY <1>4, <2>1
<1> DEFINE T == {k \in Nat : k <= n => c[k] \in Seq(Batches)}
<1>8. 0 \in T
  <2>1. <<>> \in Seq(Batches)
    OBVIOUS
  <2> QED BY <1>6, <2>1, Zenon
<1>9. ASSUME NEW k \in Nat, k \in T PROVE k + 1 \in T
  <2> SUFFICES ASSUME k + 1 <= n PROVE c[k + 1] \in Seq(Batches)
    OBVIOUS
  <2>1. k + 1 \in 1..Len(s) /\ c[k] \in Seq(Batches)
    BY <1>3, <1>9 DEF n
  <2>2. Parsed(s[k + 1]) \in Seq(Batches)
    BY <2>1, ParsedFacts
  <2>3. c[k] \o Parsed(s[k + 1]) \in Seq(Batches)
    BY <2>1, <2>2
  <2> QED BY <1>7, <2>3, Zenon
<1> HIDE DEF T
<1>10. \A k \in Nat : k \in T
  BY <1>8, <1>9, Induction
<1>11. \A k \in 0..n : c[k] \in Seq(Batches)
  BY <1>3, <1>10 DEF T
<1>12. c \in [0..n -> Seq(Batches)]
  BY <1>5, <1>11
<1>13. UsableOf(c, s)
  BY <1>6, <1>7, <1>12 DEF UsableOf, n
<1> QED BY <1>1, <1>3, <1>11, <1>13 DEF n

LEMMA UsableEmpty == Usable(<<>>) = <<>>
<1>1. <<>> \in Seq(Batches) /\ Len(<<>>) = 0
  OBVIOUS
<1>2. PICK f : UsableOf(f, <<>>) /\ Usable(<<>>) = f[Len(<<>>)]
  BY <1>1, UsableFacts
<1> QED BY <1>1, <1>2 DEF UsableOf

(* A batch behind.                                                         *)
LEMMA UsableAppend ==
  ASSUME NEW s \in Seq(Batches), NEW b \in Batches
  PROVE  Usable(Append(s, b)) = Usable(s) \o Parsed(b)
<1> DEFINE t == Append(s, b)
           n == Len(s)
<1>1. t \in Seq(Batches) /\ Len(t) = n + 1 /\ n \in Nat /\ t[n + 1] = b
  OBVIOUS
<1>2. \A i \in 1..n : t[i] = s[i]
  OBVIOUS
<1>3. PICK f : UsableOf(f, s) /\ Usable(s) = f[n]
  BY UsableFacts
<1> HIDE DEF t
<1>4. PICK g : UsableOf(g, t) /\ Usable(t) = g[Len(t)]
  BY <1>1, UsableFacts
<1>5. \A k \in Nat : k + 1 <= n + 1 => g[k + 1] = g[k] \o Parsed(t[k + 1])
  BY <1>1, <1>4 DEF UsableOf
<1> DEFINE T == {k \in Nat : k <= n => g[k] = f[k]}
<1>6. 0 \in T
  BY <1>3, <1>4 DEF UsableOf
<1>7. ASSUME NEW k \in Nat, k \in T PROVE k + 1 \in T
  <2> SUFFICES ASSUME k + 1 <= n PROVE g[k + 1] = f[k + 1]
    OBVIOUS
  <2>1. k + 1 \in 1..n /\ g[k] = f[k] /\ k + 1 <= n + 1
    BY <1>1, <1>7
  <2>2. f[k + 1] = f[k] \o Parsed(s[k + 1])
    BY <1>3 DEF UsableOf
  <2> QED BY <1>2, <1>5, <2>1, <2>2
<1> HIDE DEF T
<1>8. n \in T
  BY <1>1, <1>6, <1>7, Induction
<1>9. g[n] = f[n]
  BY <1>8 DEF T
<1>10. g[n + 1] = g[n] \o Parsed(b)
  <2>1. n + 1 <= n + 1
    BY <1>1
  <2> HIDE DEF n
  <2> QED BY <1>1, <1>5, <2>1
<1> QED BY <1>1, <1>3, <1>4, <1>9, <1>10 DEF t

(* Concatenation is associative, for this module's sequences.              *)
LEMMA Associative ==
  \A a, b, c \in Seq(Batches) : (a \o b) \o c = a \o (b \o c)
BY ConcatAssociative

(* A batch in front.                                                       *)
LEMMA UsableCons ==
  ASSUME NEW b \in Batches, NEW s \in Seq(Batches)
  PROVE  Usable(<<b>> \o s) = Parsed(b) \o Usable(s)
<1> DEFINE t == <<b>> \o s
           n == Len(s)
<1>1. t \in Seq(Batches) /\ Len(t) = n + 1 /\ n \in Nat /\ t[1] = b
  OBVIOUS
<1>2. \A i \in 1..n : t[i + 1] = s[i]
  OBVIOUS
<1>3. PICK f : UsableOf(f, s) /\ Usable(s) = f[n]
  BY UsableFacts
<1> HIDE DEF t
<1>4. PICK g : UsableOf(g, t) /\ Usable(t) = g[Len(t)]
  BY <1>1, UsableFacts
<1>5. g[0] = <<>> /\ \A k \in Nat : k + 1 <= n + 1 => g[k + 1] = g[k] \o Parsed(t[k + 1])
  BY <1>1, <1>4 DEF UsableOf
<1>6. Parsed(b) \in Seq(Batches)
  BY ParsedFacts
<1>7. \A k \in 0..n : f[k] \in Seq(Batches)
  BY <1>3 DEF UsableOf
<1> DEFINE T == {k \in Nat : k <= n => g[k + 1] = Parsed(b) \o f[k]}
<1>8. 0 \in T
  <2>1. g[1] = <<>> \o Parsed(b)
    <3>1. 0 + 1 = 1 /\ 0 \in Nat /\ 0 + 1 <= n + 1
      BY <1>1
    <3> QED BY <1>1, <1>5, <3>1
  <2>2. f[0] = <<>>
    BY <1>3 DEF UsableOf
  <2>3. <<>> \o Parsed(b) = Parsed(b) /\ Parsed(b) \o <<>> = Parsed(b)
    BY <1>6
  <2>4. g[1] = Parsed(b) \o f[0]
    BY <2>1, <2>2, <2>3
  <2> QED BY <2>4
<1>9. ASSUME NEW k \in Nat, k \in T PROVE k + 1 \in T
  <2> SUFFICES ASSUME k + 1 <= n PROVE g[(k + 1) + 1] = Parsed(b) \o f[k + 1]
    OBVIOUS
  <2>1. k + 1 \in 1..n /\ k \in 0..n /\ (k + 1) + 1 <= n + 1 /\ g[k + 1] = Parsed(b) \o f[k]
    BY <1>1, <1>9
  <2>2. g[(k + 1) + 1] = g[k + 1] \o Parsed(s[k + 1])
    <3> DEFINE j == k + 1
    <3>1. j \in Nat /\ j + 1 <= n + 1 /\ j \in 1..n
      BY <1>1, <2>1
    <3>3. t[j + 1] = s[j]
      BY <1>2, <3>1
    <3> HIDE DEF n, j
    <3>2. g[j + 1] = g[j] \o Parsed(s[j])
      BY <1>5, <3>1, <3>3
    <3> QED BY <3>2 DEF j
  <2>3. f[k + 1] = f[k] \o Parsed(s[k + 1])
    BY <1>3 DEF UsableOf
  <2>4. f[k] \in Seq(Batches) /\ Parsed(s[k + 1]) \in Seq(Batches)
    BY <1>7, <2>1, ParsedFacts
  <2>5. (Parsed(b) \o f[k]) \o Parsed(s[k + 1]) = Parsed(b) \o (f[k] \o Parsed(s[k + 1]))
    BY <1>6, <2>4, Associative, ZenonT(60)
  <2> QED BY <2>1, <2>2, <2>3, <2>5
<1> HIDE DEF T
<1>10. n \in T
  BY <1>1, <1>8, <1>9, Induction
<1>11. g[n + 1] = Parsed(b) \o f[n]
  BY <1>1, <1>10 DEF T
<1> QED BY <1>1, <1>3, <1>4, <1>11 DEF t

Held == IF pump = "push" THEN hand ELSE <<>>

(* What arrived is a sequence of batches, and comes out in order.          *)
FifoInv ==
  /\ arrived \in Seq(Batches)
  /\ Usable(arrived) = processed \o out \o Usable(events \o Held \o recv)

LEMMA HeldFacts ==
  ASSUME IngestorInv
  PROVE  /\ Held \in Seq(Batches) /\ events \o Held \in Seq(Batches)
         /\ events \in Seq(Batches) /\ recv \in Seq(Batches)
         /\ out \in Seq(Batches) /\ processed \in Seq(Batches)
         /\ processed \o out \in Seq(Batches)
<1>1. Held \in Seq(Batches)
  <2>1. CASE pump = "push"
    <3>1. PICK b \in Batches : hand = <<b>>
      BY <2>1 DEF IngestorInv, PumpSound
    <3>2. <<b>> \in Seq(Batches)
      OBVIOUS
    <3> QED BY <2>1, <3>1, <3>2 DEF Held
  <2>2. CASE pump # "push"
    BY <2>2 DEF Held
  <2> QED BY <2>1, <2>2
<1> HIDE DEF Held
<1> QED BY <1>1 DEF IngestorInv, TypeOK

(* A step that leaves the batches between the channels and what came out.  *)
LEMMA SameFifo ==
  ASSUME FifoInv, arrived' = arrived,
         processed' \o out' = processed \o out,
         events' \o Held' \o recv' = events \o Held \o recv
  PROVE  FifoInv'
BY DEF FifoInv

LEMMA ArrivesFifo ==
  ASSUME IngestorInv, FifoInv, NEW b \in Batches, Arrives(b)
  PROVE  FifoInv'
<1> DEFINE x == events \o Held
           y == processed \o out
<1>1. /\ recv' = Append(recv, b) /\ arrived' = Append(arrived, b)
      /\ UNCHANGED <<events, processed, out>> /\ Held' = Held
  BY DEF Arrives, loopVars, Held
<1>2. x \in Seq(Batches) /\ y \in Seq(Batches) /\ recv \in Seq(Batches)
  BY HeldFacts
<1>3. arrived \in Seq(Batches) /\ Usable(arrived) = y \o Usable(x \o recv)
  BY DEF FifoInv
<1>4. x' = x /\ y' = y
  BY <1>1
<1> HIDE DEF x, y
<1>5. x \o recv \in Seq(Batches) /\ x \o Append(recv, b) = Append(x \o recv, b)
  BY <1>2
<1>6. Usable(x \o recv) \in Seq(Batches) /\ Parsed(b) \in Seq(Batches)
  BY <1>5, UsableFacts, ParsedFacts
<1>7. Usable(Append(x \o recv, b)) = Usable(x \o recv) \o Parsed(b)
  BY <1>5, UsableAppend
<1>8. Usable(Append(arrived, b)) = Usable(arrived) \o Parsed(b)
  BY <1>3, UsableAppend
<1>9. (y \o Usable(x \o recv)) \o Parsed(b) = y \o (Usable(x \o recv) \o Parsed(b))
  BY <1>2, <1>6, Associative, ZenonT(60)
<1>10. Usable(arrived') = y' \o Usable(x' \o recv')
  BY <1>1, <1>3, <1>4, <1>5, <1>7, <1>8, <1>9
<1>11. arrived' \in Seq(Batches)
  BY <1>1, <1>3
<1> QED BY <1>10, <1>11 DEF FifoInv, x, y

LEMMA PumpFifo ==
  ASSUME IngestorInv, IngestorInv', FifoInv, Pump
  PROVE  FifoInv'
<1>1. arrived' = arrived /\ processed' = processed /\ out' = out
  BY DEF Pump, Take, Push, Ack, End, loopVars
<1>2. events' \o Held' \o recv' = events \o Held \o recv
  <2>1. CASE Take
    <3>1. recv \in Seq(Batches) /\ recv # <<>> /\ Held = <<>> /\ Held' = <<Head(recv)>>
          /\ recv' = Tail(recv) /\ events' = events /\ events \in Seq(Batches)
      BY <2>1, HeldFacts DEF Take, Held
    <3>2. recv = <<Head(recv)>> \o Tail(recv) /\ Tail(recv) \in Seq(Batches)
          /\ <<Head(recv)>> \in Seq(Batches)
      BY <3>1
    <3>3. events \o <<>> = events
      BY <3>1
    <3>4. events \o <<Head(recv)>> \o Tail(recv) = events \o (<<Head(recv)>> \o Tail(recv))
      BY <3>1, <3>2, Associative, ZenonT(60)
    <3> QED BY <3>1, <3>2, <3>3, <3>4
  <2>2. CASE Push
    <3>1. hand \in Seq(Batches) /\ Held = hand /\ Held' = <<>> /\ recv' = recv
          /\ events' = events \o hand /\ events' \in Seq(Batches)
      BY <2>2, HeldFacts DEF Push, PushBlocks, Held, IngestorInv, TypeOK
    <3>2. events' \o <<>> = events'
      BY <3>1
    <3> QED BY <3>1, <3>2
  <2>3. CASE Ack \/ End
    BY <2>3 DEF Ack, End, Held
  <2> QED BY <2>1, <2>2, <2>3 DEF Pump
<1>3. processed' \o out' = processed \o out
  BY <1>1
<1> QED BY <1>1, <1>2, <1>3, SameFifo

LEMMA LoopFifo ==
  ASSUME IngestorInv, FifoInv, Loop
  PROVE  FifoInv'
<1>1. arrived' = arrived /\ recv' = recv /\ Held' = Held
  BY DEF Loop, ReadNext, ReadEnd, Check, Process, Held
<1>2. CASE ReadNext
  <2> DEFINE b == Head(events)
             y == processed \o out
             z == Held \o recv
  <2>1. /\ events # <<>> /\ out' = out \o Parsed(b) /\ events' = Tail(events)
        /\ processed' = processed
    BY <1>2 DEF ReadNext
  <2>2. /\ events \in Seq(Batches) /\ Held \in Seq(Batches) /\ recv \in Seq(Batches)
        /\ out \in Seq(Batches) /\ processed \in Seq(Batches)
    BY HeldFacts
  <2> HIDE DEF Held
  <2>3. /\ b \in Batches /\ Tail(events) \in Seq(Batches) /\ events = <<b>> \o Tail(events)
        /\ <<b>> \in Seq(Batches)
    BY <2>1, <2>2
  <2>4. y \in Seq(Batches) /\ z \in Seq(Batches) /\ Parsed(b) \in Seq(Batches)
    BY <2>2, <2>3, ParsedFacts
  <2>5. processed' \o out' = y \o Parsed(b)
    <3>1. processed \o (out \o Parsed(b)) = (processed \o out) \o Parsed(b)
      BY <2>2, <2>4, Associative, ZenonT(60)
    <3> HIDE DEF b
    <3> QED BY <2>1, <3>1
  <2>6. events \o Held \o recv = <<b>> \o (Tail(events) \o z)
    <3>1. events \o Held \o recv = events \o z
      BY <2>2, Associative, ZenonT(60)
    <3>2. (<<b>> \o Tail(events)) \o z = <<b>> \o (Tail(events) \o z)
      BY <2>3, <2>4, Associative, ZenonT(60)
    <3> HIDE DEF b, z
    <3> QED BY <2>3, <3>1, <3>2
  <2>7. events' \o Held' \o recv' = Tail(events) \o z
    <3> DEFINE t == Tail(events)
    <3>1. t \in Seq(Batches)
      BY <2>3
    <3> HIDE DEF t
    <3>2. t \o Held \o recv = t \o z
      BY <2>2, <3>1, Associative, ZenonT(60)
    <3> HIDE DEF z
    <3> QED BY <1>1, <2>1, <3>2 DEF t
  <2>8. Tail(events) \o z \in Seq(Batches)
    BY <2>3, <2>4
  <2>9. Usable(arrived) = y \o Usable(events \o Held \o recv) /\ arrived \in Seq(Batches)
    BY DEF FifoInv
  <2> HIDE DEF b, y, z
  <2>10. /\ Usable(<<b>> \o (Tail(events) \o z)) = Parsed(b) \o Usable(Tail(events) \o z)
         /\ Usable(Tail(events) \o z) \in Seq(Batches)
    BY <2>3, <2>8, UsableCons, UsableFacts
  <2>11. (y \o Parsed(b)) \o Usable(Tail(events) \o z)
           = y \o (Parsed(b) \o Usable(Tail(events) \o z))
    BY <2>4, <2>10, Associative, ZenonT(60)
  <2>12. Usable(arrived') = processed' \o out' \o Usable(events' \o Held' \o recv')
    BY <1>1, <2>5, <2>6, <2>7, <2>9, <2>10, <2>11
  <2> QED BY <1>1, <2>9, <2>12 DEF FifoInv
<1>3. CASE ReadEnd \/ Check
  BY <1>1, <1>3, SameFifo DEF ReadEnd, Check
<1>4. CASE Process
  <2>1. processed' = processed \o out /\ out' = <<>> /\ events' = events
    BY <1>4 DEF Process
  <2>2. processed \o out \in Seq(Batches)
    BY HeldFacts
  <2>3. (processed \o out) \o <<>> = processed \o out
    BY <2>2
  <2> QED BY <1>1, <2>1, <2>3, SameFifo
<1> QED BY <1>2, <1>3, <1>4 DEF Loop

(* From the server's channel on, usable batches are neither lost nor       *)
(* duplicated nor reordered: what arrived is what was processed, then what *)
(* is collected, then what waits in the two channels and with the pump.    *)
THEOREM FirstInFirstOutHolds == Spec => []FirstInFirstOut
<1>1. Init => FifoInv
  <2> SUFFICES ASSUME Init PROVE FifoInv
    OBVIOUS
  <2>1. /\ arrived = <<>> /\ processed = <<>> /\ out = <<>> /\ events = <<>> /\ Held = <<>>
        /\ recv = <<>>
    BY DEF Init, Held
  <2>2. <<>> \in Seq(Batches) /\ <<>> \o <<>> = <<>> /\ <<>> \o <<>> \o <<>> = <<>>
    OBVIOUS
  <2> QED BY <2>1, <2>2, UsableEmpty DEF FifoInv
<1>2. IngestorInv /\ IngestorInv' /\ FifoInv /\ [Next]_vars => FifoInv'
  <2> SUFFICES ASSUME IngestorInv, IngestorInv', FifoInv, [Next]_vars PROVE FifoInv'
    OBVIOUS
  <2>1. ASSUME NEW b \in Batches, Send(b) \/ Resend(b) PROVE FifoInv'
    BY <2>1, ArrivesFifo DEF Send, Resend
  <2>2. CASE Close
    BY <2>2, SameFifo DEF Close, Held, loopVars
  <2>3. CASE Pump
    BY <2>3, PumpFifo
  <2>4. CASE Loop
    BY <2>4, LoopFifo
  <2>5. CASE UNCHANGED vars
    BY <2>5, SameFifo DEF vars, Held
  <2> QED BY <2>1, <2>2, <2>3, <2>4, <2>5 DEF Next
<1>3. FifoInv => FirstInFirstOut
  BY DEF FifoInv, FirstInFirstOut, Held
<1> QED BY <1>1, <1>2, <1>3, InvHolds, PTL DEF Spec
=============================================================================
