---------------------------- MODULE BlockWorkProofs ----------------------------
(***************************************************************************)
(* Proofs about BlockWork: the chunk that the two looks of work() agree on *)
(* is lawful for every configuration, every length of the stream and every *)
(* interleaving with the block upstream.                                   *)
(*                                                                         *)
(* The invariant IInv says what holds at the three places where work() can *)
(* stand.  After the first look, what was counted is still there, because  *)
(* only work() consumes and only work() publishes (Looked).  After the     *)
(* second one the chunk fits (Handed).  Tags at or behind the position of  *)
(* the block are all still to be read (Stream), so that the nearest unread *)
(* tag is the nearest tag; and the samples left of a stride lead from the  *)
(* position to the start of the next chunk (Due).  With a second invariant *)
(* on it, TagInv, tags are forwarded once and in order: none that is left  *)
(* to be read is smaller than one already forwarded, unless it is repeated.*)
(***************************************************************************)
EXTENDS BlockWork, FiniteSetTheorems, WellFoundedInduction, TLAPS

-----------------------------------------------------------------------------
(* Smallest and largest of a few numbers *)

(* The smaller of two.                                                      *)
LEMMA MinOfTwo ==
    ASSUME NEW a \in Int, NEW b \in Int
    PROVE  Min({a, b}) = IF a <= b THEN a ELSE b
<1>1. PICK m \in {a, b} : m <= a /\ m <= b
  OBVIOUS
<1>2. \A x \in {a, b} : (\A y \in {a, b} : x <= y) => x = m
  BY <1>1
<1> QED
  BY <1>1, <1>2 DEF Min

(* The larger of two.                                                      *)
LEMMA MaxOfTwo ==
    ASSUME NEW a \in Int, NEW b \in Int
    PROVE  Max({a, b}) = IF a >= b THEN a ELSE b
<1>1. PICK m \in {a, b} : m >= a /\ m >= b
  OBVIOUS
<1>2. \A x \in {a, b} : (\A y \in {a, b} : x >= y) => x = m
  BY <1>1
<1> QED
  BY <1>1, <1>2 DEF Max

(* The smallest of three is one of them, and none is smaller.              *)
LEMMA MinOfThree ==
    \A a, b, c \in Int :
        \E m \in {a, b, c} : m = Min({a, b, c}) /\ m <= a /\ m <= b /\ m <= c
<1> TAKE a, b, c \in Int
<1>1. PICK m \in {a, b, c} : \A y \in {a, b, c} : m <= y
  OBVIOUS
<1> QED
  BY <1>1 DEF Min

(* The smallest of four, by the smallest of three                            *)
LEMMA MinOfFour ==
    \A a, b, c, d \in Int :
        \E m \in {a, b, c, d} : m = Min({a, b, c, d}) /\ m <= a /\ m <= b /\ m <= c /\ m <= d
<1> TAKE a, b, c, d \in Int
<1>1. PICK m \in {a, b, c, d} : \A y \in {a, b, c, d} : m <= y
  OBVIOUS
<1> QED
  BY <1>1 DEF Min

(* Any set of naturals has a smallest.                                      *)
LEMMA MinOfNaturals ==
    ASSUME NEW S \in SUBSET Nat, S # {}
    PROVE  Min(S) \in S /\ \A y \in S : Min(S) <= y
<1>1. IsWellFoundedOn({ss \in Nat \X Nat : ss[1] < ss[2]}, Nat)
  BY NatLessThanWellFounded DEF OpToRel
<1>2. PICK m \in S : \A y \in S : ~ (<<y, m>> \in {ss \in Nat \X Nat : ss[1] < ss[2]})
  BY WFMin, <1>1, Zenon
<1>3. ASSUME NEW y \in S PROVE m <= y
  <2>1. y \in Nat /\ m \in Nat
    OBVIOUS
  <2>2. ASSUME y < m PROVE <<y, m>> \in {ss \in Nat \X Nat : ss[1] < ss[2]}
    BY <2>1, <2>2
  <2> QED
    BY <1>2, <2>1, <2>2
<1> QED
  BY <1>3 DEF Min

-----------------------------------------------------------------------------
(* Whole chunks *)

(* As many whole parts as fit are not more than there is.                  *)
LEMMA PartsFit ==
    ASSUME NEW part \in Nat \ {0}, NEW whole \in Nat
    PROVE  /\ whole \div part \in Nat
           /\ part * (whole \div part) <= whole
           /\ whole >= part => whole \div part >= 1
           /\ whole < part => whole \div part = 0
<1>1. part * (whole \div part) <= whole
  BY SMTT(30)
<1>2. whole < part * (whole \div part) + part
  BY SMTT(30)
<1>3. whole \div part \in Nat
  OBVIOUS
<1>4. PICK q \in Nat : q = whole \div part
  BY <1>3
<1>5. (q = 0 => part * q = 0) /\ (q >= 1 => part * q >= part) /\ part * q \in Nat
  OBVIOUS
<1> QED
  BY <1>1, <1>2, <1>4, <1>5

(* Less is fewer parts.                                                    *)
LEMMA FewerParts ==
    ASSUME NEW part \in Nat \ {0}, NEW m \in Nat, NEW n \in Nat, m <= n
    PROVE  part * m \in Nat /\ part * m <= part * n /\ (m >= 1 => part * m >= part)
OBVIOUS

(* A number of parts has no rest.                                          *)
LEMMA NoRest ==
    ASSUME NEW part \in Nat \ {0}, NEW n \in Nat
    PROVE  (n * part) % part = 0
BY SMTT(60)

(* So many chunks are lawful when they fit and are enough.                 *)
LEMMA ChunksAreLawful ==
    ASSUME NEW a \in Nat \ {0}, NEW b \in Nat \ {0}, NEW n \in Nat \ {0}
    PROVE  /\ n * a \in Nat /\ n * b \in Nat /\ a <= n * a /\ b <= n * b
           /\ (n * a) % a = 0 /\ (n * a) * b = (n * b) * a
<1>1. n * a \in Nat /\ n * b \in Nat /\ a <= n * a /\ b <= n * b
  OBVIOUS
<1>2. (n * a) % a = 0
  BY NoRest
<1>3. (n * a) * b = (n * b) * a
  BY SMTT(30)
<1> QED
  BY <1>1, <1>2, <1>3

(* computeResampling(): whole chunks in the ratio of the block, not fewer  *)
(* than the ports require and not more than they allow; or none.           *)
LEMMA ResampledIsLawful ==
    ASSUME cfg \in Config
    PROVE  \A minIn, maxIn, minOut, maxOut \in Nat, requested \in Nat \ {0} :
             \A c : c = Resampled(minIn, maxIn, minOut, maxOut, requested) /\ c # NoChunk =>
                    /\ c \in [in : Nat, out : Nat]
                    /\ c.in % cfg.inChunk = 0 /\ c.in * cfg.outChunk = c.out * cfg.inChunk
                    /\ cfg.inChunk <= c.in /\ minIn <= c.in /\ c.in <= maxIn
                    /\ cfg.outChunk <= c.out /\ minOut <= c.out /\ c.out <= maxOut
<1> SUFFICES ASSUME NEW minIn \in Nat, NEW maxIn \in Nat, NEW minOut \in Nat, NEW maxOut \in Nat,
                    NEW requested \in Nat \ {0},
                    NEW c, c = Resampled(minIn, maxIn, minOut, maxOut, requested), c # NoChunk
             PROVE  /\ c \in [in : Nat, out : Nat]
                    /\ c.in % cfg.inChunk = 0 /\ c.in * cfg.outChunk = c.out * cfg.inChunk
                    /\ cfg.inChunk <= c.in /\ minIn <= c.in /\ c.in <= maxIn
                    /\ cfg.outChunk <= c.out /\ minOut <= c.out /\ c.out <= maxOut
  BY Zenon
<1>1. PICK a \in Nat \ {0}, b \in Nat \ {0} : a = cfg.inChunk /\ b = cfg.outChunk
  BY DEF Config
<1>2. CASE a = 1 /\ b = 1
  <2> DEFINE maxSync == Min({maxIn, maxOut})
             minSync == Max({minIn, minOut})
             n == Clamp(requested, minSync, maxSync)
  <2>1. /\ maxSync \in Nat /\ maxSync <= maxIn /\ maxSync <= maxOut
        /\ minSync \in Nat /\ minIn <= minSync /\ minOut <= minSync
    BY MinOfTwo, MaxOfTwo
  <2>2. c = IF maxSync < minSync THEN NoChunk ELSE [in |-> n, out |-> n]
    BY <1>1, <1>2 DEF Resampled
  <2>3. minSync <= maxSync /\ c = [in |-> n, out |-> n]
    BY <2>1, <2>2
  <2> HIDE DEF maxSync, minSync
  <2>4. n \in Nat /\ minSync <= n /\ n <= maxSync
    <3>1. PICK m \in Nat : m = Min({requested, maxSync}) /\ m <= maxSync
      BY <2>1, MinOfTwo
    <3>2. Max({minSync, m}) = IF minSync >= m THEN minSync ELSE m
      BY <2>1, <3>1, MaxOfTwo
    <3> QED
      BY <2>1, <2>3, <3>1, <3>2 DEF Clamp
  <2> HIDE DEF n
  <2>5. n # 0
    BY <2>3 DEF NoChunk
  <2>6. n \in Nat \ {0} /\ n * 1 = n /\ n % 1 = 0
    BY <2>4, <2>5, ChunksAreLawful
  <2> QED
    BY <1>1, <1>2, <2>1, <2>3, <2>4, <2>6
<1>3. CASE ~ (a = 1 /\ b = 1)
  <2> DEFINE fits == Min({maxIn \div a, maxOut \div b})
             most == IF StrideActive THEN Min({fits, 1}) ELSE fits
             fewer == Min({Clamp(requested, Max({minIn, a}), maxIn) \div a, maxOut \div b})
             Enough(n) == n * a >= minIn /\ n * b >= minOut
             Chunks(n) == [in |-> n * a, out |-> n * b]
  <2>1. c = CASE ~Enough(most) -> NoChunk
              [] Enough(most) /\ requested < most * a /\ Enough(fewer) -> Chunks(fewer)
              [] OTHER -> Chunks(most)
    BY <1>1, <1>3 DEF Resampled
  <2>2. /\ maxIn \div a \in Nat /\ maxOut \div b \in Nat
        /\ a * (maxIn \div a) <= maxIn /\ b * (maxOut \div b) <= maxOut
    BY PartsFit
  <2>3. fits \in Nat /\ fits <= maxIn \div a /\ fits <= maxOut \div b
    BY <2>2, MinOfTwo
  <2>4. most \in Nat /\ most <= maxIn \div a /\ most <= maxOut \div b
    BY <2>3, MinOfTwo
  <2>5. Enough(most)
    BY <2>1
  <2> HIDE DEF fits, most
  <2>6. most * a <= maxIn /\ most * b <= maxOut
    <3>1. PICK k \in Nat, l \in Nat : k = maxIn \div a /\ l = maxOut \div b
      BY <2>2
    <3>2. a * most <= a * k /\ b * most <= b * l /\ a * most = most * a /\ b * most = most * b
      BY <2>4, <3>1, FewerParts
    <3>3. a * k \in Nat /\ b * l \in Nat /\ most * a \in Nat /\ most * b \in Nat
      BY <2>4
    <3> QED
      BY <2>2, <3>1, <3>2, <3>3
  <2>7. requested < most * a =>
            fewer \in Nat /\ fewer * a <= maxIn /\ fewer * b <= maxOut
    <3> SUFFICES ASSUME requested < most * a
                 PROVE  fewer \in Nat /\ fewer * a <= maxIn /\ fewer * b <= maxOut
      OBVIOUS
    <3>1. most >= 1 /\ minIn <= maxIn /\ a <= maxIn
      <4>1. most # 0
        BY <2>4
      <4>2. a <= most * a /\ most * a \in Nat
        BY <2>4, <4>1, ChunksAreLawful
      <4> QED
        BY <2>4, <2>5, <2>6, <4>1, <4>2
    <3>2. PICK low \in Nat : low = Max({minIn, a}) /\ low <= maxIn
      BY <3>1, MaxOfTwo
    <3>3. PICK top \in Nat : top = Min({requested, maxIn}) /\ top <= maxIn
      BY MinOfTwo
    <3>4. PICK most1 \in Nat : most1 = Clamp(requested, Max({minIn, a}), maxIn) /\ most1 <= maxIn
      BY <3>2, <3>3, MaxOfTwo DEF Clamp
    <3>5. most1 \div a \in Nat /\ a * (most1 \div a) <= most1
      BY <3>4, PartsFit
    <3>6. fewer \in Nat /\ fewer <= most1 \div a /\ fewer <= maxOut \div b
      BY <2>2, <3>4, <3>5, MinOfTwo
    <3>7. PICK k \in Nat, l \in Nat : k = most1 \div a /\ l = maxOut \div b
      BY <2>2, <3>5
    <3> HIDE DEF fewer
    <3>8. a * fewer <= a * k /\ b * fewer <= b * l /\ a * fewer = fewer * a /\ b * fewer = fewer * b
      BY <3>6, <3>7, FewerParts
    <3>9. a * k \in Nat /\ b * l \in Nat /\ fewer * a \in Nat /\ fewer * b \in Nat
      BY <3>6
    <3> QED
      BY <2>2, <3>4, <3>5, <3>6, <3>7, <3>8, <3>9
  <2>8. PICK n \in Nat : /\ c = Chunks(n) /\ Enough(n)
                         /\ n * a <= maxIn /\ n * b <= maxOut
    <3>1. CASE requested < most * a /\ Enough(fewer)
      <4>1. c = Chunks(fewer)
        BY <2>1, <2>5, <3>1
      <4> HIDE DEF fewer, Chunks, Enough
      <4> QED
        BY <2>7, <3>1, <4>1
    <3>2. CASE ~ (requested < most * a /\ Enough(fewer))
      <4>1. c = Chunks(most)
        BY <2>1, <2>5, <3>2
      <4> HIDE DEF fewer, Chunks, Enough
      <4> QED
        BY <2>4, <2>5, <2>6, <4>1
    <3> QED
      BY <3>1, <3>2
  <2>9. n # 0
    BY <2>8 DEF NoChunk
  <2>10. /\ n * a \in Nat /\ n * b \in Nat /\ a <= n * a /\ b <= n * b
         /\ (n * a) % a = 0 /\ (n * a) * b = (n * b) * a
    BY <2>9, ChunksAreLawful
  <2>11. c.in = n * a /\ c.out = n * b /\ c \in [in : Nat, out : Nat]
    BY <2>8, <2>10
  <2> QED
    BY <1>1, <2>8, <2>10, <2>11
<1> QED
  BY <1>2, <1>3

-----------------------------------------------------------------------------
(* Where the next tag is *)

(* UntilTag() finds the nearest tag, or says that there is none ahead.     *)
LEMMA NearestTag ==
    ASSUME pos \in Nat, NEW S \in SUBSET Nat, NEW d \in Nat
    PROVE  \/ UntilTag(S, d) = Unlimited /\ \A t \in S : t < pos + d
           \/ /\ UntilTag(S, d) \in Nat /\ d <= UntilTag(S, d) /\ pos + UntilTag(S, d) \in S
              /\ \A t \in S : t >= pos + d => pos + UntilTag(S, d) <= t
<1> DEFINE ahead == {t \in S : t >= pos + d}
<1>1. CASE ahead = {}
  BY <1>1 DEF UntilTag
<1>2. CASE ahead # {}
  <2>1. Min(ahead) \in ahead /\ \A y \in ahead : Min(ahead) <= y
    BY <1>2, MinOfNaturals
  <2>2. UntilTag(S, d) = Min(ahead) - pos
    BY <1>2 DEF UntilTag
  <2>3. PICK m \in Nat : m = Min(ahead)
    BY <2>1
  <2> QED
    BY <2>1, <2>2, <2>3
<1> QED
  BY <1>1, <1>2

(* Types of what decides about chunks.                                     *)
Typed ==
    /\ cfg \in Configs
    /\ written \in Nat /\ written <= Length
    /\ pos \in Nat /\ pos <= written
    /\ tagged \in SUBSET Nat /\ tags \subseteq tagged
    /\ eosAt \in Nat /\ (eosAt <= Length \/ eosAt = Unlimited)
    /\ strideCounter \in Nat
    /\ pc \in {"idle", "limits", "process"}
    /\ avail \in Nat /\ room \in Nat /\ skipped \in Nat
    /\ chunk \in [in : Nat, out : Nat]
    /\ inFlight \in Nat /\ inFlight <= OutCapacity
    /\ gap \in [from : Int, to : Int]

(* The end of the stream is not behind what is written, and every tag from *)
(* the position of the block onwards is still there.                       *)
Stream ==
    /\ written <= eosAt
    /\ \A t \in tagged : t >= pos => t \in tags

(* What work() has seen is still there.                                    *)
Looked ==
    pc = "limits" => avail <= written - pos /\ room <= OutCapacity - inFlight

(* The rest of the stride leads to where the next chunk is due.            *)
Due ==
    gap.to >= 0 => StrideActive /\ gap.from <= pos /\ pos + strideCounter = gap.to

(* The chunk that is being processed.                                      *)
Handed ==
    pc = "process" => /\ chunk.in >= 1 /\ chunk.out >= 1
                      /\ InsideBuffers /\ WholeChunks /\ StartsAtTag /\ KeepsStride

(* The inductive invariant of the chunks that work() cuts                  *)
IInv == Typed /\ Stream /\ Looked /\ Due /\ Handed

(* Types of the distances to the tag and to the end.                       *)
LEMMA Distances ==
    ASSUME Typed, Stream
    PROVE  /\ cfg \in Config /\ Consistent(cfg) /\ Unlimited \in Nat /\ OutCapacity \in Nat /\ Length \in Nat
           /\ Unlimited > 2 * (Length + OutCapacity)
           /\ NextTag \in Nat /\ NextTag >= 1
           /\ NextEos \in Nat /\ NextEos <= Unlimited
           /\ NextEos = Unlimited \/ pos + NextEos = eosAt
           /\ NextEos = Unlimited => eosAt = Unlimited
           /\ cfg.policy # "forward" =>
                /\ \A t \in tagged : t > pos => pos + NextTag <= t
                /\ NextTag = Unlimited \/ pos + NextTag \in tagged \/ (pos + NextTag = eosAt /\ NextTag = NextEos)
           /\ cfg.policy = "forward" => NextTag = Unlimited
<1>1. /\ cfg \in Config /\ Consistent(cfg) /\ Unlimited \in Nat /\ OutCapacity \in Nat /\ Length \in Nat
      /\ Unlimited > 2 * (Length + OutCapacity)
  BY ConfigsAssumption DEF Typed
<1>2. pos \in Nat /\ eosAt \in Nat /\ tags \in SUBSET Nat /\ pos <= eosAt /\ written <= Length
      /\ EndTags \in SUBSET Nat
  BY DEF Typed, Stream, EndTags
<1>3. /\ NextEos \in Nat /\ NextEos <= Unlimited
      /\ NextEos = Unlimited \/ pos + NextEos = eosAt
      /\ NextEos = Unlimited => eosAt = Unlimited
  <2>1. \/ NextEos = Unlimited /\ \A t \in EndTags : t < pos + 0
        \/ NextEos \in Nat /\ pos + NextEos \in EndTags
    BY <1>2, NearestTag DEF NextEos
  <2>2. \A t \in EndTags : t = eosAt /\ eosAt # Unlimited
    BY DEF EndTags
  <2>3. eosAt # Unlimited => eosAt \in EndTags /\ eosAt <= Length
    BY DEF EndTags, Typed
  <2> QED
    BY <1>1, <1>2, <2>1, <2>2, <2>3
<1>4. CASE cfg.policy = "forward"
  BY <1>1, <1>3, <1>4 DEF NextTag
<1>5. CASE cfg.policy # "forward"
  <2>1. NextTag = UntilTag(tags \cup EndTags, 1)
    BY <1>5 DEF NextTag
  <2>2. \/ NextTag = Unlimited /\ \A t \in tags \cup EndTags : t < pos + 1
        \/ /\ NextTag \in Nat /\ 1 <= NextTag /\ pos + NextTag \in tags \cup EndTags
           /\ \A t \in tags \cup EndTags : t >= pos + 1 => pos + NextTag <= t
    BY <1>2, <2>1, NearestTag
  <2>3. \A t \in tagged : t > pos => t \in tags /\ t \in Nat
    BY <1>2 DEF Stream, Typed
  <2>4. \A t \in EndTags : t = eosAt /\ eosAt # Unlimited
    BY DEF EndTags
  <2>5. \A t \in tags : t \in tagged
    BY DEF Typed
  <2>6. \A t \in tagged : t > pos => pos + NextTag <= t
    BY <1>2, <2>2, <2>3
  <2>7. NextTag = Unlimited \/ pos + NextTag \in tagged \/ (pos + NextTag = eosAt /\ NextTag = NextEos)
    BY <1>1, <1>2, <1>3, <2>2, <2>4, <2>5
  <2>8. NextTag \in Nat /\ NextTag >= 1
    BY <1>1, <2>2
  <2> QED
    BY <1>1, <1>3, <1>5, <2>6, <2>7, <2>8
<1> QED
  BY <1>4, <1>5

-----------------------------------------------------------------------------
(* computeSampleLimits() *)

(* Skipping stays within the stride, the samples counted, and the next tag *)
(* and end.                                                                *)
LEMMA SkipIsShort ==
    ASSUME IInv, NEW requested, NEW skip, skip = Limits(requested).skip
    PROVE  /\ skip \in Nat /\ skip <= avail /\ skip <= strideCounter
           /\ skip <= NextTag /\ skip <= NextEos
           /\ StrideActive => skip \in {strideCounter, avail, NextTag, NextEos}
<1>1. PICK m : m = Min({avail, NextTag, NextEos})
  OBVIOUS
<1>2. avail \in Nat /\ NextTag \in Nat /\ NextEos \in Nat /\ strideCounter \in Nat
  BY Distances DEF IInv, Typed
<1>3. m \in {avail, NextTag, NextEos} /\ m <= avail /\ m <= NextTag /\ m <= NextEos
  BY <1>1, <1>2, MinOfThree
<1>4. skip = IF StrideActive THEN Min({strideCounter, m}) ELSE 0
  BY <1>1 DEF Limits, ToSkip
<1>5. m \in Nat
  BY <1>2, <1>3
<1>6. Min({strideCounter, m}) = IF strideCounter <= m THEN strideCounter ELSE m
  BY <1>2, <1>5, MinOfTwo
<1> QED
  BY <1>2, <1>3, <1>4, <1>5, <1>6

(* The chunk that work() prepares is lawful where it will begin.           *)
LEMMA LimitsAreLawful ==
    ASSUME IInv, pc = "limits", NEW requested \in {1, Unlimited},
           NEW limits, limits = Limits(requested), ~limits.eos, limits.chunk # NoChunk,
           NEW skip, skip = limits.skip, NEW c, c = limits.chunk, NEW start, start = pos + skip
    PROVE  /\ c \in [in : Nat, out : Nat] /\ c.in >= 1 /\ c.out >= 1
           /\ start + c.in <= written /\ start + c.in <= eosAt /\ c.out <= OutCapacity - inFlight
           /\ c.in % cfg.inChunk = 0 /\ c.in * cfg.outChunk = c.out * cfg.inChunk
           /\ c.in \in cfg.minIn .. cfg.maxIn /\ c.out \in cfg.minOut .. cfg.maxOut
           /\ \A t \in tagged : start < t /\ t < start + c.in =>
                \/ cfg.policy = "forward"
                \/ c.in = cfg.inChunk
                \/ \E u \in tagged : start < u /\ u < start + cfg.minIn
                \/ skip > 0 /\ start \in tagged
           /\ gap.to >= 0 => \/ start = gap.to
                             \/ /\ cfg.policy # "forward"
                                /\ \E t \in tagged : gap.from < t /\ t < gap.to
<1> DEFINE untilTag == Monus(NextTag, skip)
           untilEos == Monus(NextEos, skip)
           limit == Max({TagLimit(untilTag), cfg.inChunk})
           toProcess == Min({cfg.maxIn, Monus(avail, skip), limit, untilEos})
           least == Min({cfg.minIn, NextEos})
           free == Min({cfg.maxOut, room})
<1>1. /\ skip \in Nat /\ skip <= avail /\ skip <= strideCounter
      /\ skip <= NextTag /\ skip <= NextEos
      /\ StrideActive => skip \in {strideCounter, avail, NextTag, NextEos}
  BY SkipIsShort
<1>2. /\ Typed /\ Stream
      /\ avail \in Nat /\ room \in Nat /\ pos \in Nat /\ written \in Nat /\ written <= Length
      /\ inFlight \in Nat /\ avail <= written - pos /\ room <= OutCapacity - inFlight
      /\ eosAt \in Nat /\ tagged \in SUBSET Nat /\ strideCounter \in Nat
  BY DEF IInv, Typed, Looked
<1>3. /\ cfg \in Config /\ Unlimited \in Nat /\ OutCapacity \in Nat /\ Length \in Nat
      /\ Unlimited > 2 * (Length + OutCapacity)
      /\ NextTag \in Nat /\ NextTag >= 1
      /\ NextEos \in Nat /\ NextEos <= Unlimited
      /\ NextEos = Unlimited \/ pos + NextEos = eosAt
      /\ NextEos = Unlimited => eosAt = Unlimited
      /\ cfg.policy # "forward" =>
           /\ \A t \in tagged : t > pos => pos + NextTag <= t
           /\ NextTag = Unlimited \/ pos + NextTag \in tagged \/ (pos + NextTag = eosAt /\ NextTag = NextEos)
      /\ cfg.policy = "forward" => NextTag = Unlimited
  BY <1>2, Distances
<1>4. /\ cfg.inChunk \in Nat \ {0} /\ cfg.outChunk \in Nat \ {0}
      /\ cfg.minIn \in Nat /\ cfg.maxIn \in Nat /\ cfg.minOut \in Nat /\ cfg.maxOut \in Nat
  BY <1>3 DEF Config
<1>5. /\ untilTag \in Nat /\ untilTag = NextTag - skip
      /\ untilEos \in Nat /\ untilEos = NextEos - skip
      /\ Monus(avail, skip) \in Nat /\ Monus(avail, skip) = avail - skip
  BY <1>1, <1>2, <1>3 DEF Monus
<1>6. /\ limit \in Nat
      /\ limit = cfg.inChunk \/ limit = (IF untilTag >= cfg.minIn THEN untilTag ELSE Unlimited)
      /\ limit >= cfg.inChunk
  <2>1. TagLimit(untilTag) = IF untilTag >= cfg.minIn THEN untilTag ELSE Unlimited
    BY DEF TagLimit
  <2>2. TagLimit(untilTag) \in Nat
    BY <1>3, <1>5, <2>1
  <2> HIDE DEF untilTag
  <2> QED
    BY <1>4, <2>1, <2>2, MaxOfTwo
<1>7. /\ toProcess \in Nat /\ toProcess <= cfg.maxIn /\ toProcess <= avail - skip
      /\ toProcess <= limit /\ toProcess <= untilEos
  <2> HIDE DEF limit, untilEos
  <2>1. PICK a \in Int, b \in Int, d \in Int, e \in Int :
            a = cfg.maxIn /\ b = Monus(avail, skip) /\ d = limit /\ e = untilEos
    BY <1>4, <1>5, <1>6
  <2>2. PICK m : m = Min({a, b, d, e}) /\ m \in {a, b, d, e} /\ m <= a /\ m <= b /\ m <= d /\ m <= e
    BY MinOfFour
  <2>3. toProcess = m
    BY <2>1, <2>2
  <2> HIDE DEF toProcess
  <2> QED
    BY <1>4, <1>5, <1>6, <2>1, <2>2, <2>3
<1>8. /\ least \in Nat /\ (least = cfg.minIn \/ least = NextEos)
      /\ free \in Nat /\ free <= cfg.maxOut /\ free <= room
  BY <1>2, <1>3, <1>4, MinOfTwo
<1>9. c = Resampled(least, toProcess, cfg.minOut, free, requested) /\ c # NoChunk
  BY DEF Limits
<1>10. ~ (untilEos < cfg.minIn) /\ NextEos # 0
  BY DEF Limits, NoChunkUntil
<1> HIDE DEF untilTag, untilEos, limit, toProcess, least, free
<1>11. /\ c \in [in : Nat, out : Nat]
       /\ c.in % cfg.inChunk = 0 /\ c.in * cfg.outChunk = c.out * cfg.inChunk
       /\ cfg.inChunk <= c.in /\ least <= c.in /\ c.in <= toProcess
       /\ cfg.outChunk <= c.out /\ cfg.minOut <= c.out /\ c.out <= free
  <2>1. requested \in Nat \ {0}
    BY <1>3
  <2>2. PICK minOut \in Nat : minOut = cfg.minOut
    BY <1>4
  <2>3. /\ c \in [in : Nat, out : Nat]
        /\ c.in % cfg.inChunk = 0 /\ c.in * cfg.outChunk = c.out * cfg.inChunk
        /\ cfg.inChunk <= c.in /\ least <= c.in /\ c.in <= toProcess
        /\ cfg.outChunk <= c.out /\ minOut <= c.out /\ c.out <= free
    <3>1. cfg \in Config /\ least \in Nat /\ toProcess \in Nat /\ free \in Nat
      BY <1>3, <1>7, <1>8
    <3>2. c = Resampled(least, toProcess, minOut, free, requested) /\ c # NoChunk
      BY <1>9, <2>2
    <3>3. \A i, j, k, l \in Nat, n \in Nat \ {0} : \A d : d = Resampled(i, j, k, l, n) /\ d # NoChunk =>
                /\ d \in [in : Nat, out : Nat]
                /\ d.in % cfg.inChunk = 0 /\ d.in * cfg.outChunk = d.out * cfg.inChunk
                /\ cfg.inChunk <= d.in /\ i <= d.in /\ d.in <= j
                /\ cfg.outChunk <= d.out /\ k <= d.out /\ d.out <= l
      BY <3>1, ResampledIsLawful, Zenon
    <3>4. PICK i \in Nat, j \in Nat, l \in Nat, n \in Nat \ {0} :
              i = least /\ j = toProcess /\ l = free /\ n = requested
      BY <2>1, <3>1
    <3>5. c = Resampled(i, j, minOut, l, n) /\ c # NoChunk
      BY <3>2, <3>4
    <3>6. /\ c \in [in : Nat, out : Nat]
          /\ c.in % cfg.inChunk = 0 /\ c.in * cfg.outChunk = c.out * cfg.inChunk
          /\ cfg.inChunk <= c.in /\ i <= c.in /\ c.in <= j
          /\ cfg.outChunk <= c.out /\ minOut <= c.out /\ c.out <= l
      BY <3>3, <3>5, Zenon
    <3> QED
      BY <3>4, <3>6
  <2> QED
    BY <1>3, <1>7, <1>8, <1>9, <2>1, <2>2, <2>3, Zenon
<1>12. c.in \in Nat /\ c.out \in Nat /\ start \in Nat /\ c.in >= 1 /\ c.out >= 1
  BY <1>1, <1>2, <1>4, <1>11
<1>13. /\ cfg.inChunk <= c.in /\ least <= c.in /\ c.in <= toProcess
      /\ cfg.minOut <= c.out /\ c.out <= free
  BY <1>11
<1>14. start + c.in <= written /\ c.out <= OutCapacity - inFlight
  BY <1>1, <1>2, <1>3, <1>7, <1>8, <1>11, <1>12
<1>15. start + c.in <= eosAt
  BY <1>1, <1>2, <1>3, <1>5, <1>7, <1>11, <1>12, <1>14
<1>16. c.in \in cfg.minIn .. cfg.maxIn /\ c.out \in cfg.minOut .. cfg.maxOut
  BY <1>1, <1>3, <1>4, <1>5, <1>7, <1>8, <1>10, <1>11, <1>12
<1>17. ASSUME NEW t \in tagged, start < t, t < start + c.in, cfg.policy # "forward", c.in # cfg.inChunk
       PROVE  \/ \E u \in tagged : start < u /\ u < start + cfg.minIn
              \/ skip > 0 /\ start \in tagged
  <2>1. t \in Nat /\ pos + NextTag <= t
    BY <1>1, <1>2, <1>3, <1>17
  <2>2. untilTag < cfg.minIn
    <3>1. limit # cfg.inChunk
      BY <1>4, <1>6, <1>7, <1>13, <1>12, <1>17
    <3> QED
      BY <1>1, <1>2, <1>3, <1>4, <1>5, <1>6, <1>7, <1>13, <1>12, <1>17, <2>1, <3>1
  <2>3. pos + NextTag # eosAt
    BY <1>1, <1>2, <1>3, <1>12, <1>15, <1>17, <2>1
  <2>4. NextTag # Unlimited
    BY <1>1, <1>2, <1>3, <1>12, <1>14, <1>17, <2>1
  <2>5. pos + NextTag \in tagged
    BY <1>3, <1>17, <2>3, <2>4
  <2>6. CASE untilTag = 0
    BY <1>1, <1>2, <1>3, <1>5, <2>5, <2>6
  <2>7. CASE untilTag > 0
    BY <1>1, <1>2, <1>3, <1>4, <1>5, <2>2, <2>5, <2>7
  <2> QED
    BY <1>5, <2>6, <2>7
<1>18. ASSUME gap.to >= 0, start # gap.to
       PROVE  cfg.policy # "forward" /\ \E t \in tagged : gap.from < t /\ t < gap.to
  <2>1. /\ StrideActive /\ gap.from <= pos /\ pos + strideCounter = gap.to
        /\ gap.from \in Int /\ gap.to \in Int
    BY <1>18 DEF IInv, Due, Typed
  <2>2. skip < strideCounter
    BY <1>1, <1>2, <1>18, <2>1
  <2>3. skip # avail /\ skip # NextEos
    BY <1>1, <1>2, <1>3, <1>5, <1>7, <1>11, <1>12
  <2>4. skip = NextTag
    BY <1>1, <2>1, <2>2, <2>3
  <2>5. NextTag <= avail /\ avail <= Length /\ NextTag # Unlimited
    BY <1>1, <1>2, <1>3, <2>4
  <2>6. cfg.policy # "forward" /\ pos + NextTag # eosAt
    BY <1>1, <1>2, <1>3, <1>12, <1>15, <2>4, <2>5
  <2>7. pos + NextTag \in tagged
    BY <1>3, <2>5, <2>6
  <2>8. gap.from < pos + NextTag /\ pos + NextTag < gap.to
    BY <1>1, <1>2, <1>3, <2>1, <2>2, <2>4
  <2> QED
    BY <2>6, <2>7, <2>8
<1> QED
  BY <1>11, <1>12, <1>14, <1>15, <1>16, <1>17, <1>18

-----------------------------------------------------------------------------
(* The steps *)

(* Before the first call of work() nothing is owed.                        *)
LEMMA InitIInv == Init => IInv
BY ConfigsAssumption DEF Init, IInv, Typed, Stream, Looked, Due, Handed, NoChunk, NoGap

(* The consumed tags are behind the new position.                          *)
LEMMA TagsBehind ==
    ASSUME IInv, NEW n \in Nat
    PROVE  \A t \in tagged : t >= pos + n => t \in tags \ TagsConsumed(n)
<1> SUFFICES ASSUME NEW t \in tagged, t >= pos + n PROVE t \in tags \ TagsConsumed(n)
  OBVIOUS
<1>1. t \in Nat /\ pos \in Nat /\ t >= pos /\ (n # 0 => t >= pos + 1)
  BY DEF IInv, Typed
<1>2. t \in tags
  BY <1>1 DEF IInv, Stream
<1> QED
  BY <1>1, <1>2 DEF TagsConsumed

(* What the block upstream publishes comes after what work() has counted.  *)
LEMMA UpstreamKeeps == ASSUME IInv, Upstream PROVE IInv'
<1> USE DEF IInv, Typed, Stream, Looked, Due, Handed, InsideBuffers, WholeChunks, StartsAtTag, KeepsStride,
        StrideActive, input, history
<1>1. ASSUME NEW t \in 0 .. Length - 1, PublishTag(t) PROVE IInv'
  <2>1. /\ tagged' = tagged \cup {t} /\ tags' = tags \cup {t} /\ t >= written
        /\ UNCHANGED <<cfg, written, eosAt, pos, strideCounter, pc, avail, room, skipped, chunk, inFlight, gap>>
    BY <1>1 DEF PublishTag
  <2>2. Typed'
    BY <2>1, ConfigsAssumption
  <2>3. Stream' /\ Looked' /\ Due'
    BY <2>1
  <2>4. Handed'
    <3> SUFFICES ASSUME pc = "process" PROVE Handed'
      BY <2>1
    <3>1. pos \in Nat /\ chunk.in \in Nat /\ written \in Nat /\ pos + chunk.in <= written /\ t \in Nat
      BY ConfigsAssumption
    <3>2. \A u \in tagged' : u < pos + chunk.in => u \in tagged
      BY <2>1, <3>1
    <3>3. InsideBuffers' /\ WholeChunks' /\ KeepsStride'
      BY <2>1
    <3>4. StartsAtTag'
      BY <2>1, <3>1, <3>2
    <3> QED
      BY <2>1, <3>3, <3>4
  <2> QED
    BY <2>2, <2>3, <2>4
<1>2. ASSUME NEW e \in 0 .. Length, PublishEnd(e) PROVE IInv'
  <2>1. /\ eosAt' = e /\ e >= written
        /\ UNCHANGED <<cfg, written, tagged, tags, pos, strideCounter, pc, avail, room, skipped, chunk, inFlight, gap>>
    BY <1>2 DEF PublishEnd
  <2>2. Typed'
    BY <2>1, ConfigsAssumption
  <2>3. Stream' /\ Looked' /\ Due'
    BY <2>1
  <2>4. pos + chunk.in <= written => pos + chunk.in <= e
    BY <2>1, ConfigsAssumption
  <2>5. Handed'
    BY <2>1, <2>4
  <2> QED
    BY <2>2, <2>3, <2>5
<1>3. ASSUME NEW n \in 1 .. Length, PublishSamples(n) PROVE IInv'
  <2>1. /\ written' = n /\ n > written /\ (eosAt # Unlimited => n = eosAt)
        /\ UNCHANGED <<cfg, eosAt, tagged, tags, pos, strideCounter, pc, avail, room, skipped, chunk, inFlight, gap>>
    BY <1>3 DEF PublishSamples
  <2>2. Typed'
    BY <2>1, ConfigsAssumption
  <2>3. Length \in Nat /\ Length < Unlimited /\ Unlimited \in Nat
    BY ConfigsAssumption
  <2>4. Stream' /\ Looked' /\ Due'
    BY <2>1, <2>3
  <2>5. pos + chunk.in <= written => pos + chunk.in <= n
    BY <2>1, <2>3
  <2>6. Handed'
    BY <2>1, <2>5
  <2> QED
    BY <2>2, <2>4, <2>6
<1> QED
  BY <1>1, <1>2, <1>3 DEF Upstream

(* Steps that change nothing about chunks.                                 *)
LEMMA QuietKeeps ==
    ASSUME IInv, UNCHANGED <<cfg, written, tagged, tags, eosAt, pos, strideCounter, pc, avail, room, skipped,
                             chunk, inFlight, gap>>
    PROVE  IInv'
BY DEF IInv, Typed, Stream, Looked, Due, Handed, InsideBuffers, WholeChunks, StartsAtTag, KeepsStride, StrideActive

(* The output only becomes emptier while work() is under way.              *)
LEMMA DrainKeeps == ASSUME IInv, Drain PROVE IInv'
<1>1. /\ inFlight' = 0
      /\ UNCHANGED <<cfg, written, tagged, tags, eosAt, pos, strideCounter, pc, avail, room, skipped, chunk, gap>>
  BY DEF Drain, input, history
<1>2. OutCapacity \in Nat /\ inFlight \in Nat /\ chunk \in [in : Nat, out : Nat] /\ room \in Nat
  BY ConfigsAssumption DEF IInv, Typed
<1>3. chunk.out <= OutCapacity - inFlight => chunk.out <= OutCapacity
  BY <1>2
<1>4. room <= OutCapacity - inFlight => room <= OutCapacity
  BY <1>2
<1>5. Typed' /\ Stream' /\ Due'
  BY <1>1, <1>2 DEF IInv, Typed, Stream, Due, StrideActive
<1>6. Looked'
  BY <1>1, <1>2, <1>4 DEF IInv, Looked
<1>7. Handed'
  BY <1>1, <1>2, <1>3 DEF IInv, Handed, InsideBuffers, WholeChunks, StartsAtTag, KeepsStride
<1> QED
  BY <1>5, <1>6, <1>7 DEF IInv

(* The first look of work().                                               *)
LEMMA SamplesKeep == ASSUME IInv, LookAtSamples PROVE IInv'
<1>1. /\ pc' = "limits" /\ avail' = written - pos /\ room' = OutCapacity - inFlight
      /\ UNCHANGED <<cfg, written, tagged, tags, eosAt, pos, strideCounter, skipped, chunk, inFlight, gap>>
  BY DEF LookAtSamples, input, history
<1>2. OutCapacity \in Nat
  BY ConfigsAssumption
<1> QED
  BY <1>1, <1>2 DEF IInv, Typed, Stream, Looked, Due, Handed, StrideActive

(* The second look, after which the chunk is lawful.                       *)
LEMMA TagsKeep == ASSUME IInv, NEW requested \in {1, Unlimited}, LookAtTags(requested) PROVE IInv'
<1>1. PICK limits : limits = Limits(requested)
  OBVIOUS
<1>2. PICK skip : skip = limits.skip
  OBVIOUS
<1>3. /\ pc = "limits" /\ pos' = pos + skip /\ strideCounter' = strideCounter - skip
      /\ tags' = tags \ TagsConsumed(skip)
      /\ chunk' = NoChunk \/ (chunk' = limits.chunk /\ ~limits.eos)
      /\ pc' = IF chunk' = NoChunk THEN "idle" ELSE "process"
      /\ skipped' = IF pc' = "process" THEN skip ELSE 0
      /\ avail' = 0 /\ room' = 0
      /\ UNCHANGED <<cfg, written, tagged, eosAt, inFlight, gap>>
  BY <1>1, <1>2 DEF LookAtTags, input
<1>4. skip \in Nat /\ skip <= avail /\ skip <= strideCounter
  BY <1>1, <1>2, SkipIsShort
<1>5. /\ pos \in Nat /\ written \in Nat /\ avail \in Nat /\ strideCounter \in Nat
      /\ avail <= written - pos
  BY <1>3 DEF IInv, Typed, Looked
<1>6. Stream' /\ Due' /\ Looked'
  <2>1. \A t \in tagged : t >= pos + skip => t \in tags \ TagsConsumed(skip)
    BY <1>4, TagsBehind
  <2>2. Stream'
    BY <1>3, <2>1 DEF IInv, Stream
  <2>3. Due'
    BY <1>3, <1>4, <1>5 DEF IInv, Due, StrideActive, Typed
  <2> QED
    BY <1>3, <2>2, <2>3 DEF Looked
<1>7. /\ pos' \in Nat /\ pos' <= written /\ strideCounter' \in Nat /\ skipped' \in Nat
      /\ tags' \subseteq tagged
  <2>1. pos' \in Nat /\ pos' <= written /\ strideCounter' \in Nat
    BY <1>3, <1>4, <1>5
  <2>2. skipped' \in Nat
    BY <1>3, <1>4
  <2>3. tags \subseteq tagged
    BY DEF IInv, Typed
  <2>4. tags' \subseteq tagged
    BY <1>3, <2>3
  <2> QED
    BY <2>1, <2>2, <2>4
<1>8. CASE chunk' = NoChunk
  <2>1. Typed'
    BY <1>3, <1>7, <1>8 DEF IInv, Typed, NoChunk
  <2>2. Handed'
    BY <1>3, <1>8 DEF Handed
  <2> QED
    BY <1>6, <2>1, <2>2 DEF IInv
<1>9. CASE chunk' # NoChunk
  <2>1. PICK c : c = limits.chunk
    OBVIOUS
  <2>2. PICK start : start = pos + skip
    OBVIOUS
  <2>3. chunk' = c /\ ~limits.eos /\ limits.chunk # NoChunk /\ pc' = "process" /\ skipped' = skip
    BY <1>3, <1>9, <2>1
  <2>4. /\ c \in [in : Nat, out : Nat] /\ c.in >= 1 /\ c.out >= 1
        /\ start + c.in <= written /\ start + c.in <= eosAt /\ c.out <= OutCapacity - inFlight
        /\ c.in % cfg.inChunk = 0 /\ c.in * cfg.outChunk = c.out * cfg.inChunk
        /\ c.in \in cfg.minIn .. cfg.maxIn /\ c.out \in cfg.minOut .. cfg.maxOut
        /\ \A t \in tagged : start < t /\ t < start + c.in =>
             \/ cfg.policy = "forward"
             \/ c.in = cfg.inChunk
             \/ \E u \in tagged : start < u /\ u < start + cfg.minIn
             \/ skip > 0 /\ start \in tagged
        /\ gap.to >= 0 => \/ start = gap.to
                          \/ /\ cfg.policy # "forward"
                             /\ \E t \in tagged : gap.from < t /\ t < gap.to
    BY <1>1, <1>2, <1>3, <2>1, <2>2, <2>3, LimitsAreLawful
  <2>5. Typed'
    BY <1>3, <1>7, <2>3, <2>4 DEF IInv, Typed
  <2>6. InsideBuffers' /\ WholeChunks'
    BY <1>3, <2>2, <2>3, <2>4, Zenon DEF InsideBuffers, WholeChunks
  <2>7. StartsAtTag'
    BY <1>3, <2>2, <2>3, <2>4, Zenon DEF StartsAtTag
  <2>8. KeepsStride'
    BY <1>3, <2>2, <2>3, <2>4, Zenon DEF KeepsStride
  <2>9. Handed'
    BY <2>3, <2>4, <2>6, <2>7, <2>8 DEF Handed
  <2> QED
    BY <1>6, <2>5, <2>9 DEF IInv
<1> QED
  BY <1>8, <1>9

(* What a call of processBulk() comes to: samples consumed and published   *)
(* within the chunk, a stride that begins only with samples consumed when  *)
(* none is left of the one before, and tags forwarded with output.         *)
LEMMA ProcessTakes ==
    ASSUME IInv, NEW status \in Statuses, NEW consume \in Requests, NEW publish \in Requests,
           Process(status, consume, publish)
    PROVE  \E consumed, byStride, published \in Nat, forwards \in BOOLEAN :
              /\ pc = "process" /\ pc' = "idle" /\ chunk' = NoChunk /\ skipped' = 0
              /\ UNCHANGED <<cfg, written, tagged, eosAt, avail, room>>
              /\ consumed <= chunk.in /\ published <= chunk.out
              /\ consumed = 0 => byStride = 0
              /\ byStride > 0 => byStride <= chunk.in /\ byStride <= cfg.stride /\ StrideActive /\ strideCounter = 0
              /\ inFlight' = inFlight + published /\ pos' = pos + consumed
              /\ strideCounter' = IF byStride > 0 THEN cfg.stride - byStride ELSE strideCounter
              /\ \/ consumed = 0 /\ gap' = gap
                 \/ consumed # 0 /\ gap' = NoGap
                 \/ /\ byStride > 0 /\ consumed = byStride
                    /\ gap' = [from |-> pos + byStride, to |-> pos + cfg.stride]
              /\ tags' = tags \ TagsConsumed(consumed)
              /\ outTags' = IF forwards THEN outTags \o Ordered(Forwarded) ELSE outTags
              /\ unforwarded' = IF forwards THEN unforwarded ELSE unforwarded \cup TagsConsumed(consumed)
              /\ repeated' = IF forwards
                             THEN repeated \cup {t \in Forwarded : consumed = 0 \/ t >= pos + consumed}
                             ELSE repeated
<1> DEFINE refused      == status = "INSUFFICIENT"
           stopping     == state # "RUNNING"
           processedIn  == CASE refused \/ stopping -> 0
                             [] ~(refused \/ stopping) /\ consume # NoRequest -> consume
                             [] OTHER -> chunk.in
           processedOut == CASE refused -> 0
                             [] ~refused /\ publish # NoRequest -> publish
                             [] OTHER -> chunk.out
           byStride     == IF processedIn = 0 THEN 0 ELSE StrideConsumes(chunk.in)
           consumed     == CASE consume # NoRequest -> consume
                             [] consume = NoRequest /\ byStride > 0 -> byStride
                             [] OTHER -> processedIn
           published    == IF publish # NoRequest THEN publish ELSE processedOut
<1>1. /\ pc = "process" /\ pc' = "idle" /\ chunk' = NoChunk /\ skipped' = 0
      /\ UNCHANGED <<cfg, written, tagged, eosAt, avail, room>>
      /\ inFlight' = inFlight + published
      /\ pos' = pos + consumed
      /\ tags' = tags \ TagsConsumed(consumed)
      /\ strideCounter' = IF byStride > 0 THEN cfg.stride - byStride ELSE strideCounter
      /\ gap' = CASE consumed = 0 -> gap
                  [] consumed # 0 /\ byStride > 0 /\ consume = NoRequest ->
                         [from |-> pos + byStride, to |-> pos + cfg.stride]
                  [] OTHER -> NoGap
      /\ outTags' = IF processedOut = 0 THEN outTags ELSE outTags \o Ordered(Forwarded)
      /\ unforwarded' = IF processedOut = 0 THEN unforwarded \cup TagsConsumed(consumed) ELSE unforwarded
      /\ repeated' = IF processedOut = 0 THEN repeated
                     ELSE repeated \cup {t \in Forwarded : consumed = 0 \/ t >= pos + consumed}
  BY DEF Process, input
<1>2. /\ chunk.in \in Nat /\ chunk.out \in Nat /\ chunk.in >= 1 /\ chunk.out >= 1
      /\ pos \in Nat /\ written \in Nat /\ pos + chunk.in <= written
      /\ inFlight \in Nat /\ chunk.out <= OutCapacity - inFlight /\ OutCapacity \in Nat
      /\ strideCounter \in Nat /\ cfg.stride \in Nat
  <2>1. cfg \in Config /\ OutCapacity \in Nat
    BY ConfigsAssumption DEF IInv, Typed
  <2> QED
    BY <1>1, <2>1 DEF IInv, Typed, Handed, InsideBuffers, Config
<1>3. Requests = {-1, 0, 1} /\ NoRequest = -1
  BY DEF Requests, NoRequest
<1>4. processedIn \in Nat /\ processedIn <= chunk.in
  BY <1>2, <1>3
<1>5. processedOut \in Nat /\ processedOut <= chunk.out
  BY <1>2, <1>3
<1>6. byStride = 0 \/ (/\ byStride \in Nat /\ byStride > 0 /\ byStride <= chunk.in /\ byStride <= cfg.stride
                       /\ StrideActive /\ strideCounter = 0 /\ processedIn > 0)
  <2>1. Min({cfg.stride, chunk.in}) = IF cfg.stride <= chunk.in THEN cfg.stride ELSE chunk.in
    BY <1>2, MinOfTwo
  <2> HIDE DEF processedIn
  <2>2. StrideActive => cfg.stride # 0
    BY DEF StrideActive
  <2> QED
    BY <1>2, <1>4, <2>1, <2>2 DEF StrideConsumes
<1> HIDE DEF processedIn, processedOut, byStride
<1>7. /\ consumed \in Nat /\ consumed <= chunk.in
      /\ consume = NoRequest /\ byStride > 0 => consumed = byStride
      /\ consumed = 0 => byStride = 0
  <2>1. consume = 0 => processedIn = 0
    BY <1>3 DEF processedIn
  <2>2. processedIn = 0 => byStride = 0
    BY DEF byStride
  <2> QED
    BY <1>2, <1>3, <1>4, <1>6, <2>1, <2>2
<1>8. published \in Nat /\ published <= chunk.out
  BY <1>2, <1>3, <1>5
<1> HIDE DEF consumed, published
<1>9. byStride \in Nat
  BY <1>6
<1> DEFINE forwards == ~(processedOut = 0)
<1>10. \/ consumed = 0 /\ gap' = gap
       \/ consumed # 0 /\ gap' = NoGap
       \/ /\ byStride > 0 /\ consumed = byStride
          /\ gap' = [from |-> pos + byStride, to |-> pos + cfg.stride]
  BY <1>1, <1>7
<1>11. /\ outTags' = IF forwards THEN outTags \o Ordered(Forwarded) ELSE outTags
       /\ unforwarded' = IF forwards THEN unforwarded ELSE unforwarded \cup TagsConsumed(consumed)
       /\ repeated' = IF forwards
                      THEN repeated \cup {t \in Forwarded : consumed = 0 \/ t >= pos + consumed}
                      ELSE repeated
  BY <1>1
<1>12. forwards \in BOOLEAN
  OBVIOUS
<1> HIDE DEF forwards
<1>13. byStride > 0 => byStride <= chunk.in /\ byStride <= cfg.stride /\ StrideActive /\ strideCounter = 0
  BY <1>6
<1> USE <1>7, <1>8, <1>9, <1>12
<1> WITNESS consumed \in Nat, byStride \in Nat, published \in Nat, forwards \in BOOLEAN
<1> QED
  BY <1>1, <1>7, <1>8, <1>10, <1>11, <1>13

(* The chunk is done: what is left of its stride, if it counts, leads to   *)
(* where the next chunk is due.                                            *)
LEMMA ProcessKeeps ==
    ASSUME IInv, NEW status \in Statuses, NEW consume \in Requests, NEW publish \in Requests,
           Process(status, consume, publish)
    PROVE  IInv'
<1>1. PICK consumed, byStride, published \in Nat :
         /\ pc = "process" /\ pc' = "idle" /\ chunk' = NoChunk /\ skipped' = 0
         /\ UNCHANGED <<cfg, written, tagged, eosAt, avail, room>>
         /\ consumed <= chunk.in /\ published <= chunk.out
         /\ consumed = 0 => byStride = 0
         /\ byStride > 0 => byStride <= chunk.in /\ byStride <= cfg.stride /\ StrideActive /\ strideCounter = 0
         /\ inFlight' = inFlight + published /\ pos' = pos + consumed
         /\ strideCounter' = IF byStride > 0 THEN cfg.stride - byStride ELSE strideCounter
         /\ \/ consumed = 0 /\ gap' = gap
            \/ consumed # 0 /\ gap' = NoGap
            \/ /\ byStride > 0 /\ consumed = byStride
               /\ gap' = [from |-> pos + byStride, to |-> pos + cfg.stride]
         /\ tags' = tags \ TagsConsumed(consumed)
  BY ProcessTakes, ZenonT(60)
<1>2. /\ chunk.in \in Nat /\ chunk.out \in Nat /\ chunk.in >= 1 /\ chunk.out >= 1
      /\ pos \in Nat /\ written \in Nat /\ pos + chunk.in <= written
      /\ inFlight \in Nat /\ chunk.out <= OutCapacity - inFlight /\ OutCapacity \in Nat
      /\ strideCounter \in Nat /\ cfg.stride \in Nat
  <2>1. cfg \in Config /\ OutCapacity \in Nat
    BY ConfigsAssumption DEF IInv, Typed
  <2> QED
    BY <1>1, <2>1 DEF IInv, Typed, Handed, InsideBuffers, Config
<1>3. Stream'
  <2>1. \A t \in tagged : t >= pos + consumed => t \in tags \ TagsConsumed(consumed)
    BY TagsBehind
  <2> QED
    BY <1>1, <2>1 DEF IInv, Stream
<1>4. /\ gap' \in [from : Int, to : Int] /\ strideCounter' \in Nat
      /\ gap'.to >= 0 => StrideActive /\ gap'.from <= pos' /\ pos' + strideCounter' = gap'.to
  <2>1. gap \in [from : Int, to : Int] /\ (gap.to >= 0 => StrideActive /\ gap.from <= pos /\ pos + strideCounter = gap.to)
    BY DEF IInv, Due, Typed
  <2>2. strideCounter' \in Nat
    BY <1>1, <1>2
  <2>3. CASE consumed = 0 /\ gap' = gap
    <3>1. strideCounter' = strideCounter /\ pos' = pos
      BY <1>1, <1>2, <2>3
    <3> QED
      BY <2>1, <2>2, <2>3, <3>1
  <2>4. CASE byStride > 0 /\ consumed = byStride /\ gap' = [from |-> pos + byStride, to |-> pos + cfg.stride]
    <3>1. pos' = pos + byStride /\ strideCounter' = cfg.stride - byStride /\ StrideActive
      BY <1>1, <2>4
    <3> QED
      BY <1>2, <2>2, <2>4, <3>1
  <2>5. CASE gap' = NoGap
    BY <2>2, <2>5 DEF NoGap
  <2> QED
    BY <1>1, <2>3, <2>4, <2>5
<1>5. Typed'
  <2>1. pos' \in Nat /\ pos' <= written
    BY <1>1, <1>2
  <2>2. inFlight' \in Nat /\ inFlight' <= OutCapacity
    BY <1>1, <1>2
  <2>3. tags' \subseteq tagged
    BY <1>1 DEF IInv, Typed
  <2>4. chunk' \in [in : Nat, out : Nat] /\ skipped' \in Nat
    BY <1>1 DEF NoChunk
  <2>5. gap' \in [from : Int, to : Int] /\ strideCounter' \in Nat
    BY <1>4
  <2>6. pc' = "idle" /\ UNCHANGED <<cfg, written, tagged, eosAt, avail, room>>
    BY <1>1
  <2>7. Typed
    BY DEF IInv
  <2> QED
    BY <2>1, <2>2, <2>3, <2>4, <2>5, <2>6, <2>7 DEF Typed
<1>6. Due'
  <2>1. StrideActive' = StrideActive
    BY <1>1 DEF StrideActive
  <2> QED
    BY <1>4, <2>1, Zenon DEF Due
<1>7. Looked' /\ Handed'
  BY <1>1 DEF Looked, Handed
<1> QED
  BY <1>3, <1>5, <1>6, <1>7 DEF IInv

-----------------------------------------------------------------------------
(* The theorem *)

(* Every step of the block and of its neighbours keeps the invariant.      *)
LEMMA Inductive == IInv /\ [Next]_vars => IInv'
<1> SUFFICES ASSUME IInv, [Next]_vars PROVE IInv'
  OBVIOUS
<1>1. CASE Upstream
  BY <1>1, UpstreamKeeps
<1>2. CASE Drain
  BY <1>2, DrainKeeps
<1>3. CASE RequestStop
  BY <1>3, QuietKeeps DEF RequestStop, input
<1>4. CASE FinishStop
  BY <1>4, QuietKeeps DEF FinishStop, input, history
<1>5. CASE LookAtSamples
  BY <1>5, SamplesKeep
<1>6. CASE \E requested \in {1, Unlimited} : LookAtTags(requested)
  BY <1>6, TagsKeep
<1>7. CASE ProcessBulk
  BY <1>7, ProcessKeeps DEF ProcessBulk
<1>8. CASE UNCHANGED vars
  BY <1>8, QuietKeeps DEF vars, input, history
<1> QED
  BY <1>1, <1>2, <1>3, <1>4, <1>5, <1>6, <1>7, <1>8 DEF Next

(* Whatever the block upstream publishes between the two looks of          *)
(* Block::workInternal(), at the samples and at the tags, and however the  *)
(* minima, the ratio, the stride and the tags of the configuration pull,   *)
(* processBulk() is handed whole chunks inside the buffers and the limits  *)
(* of both ports, broken at tags, in the rhythm of the stride.             *)
THEOREM LawfulChunks == Spec => []ChunkIsLawful
<1>1. IInv => ChunkIsLawful
  BY DEF IInv, Handed, ChunkIsLawful
<1> QED
  BY InitIInv, Inductive, <1>1, PTL DEF Spec

-----------------------------------------------------------------------------
(* Tags in order *)

(* A finite set of numbers can be listed from the smallest on: take the    *)
(* least size of a set that cannot, and leave out its smallest member.     *)
LEMMA OrderExists ==
    ASSUME NEW S \in SUBSET Nat, IsFiniteSet(S)
    PROVE  \E f \in [1 .. Cardinality(S) -> S] : \A i, j \in DOMAIN f : i < j => f[i] < f[j]
<1> DEFINE Listed(T) == \E f \in [1 .. Cardinality(T) -> T] : \A i, j \in DOMAIN f : i < j => f[i] < f[j]
           Sizes == {k \in Nat : \E T \in SUBSET Nat : IsFiniteSet(T) /\ Cardinality(T) = k /\ ~Listed(T)}
<1>1. SUFFICES ASSUME Sizes # {} PROVE FALSE
  <2>1. Cardinality(S) \in Nat
    BY FS_CardinalityType
  <2>2. ~Listed(S) => Cardinality(S) \in Sizes
    BY <2>1
  <2> QED
    BY <2>2
<1>2. PICK k \in Sizes : \A l \in Sizes : k <= l
  <2>1. Sizes \in SUBSET Nat
    OBVIOUS
  <2> HIDE DEF Sizes
  <2> QED
    BY <1>1, <2>1, MinOfNaturals
<1>3. PICK T \in SUBSET Nat : IsFiniteSet(T) /\ Cardinality(T) = k /\ ~Listed(T)
  OBVIOUS
<1>4. k \in Nat
  OBVIOUS
<1>5. T # {}
  <2>1. SUFFICES ASSUME T = {} PROVE Listed(T)
    BY <1>3
  <2>2. Cardinality(T) = 0
    BY <2>1, FS_EmptySet
  <2>3. [i \in 1 .. 0 |-> 0] \in [1 .. 0 -> T] /\ DOMAIN [i \in 1 .. 0 |-> 0] = {}
    OBVIOUS
  <2> QED
    BY <2>2, <2>3
<1>6. PICK m \in T : \A t \in T : m <= t
  BY <1>5, MinOfNaturals
<1> DEFINE U == T \ {m}
<1>7. IsFiniteSet(U) /\ Cardinality(U) = k - 1 /\ k - 1 \in Nat
  <2>1. IsFiniteSet(U) /\ Cardinality(U) = k - 1
    BY <1>3, FS_RemoveElement
  <2>2. Cardinality(U) \in Nat
    BY <2>1, FS_CardinalityType
  <2> QED
    BY <2>1, <2>2
<1>8. Listed(U)
  <2>1. k - 1 \notin Sizes
    BY <1>2, <1>4
  <2>2. U \in SUBSET Nat
    OBVIOUS
  <2> QED
    BY <1>7, <2>1, <2>2
<1>9. PICK g \in [1 .. k - 1 -> U] : \A i, j \in 1 .. k - 1 : i < j => g[i] < g[j]
  BY <1>7, <1>8
<1> DEFINE f == [i \in 1 .. k |-> IF i = 1 THEN m ELSE g[i - 1]]
<1>10. \A i \in 1 .. k : i # 1 => i - 1 \in 1 .. k - 1 /\ g[i - 1] \in U
  BY <1>4, <1>9
<1>11. f \in [1 .. k -> T]
  BY <1>10
<1>12. ASSUME NEW i \in 1 .. k, NEW j \in 1 .. k, i < j PROVE f[i] < f[j]
  <2>1. j # 1 /\ f[j] = g[j - 1] /\ g[j - 1] \in U /\ j - 1 \in 1 .. k - 1
    BY <1>4, <1>10, <1>12
  <2>2. CASE i = 1
    <3>1. f[i] = m
      BY <1>4, <2>2
    <3>2. \A u \in U : u \in T /\ u # m /\ m <= u /\ u \in Nat /\ m \in Nat
      BY <1>6
    <3>3. PICK u \in U : u = f[j]
      BY <2>1
    <3> HIDE DEF f
    <3> QED
      BY <3>1, <3>2, <3>3
  <2>3. CASE i # 1
    <3>1. i - 1 \in 1 .. k - 1 /\ f[i] = g[i - 1] /\ i - 1 < j - 1
      BY <1>4, <1>12, <2>3
    <3> QED
      BY <1>9, <2>1, <3>1
  <2> QED
    BY <2>2, <2>3
<1>13. Listed(T)
  <2> HIDE DEF f
  <2> QED
    BY <1>3, <1>11, <1>12
<1> QED
  BY <1>3, <1>13

(* Ordered() lists every member once, from the smallest on.                *)
LEMMA OrderedLists ==
    ASSUME NEW S \in SUBSET Nat, IsFiniteSet(S)
    PROVE  /\ Ordered(S) \in Seq(S) /\ Range(Ordered(S)) = S
           /\ \A i, j \in DOMAIN Ordered(S) : i < j => Ordered(S)[i] < Ordered(S)[j]
<1> DEFINE f == Ordered(S)  n == Cardinality(S)
<1>1. f \in [1 .. n -> S] /\ \A i, j \in DOMAIN f : i < j => f[i] < f[j]
  BY OrderExists DEF Ordered
<1>2. n \in Nat
  BY FS_CardinalityType
<1> HIDE DEF f, n
<1>3. f \in Injection(1 .. n, S)
  <2>1. ASSUME NEW i \in 1 .. n, NEW j \in 1 .. n, f[i] = f[j] PROVE i = j
    <3>1. f[i] \in Nat /\ f[j] \in Nat /\ (i < j => f[i] < f[j]) /\ (j < i => f[j] < f[i])
      BY <1>1
    <3> QED
      BY <1>2, <2>1, <3>1
  <2> QED
    BY <1>1, <2>1 DEF Injection, IsInjective
<1>4. f \in Surjection(1 .. n, S)
  <2>1. Cardinality(1 .. n) = Cardinality(S)
    BY <1>2, FS_Interval DEF n
  <2> QED
    BY <1>3, <2>1, FS_Injection
<1>5. Range(f) = S
  BY <1>1, <1>4 DEF Range, Surjection
<1>6. f \in Seq(S)
  BY <1>1, <1>2
<1> QED
  BY <1>1, <1>5, <1>6 DEF f

(* The members of two lists one behind the other.                          *)
LEMMA RangeOfBoth ==
    ASSUME NEW S, NEW a \in Seq(S), NEW b \in Seq(S)
    PROVE  Range(a \o b) = Range(a) \cup Range(b)
<1>1. \A i \in DOMAIN (a \o b) : (a \o b)[i] \in Range(a) \cup Range(b)
  <2>1. SUFFICES ASSUME NEW i \in 1 .. Len(a) + Len(b) PROVE (a \o b)[i] \in Range(a) \cup Range(b)
    OBVIOUS
  <2>2. CASE i <= Len(a)
    BY <2>2 DEF Range
  <2>3. CASE i > Len(a)
    <3>1. i - Len(a) \in 1 .. Len(b) /\ (a \o b)[i] = b[i - Len(a)]
      BY <2>3
    <3> QED
      BY <3>1 DEF Range
  <2> QED
    BY <2>2, <2>3
<1>2. \A i \in DOMAIN a : i \in DOMAIN (a \o b) /\ (a \o b)[i] = a[i]
  OBVIOUS
<1>3. \A i \in DOMAIN b : Len(a) + i \in DOMAIN (a \o b) /\ (a \o b)[Len(a) + i] = b[i]
  OBVIOUS
<1>4. Range(a \o b) \subseteq Range(a) \cup Range(b)
  BY <1>1, Zenon DEF Range
<1>5. Range(a) \subseteq Range(a \o b)
  BY <1>2, Zenon DEF Range
<1>6. Range(b) \subseteq Range(a \o b)
  BY <1>3, Zenon DEF Range
<1> QED
  BY <1>4, <1>5, <1>6

(* What has been forwarded, what has been consumed, and what comes next.   *)
TagInv ==
    /\ tagged \in SUBSET Nat /\ IsFiniteSet(tagged) /\ pos \in Nat
    /\ pc = "process" => chunk.in \in Nat
    /\ tags \subseteq tagged
    /\ outTags \in Seq(tagged)
    /\ tagged \ tags \subseteq Range(outTags) \cup unforwarded
    /\ \A i, j \in DOMAIN outTags : i < j => outTags[i] < outTags[j] \/ outTags[j] \in repeated
    /\ \A t \in tags, i \in DOMAIN outTags : outTags[i] < t \/ t \in repeated

(* At first there are no tags.                                             *)
LEMMA TagInvInit == Init => TagInv
BY FS_EmptySet DEF Init, TagInv, Range

(* A new tag comes after all others.                                       *)
LEMMA PublishTagKeepsTags ==
    ASSUME TagInv, NEW t \in 0 .. Length - 1, PublishTag(t)
    PROVE  TagInv'
<1>1. /\ tagged' = tagged \cup {t} /\ tags' = tags \cup {t} /\ \A u \in tagged : u < t
      /\ UNCHANGED <<pos, pc, chunk, outTags, unforwarded, repeated>>
  BY DEF PublishTag, history
<1>2. tagged' \in SUBSET Nat /\ IsFiniteSet(tagged') /\ tags' \subseteq tagged'
  BY <1>1, FS_AddElement, ConfigsAssumption DEF TagInv
<1>3. outTags' \in Seq(tagged')
  BY <1>1 DEF TagInv
<1>4. \A i \in DOMAIN outTags : outTags[i] \in tagged
  BY DEF TagInv
<1>5. \A u \in tags', i \in DOMAIN outTags' : outTags'[i] < u \/ u \in repeated'
  BY <1>1, <1>4 DEF TagInv
<1>6. tagged' \ tags' \subseteq tagged \ tags
  BY <1>1
<1>7. \A i, j \in DOMAIN outTags' : i < j => outTags'[i] < outTags'[j] \/ outTags'[j] \in repeated'
  BY <1>1 DEF TagInv
<1>8. tagged' \ tags' \subseteq Range(outTags') \cup unforwarded'
  BY <1>1, <1>6 DEF TagInv
<1> QED
  BY <1>1, <1>2, <1>3, <1>5, <1>7, <1>8 DEF TagInv

(* Skipped tags are noted.                                                 *)
LEMMA LookAtTagsKeepsTags ==
    ASSUME IInv, IInv', TagInv, NEW requested, LookAtTags(requested)
    PROVE  TagInv'
<1>1. PICK skip : skip = Limits(requested).skip
  OBVIOUS
<1>2. /\ tags' = tags \ TagsConsumed(skip) /\ unforwarded' = unforwarded \cup TagsConsumed(skip)
      /\ UNCHANGED <<tagged, outTags, repeated>>
  BY <1>1 DEF LookAtTags, input
<1>3. pos' \in Nat /\ chunk'.in \in Nat
  BY DEF IInv, Typed
<1> QED
  BY <1>2, <1>3, Zenon DEF TagInv

(* The chunk forwards the tags that it consumes, in order.                 *)
LEMMA ProcessKeepsTags ==
    ASSUME IInv, IInv', TagInv, NEW status \in Statuses, NEW consume \in Requests, NEW publish \in Requests,
           Process(status, consume, publish)
    PROVE  TagInv'
<1>1. PICK consumed, byStride, published \in Nat, forwards \in BOOLEAN :
         /\ pc = "process" /\ pc' = "idle" /\ UNCHANGED <<cfg, written, tagged, eosAt, avail, room>>
         /\ consumed <= chunk.in /\ pos' = pos + consumed
         /\ tags' = tags \ TagsConsumed(consumed)
         /\ outTags' = IF forwards THEN outTags \o Ordered(Forwarded) ELSE outTags
         /\ unforwarded' = IF forwards THEN unforwarded ELSE unforwarded \cup TagsConsumed(consumed)
         /\ repeated' = IF forwards
                        THEN repeated \cup {t \in Forwarded : consumed = 0 \/ t >= pos + consumed}
                        ELSE repeated
  BY ProcessTakes, ZenonT(60)
<1>2. tagged' \in SUBSET Nat /\ IsFiniteSet(tagged') /\ pos' \in Nat /\ tags' \subseteq tagged' /\ pc' # "process"
  <2>1. tagged' = tagged /\ pc' # "process"
    BY <1>1
  <2>2. pos' \in Nat
    BY DEF IInv, Typed
  <2>3. tags' \subseteq tags
    BY <1>1
  <2> QED
    BY <2>1, <2>2, <2>3 DEF TagInv
<1>3. CASE ~forwards
  BY <1>1, <1>2, <1>3 DEF TagInv
<1>4. CASE forwards
  <2>1. PICK list : list = Ordered(Forwarded)
    OBVIOUS
  <2>2. Forwarded \in SUBSET Nat /\ IsFiniteSet(Forwarded) /\ Forwarded \subseteq tags
    <3>1. Forwarded \subseteq tags
      BY DEF Forwarded
    <3> QED
      BY <3>1, FS_Subset DEF TagInv
  <2>3. /\ list \in Seq(Forwarded) /\ Range(list) = Forwarded
        /\ \A i, j \in DOMAIN list : i < j => list[i] < list[j]
    BY <2>1, <2>2, OrderedLists
  <2>4. list \in Seq(tagged) /\ outTags \in Seq(tagged)
    <3>1. \A i \in 1 .. Len(list) : list[i] \in tagged
      <4>1. tags \subseteq tagged
        BY DEF TagInv
      <4>2. \A i \in 1 .. Len(list) : list[i] \in Forwarded
        BY <2>3
      <4> QED
        BY <2>2, <4>1, <4>2
    <3>2. list \in [1 .. Len(list) -> tagged] /\ Len(list) \in Nat
      BY <2>3, <3>1
    <3> QED
      BY <3>2 DEF TagInv
  <2>5. /\ outTags' = outTags \o list /\ unforwarded' = unforwarded
        /\ repeated' = repeated \cup {t \in Forwarded : consumed = 0 \/ t >= pos + consumed}
    BY <1>1, <1>4, <2>1
  <2>6. TagsConsumed(consumed) \subseteq Forwarded
    <3>1. chunk.in \in Nat /\ pos \in Nat /\ tags \in SUBSET Nat
      BY <1>1 DEF TagInv
    <3>2. ASSUME NEW t \in TagsConsumed(consumed) PROVE t \in Forwarded
      <4>1. consumed # 0 /\ t \in tags /\ t < pos + (IF cfg.policy = "backward" THEN consumed ELSE 1)
        BY <3>2 DEF TagsConsumed
      <4>2. CASE cfg.policy = "backward"
        BY <1>1, <3>1, <4>1, <4>2 DEF Forwarded
      <4>3. CASE cfg.policy # "backward"
        BY <4>1, <4>3 DEF Forwarded
      <4> QED
        BY <4>2, <4>3
    <3> QED
      BY <3>2
  <2>7. Range(outTags') = Range(outTags) \cup Forwarded
    BY <2>3, <2>4, <2>5, RangeOfBoth
  <2>8. tagged' \ tags' \subseteq Range(outTags') \cup unforwarded'
    BY <1>1, <2>5, <2>6, <2>7 DEF TagInv
  <2>9. \A i \in DOMAIN list : list[i] \in Forwarded
    BY <2>3
  <2>10. \A i \in DOMAIN outTags' :
            \/ i \in DOMAIN outTags /\ outTags'[i] = outTags[i]
            \/ i \notin DOMAIN outTags /\ i - Len(outTags) \in DOMAIN list /\ outTags'[i] = list[i - Len(outTags)]
    BY <2>4, <2>5
  <2>11. ASSUME NEW i \in DOMAIN outTags', NEW j \in DOMAIN outTags', i < j
         PROVE  outTags'[i] < outTags'[j] \/ outTags'[j] \in repeated'
    <3>1. i \in Nat /\ j \in Nat
      BY <2>4, <2>5
    <3>2. CASE j \in DOMAIN outTags
      <4>1. i \in DOMAIN outTags
        BY <2>4, <2>5, <2>11, <3>2
      <4> QED
        BY <2>5, <2>10, <2>11, <3>2, <4>1 DEF TagInv
    <3>3. CASE i \in DOMAIN outTags /\ j \notin DOMAIN outTags
      <4>1. outTags'[j] \in tags
        BY <2>2, <2>9, <2>10, <3>3
      <4> QED
        BY <2>5, <2>10, <3>3, <4>1 DEF TagInv
    <3>4. CASE i \notin DOMAIN outTags /\ j \notin DOMAIN outTags
      <4>1. /\ i - Len(outTags) \in DOMAIN list /\ outTags'[i] = list[i - Len(outTags)]
            /\ j - Len(outTags) \in DOMAIN list /\ outTags'[j] = list[j - Len(outTags)]
        BY <2>10, <3>4
      <4>2. i - Len(outTags) < j - Len(outTags)
        BY <2>4, <2>11, <3>1
      <4> QED
        BY <2>3, <4>1, <4>2
    <3> QED
      BY <3>2, <3>3, <3>4
  <2>12. ASSUME NEW t \in tags', NEW i \in DOMAIN outTags'
         PROVE  outTags'[i] < t \/ t \in repeated'
    <3>1. t \in tags /\ t \in Nat /\ t \notin TagsConsumed(consumed) /\ pos \in Nat /\ chunk.in \in Nat
      BY <1>1 DEF TagInv
    <3>2. CASE i \in DOMAIN outTags
      BY <2>5, <2>10, <3>1, <3>2 DEF TagInv
    <3>3. CASE i \notin DOMAIN outTags /\ t \in Forwarded
      <4>1. consumed = 0 \/ t >= pos + consumed
        BY <3>1, <3>3 DEF TagsConsumed, Forwarded
      <4> QED
        BY <2>5, <3>3, <4>1
    <3>4. CASE i \notin DOMAIN outTags /\ t \notin Forwarded
      <4>1. outTags'[i] \in Forwarded
        BY <2>9, <2>10, <3>4
      <4> QED
        BY <2>2, <3>1, <3>4, <4>1 DEF Forwarded
    <3> QED
      BY <3>2, <3>3, <3>4
  <2>13. outTags' \in Seq(tagged')
    <3>1. outTags \o list \in Seq(tagged) /\ tagged' = tagged
      BY <1>1, <2>4
    <3> QED
      BY <2>5, <3>1
  <2> QED
    BY <1>2, <2>8, <2>11, <2>12, <2>13 DEF TagInv
<1> QED
  BY <1>3, <1>4

(* The other steps leave the tags and where they went alone.               *)
LEMMA TagsQuiet ==
    ASSUME TagInv, IInv', UNCHANGED <<tagged, tags, pos, outTags, unforwarded, repeated>>
    PROVE  TagInv'
BY DEF TagInv, IInv, Typed

(* Every step keeps what is known about the tags.                          *)
LEMMA TagsInductive == IInv /\ IInv' /\ TagInv /\ [Next]_vars => TagInv'
<1> SUFFICES ASSUME IInv, IInv', TagInv, [Next]_vars PROVE TagInv'
  OBVIOUS
<1>1. CASE Upstream
  <2>1. ASSUME NEW t \in 0 .. Length - 1, PublishTag(t) PROVE TagInv'
    BY <2>1, PublishTagKeepsTags
  <2>2. ASSUME NEW e \in 0 .. Length, PublishEnd(e) PROVE TagInv'
    BY <2>2, TagsQuiet DEF PublishEnd, history
  <2>3. ASSUME NEW n \in 1 .. Length, PublishSamples(n) PROVE TagInv'
    BY <2>3, TagsQuiet DEF PublishSamples, history
  <2> QED
    BY <1>1, <2>1, <2>2, <2>3 DEF Upstream
<1>2. CASE Drain
  BY <1>2, TagsQuiet DEF Drain, input, history
<1>3. CASE RequestStop
  BY <1>3, TagsQuiet DEF RequestStop, input
<1>4. CASE FinishStop
  BY <1>4, TagsQuiet DEF FinishStop, input, history
<1>5. CASE LookAtSamples
  BY <1>5, TagsQuiet DEF LookAtSamples, input, history
<1>6. CASE \E requested \in {1, Unlimited} : LookAtTags(requested)
  BY <1>6, LookAtTagsKeepsTags
<1>7. CASE ProcessBulk
  BY <1>7, ProcessKeepsTags DEF ProcessBulk
<1>8. CASE UNCHANGED vars
  BY <1>8, TagsQuiet DEF vars, input, history
<1> QED
  BY <1>1, <1>2, <1>3, <1>4, <1>5, <1>6, <1>7, <1>8 DEF Next

(* However work() skips, breaks and repeats chunks, a tag that it has      *)
(* consumed is on the output or was consumed without output, and the tags  *)
(* on the output are in order and there once, but for those of samples     *)
(* that processBulk() published from without consuming them.               *)
THEOREM TagsPassOnce == Spec => []TagsForwardedOnce
<1>1. TagInv => TagsForwardedOnce
  BY DEF TagInv, TagsForwardedOnce
<1> QED
  BY InitIInv, Inductive, TagInvInit, TagsInductive, <1>1, PTL DEF Spec
=============================================================================
