--------------------------- MODULE ForwardProofs ---------------------------
(***************************************************************************)
(* The age of what the proxy relays and what its throttle lets through,    *)
(* for every number of callers, answers and calls, and every setting of    *)
(* its limits.                                                             *)
(***************************************************************************)
EXTENDS Forward, LibraryFacts

(* A call in flight is younger than the timeout, and its answer no older   *)
(* than the call.                                                          *)
CallOK(call) ==
    /\ call.since \in 0..clock /\ clock - call.since <= Timeout
    /\ call.answered = -1 \/ call.answered \in call.since..clock

(* A kept answer was at most the timeout old when it was kept.             *)
KeptOK(read, answer) ==
    /\ answer.at \in 0..clock /\ answer.answered \in 0..answer.at
    /\ answer.at - answer.answered <= Timeout

ForwardInv ==
    /\ clock \in Nat
    /\ DOMAIN fetches = Fetches
    /\ \A f \in Fetches : fetches[f] # NoFetch => CallOK(fetches[f])
    /\ \A read \in DOMAIN kept : KeptOK(read, kept[read])
    /\ AnswersAreFresh

LEMMA Limits ==
    /\ Timeout \in Nat /\ Timeout > 0
    /\ \A read : ttlMs(read) \in Nat
BY ForwardAssumption DEF ttlMs

LEMMA AgeOf ==
    ASSUME NEW read, NEW moment
    PROVE  Relayed(read, moment).read = read /\ Relayed(read, moment).age = clock - moment
BY DEF Relayed

LEMMA ForwardStep ==
    ASSUME ForwardInv, [ForwardNext]_forwardVars
    PROVE  ForwardInv'
<1> USE Limits
<1>1. CASE UNCHANGED forwardVars
  BY <1>1 DEF ForwardInv, forwardVars, CallOK, KeptOK, AnswersAreFresh
<1>2. ASSUME UNCHANGED <<clock, kept, fetches>>, served' = Nothing  PROVE ForwardInv'
  BY <1>2 DEF ForwardInv, CallOK, KeptOK, AnswersAreFresh
<1>3. ASSUME NEW ip \in Addresses, Refuse(ip)  PROVE ForwardInv'
  BY <1>2, <1>3 DEF Refuse
<1>4. ASSUME NEW ip \in Addresses, NEW read \in Reads, AnswerKept(ip, read)  PROVE ForwardInv'
  <2>1. /\ read \in DOMAIN kept /\ clock - kept[read].at < ttlMs(read)
        /\ served' = Relayed(read, kept[read].answered) /\ UNCHANGED <<clock, kept, fetches>>
    BY <1>4 DEF AnswerKept, Hit
  <2>2. KeptOK(read, kept[read]) /\ clock \in Nat  BY <2>1 DEF ForwardInv
  <2>3. served'.read = read /\ served'.age = clock - kept[read].answered  BY <2>1, AgeOf
  <2>4. served'.age < ttlMs(read) + Timeout  BY <2>1, <2>2, <2>3 DEF KeptOK
  <2>5. AnswersAreFresh'  BY <2>3, <2>4 DEF AnswersAreFresh
  <2>. QED  BY <2>1, <2>5 DEF ForwardInv, CallOK, KeptOK
<1>5. ASSUME NEW ip \in Addresses, NEW read \in Reads, NEW f \in Fetches, Fetch(ip, read, f)
      PROVE  ForwardInv'
  <2> DEFINE call == [read |-> read, since |-> clock, answered |-> -1]
  <2>1. fetches' = [fetches EXCEPT ![f] = call] /\ UNCHANGED <<clock, kept>> /\ served' = Nothing
    BY <1>5 DEF Fetch
  <2>2. CallOK(call)  BY DEF CallOK, ForwardInv
  <2>. QED  BY <2>1, <2>2 DEF ForwardInv, CallOK, KeptOK, AnswersAreFresh
<1>6. ASSUME NEW f \in Fetches, Upstream(f)  PROVE ForwardInv'
  <2> DEFINE call == [fetches[f] EXCEPT !.answered = clock]
  <2>1. /\ fetches[f] # NoFetch /\ fetches' = [fetches EXCEPT ![f] = call]
        /\ UNCHANGED <<clock, kept>> /\ served' = Nothing
    BY <1>6 DEF Upstream
  <2>. QED  BY <2>1 DEF ForwardInv, CallOK, KeptOK, AnswersAreFresh
<1>7. ASSUME NEW f \in Fetches, Return(f)  PROVE ForwardInv'
  <2> DEFINE call == fetches[f]
  <2>1. /\ call.answered # -1 /\ fetches' = [fetches EXCEPT ![f] = NoFetch]
        /\ served' = Relayed(call.read, call.answered) /\ clock' = clock
        /\ kept' = IF ttlMs(call.read) = 0 THEN kept ELSE Remembered(call.read, call.answered)
    BY <1>7 DEF Return
  <2>2. call # NoFetch /\ CallOK(call)  BY <2>1 DEF NoFetch, ForwardInv
  <2>3. /\ clock \in Nat /\ call.answered \in 0..clock /\ clock - call.answered <= Timeout
    BY <2>1, <2>2 DEF CallOK, ForwardInv
  <2> HIDE DEF call
  <2>4. served'.age <= Timeout  BY <2>1, <2>3, AgeOf
  <2>5. \A read \in DOMAIN kept' : KeptOK(read, kept'[read])
    <3> DEFINE answer == [at |-> clock, answered |-> call.answered]
               longer == With(kept, call.read, answer)
    <3>1. KeptOK(call.read, answer)  BY <2>3 DEF KeptOK
    <3>2. \A read \in DOMAIN longer : longer[read] = answer \/ (read \in DOMAIN kept /\ longer[read] = kept[read])
      BY DEF With
    <3>3. \A read \in DOMAIN longer : KeptOK(read, longer[read])
      BY <3>1, <3>2 DEF ForwardInv, KeptOK
    <3>4. kept' \in {kept, longer, <<>>}  BY <2>1 DEF Remembered
    <3>. QED  BY <3>3, <3>4 DEF ForwardInv
  <2>. QED  BY <2>1, <2>4, <2>5 DEF ForwardInv, CallOK, KeptOK, AnswersAreFresh
<1>8. ASSUME NEW f \in Fetches, Unreachable(f)  PROVE ForwardInv'
  <2>1. fetches' = [fetches EXCEPT ![f] = NoFetch] /\ UNCHANGED <<clock, kept>> /\ served' = Nothing
    BY <1>8 DEF Unreachable
  <2>. QED  BY <2>1 DEF ForwardInv, CallOK, KeptOK, AnswersAreFresh
<1>9. CASE Tick
  <2>1. /\ clock' = clock + 1 /\ UNCHANGED <<kept, fetches>> /\ served' = Nothing
        /\ \A f \in Fetches : fetches[f] # NoFetch => clock - fetches[f].since < Timeout
    BY <1>9 DEF Tick
  <2>. QED  BY <2>1 DEF ForwardInv, CallOK, KeptOK, AnswersAreFresh
<1>. QED  BY <1>1, <1>3, <1>4, <1>5, <1>6, <1>7, <1>8, <1>9 DEF ForwardNext

(* However calls for an answer overlap and in whatever order they come     *)
(* back, nothing is relayed that the enclave said longer ago than the time *)
(* an answer is kept and the timeout together.                             *)
THEOREM Fresh == ForwardSpec => []AnswersAreFresh
<1>1. ForwardInit => ForwardInv
  BY DEF ForwardInit, ForwardInv, AnswersAreFresh
<1>2. ForwardInv /\ [ForwardNext]_forwardVars => ForwardInv'
  BY ForwardStep
<1>3. ForwardInv => AnswersAreFresh
  BY DEF ForwardInv
<1>. QED  BY <1>1, <1>2, <1>3, PTL DEF ForwardSpec

-----------------------------------------------------------------------------
(***************************************************************************)
(* The throttle.  A bucket counts at least what got through since its      *)
(* window began; what got through before that, in the last window, came    *)
(* through the bucket before it.  A bucket is dropped, by a restart or by  *)
(* a sweep, only when nothing from before it can count any more.           *)
(***************************************************************************)
Times == 0..MaxTime

(* Requests let through at the times in S.                                 *)
Passed(acc, S) == SumFunctionOnSet(acc, S)

InWindow(acc, now) ==
    /\ acc \in [Times -> Nat]
    /\ \A t \in Times : acc[t] # 0 => t <= now /\ now - t <= Window

Counts(acc, b, now) ==
    /\ b \in [start : 0..now, n : Nat]
    /\ Passed(acc, b.start..MaxTime) <= b.n
    /\ Passed(acc, b.start..MaxTime) <= PerWindow
    /\ Passed(acc, 0..(b.start - 1)) <= PerWindow
    /\ \A t \in Times : acc[t] # 0 => t <= b.start + Window

(* Of a caller without a bucket, or with one whose window is over.         *)
CountsAnew(acc, now) == Passed(acc, Times) <= PerWindow /\ acc[now] = 0

AllowanceInv ==
    /\ clock \in Times
    /\ DOMAIN accepted = Addresses
    /\ \A ip \in Addresses :
          /\ InWindow(accepted[ip], clock)
          /\ IF ip \in DOMAIN buckets THEN Counts(accepted[ip], buckets[ip], clock)
                                       ELSE CountsAnew(accepted[ip], clock)

LEMMA PassedIsNat ==
    ASSUME NEW acc \in [Times -> Nat], NEW S \in SUBSET Times
    PROVE  IsFiniteSet(S) /\ Passed(acc, S) \in Nat
<1>1. IsFiniteSet(Times)  BY FS_Interval, ForwardAssumption DEF Times
<1>2. IsFiniteSet(S)  BY <1>1, FS_Subset
<1>. QED  BY <1>2, SumIsNat DEF Passed

(* A bucket's window splits time in two.                                   *)
LEMMA PassedSplits ==
    ASSUME NEW acc \in [Times -> Nat], NEW start \in Times
    PROVE  /\ 0..(start - 1) \in SUBSET Times /\ start..MaxTime \in SUBSET Times
           /\ Passed(acc, Times) = Passed(acc, 0..(start - 1)) + Passed(acc, start..MaxTime)
<1>1. MaxTime \in Nat /\ start \in 0..MaxTime  BY ForwardAssumption DEF Times
<1> DEFINE S == 0..(start - 1)
           R == start..MaxTime
<1>2. S \in SUBSET Times /\ R \in SUBSET Times /\ S \cap R = {} /\ S \cup R = Times
  BY <1>1 DEF Times
<1> HIDE DEF S, R
<1>3. IsFiniteSet(S) /\ IsFiniteSet(R)  BY <1>2, PassedIsNat
<1>4. Passed(acc, S \cup R) = Passed(acc, S) + Passed(acc, R)
  BY <1>2, <1>3, SumUnion DEF Passed
<1>. QED  BY <1>2, <1>4 DEF S, R

LEMMA NothingPassed ==
    ASSUME NEW acc \in [Times -> Nat], NEW S \in SUBSET Times, \A t \in S : acc[t] = 0
    PROVE  Passed(acc, S) = 0
BY PassedIsNat, SumOfZeros DEF Passed

LEMMA FewerPassed ==
    ASSUME NEW acc \in [Times -> Nat], NEW old \in [Times -> Nat], NEW S \in SUBSET Times,
           \A t \in S : acc[t] <= old[t]
    PROVE  /\ Passed(acc, S) <= Passed(old, S)
           /\ Passed(acc, S) \in Nat /\ Passed(old, S) \in Nat
BY PassedIsNat, SumMonotone DEF Passed

OneMore(acc, now) == [acc EXCEPT ![now] = @ + 1]

LEMMA OneMorePassed ==
    ASSUME NEW acc \in [Times -> Nat], NEW now \in Times, NEW S \in SUBSET Times
    PROVE  Passed(OneMore(acc, now), S) = Passed(acc, S) + (IF now \in S THEN 1 ELSE 0)
BY PassedIsNat, SumOneMore DEF Passed, OneMore

-----------------------------------------------------------------------------
(* In any window at most twice the allowance has passed.                   *)
LEMMA TwiceAtMost ==
    ASSUME NEW now \in Times, NEW acc, InWindow(acc, now),
           CountsAnew(acc, now) \/ \E b : Counts(acc, b, now)
    PROVE  Passed(acc, Times) <= 2 * PerWindow
<1>1. acc \in [Times -> Nat] /\ PerWindow \in Nat  BY ForwardAssumption DEF InWindow
<1>2. Passed(acc, Times) \in Nat  BY <1>1, PassedIsNat
<1>3. CASE CountsAnew(acc, now)  BY <1>1, <1>2, <1>3 DEF CountsAnew
<1>4. ASSUME NEW b, Counts(acc, b, now)  PROVE Passed(acc, Times) <= 2 * PerWindow
  <2> DEFINE start == b.start
  <2>1. start \in Times  BY <1>4, ForwardAssumption DEF Counts, Times
  <2>2. Passed(acc, start..MaxTime) <= PerWindow /\ Passed(acc, 0..(start - 1)) <= PerWindow
    BY <1>4 DEF Counts
  <2> HIDE DEF start
  <2>3. /\ Passed(acc, Times) = Passed(acc, 0..(start - 1)) + Passed(acc, start..MaxTime)
        /\ 0..(start - 1) \in SUBSET Times /\ start..MaxTime \in SUBSET Times
    BY <1>1, <2>1, PassedSplits
  <2>4. Passed(acc, start..MaxTime) \in Nat /\ Passed(acc, 0..(start - 1)) \in Nat
    BY <1>1, <2>3, PassedIsNat
  <2>. QED  BY <1>1, <2>2, <2>3, <2>4
<1>. QED  BY <1>3, <1>4

(* A bucket whose window is over can be dropped.                           *)
LEMMA OverCountsAnew ==
    ASSUME NEW now \in Times, NEW acc, InWindow(acc, now), NEW b, Counts(acc, b, now),
           now - b.start > Window
    PROVE  CountsAnew(acc, now)
<1> DEFINE start == b.start
<1>1. start \in Times /\ start \in Nat /\ now \in Nat /\ Window \in Nat
  BY ForwardAssumption DEF Counts, Times
<1>2. acc \in [Times -> Nat]  BY DEF InWindow
<1>3. now - start > Window /\ Passed(acc, start..MaxTime) <= PerWindow
      /\ \A t \in Times : acc[t] # 0 => t <= start + Window
  BY DEF Counts
<1> HIDE DEF start
<1>4. acc[now] = 0  BY <1>1, <1>3
<1>5. /\ Passed(acc, Times) = Passed(acc, 0..(start - 1)) + Passed(acc, start..MaxTime)
      /\ 0..(start - 1) \in SUBSET Times /\ start..MaxTime \in SUBSET Times
  BY <1>1, <1>2, PassedSplits
<1>6. \A t \in 0..(start - 1) : acc[t] = 0
  <2>1. ASSUME NEW t \in 0..(start - 1), acc[t] # 0  PROVE FALSE
    <3>1. t \in Times /\ now - t <= Window  BY <1>5, <2>1 DEF InWindow
    <3>. QED  BY <1>1, <1>3, <2>1, <3>1
  <2>. QED  BY <2>1
<1>7. Passed(acc, 0..(start - 1)) = 0  BY <1>2, <1>5, <1>6, NothingPassed
<1>8. Passed(acc, start..MaxTime) \in Nat  BY <1>2, <1>5, PassedIsNat
<1>. QED  BY <1>3, <1>4, <1>5, <1>7, <1>8 DEF CountsAnew

(* A request opens a bucket, and may be the first one through.             *)
LEMMA BucketOpens ==
    ASSUME NEW now \in Times, NEW acc, InWindow(acc, now), CountsAnew(acc, now)
    PROVE  LET b == [start |-> now, n |-> 1]
           IN  /\ Counts(acc, b, now)
               /\ 1 <= PerWindow => Counts(OneMore(acc, now), b, now)
<1> DEFINE S == now..MaxTime
           R == 0..(now - 1)
           more == OneMore(acc, now)
<1>1. /\ acc \in [Times -> Nat] /\ acc[now] = 0 /\ now \in Nat /\ now <= MaxTime
      /\ PerWindow \in Nat /\ Window \in Nat /\ MaxTime \in Nat
  BY ForwardAssumption DEF InWindow, CountsAnew, Times
<1>2. /\ Passed(acc, Times) = Passed(acc, R) + Passed(acc, S)
      /\ R \in SUBSET Times /\ S \in SUBSET Times
  BY <1>1, PassedSplits
<1>3. /\ now \in S /\ now \notin R
      /\ \A t \in S : t >= now
  BY <1>1
<1> HIDE DEF S, R
<1>4. Passed(acc, R) \in Nat /\ Passed(acc, S) \in Nat /\ Passed(acc, Times) <= PerWindow
  BY <1>1, <1>2, PassedIsNat DEF CountsAnew
<1>5. \A t \in Times : acc[t] # 0 => t <= now  BY DEF InWindow
<1>6. Passed(acc, S) = 0
  <2>1. \A t \in S : acc[t] = 0
    <3>1. \A t \in S : t \in Int  BY <1>2 DEF Times
    <3>. QED  BY <1>1, <1>2, <1>3, <1>5, <3>1
  <2>. QED  BY <1>1, <1>2, <2>1, NothingPassed
<1>7. Passed(more, S) = Passed(acc, S) + 1 /\ Passed(more, R) = Passed(acc, R) + 0
  BY <1>1, <1>2, <1>3, OneMorePassed
<1>8. \A t \in Times : more[t] # 0 => t <= now
  BY <1>1, <1>5 DEF OneMore
<1> HIDE DEF more
<1>9. \A t \in Times : t <= now => t <= now + Window  BY <1>1 DEF Times
<1>10. [start |-> now, n |-> 1] \in [start : 0..now, n : Nat]  BY <1>1
<1> DEFINE b == [start |-> now, n |-> 1]
<1>11. b.start = now /\ b.n = 1 /\ b \in [start : 0..now, n : Nat]  BY <1>10
<1> HIDE DEF b
<1>12. Counts(acc, b, now)
  BY <1>1, <1>2, <1>4, <1>5, <1>6, <1>9, <1>11 DEF Counts, S, R
<1>13. ASSUME 1 <= PerWindow  PROVE Counts(more, b, now)
  <2>1. Passed(more, S) = 1 /\ Passed(more, R) <= PerWindow
    BY <1>2, <1>4, <1>6, <1>7
  <2>. QED  BY <1>8, <1>9, <1>11, <1>13, <2>1 DEF Counts, S, R
<1>. QED  BY <1>12, <1>13 DEF b, more

(* A request is counted by the bucket it finds, and may get through.       *)
LEMMA BucketCounts ==
    ASSUME NEW now \in Times, NEW acc, InWindow(acc, now), NEW b, Counts(acc, b, now),
           ~(now - b.start > Window)
    PROVE  LET c == [b EXCEPT !.n = IF @ > PerWindow THEN @ ELSE @ + 1]
           IN  /\ Counts(acc, c, now)
               /\ ~(c.n > PerWindow) => Counts(OneMore(acc, now), c, now)
<1> DEFINE start == b.start
           n == b.n
           m == IF n > PerWindow THEN n ELSE n + 1
           c == [b EXCEPT !.n = IF @ > PerWindow THEN @ ELSE @ + 1]
           S == start..MaxTime
           R == 0..(start - 1)
           more == OneMore(acc, now)
<1>1. /\ b \in [start : 0..now, n : Nat] /\ start \in Times /\ n \in Nat /\ start \in Nat
      /\ acc \in [Times -> Nat] /\ now \in Nat /\ now <= MaxTime /\ start <= now
      /\ PerWindow \in Nat /\ Window \in Nat /\ MaxTime \in Nat /\ ~(now - start > Window)
  BY ForwardAssumption DEF InWindow, Counts, Times
<1>2. c = [start |-> start, n |-> m] /\ c.start = start /\ c.n = m /\ m \in Nat /\ n <= m
      /\ c \in [start : 0..now, n : Nat]
  BY <1>1
<1>3. /\ Passed(acc, S) <= n /\ Passed(acc, S) <= PerWindow /\ Passed(acc, R) <= PerWindow
      /\ \A t \in Times : acc[t] # 0 => t <= start + Window
  BY DEF Counts
<1>4. R \in SUBSET Times /\ S \in SUBSET Times /\ now \in S /\ now \notin R
  <2>1. R \in SUBSET Times /\ S \in SUBSET Times  BY <1>1, PassedSplits
  <2>. QED  BY <1>1, <2>1
<1>5. ~(m > PerWindow) => m = n + 1 /\ n + 1 <= PerWindow  BY <1>1
<1>6. more[now] = acc[now] + 1 /\ \A t \in Times : t # now => more[t] = acc[t]
  BY <1>1 DEF OneMore
<1> HIDE DEF start, n, m, c, S, R, more
<1>7. Passed(acc, R) \in Nat /\ Passed(acc, S) \in Nat
  BY <1>1, <1>4, PassedIsNat
<1>8. Passed(more, S) = Passed(acc, S) + 1 /\ Passed(more, R) = Passed(acc, R) + 0
  BY <1>1, <1>4, OneMorePassed DEF more
<1>9. Counts(acc, c, now)
  <2>1. Passed(acc, S) <= m  BY <1>1, <1>2, <1>3, <1>7
  <2>. QED  BY <1>2, <1>3, <2>1 DEF Counts, S, R
<1>10. ASSUME ~(c.n > PerWindow)  PROVE Counts(more, c, now)
  <2>1. /\ Passed(more, S) <= m /\ Passed(more, S) <= PerWindow /\ Passed(more, R) <= PerWindow
    BY <1>1, <1>2, <1>3, <1>5, <1>7, <1>8, <1>10
  <2>2. now <= start + Window  BY <1>1
  <2>3. \A t \in Times : more[t] # 0 => t <= start + Window
    BY <1>3, <1>6, <2>2
  <2>. QED  BY <1>2, <2>1, <2>3 DEF Counts, S, R
<1>. QED  BY <1>9, <1>10 DEF c, more

(* As time goes on, what leaves the window is forgotten.                   *)
Later(acc, now) == [t \in Times |-> IF now - t <= Window THEN acc[t] ELSE 0]

LEMMA TimePasses ==
    ASSUME NEW now \in Times, now + 1 \in Times, NEW acc, InWindow(acc, now)
    PROVE  LET new == Later(acc, now + 1)
           IN  /\ InWindow(new, now + 1)
               /\ CountsAnew(acc, now) => CountsAnew(new, now + 1)
               /\ \A b : Counts(acc, b, now) => Counts(new, b, now + 1)
<1> DEFINE new == Later(acc, now + 1)
<1>1. /\ acc \in [Times -> Nat] /\ now \in Nat /\ MaxTime \in Nat /\ PerWindow \in Nat
      /\ \A t \in Times : t \in Nat /\ (acc[t] # 0 => t <= now)
  BY ForwardAssumption DEF InWindow, Times
<1>2. new \in [Times -> Nat] /\ \A t \in Times : new[t] <= acc[t]
  BY <1>1 DEF Later
<1>3. \A t \in Times : new[t] # 0 => acc[t] # 0 /\ now + 1 - t <= Window
  BY <1>1 DEF Later
<1> HIDE DEF new
<1>4. InWindow(new, now + 1)
  <2>1. \A t \in Times : t <= now => t <= now + 1  BY <1>1
  <2>. QED  BY <1>1, <1>2, <1>3, <2>1 DEF InWindow
<1>5. \A S \in SUBSET Times : /\ Passed(new, S) <= Passed(acc, S)
                               /\ Passed(new, S) \in Nat /\ Passed(acc, S) \in Nat
  BY <1>1, <1>2, FewerPassed
<1>6. ASSUME CountsAnew(acc, now)  PROVE CountsAnew(new, now + 1)
  <2>1. acc[now + 1] = 0
    <3>1. ~(now + 1 <= now)  BY <1>1
    <3>. QED  BY <1>1, <3>1
  <2>2. new[now + 1] = 0  BY <1>3, <2>1
  <2>3. Passed(new, Times) <= PerWindow
    <3>1. Passed(acc, Times) <= PerWindow  BY <1>6 DEF CountsAnew
    <3>2. /\ Passed(new, Times) <= Passed(acc, Times)
          /\ Passed(new, Times) \in Nat /\ Passed(acc, Times) \in Nat
      BY <1>5
    <3>. QED  BY <1>1, <3>1, <3>2
  <2>. QED  BY <2>2, <2>3 DEF CountsAnew
<1>7. ASSUME NEW b, Counts(acc, b, now)  PROVE Counts(new, b, now + 1)
  <2> DEFINE start == b.start
             S == start..MaxTime
             R == 0..(start - 1)
  <2>1. start \in Times /\ b \in [start : 0..(now + 1), n : Nat] /\ b.n \in Nat
    BY <1>1, <1>7 DEF Counts, Times
  <2>2. R \in SUBSET Times /\ S \in SUBSET Times  BY <1>1, <2>1, PassedSplits
  <2>3. /\ Passed(acc, S) <= b.n /\ Passed(acc, S) <= PerWindow /\ Passed(acc, R) <= PerWindow
        /\ \A t \in Times : acc[t] # 0 => t <= start + Window
    BY <1>7 DEF Counts
  <2> HIDE DEF S, R, start
  <2>4. /\ Passed(new, S) <= Passed(acc, S) /\ Passed(new, S) \in Nat /\ Passed(acc, S) \in Nat
        /\ Passed(new, R) <= Passed(acc, R) /\ Passed(new, R) \in Nat /\ Passed(acc, R) \in Nat
    BY <1>5, <2>2
  <2>5. Passed(new, S) <= b.n /\ Passed(new, S) <= PerWindow /\ Passed(new, R) <= PerWindow
    BY <1>1, <2>1, <2>3, <2>4
  <2>6. \A t \in Times : new[t] # 0 => t <= start + Window  BY <1>3, <2>3
  <2>. QED  BY <2>1, <2>5, <2>6 DEF Counts, S, R, start
<1>. QED  BY <1>4, <1>6, <1>7 DEF new

-----------------------------------------------------------------------------
(* The caller's bucket after its request, refused or let through.          *)
LEMMA RequestCounted ==
    ASSUME AllowanceInv, NEW ip \in Addresses
    PROVE  /\ Counts(accepted[ip], Counted(ip), clock)
           /\ ~throttled(ip) => Counts(OneMore(accepted[ip], clock), Counted(ip), clock)
<1>1. clock \in Times /\ InWindow(accepted[ip], clock) /\ PerWindow \in Nat
  BY ForwardAssumption DEF AllowanceInv
<1>2. CASE ip \notin DOMAIN buckets \/ Elapsed(buckets[ip])
  <2>1. CountsAnew(accepted[ip], clock)
    BY <1>1, <1>2, OverCountsAnew DEF AllowanceInv, Elapsed
  <2>2. Counted(ip) = [start |-> clock, n |-> 1]  BY <1>2 DEF Counted
  <2>3. ~throttled(ip) => 1 <= PerWindow  BY <1>1, <2>2 DEF throttled
  <2>. QED  BY <1>1, <2>1, <2>2, <2>3, BucketOpens
<1>3. CASE ~(ip \notin DOMAIN buckets \/ Elapsed(buckets[ip]))
  <2>1. Counts(accepted[ip], buckets[ip], clock) /\ ~(clock - buckets[ip].start > Window)
    BY <1>3 DEF AllowanceInv, Elapsed
  <2>2. Counted(ip) = [buckets[ip] EXCEPT !.n = IF @ > PerWindow THEN @ ELSE @ + 1]
    BY <1>3 DEF Counted
  <2>. QED  BY <1>1, <2>1, <2>2, BucketCounts DEF throttled
<1>. QED  BY <1>2, <1>3

LEMMA AcceptKeeps ==
    ASSUME AllowanceInv, NEW ip \in Addresses, Accept(ip), clock' = clock
    PROVE  AllowanceInv'
<1> DEFINE more == OneMore(accepted[ip], clock)
           table == With(buckets, ip, Counted(ip))
<1>1. /\ ~throttled(ip) /\ buckets' = Swept(table)
      /\ accepted' = [accepted EXCEPT ![ip] = more]
      /\ clock \in Times /\ DOMAIN accepted = Addresses
  BY DEF Accept, AllowanceInv, OneMore
<1>2. Counts(more, Counted(ip), clock)  BY <1>1, RequestCounted
<1>3. InWindow(more, clock)
  <2>1. /\ accepted[ip] \in [Times -> Nat] /\ clock \in Nat /\ Window \in Nat
        /\ \A t \in Times : accepted[ip][t] # 0 => t <= clock /\ clock - t <= Window
    BY <1>1, ForwardAssumption DEF AllowanceInv, InWindow, Times
  <2>. QED  BY <1>1, <2>1 DEF InWindow, OneMore
<1> HIDE DEF more
<1>4. /\ DOMAIN accepted' = Addresses /\ accepted'[ip] = more
      /\ \A i \in Addresses : i # ip => accepted'[i] = accepted[i]
  BY <1>1
<1>5. \A i \in Addresses : InWindow(accepted'[i], clock)
  BY <1>3, <1>4 DEF AllowanceInv
<1>6. ASSUME NEW i \in Addresses
      PROVE  IF i \in DOMAIN table THEN Counts(accepted'[i], table[i], clock)
                                   ELSE CountsAnew(accepted'[i], clock)
  <2>1. CASE i = ip  BY <1>2, <1>4, <2>1 DEF With
  <2>2. CASE i # ip  BY <1>4, <2>2 DEF With, AllowanceInv
  <2>. QED  BY <2>1, <2>2
<1> HIDE DEF table
<1>7. ASSUME NEW i \in Addresses
      PROVE  IF i \in DOMAIN buckets' THEN Counts(accepted'[i], buckets'[i], clock)
                                      ELSE CountsAnew(accepted'[i], clock)
  <2>1. CASE Cardinality(DOMAIN table) > MaxBuckets
    <3>1. buckets' = [k \in {j \in DOMAIN table : ~Elapsed(table[j])} |-> table[k]]
      BY <1>1, <2>1 DEF Swept
    <3>2. CASE i \in DOMAIN table /\ Elapsed(table[i])
      <4>1. CountsAnew(accepted'[i], clock)
        BY <1>1, <1>5, <1>6, <3>2, OverCountsAnew DEF Elapsed
      <4>. QED  BY <3>1, <3>2, <4>1
    <3>3. CASE ~(i \in DOMAIN table /\ Elapsed(table[i]))
      BY <1>6, <3>1, <3>3
    <3>. QED  BY <3>2, <3>3
  <2>2. CASE ~(Cardinality(DOMAIN table) > MaxBuckets)
    BY <1>1, <1>6, <2>2 DEF Swept
  <2>. QED  BY <2>1, <2>2
<1>. QED  BY <1>1, <1>4, <1>5, <1>7 DEF AllowanceInv

LEMMA AllowanceStep ==
    ASSUME AllowanceInv, [ForwardNext]_forwardVars
    PROVE  AllowanceInv'
<1>1. CASE UNCHANGED <<clock, buckets, accepted>>
  BY <1>1 DEF AllowanceInv
<1>2. ASSUME NEW ip \in Addresses, Refuse(ip)  PROVE AllowanceInv'
  <2>1. buckets' = With(buckets, ip, Counted(ip)) /\ UNCHANGED <<clock, accepted>>
    BY <1>2 DEF Refuse
  <2>2. Counts(accepted[ip], Counted(ip), clock)  BY RequestCounted
  <2>3. \A i \in DOMAIN buckets' : buckets'[i] = IF i = ip THEN Counted(ip) ELSE buckets[i]
    BY <2>1 DEF With
  <2>4. DOMAIN buckets' = DOMAIN buckets \cup {ip}  BY <2>1 DEF With
  <2>. QED  BY <2>1, <2>2, <2>3, <2>4 DEF AllowanceInv
<1>3. ASSUME NEW ip \in Addresses, NEW read \in Reads, AnswerKept(ip, read)
      PROVE  AllowanceInv'
  BY <1>3, AcceptKeeps DEF AnswerKept
<1>4. ASSUME NEW ip \in Addresses, NEW read \in Reads, NEW f \in Fetches, Fetch(ip, read, f)
      PROVE  AllowanceInv'
  BY <1>4, AcceptKeeps DEF Fetch
<1>5. CASE Tick
  <2>1. /\ clock' = clock + 1 /\ UNCHANGED buckets /\ clock < MaxTime
        /\ accepted' = [ip \in Addresses |-> Later(accepted[ip], clock + 1)]
    BY <1>5 DEF Tick, Later, Times
  <2>2. clock \in Times /\ clock + 1 \in Times
    BY <2>1, ForwardAssumption DEF AllowanceInv, Times
  <2>3. ASSUME NEW ip \in Addresses
        PROVE  /\ InWindow(accepted'[ip], clock + 1)
               /\ IF ip \in DOMAIN buckets THEN Counts(accepted'[ip], buckets[ip], clock + 1)
                                            ELSE CountsAnew(accepted'[ip], clock + 1)
    <3>1. accepted'[ip] = Later(accepted[ip], clock + 1)  BY <2>1
    <3>2. InWindow(accepted[ip], clock)  BY DEF AllowanceInv
    <3>3. /\ InWindow(accepted'[ip], clock + 1)
          /\ CountsAnew(accepted[ip], clock) => CountsAnew(accepted'[ip], clock + 1)
          /\ \A b : Counts(accepted[ip], b, clock) => Counts(accepted'[ip], b, clock + 1)
      BY <2>2, <3>1, <3>2, TimePasses
    <3>. QED  BY <3>3 DEF AllowanceInv
  <2>. QED  BY <2>1, <2>2, <2>3 DEF AllowanceInv
<1>6. ASSUME NEW f \in Fetches, Upstream(f) \/ Return(f) \/ Unreachable(f)
      PROVE  AllowanceInv'
  BY <1>1, <1>6 DEF Upstream, Return, Unreachable
<1>. QED
  BY <1>1, <1>2, <1>3, <1>4, <1>5, <1>6 DEF ForwardNext, forwardVars

(* One address gets at most twice its allowance through in any window,     *)
(* however its requests fall and whenever the table of buckets is swept.   *)
THEOREM Allowance == ForwardSpec => []AllowanceHolds
<1>1. ForwardInit => AllowanceInv
  <2> SUFFICES ASSUME ForwardInit PROVE AllowanceInv  OBVIOUS
  <2>1. /\ clock = 0 /\ buckets = <<>> /\ MaxTime \in Nat /\ PerWindow \in Nat /\ 0 \in Times
        /\ accepted = [ip \in Addresses |-> [t \in Times |-> 0]]
    BY ForwardAssumption DEF ForwardInit, Times
  <2> DEFINE acc == [t \in Times |-> 0]
  <2>2. acc \in [Times -> Nat] /\ \A t \in Times : acc[t] = 0  OBVIOUS
  <2> HIDE DEF acc
  <2>3. Passed(acc, Times) = 0  BY <2>2, NothingPassed
  <2>4. InWindow(acc, 0) /\ CountsAnew(acc, 0)
    BY <2>1, <2>2, <2>3 DEF InWindow, CountsAnew
  <2>5. \A ip \in Addresses : accepted[ip] = acc /\ ip \notin DOMAIN buckets
    BY <2>1 DEF acc
  <2>. QED  BY <2>1, <2>4, <2>5 DEF AllowanceInv
<1>2. AllowanceInv /\ [ForwardNext]_forwardVars => AllowanceInv'
  BY AllowanceStep
<1>3. AllowanceInv => AllowanceHolds
  <2>1. ASSUME AllowanceInv, NEW ip \in Addresses
        PROVE  Passed(accepted[ip], Times) <= 2 * PerWindow
    BY <2>1, TwiceAtMost DEF AllowanceInv
  <2>. QED  BY <2>1 DEF AllowanceHolds, Passed, Times
<1>. QED  BY <1>1, <1>2, <1>3, PTL DEF ForwardSpec
=============================================================================
