------------------------- MODULE RouterLimitsProofs -------------------------
(***************************************************************************)
(* Theorems about RouterLimits, for every set of senders, all amounts and  *)
(* every length of the window: the packed record of a sender is exact, no  *)
(* 24 hours hold more than two full windows, and no slot is taken beyond   *)
(* the rate cap.                                                           *)
(*                                                                         *)
(* Most of it is about one sender: a record `r` fits the amounts `s` that  *)
(* the sender routed at each time, at time `t`.  The lemmas say that this  *)
(* outlives rolling the window, a payment, and the next ledger; the        *)
(* actions then only differ in which senders they let do what.             *)
(***************************************************************************)
EXTENDS RouterLimits, SumTheorems

Times == 0..MaxTime
Amounts == [Times -> Nat]

\* What is routed at the times of `span`.
Within(s, span) == SumFunctionOnSet(s, span \cap Times)

\* The window of `r` holds what was routed since it opened, the stretch of a
\* day before it at most one full window, and any day at most two.
Fits(t, r, s) ==
    /\ r.reset \in 0..t
    /\ r.spent \in 0..DailyMax
    /\ \A x \in Times : x > t => s[x] = 0
    /\ t >= r.reset + Day => s[t] = 0
    /\ Within(s, r.reset..t) = r.spent
    /\ \A x \in Times : x < r.reset /\ r.reset <= x + Day
                            => Within(s, x..(r.reset - 1)) <= DailyMax
    /\ \A x \in Times : Within(s, x..(x + Day - 1)) <= 2 * DailyMax

-----------------------------------------------------------------------------
(* Sums of amounts over stretches of time.                                 *)

LEMMA TimesAreFinite ==
    ASSUME LimitsAssumption, NEW span
    PROVE  IsFiniteSet(span \cap Times) /\ span \cap Times \subseteq Times
  <1>1. IsFiniteSet(Times) /\ span \cap Times \subseteq Times
    BY FS_Interval DEF Times, LimitsAssumption
  <1> QED BY <1>1, FS_Subset

LEMMA WithinIsNatural ==
    ASSUME LimitsAssumption, NEW s \in Amounts, NEW span
    PROVE  Within(s, span) \in Nat
  <1>1. \A x \in span \cap Times : s[x] \in Nat
    BY DEF Amounts
  <1> QED BY <1>1, TimesAreFinite, SumIsNatural DEF Within

LEMMA WithinSplit ==
    ASSUME LimitsAssumption, NEW s \in Amounts, NEW A, NEW B, A \cap B = {}
    PROVE  Within(s, A \cup B) = Within(s, A) + Within(s, B)
  <1> DEFINE S == (A \cup B) \cap Times
             R == A \cap Times
  <1>1. S \ R = B \cap Times /\ R \in SUBSET S
    OBVIOUS
  <1>2. \A x \in S : s[x] \in Int
    BY DEF Amounts
  <1>3. IsFiniteSet(S)
    BY TimesAreFinite
  <1> HIDE DEF S, R
  <1>4. SumFunctionOnSet(s, S) = SumFunctionOnSet(s, R) + SumFunctionOnSet(s, S \ R)
    BY <1>1, <1>2, <1>3, SumSplit
  <1> QED BY <1>1, <1>4 DEF Within, S, R

\* A part of a stretch holds no more than the stretch.
LEMMA WithinPart ==
    ASSUME LimitsAssumption, NEW s \in Amounts, NEW A, NEW B, A \cap Times \subseteq B
    PROVE  Within(s, A) <= Within(s, B)
  <1>1. Within(s, A \cup (B \ A)) = Within(s, A) + Within(s, B \ A)
    BY WithinSplit
  <1>2. (A \cup (B \ A)) \cap Times = B \cap Times
    OBVIOUS
  <1>3. Within(s, A \cup (B \ A)) = Within(s, B)
    BY <1>2 DEF Within
  <1> QED BY <1>1, <1>3, WithinIsNatural

LEMMA WithinSame ==
    ASSUME LimitsAssumption, NEW s \in Amounts, NEW u \in Amounts, NEW span,
           \A x \in span \cap Times : u[x] = s[x]
    PROVE  Within(u, span) = Within(s, span)
  <1>1. \A x \in span \cap Times : s[x] \in Int /\ u[x] = s[x]
    BY DEF Amounts
  <1> QED BY <1>1, TimesAreFinite, SumCongruence DEF Within

LEMMA WithinNothing ==
    ASSUME LimitsAssumption, NEW s \in Amounts, NEW span,
           \A x \in span \cap Times : s[x] = 0
    PROVE  Within(s, span) = 0
  BY TimesAreFinite, SumOfZeros DEF Within

\* All of a stretch at one time.
LEMMA WithinChange ==
    ASSUME LimitsAssumption, NEW s \in Amounts, NEW u \in Amounts, NEW span,
           NEW t \in span \cap Times,
           \A x \in span \cap Times : x # t => u[x] = s[x]
    PROVE  Within(u, span) = Within(s, span) - s[t] + u[t]
  <1>1. \A x \in span \cap Times : s[x] \in Int
    BY DEF Amounts
  <1>2. u[t] \in Int
    BY DEF Amounts
  <1> DEFINE S == span \cap Times
  <1>3. IsFiniteSet(S) /\ t \in S
    BY TimesAreFinite
  <1>4. (\A x \in S : s[x] \in Int) /\ (\A x \in S : x # t => u[x] = s[x])
    BY <1>1
  <1> HIDE DEF S
  <1>5. SumFunctionOnSet(u, S) = SumFunctionOnSet(s, S) - s[t] + u[t]
    BY <1>2, <1>3, <1>4, SumUpdate
  <1> QED BY <1>5 DEF Within, S

-----------------------------------------------------------------------------
(* One sender.                                                             *)

\* A record without payments behind it but those of one time.
LEMMA FitsFirst ==
    ASSUME LimitsAssumption, NEW t \in Times, NEW r, NEW s \in Amounts,
           r.reset \in 0..t, r.spent \in 0..DailyMax,
           s[r.reset] = r.spent,
           \A x \in Times : x # r.reset => s[x] = 0
    PROVE  Fits(t, r, s)
  <1> DEFINE z == [x \in Times |-> 0]
  <1>0. /\ MaxTime \in Nat /\ Day \in Nat \ {0} /\ DailyMax \in Nat /\ r.reset \in Times
        /\ z \in Amounts
    BY DEF LimitsAssumption, Times, Amounts
  <1>1. ASSUME NEW span, r.reset \in span
        PROVE  Within(s, span) = r.spent
    <2>1. Within(z, span) = 0
      BY <1>0, WithinNothing
    <2>2. Within(s, span) = Within(z, span) - z[r.reset] + s[r.reset]
      <3> HIDE DEF z
      <3>1. \A x \in span \cap Times : x # r.reset => s[x] = z[x]
        BY DEF z
      <3> QED BY <1>0, <1>1, <3>1, WithinChange
    <2> QED BY <1>0, <2>1, <2>2
  <1>2. ASSUME NEW span, r.reset \notin span
        PROVE  Within(s, span) = 0
    BY <1>2, WithinNothing
  <1>3. \A x \in Times : x > t => s[x] = 0
    BY <1>0 DEF Times
  <1>4. t >= r.reset + Day => s[t] = 0
    BY <1>0 DEF Times
  <1>5. Within(s, r.reset..t) = r.spent
    BY <1>0, <1>1 DEF Times
  <1>6. \A x \in Times : x < r.reset => Within(s, x..(r.reset - 1)) <= DailyMax
    <2> TAKE x \in Times
    <2>1. r.reset \notin x..(r.reset - 1)
      BY <1>0 DEF Times
    <2>2. Within(s, x..(r.reset - 1)) = 0
      BY <1>2, <2>1
    <2> QED BY <1>0, <2>2
  <1>7. \A x \in Times : Within(s, x..(x + Day - 1)) <= 2 * DailyMax
    <2> TAKE x \in Times
    <2>1. Within(s, x..(x + Day - 1)) \in {0, r.spent}
      BY <1>1, <1>2
    <2> QED BY <1>0, <2>1
  <1> QED BY <1>3, <1>4, <1>5, <1>6, <1>7 DEF Fits

\* Nothing routed at all.
LEMMA FitsNone ==
    ASSUME LimitsAssumption, NEW t \in Times, NEW r, NEW s \in Amounts,
           r.reset = t, r.spent = 0, \A x \in Times : s[x] = 0
    PROVE  Fits(t, r, s)
  <1>1. r.reset \in 0..t /\ r.spent \in 0..DailyMax
    BY DEF Times, LimitsAssumption
  <1> QED BY <1>1, FitsFirst

\* The next ledger.
LEMMA FitsLater ==
    ASSUME LimitsAssumption, NEW t \in Times, t + 1 \in Times, NEW r, NEW s \in Amounts,
           Fits(t, r, s)
    PROVE  Fits(t + 1, r, s)
  <1>0. MaxTime \in Nat /\ t \in Nat /\ s[t + 1] = 0 /\ r.reset \in 0..(t + 1)
    BY SMTT(30) DEF Fits, LimitsAssumption, Times
  <1>1. Within(s, r.reset..(t + 1)) = r.spent
    <2>1. /\ r.reset..(t + 1) = (r.reset..t) \cup {t + 1}
          /\ (r.reset..t) \cap {t + 1} = {}
      BY <1>0, SMTT(30) DEF Fits
    <2>2. Within(s, {t + 1}) = 0
      BY <1>0, WithinNothing
    <2>3. Within(s, (r.reset..t) \cup {t + 1}) = Within(s, r.reset..t) + Within(s, {t + 1})
      BY <2>1, WithinSplit
    <2>4. Within(s, r.reset..t) \in Nat /\ Within(s, r.reset..t) = r.spent
      BY WithinIsNatural DEF Fits
    <2>5. Within(s, r.reset..(t + 1)) = Within(s, r.reset..t) + 0
      BY <2>1, <2>2, <2>3
    <2> QED BY <2>4, <2>5
  <1>2. \A x \in Times : x > t + 1 => s[x] = 0
    BY <1>0 DEF Fits, Times
  <1> QED BY <1>0, <1>1, <1>2 DEF Fits

\* A window of a day or more is closed, and the one that opens holds nothing.
LEMMA FitsRolled ==
    ASSUME LimitsAssumption, LimitsTypeOK, NEW r \in Record, NEW s \in Amounts,
           Fits(now, r, s)
    PROVE  /\ roll_window(r) \in Record
           /\ Fits(now, roll_window(r), s)
           /\ now < roll_window(r).reset + Day
           /\ roll_window(r).volume = r.volume
  <1>0. /\ now \in Nat /\ Day \in Nat \ {0} /\ DailyMax \in Nat /\ r.reset \in Nat
        /\ r.spent \in Nat /\ r.reset <= now /\ now \in Times /\ MaxTime \in Nat
    BY DEF LimitsTypeOK, LimitsAssumption, Record, Times, Fits
  <1>1. CASE now - r.reset < Day
    BY <1>0, <1>1 DEF roll_window
  <1>2. CASE now - r.reset >= Day
    <2> DEFINE q == [r EXCEPT !.reset = now, !.spent = 0]
    <2>1. roll_window(r) = q /\ q \in Record /\ q.reset = now /\ q.spent = 0 /\ q.volume = r.volume
      BY <1>0, <1>2 DEF roll_window, Record
    <2>2. s[now] = 0
      BY <1>0, <1>2 DEF Fits
    <2>3. Within(s, now..now) = 0
      BY <1>0, <2>2, WithinNothing DEF Times
    <2>4. ASSUME NEW x \in Times, now <= x + Day
          PROVE  Within(s, x..(now - 1)) <= DailyMax
      <3>1. x..(now - 1) \subseteq r.reset..now
        BY <1>0, <1>2, <2>4 DEF Times
      <3>2. Within(s, x..(now - 1)) <= Within(s, r.reset..now)
        BY <3>1, WithinPart
      <3> QED BY <1>0, <3>2, WithinIsNatural DEF Fits
    <2>5. now \in 0..now /\ 0 \in 0..DailyMax
      BY <1>0
    <2> HIDE DEF q
    <2>6. Fits(now, q, s)
      BY <2>1, <2>2, <2>3, <2>4, <2>5 DEF Fits
    <2> QED BY <1>0, <2>1, <2>6
  <1> QED BY <1>0, <1>1, <1>2

\* A payment now, into a window that is open.
LEMMA FitsMore ==
    ASSUME LimitsAssumption, LimitsTypeOK, NEW r \in Record, NEW s \in Amounts, NEW n \in Nat,
           Fits(now, r, s), now < r.reset + Day, r.spent + n <= DailyMax
    PROVE  LET q == [r EXCEPT !.spent = @ + n, !.volume = @ + n]
               u == [s EXCEPT ![now] = @ + n]
           IN  q \in Record /\ u \in Amounts /\ Fits(now, q, u) /\ q.volume = r.volume + n
  <1> DEFINE q == [r EXCEPT !.spent = @ + n, !.volume = @ + n]
             u == [s EXCEPT ![now] = @ + n]
  <1>0. /\ now \in Nat /\ Day \in Nat \ {0} /\ DailyMax \in Nat /\ r.reset \in Nat
        /\ r.spent \in Nat /\ r.volume \in Nat /\ r.reset <= now
        /\ now \in Times /\ MaxTime \in Nat
    BY DEF LimitsTypeOK, LimitsAssumption, Record, Times, Fits
  <1>1. /\ q \in Record /\ q.reset = r.reset /\ q.spent = r.spent + n
        /\ q.volume = r.volume + n
    <2> DEFINE p == [r EXCEPT !.spent = @ + n]
    <2>1. p \in Record /\ p.reset = r.reset /\ p.spent = r.spent + n /\ p.volume = r.volume
      BY <1>0 DEF Record
    <2>2. q = [p EXCEPT !.volume = @ + n]
      OBVIOUS
    <2> HIDE DEF p, q
    <2> QED BY <1>0, <2>1, <2>2 DEF Record
  <1>2. /\ u \in Amounts /\ u[now] = s[now] + n /\ s[now] \in Nat
        /\ \A x \in Times : x # now => u[x] = s[x]
    BY <1>0 DEF Amounts
  <1> HIDE DEF q, u
  <1>3. ASSUME NEW span, now \in span
        PROVE  Within(u, span) = Within(s, span) + n
    <2>1. Within(u, span) = Within(s, span) - s[now] + u[now]
      <3>1. now \in span \cap Times /\ \A x \in span \cap Times : x # now => u[x] = s[x]
        BY <1>0, <1>2, <1>3
      <3> QED BY <1>2, <3>1, WithinChange
    <2> QED BY <1>2, <2>1, WithinIsNatural
  <1>4. ASSUME NEW span, now \notin span
        PROVE  Within(u, span) = Within(s, span)
    BY <1>2, <1>4, WithinSame
  <1>8. \A x \in Times : x > now => u[x] = 0
    <2>1. \A x \in Times : x > now => s[x] = 0
      BY DEF Fits
    <2>2. \A x \in Times : x > now => x # now
      BY <1>0
    <2> QED BY <1>2, <2>1, <2>2
  <1>5. Within(u, r.reset..now) = r.spent + n
    BY <1>0, <1>3 DEF Fits
  <1>6. ASSUME NEW x \in Times
        PROVE  Within(u, x..(r.reset - 1)) = Within(s, x..(r.reset - 1))
    <2>1. now \notin x..(r.reset - 1)
      BY <1>0 DEF Times
    <2> QED BY <1>4, <2>1
  <1>7. ASSUME NEW x \in Times
        PROVE  Within(u, x..(x + Day - 1)) <= 2 * DailyMax
    <2>1. CASE now \notin x..(x + Day - 1)
      BY <1>4, <2>1 DEF Fits
    <2>2. CASE now \in x..(x + Day - 1)
      <3> DEFINE before == x..(r.reset - 1)
                 after == (x..(x + Day - 1)) \ before
      <3>1. Within(u, before) <= DailyMax
        <4>1. CASE x < r.reset
          <5>1. r.reset <= x + Day
            BY <1>0, <2>2 DEF Times
          <5> QED BY <1>6, <4>1, <5>1 DEF Fits
        <4>2. CASE ~(x < r.reset)
          <5>1. before \cap Times = {}
            BY <1>0, <4>2 DEF Times
          <5>2. Within(u, before) = 0
            BY <1>2, <5>1, WithinNothing
          <5> QED BY <1>0, <5>2
        <4> QED BY <4>1, <4>2
      <3>2. Within(u, after) <= DailyMax
        <4> DEFINE late == {y \in Times : y > now}
        <4>1. after \subseteq (r.reset..now) \cup late \cup (after \ Times)
          BY <1>0 DEF Times
        <4>2. (r.reset..now) \cap late = {}
          BY <1>0 DEF Times
        <4>3. Within(u, late) = 0
          <5>1. \A y \in late \cap Times : u[y] = 0
            BY <1>8
          <5> QED BY <1>2, <5>1, WithinNothing
        <4>4. Within(u, (r.reset..now) \cup late) = r.spent + n
          <5>1. Within(u, (r.reset..now) \cup late) = Within(u, r.reset..now) + Within(u, late)
            BY <1>2, <4>2, WithinSplit
          <5> QED BY <1>0, <1>5, <4>3, <5>1
        <4>5. after \cap Times \subseteq (r.reset..now) \cup late
          BY <4>1
        <4>6. Within(u, after) <= Within(u, (r.reset..now) \cup late)
          BY <1>2, <4>5, WithinPart
        <4> QED BY <1>0, <1>2, <4>4, <4>6, WithinIsNatural
      <3>3. Within(u, before \cup after) = Within(u, before) + Within(u, after)
        <4>1. before \cap after = {}
          OBVIOUS
        <4> QED BY <1>2, <4>1, WithinSplit
      <3>4. Within(u, x..(x + Day - 1)) <= Within(u, before \cup after)
        BY <1>2, WithinPart
      <3> HIDE DEF before, after
      <3>5. /\ Within(u, before) \in Nat /\ Within(u, after) \in Nat
            /\ Within(u, x..(x + Day - 1)) \in Nat
        BY <1>2, WithinIsNatural
      <3> QED BY <1>0, <3>1, <3>2, <3>3, <3>4, <3>5
    <2> QED BY <2>1, <2>2
  <1>9. Fits(now, q, u)
    <2>1. q.spent \in 0..DailyMax /\ q.reset \in 0..now
      BY <1>0, <1>1
    <2>2. ~(now >= q.reset + Day)
      BY <1>0, <1>1
    <2>3. \A x \in Times : x < q.reset /\ q.reset <= x + Day
                              => Within(u, x..(q.reset - 1)) <= DailyMax
      BY <1>1, <1>6 DEF Fits
    <2> QED BY <1>1, <1>5, <1>7, <1>8, <2>1, <2>2, <2>3 DEF Fits
  <1> QED BY <1>1, <1>2, <1>9 DEF q, u

-----------------------------------------------------------------------------
(* What is stored of one sender at time `t`: the packed record `p`, the    *)
(* legacy entries `l`, the routed amounts `s` and their total `v`.         *)

\* What load_user_record reads (storage.rs:423-460).
Loaded(t, p, l) ==
    CASE p # NoRecord -> p
      [] p = NoRecord /\ l # NoRecord -> [l EXCEPT !.reset = IF @ = NoTime THEN t ELSE @]
      [] OTHER -> [reset |-> t, spent |-> 0, volume |-> 0]

\* Before the first packed record nothing was routed but what the legacy
\* entries say.
Unpacked(l, s) ==
    /\ l # NoRecord /\ l.reset = NoTime => l.spent = 0
    /\ \A x \in Times : s[x] = IF l # NoRecord /\ l.reset = x THEN l.spent ELSE 0

VolumeOf(l) == IF l = NoRecord THEN 0 ELSE l.volume

SenderFits(t, p, l, s, v) ==
    /\ Loaded(t, p, l) \in Record
    /\ Fits(t, Loaded(t, p, l), s)
    /\ Loaded(t, p, l).volume = v
    /\ p # NoRecord => l = NoRecord
    /\ p = NoRecord => Unpacked(l, s)

LEMMA NoRecordIsNone ==
    ASSUME LimitsAssumption
    PROVE  NoRecord \notin Record /\ NoRecord \notin LegacyRecord
  <1> USE DEF LimitsAssumption, Record, LegacyRecord
  <1>1. LegacyRecord \subseteq [reset : Nat \cup {NoTime}, spent : Nat, volume : Nat]
    OBVIOUS
  <1>2. Record \subseteq [reset : Nat \cup {NoTime}, spent : Nat, volume : Nat]
    OBVIOUS
  <1> QED BY <1>1, <1>2

LEMMA LoadedLegacy ==
    ASSUME LimitsAssumption, NEW t \in Times, NEW l \in LegacyRecord
    PROVE  /\ Loaded(t, NoRecord, l) = [reset |-> IF l.reset = NoTime THEN t ELSE l.reset,
                                        spent |-> l.spent, volume |-> l.volume]
           /\ Loaded(t, NoRecord, l) \in Record
  <1>1. l # NoRecord
    BY NoRecordIsNone
  <1>2. Loaded(t, NoRecord, l) = [l EXCEPT !.reset = IF @ = NoTime THEN t ELSE @]
    BY <1>1 DEF Loaded
  <1>3. l = [reset |-> l.reset, spent |-> l.spent, volume |-> l.volume]
    BY DEF LegacyRecord
  <1>4. [l EXCEPT !.reset = IF @ = NoTime THEN t ELSE @]
          = [reset |-> IF l.reset = NoTime THEN t ELSE l.reset,
             spent |-> l.spent, volume |-> l.volume]
    BY <1>3
  <1>5. /\ (IF l.reset = NoTime THEN t ELSE l.reset) \in Nat
        /\ l.spent \in Nat /\ l.volume \in Nat
    BY DEF LegacyRecord, Times, LimitsAssumption
  <1> QED BY <1>2, <1>4, <1>5 DEF Record

\* A sender without a packed record.
LEMMA SenderUnpacked ==
    ASSUME LimitsAssumption, NEW t \in Times, Start <= t,
           NEW l \in LegacyRecord \cup {NoRecord}, NEW s \in Amounts, Unpacked(l, s)
    PROVE  SenderFits(t, NoRecord, l, s, VolumeOf(l))
  <1> DEFINE r == Loaded(t, NoRecord, l)
  <1>0. t \in Nat /\ Start \in Nat /\ MaxTime \in Nat /\ DailyMax \in Nat /\ NoTime \notin Nat
    BY DEF Times, LimitsAssumption
  <1>1. CASE l = NoRecord
    <2>1. r = [reset |-> t, spent |-> 0, volume |-> 0]
      BY <1>1 DEF Loaded
    <2>2. \A x \in Times : s[x] = 0
      BY <1>1 DEF Unpacked
    <2>3. Fits(t, r, s)
      BY <2>1, <2>2, FitsNone
    <2>4. r \in Record
      BY <1>0, <2>1 DEF Record
    <2> QED BY <1>1, <2>1, <2>3, <2>4 DEF SenderFits, VolumeOf
  <1>2. CASE l # NoRecord
    <2>0. l \in LegacyRecord
      BY <1>2
    <2>1. /\ r = [reset |-> IF l.reset = NoTime THEN t ELSE l.reset,
                  spent |-> l.spent, volume |-> l.volume]
          /\ r \in Record
      BY <2>0, LoadedLegacy
    <2>2. l.reset \in (0..Start) \cup {NoTime} /\ l.spent \in 0..DailyMax
      BY <2>0 DEF LegacyRecord
    <2> HIDE DEF r
    <2>3. r.reset \in 0..t /\ r.reset \in Times /\ r.spent \in 0..DailyMax
      BY <1>0, <2>1, <2>2 DEF Times
    <2>4. s[r.reset] = r.spent /\ \A x \in Times : x # r.reset => s[x] = 0
      BY <1>0, <1>2, <2>1, <2>2, <2>3 DEF Unpacked, Times
    <2>5. Fits(t, r, s)
      BY <2>3, <2>4, FitsFirst
    <2> QED BY <1>2, <2>1, <2>5 DEF SenderFits, VolumeOf, r
  <1> QED BY <1>1, <1>2

\* The next ledger.
LEMMA SenderLater ==
    ASSUME LimitsAssumption, NEW t \in Times, Start <= t, t + 1 \in Times,
           NEW p \in Record \cup {NoRecord}, NEW l \in LegacyRecord \cup {NoRecord},
           NEW s \in Amounts, NEW v, SenderFits(t, p, l, s, v)
    PROVE  SenderFits(t + 1, p, l, s, v)
  <1>1. CASE p = NoRecord
    <2>1. Start <= t + 1
      BY DEF Times, LimitsAssumption
    <2>2. SenderFits(t + 1, NoRecord, l, s, VolumeOf(l)) /\ SenderFits(t, NoRecord, l, s, VolumeOf(l))
      BY <1>1, <2>1, SenderUnpacked DEF SenderFits
    <2>3. v = VolumeOf(l)
      BY <1>1, <2>2 DEF SenderFits
    <2> QED BY <1>1, <2>2, <2>3
  <1>2. CASE p # NoRecord
    <2>1. Loaded(t, p, l) = p /\ Loaded(t + 1, p, l) = p
      BY <1>2 DEF Loaded
    <2>2. Fits(t + 1, p, s)
      BY <2>1, FitsLater DEF SenderFits
    <2> QED BY <1>2, <2>1, <2>2 DEF SenderFits
  <1> QED BY <1>1, <1>2

\* A packed record takes the place of what was loaded.
LEMMA SenderPacked ==
    ASSUME LimitsAssumption, NEW t \in Times, NEW r \in Record, NEW s, Fits(t, r, s)
    PROVE  SenderFits(t, r, NoRecord, s, r.volume)
  <1>1. r # NoRecord
    BY NoRecordIsNone
  <1>2. Loaded(t, r, NoRecord) = r
    BY <1>1 DEF Loaded
  <1> QED BY <1>1, <1>2 DEF SenderFits

-----------------------------------------------------------------------------
(* The books of a call.                                                    *)

Slots == [window : Times, count : Nat]

BookSet == [ok : BOOLEAN, record : [Addr -> Record \cup {NoRecord}],
            legacy : [Addr -> LegacyRecord \cup {NoRecord}], rate : [Addr -> Slots],
            spentAt : [Addr -> Amounts], lifetime : [Addr -> Nat], charged : [Addr -> Nat]]

\* No slot was taken that is not counted, and none beyond the cap.
SlotsFit(b, a) ==
    /\ b.charged[a] <= rate_limit_used(b, a)
    /\ b.charged[a] > charged[a] => b.charged[a] <= rateLimit

SoundBooks ==
    {b \in BookSet : \A a \in Addr :
        /\ SenderFits(now, b.record[a], b.legacy[a], b.spentAt[a], b.lifetime[a])
        /\ SlotsFit(b, a)}

\* The inductive invariant.
LimitsInv ==
    /\ LimitsTypeOK
    /\ Start <= now
    /\ \A a \in Addr : SenderFits(now, record[a], legacy[a], spentAt[a], lifetime[a])
    /\ \A a \in Addr : charged[a] <= rate_limit_used(Books, a)

LEMMA LoadIsLoaded ==
    ASSUME NEW b, NEW a
    PROVE  load_user_record(b, a) = Loaded(now, b.record[a], b.legacy[a])
  BY DEF load_user_record, Loaded

LEMMA BooksAreSound ==
    ASSUME LimitsAssumption, LimitsInv
    PROVE  Books \in SoundBooks
  <1>1. Books \in BookSet
    BY DEF LimitsInv, LimitsTypeOK, Books, BookSet, Slots, Amounts, Times
  <1>2. \A a \in Addr : ~(charged[a] > charged[a])
    BY DEF LimitsInv, LimitsTypeOK
  <1>3. /\ Books.record = record /\ Books.legacy = legacy /\ Books.spentAt = spentAt
        /\ Books.lifetime = lifetime /\ Books.charged = charged
    BY DEF Books
  <1> QED BY <1>1, <1>2, <1>3 DEF SoundBooks, LimitsInv, SlotsFit

LEMMA AccrueKeepsBooks ==
    ASSUME LimitsAssumption, LimitsTypeOK, NEW b \in SoundBooks, NEW a \in Addr, NEW n \in Nat
    PROVE  accrue_user_record(b, a, n) \in SoundBooks
  <1> DEFINE r0 == load_user_record(b, a)
             r == roll_window(r0)
  <1>0. /\ b \in BookSet /\ now \in Times
        /\ \A x \in Addr :
              /\ SenderFits(now, b.record[x], b.legacy[x], b.spentAt[x], b.lifetime[x])
              /\ SlotsFit(b, x)
    BY DEF SoundBooks, LimitsTypeOK, Times
  <1>1. /\ b.ok \in BOOLEAN /\ b.record \in [Addr -> Record \cup {NoRecord}]
        /\ b.legacy \in [Addr -> LegacyRecord \cup {NoRecord}] /\ b.rate \in [Addr -> Slots]
        /\ b.spentAt \in [Addr -> Amounts] /\ b.lifetime \in [Addr -> Nat]
        /\ b.charged \in [Addr -> Nat]
        /\ b = [ok |-> b.ok, record |-> b.record, legacy |-> b.legacy, rate |-> b.rate,
                spentAt |-> b.spentAt, lifetime |-> b.lifetime, charged |-> b.charged]
    BY <1>0 DEF BookSet
  <1>2. r0 \in Record /\ Fits(now, r0, b.spentAt[a]) /\ r0.volume = b.lifetime[a]
    BY <1>0, LoadIsLoaded DEF SenderFits
  <1>3. /\ r \in Record /\ Fits(now, r, b.spentAt[a]) /\ now < r.reset + Day
        /\ r.volume = b.lifetime[a]
    <2>1. b.spentAt[a] \in Amounts
      BY <1>1
    <2> HIDE DEF r0
    <2> QED BY <1>2, <2>1, FitsRolled
  <1>4. CASE r.spent + n > DailyMax
    <2>1. accrue_user_record(b, a, n) = [b EXCEPT !.ok = FALSE]
      BY <1>4 DEF accrue_user_record
    <2> HIDE DEF r, r0
    <2>2. /\ [b EXCEPT !.ok = FALSE] \in BookSet
          /\ [b EXCEPT !.ok = FALSE].record = b.record
          /\ [b EXCEPT !.ok = FALSE].legacy = b.legacy
          /\ [b EXCEPT !.ok = FALSE].rate = b.rate
          /\ [b EXCEPT !.ok = FALSE].spentAt = b.spentAt
          /\ [b EXCEPT !.ok = FALSE].lifetime = b.lifetime
          /\ [b EXCEPT !.ok = FALSE].charged = b.charged
      BY <1>0 DEF BookSet
    <2> DEFINE c == [b EXCEPT !.ok = FALSE]
    <2> HIDE DEF c
    <2>3. \A x \in Addr : SlotsFit(c, x)
      BY <1>0, <2>2 DEF SlotsFit, rate_limit_used, c
    <2> QED BY <1>0, <2>1, <2>2, <2>3 DEF SoundBooks, c
  <1>5. CASE ~(r.spent + n > DailyMax)
    <2> DEFINE q == [r EXCEPT !.spent = @ + n, !.volume = @ + n]
               u == [b.spentAt[a] EXCEPT ![now] = @ + n]
               c == accrue_user_record(b, a, n)
    <2>1. r.spent + n <= DailyMax
      <3> HIDE DEF r
      <3> QED BY <1>3, <1>5 DEF Record, LimitsAssumption
    <2>2. q \in Record /\ u \in Amounts /\ Fits(now, q, u) /\ q.volume = b.lifetime[a] + n
      <3>1. b.spentAt[a] \in Amounts
        BY <1>1
      <3> HIDE DEF r
      <3> QED BY <1>3, <2>1, <3>1, FitsMore
    <2>3. SenderFits(now, q, NoRecord, u, b.lifetime[a] + n)
      <3> HIDE DEF q, u
      <3> QED BY <1>0, <2>2, SenderPacked
    <2>4. c = [b EXCEPT !.record[a] = q,
                        !.legacy[a] = IF b.record[a] = NoRecord THEN NoRecord ELSE @,
                        !.spentAt[a][now] = @ + n,
                        !.lifetime[a] = @ + n]
      BY <1>5 DEF accrue_user_record
    <2>5. c = [ok |-> b.ok, record |-> [b.record EXCEPT ![a] = q],
               legacy |-> [b.legacy EXCEPT ![a] = IF b.record[a] = NoRecord
                                                  THEN NoRecord ELSE b.legacy[a]],
               rate |-> b.rate, spentAt |-> [b.spentAt EXCEPT ![a] = u],
               lifetime |-> [b.lifetime EXCEPT ![a] = b.lifetime[a] + n],
               charged |-> b.charged]
      <3> HIDE DEF c, q, r
      <3> QED BY <1>1, <2>4
    <2> HIDE DEF c, q, u, r, r0
    <2>6. c \in BookSet
      BY <1>1, <2>2, <2>5 DEF BookSet
    <2>7. ASSUME NEW x \in Addr
          PROVE  SenderFits(now, c.record[x], c.legacy[x], c.spentAt[x], c.lifetime[x])
      <3>1. CASE x = a
        <4>1. /\ c.record[x] = q /\ c.legacy[x] = NoRecord /\ c.spentAt[x] = u
              /\ c.lifetime[x] = b.lifetime[a] + n
          <5>1. b.record[a] # NoRecord => b.legacy[a] = NoRecord
            BY <1>0 DEF SenderFits
          <5> QED BY <1>1, <2>5, <3>1, <5>1
        <4> QED BY <2>3, <4>1
      <3>2. CASE x # a
        <4>1. /\ c.record[x] = b.record[x] /\ c.legacy[x] = b.legacy[x]
              /\ c.spentAt[x] = b.spentAt[x] /\ c.lifetime[x] = b.lifetime[x]
          BY <1>1, <2>5, <3>2
        <4> QED BY <1>0, <4>1
      <3> QED BY <3>1, <3>2
    <2>8. \A x \in Addr : SlotsFit(c, x)
      BY <1>0, <2>5 DEF SlotsFit, rate_limit_used
    <2> QED BY <2>6, <2>7, <2>8 DEF SoundBooks, c
  <1> QED BY <1>4, <1>5

LEMMA SlotKeepsBooks ==
    ASSUME LimitsAssumption, LimitsTypeOK, NEW b \in SoundBooks, NEW a \in Addr
    PROVE  check_rate_limit(b, a) \in SoundBooks
  <1> DEFINE used == rate_limit_used(b, a)
             c == check_rate_limit(b, a)
  <1>0. /\ b \in BookSet /\ now \in Times /\ rateLimit \in Nat
        /\ \A x \in Addr :
              /\ SenderFits(now, b.record[x], b.legacy[x], b.spentAt[x], b.lifetime[x])
              /\ SlotsFit(b, x)
    BY DEF SoundBooks, LimitsTypeOK, Times
  <1>1. /\ b.ok \in BOOLEAN /\ b.record \in [Addr -> Record \cup {NoRecord}]
        /\ b.legacy \in [Addr -> LegacyRecord \cup {NoRecord}] /\ b.rate \in [Addr -> Slots]
        /\ b.spentAt \in [Addr -> Amounts] /\ b.lifetime \in [Addr -> Nat]
        /\ b.charged \in [Addr -> Nat]
        /\ b = [ok |-> b.ok, record |-> b.record, legacy |-> b.legacy, rate |-> b.rate,
                spentAt |-> b.spentAt, lifetime |-> b.lifetime, charged |-> b.charged]
    BY <1>0 DEF BookSet
  <1>2. used \in Nat
    BY <1>1 DEF rate_limit_used, Slots
  <1>3. CASE is_unlimited(a)
    BY <1>3 DEF check_rate_limit
  <1>4. CASE ~is_unlimited(a) /\ used >= rateLimit
    <2>1. c = [b EXCEPT !.ok = FALSE]
      BY <1>4 DEF check_rate_limit
    <2>2. c = [ok |-> FALSE, record |-> b.record, legacy |-> b.legacy, rate |-> b.rate,
               spentAt |-> b.spentAt, lifetime |-> b.lifetime, charged |-> b.charged]
      <3> HIDE DEF c
      <3> QED BY <1>1, <2>1
    <2> HIDE DEF c
    <2>3. c \in BookSet
      BY <1>1, <2>2 DEF BookSet
    <2>4. \A x \in Addr : SlotsFit(c, x)
      BY <1>0, <2>2 DEF SlotsFit, rate_limit_used
    <2>5. \A x \in Addr : SenderFits(now, c.record[x], c.legacy[x], c.spentAt[x], c.lifetime[x])
      BY <1>0, <2>2
    <2> QED BY <2>3, <2>4, <2>5 DEF SoundBooks, c
  <1>5. CASE ~is_unlimited(a) /\ used < rateLimit
    <2> DEFINE slot == [window |-> now, count |-> used + 1]
    <2>1. c = [b EXCEPT !.rate[a] = slot, !.charged[a] = @ + 1]
      BY <1>0, <1>2, <1>5 DEF check_rate_limit
    <2>2. c = [ok |-> b.ok, record |-> b.record, legacy |-> b.legacy,
               rate |-> [b.rate EXCEPT ![a] = slot],
               spentAt |-> b.spentAt, lifetime |-> b.lifetime,
               charged |-> [b.charged EXCEPT ![a] = b.charged[a] + 1]]
      <3> HIDE DEF c, slot
      <3> QED BY <1>1, <2>1
    <2>3. slot \in Slots /\ slot.window = now /\ slot.count = used + 1
      BY <1>0, <1>2 DEF Slots
    <2> HIDE DEF c, slot, used
    <2>4. c \in BookSet
      BY <1>1, <2>2, <2>3 DEF BookSet
    <2>5. ASSUME NEW x \in Addr
          PROVE  SlotsFit(c, x)
      <3>1. CASE x = a
        <4>1. rate_limit_used(c, a) = used + 1 /\ c.charged[a] = b.charged[a] + 1
          BY <1>1, <2>2, <2>3 DEF rate_limit_used
        <4>2. b.charged[a] <= used /\ b.charged[a] \in Nat
          BY <1>0, <1>1 DEF SlotsFit, used
        <4> QED BY <1>0, <1>2, <1>5, <3>1, <4>1, <4>2 DEF SlotsFit
      <3>2. CASE x # a
        <4>1. c.rate[x] = b.rate[x] /\ c.charged[x] = b.charged[x]
          BY <1>1, <2>2, <3>2
        <4> QED BY <1>0, <4>1 DEF SlotsFit, rate_limit_used
      <3> QED BY <3>1, <3>2
    <2>6. \A x \in Addr : SenderFits(now, c.record[x], c.legacy[x], c.spentAt[x], c.lifetime[x])
      BY <1>0, <2>2
    <2> QED BY <2>4, <2>5, <2>6 DEF SoundBooks, c
  <1> QED BY <1>0, <1>2, <1>3, <1>4, <1>5

\* A batch is a loop whose every round keeps the books sound.
Rounds == INSTANCE FoldTheorems WITH Op <- charge_entry
Uncharged == INSTANCE FoldTheorems WITH Op <- accrue_entry

LEMMA BatchIsALoop ==
    ASSUME NEW b, NEW es
    PROVE  FoldLeft(charge_entry, b, es) = Rounds!Looped(b, es)
  BY DEF FoldLeft, MapThenFoldSet, Rounds!Looped, Rounds!IsLoopTable, Rounds!LoopEntry,
         charge_entry, Max, Rounds!Highest

LEMMA UnchargedIsALoop ==
    ASSUME NEW b, NEW es
    PROVE  FoldLeft(accrue_entry, b, es) = Uncharged!Looped(b, es)
  BY DEF FoldLeft, MapThenFoldSet, Uncharged!Looped, Uncharged!IsLoopTable,
         Uncharged!LoopEntry, accrue_entry, Max, Uncharged!Highest

LEMMA BatchKeepsBooks ==
    ASSUME LimitsAssumption, LimitsTypeOK, NEW b \in SoundBooks,
           NEW es \in BatchesOf(Entries \cup UnchargedEntries)
    PROVE  /\ FoldLeft(charge_entry, b, es) \in SoundBooks
           /\ FoldLeft(accrue_entry, b, es) \in SoundBooks
  <1>1. PICK n \in Nat : es \in [1..n -> Entries \cup UnchargedEntries]
    BY DEF BatchesOf, LimitsAssumption
  <1>2. ASSUME NEW i \in 1..n, NEW c \in SoundBooks
        PROVE  charge_entry(c, es[i]) \in SoundBooks /\ accrue_entry(c, es[i]) \in SoundBooks
    <2>1. es[i][1] \in Addr /\ es[i][2] \in Nat
      BY <1>1 DEF LimitsAssumption
    <2>2. check_rate_limit(c, es[i][1]) \in SoundBooks
      BY <2>1, SlotKeepsBooks
    <2>3. accrue_entry(c, es[i]) \in SoundBooks
      BY <2>1, AccrueKeepsBooks DEF accrue_entry
    <2>4. charge_entry(c, es[i]) \in SoundBooks
      BY <2>1, <2>2, AccrueKeepsBooks DEF charge_entry, charge_and_accrue
    <2> QED BY <2>3, <2>4
  <1>3. DOMAIN es = 1..n
    BY <1>1
  <1> HIDE DEF SoundBooks
  <1>4. Rounds!Looped(b, es) \in SoundBooks
    BY <1>2, <1>3, Rounds!LoopKeeps
  <1>5. Uncharged!Looped(b, es) \in SoundBooks
    BY <1>2, <1>3, Uncharged!LoopKeeps
  <1> QED BY <1>4, <1>5, BatchIsALoop, UnchargedIsALoop

-----------------------------------------------------------------------------
(* The steps.                                                              *)

\* A call that leaves sound books.
LEMMA CommitKeepsInv ==
    ASSUME LimitsInv, NEW b \in SoundBooks, Commit(b), UNCHANGED <<now, rateLimit, exempt>>
    PROVE  /\ LimitsInv'
           /\ \A a \in Addr : charged'[a] > charged[a] => charged'[a] <= rateLimit
  <1>0. /\ b \in BookSet /\ now' = now
        /\ \A x \in Addr :
              /\ SenderFits(now, b.record[x], b.legacy[x], b.spentAt[x], b.lifetime[x])
              /\ SlotsFit(b, x)
    BY DEF SoundBooks
  <1>1. /\ record' = b.record /\ legacy' = b.legacy /\ rateCounter' = b.rate
        /\ spentAt' = b.spentAt /\ lifetime' = b.lifetime /\ charged' = b.charged
    BY DEF Commit
  <1>2. LimitsTypeOK'
    BY <1>0, <1>1 DEF LimitsInv, LimitsTypeOK, BookSet, Slots, Amounts, Times
  <1>3. \A a \in Addr : SenderFits(now, record[a], legacy[a], spentAt[a], lifetime[a])'
    BY <1>0, <1>1
  <1>4. \A a \in Addr : (charged[a] <= rate_limit_used(Books, a))'
    BY <1>0, <1>1 DEF SlotsFit, rate_limit_used, Books
  <1>5. \A a \in Addr : charged'[a] > charged[a] => charged'[a] <= rateLimit
    BY <1>0, <1>1 DEF SlotsFit
  <1> QED BY <1>0, <1>2, <1>3, <1>4, <1>5 DEF LimitsInv

\* Folding the legacy entries into the packed record.
LEMMA MigrationKeepsInv ==
    ASSUME LimitsAssumption, LimitsInv, NEW a \in Addr, migrate_user_record(a)
    PROVE  LimitsInv'
  <1> DEFINE q == packed_from_legacy(legacy[a])
  <1>0. /\ LimitsTypeOK /\ now \in Times /\ NoRecord \notin Record
        /\ legacy[a] \in LegacyRecord /\ legacy[a] # NoRecord
        /\ spentAt[a] \in Amounts
    BY NoRecordIsNone DEF LimitsInv, LimitsTypeOK, migrate_user_record, Times, Amounts
  <1>1. SenderFits(now, record[a], legacy[a], spentAt[a], lifetime[a])
    BY DEF LimitsInv
  <1>2. record[a] = NoRecord
    BY <1>0, <1>1 DEF SenderFits
  <1>3. q = Loaded(now, NoRecord, legacy[a])
    BY <1>0 DEF packed_from_legacy, Loaded
  <1>4. q \in Record /\ Fits(now, q, spentAt[a]) /\ q.volume = lifetime[a]
    BY <1>1, <1>2, <1>3 DEF SenderFits
  <1> HIDE DEF q
  <1>5. SenderFits(now, q, NoRecord, spentAt[a], lifetime[a])
    BY <1>0, <1>4, SenderPacked
  <1>6. /\ record' = [record EXCEPT ![a] = q]
        /\ legacy' = [legacy EXCEPT ![a] = NoRecord]
        /\ UNCHANGED <<now, rateCounter, rateLimit, exempt, spentAt, lifetime, charged>>
    BY <1>2 DEF migrate_user_record, q
  <1>7. LimitsTypeOK'
    BY <1>0, <1>4, <1>6 DEF LimitsTypeOK
  <1>8. ASSUME NEW x \in Addr
        PROVE  SenderFits(now, record'[x], legacy'[x], spentAt[x], lifetime[x])
    <2>1. CASE x = a
      BY <1>0, <1>5, <1>6, <2>1 DEF LimitsTypeOK
    <2>2. CASE x # a
      <3>1. record'[x] = record[x] /\ legacy'[x] = legacy[x]
        BY <1>0, <1>6, <2>2 DEF LimitsTypeOK
      <3> QED BY <3>1 DEF LimitsInv
    <2> QED BY <2>1, <2>2
  <1>9. \A x \in Addr : (charged[x] <= rate_limit_used(Books, x))'
    BY <1>6 DEF LimitsInv, rate_limit_used, Books
  <1> QED BY <1>6, <1>7, <1>8, <1>9 DEF LimitsInv

\* The deletion of legacy entries takes from the books what it takes from the
\* entries.
LEMMA PruningKeepsInv ==
    ASSUME LimitsAssumption, LimitsInv, NEW spendings \in SUBSET Addr,
           NEW volumes \in SUBSET Addr, prune_legacy(spendings, volumes)
    PROVE  LimitsInv'
  <1> DEFINE kept(a) == IF a \in spendings THEN without_spending(legacy[a]) ELSE legacy[a]
             l(a) == IF a \in volumes THEN without_volume(kept(a)) ELSE kept(a)
             s(a) == [t \in Times |->
                        IF a \in spendings /\ legacy[a] # NoRecord /\ legacy[a].reset = t
                        THEN spentAt[a][t] - legacy[a].spent ELSE spentAt[a][t]]
             v(a) == IF a \in volumes /\ legacy[a] # NoRecord
                     THEN lifetime[a] - legacy[a].volume ELSE lifetime[a]
  <1>0. /\ LimitsTypeOK /\ now \in Times /\ Start <= now /\ 0 \in Nat
        /\ NoTime \notin Nat /\ NoRecord \notin LegacyRecord /\ DailyMax \in Nat
    BY NoRecordIsNone DEF LimitsInv, LimitsTypeOK, LimitsAssumption, Times
  <1>1. /\ legacy' = [a \in Addr |-> l(a)]
        /\ spentAt' = [a \in Addr |-> s(a)]
        /\ lifetime' = [a \in Addr |-> v(a)]
        /\ UNCHANGED <<now, record, rateCounter, rateLimit, exempt, charged>>
    BY DEF prune_legacy, Times
  <1>2. ASSUME NEW a \in Addr
        PROVE  /\ l(a) \in LegacyRecord \cup {NoRecord}
               /\ s(a) \in Amounts
               /\ v(a) \in Nat
               /\ SenderFits(now, record[a], l(a), s(a), v(a))
    <2>0. /\ SenderFits(now, record[a], legacy[a], spentAt[a], lifetime[a])
          /\ record[a] \in Record \cup {NoRecord}
          /\ legacy[a] \in LegacyRecord \cup {NoRecord}
          /\ spentAt[a] \in Amounts /\ lifetime[a] \in Nat
      BY <1>0 DEF LimitsInv, LimitsTypeOK, Amounts, Times
    <2>1. CASE legacy[a] = NoRecord
      <3>1. l(a) = NoRecord /\ v(a) = lifetime[a]
        BY <2>1 DEF without_spending, without_volume
      <3>2. s(a) = spentAt[a]
        BY <2>0, <2>1 DEF Amounts
      <3> HIDE DEF l, s, v
      <3> QED BY <2>0, <2>1, <3>1, <3>2
    <2>2. CASE legacy[a] # NoRecord
      <3> DEFINE m == legacy[a]
      <3>1. record[a] = NoRecord /\ m \in LegacyRecord /\ Unpacked(m, spentAt[a])
        BY <2>0, <2>2 DEF SenderFits
      <3>2. /\ m.reset \in (0..Start) \cup {NoTime} /\ m.spent \in 0..DailyMax
            /\ m.volume \in Nat
            /\ m = [reset |-> m.reset, spent |-> m.spent, volume |-> m.volume]
        BY <3>1 DEF LegacyRecord
      <3>3. lifetime[a] = m.volume
        <4>1. Loaded(now, NoRecord, m).volume = m.volume
          BY <1>0, <3>1, LoadedLegacy
        <4> QED BY <2>0, <3>1, <4>1 DEF SenderFits
      <3>4. /\ a \in spendings => without_spending(m) =
                  IF m.volume = 0 THEN NoRecord
                  ELSE [reset |-> NoTime, spent |-> 0, volume |-> m.volume]
            /\ a \notin spendings => kept(a) = m
        <4>1. [m EXCEPT !.reset = NoTime, !.spent = 0]
                 = [reset |-> NoTime, spent |-> 0, volume |-> m.volume]
          <5> HIDE DEF m
          <5> DEFINE p == [m EXCEPT !.reset = NoTime]
          <5>1. p = [reset |-> NoTime, spent |-> m.spent, volume |-> m.volume]
            BY <3>2
          <5>2. [m EXCEPT !.reset = NoTime, !.spent = 0] = [p EXCEPT !.spent = 0]
            OBVIOUS
          <5> HIDE DEF p
          <5> QED BY <5>1, <5>2
        <4> QED BY <2>2, <4>1 DEF without_spending
      <3>5. kept(a) \in LegacyRecord \cup {NoRecord}
        BY <1>0, <3>1, <3>4 DEF LegacyRecord
      <3>6. l(a) \in LegacyRecord \cup {NoRecord}
        <4>1. ASSUME NEW k \in LegacyRecord \cup {NoRecord}
              PROVE  without_volume(k) \in LegacyRecord \cup {NoRecord}
          BY <1>0 DEF without_volume, LegacyRecord
        <4> HIDE DEF kept
        <4> QED BY <3>5, <4>1
      <3>7. /\ v(a) = VolumeOf(l(a))
            /\ v(a) \in Nat
        <4>1. CASE a \in volumes
          <5>1. v(a) = 0
            BY <2>2, <3>2, <3>3, <4>1
          <5>2. ASSUME NEW k \in LegacyRecord \cup {NoRecord}
                PROVE  VolumeOf(without_volume(k)) = 0
            BY <5>2 DEF VolumeOf, without_volume, LegacyRecord
          <5>3. VolumeOf(l(a)) = 0
            <6> HIDE DEF kept
            <6> QED BY <3>5, <4>1, <5>2
          <5> QED BY <5>1, <5>3
        <4>2. CASE a \notin volumes
          <5>1. v(a) = m.volume /\ l(a) = kept(a)
            BY <3>3, <4>2
          <5>2. VolumeOf(kept(a)) = m.volume
            BY <1>0, <2>2, <3>1, <3>2, <3>4 DEF VolumeOf
          <5> QED BY <3>2, <5>1, <5>2
        <4> QED BY <4>1, <4>2
      <3>8. CASE a \in spendings
        <4>1. \A t \in Times : s(a)[t] = 0
          BY <2>2, <3>1, <3>2, <3>8 DEF Unpacked
        <4>2. s(a) \in Amounts
          BY <4>1 DEF Amounts
        <4>3. l(a) = NoRecord \/ l(a).spent = 0
          BY <2>2, <3>4, <3>8 DEF without_volume
        <4>4. Unpacked(l(a), s(a))
          <5> HIDE DEF l, s
          <5> QED BY <4>1, <4>3 DEF Unpacked
        <4> HIDE DEF l, s, v
        <4>5. SenderFits(now, NoRecord, l(a), s(a), VolumeOf(l(a)))
          BY <1>0, <3>6, <4>2, <4>4, SenderUnpacked
        <4> QED BY <3>1, <3>6, <3>7, <4>2, <4>5
      <3>9. CASE a \notin spendings
        <4>1. s(a) = spentAt[a]
          BY <2>0, <3>9 DEF Amounts
        <4>2. l(a) = m \/ l(a) = [reset |-> m.reset, spent |-> m.spent, volume |-> 0]
                       \/ (l(a) = NoRecord /\ m.reset = NoTime)
          BY <2>2, <3>2, <3>9 DEF without_volume
        <4>3. Unpacked(l(a), s(a))
          <5> HIDE DEF s, kept
          <5>1. CASE l(a) = m
            BY <3>1, <4>1, <5>1
          <5>2. CASE l(a) = [reset |-> m.reset, spent |-> m.spent, volume |-> 0]
            <6> DEFINE k == [reset |-> m.reset, spent |-> m.spent, volume |-> 0]
            <6>1. k \in LegacyRecord /\ k.reset = m.reset /\ k.spent = m.spent
              BY <3>2 DEF LegacyRecord
            <6>2. k # NoRecord
              BY <1>0, <6>1
            <6> HIDE DEF k, l
            <6>3. l(a) = k
              BY <5>2 DEF k
            <6> QED BY <2>2, <3>1, <4>1, <6>1, <6>2, <6>3 DEF Unpacked
          <5>3. CASE l(a) = NoRecord /\ m.reset = NoTime
            <6> HIDE DEF l
            <6>1. \A t \in Times : t # NoTime
              BY <1>0 DEF Times
            <6> QED BY <2>2, <3>1, <4>1, <5>3, <6>1 DEF Unpacked
          <5> QED BY <4>2, <5>1, <5>2, <5>3
        <4> HIDE DEF l, s, v
        <4>5. SenderFits(now, NoRecord, l(a), s(a), VolumeOf(l(a)))
          BY <1>0, <2>0, <3>6, <4>1, <4>3, SenderUnpacked
        <4> QED BY <2>0, <3>1, <3>6, <3>7, <4>1, <4>5
      <3> QED BY <3>8, <3>9
    <2> QED BY <2>1, <2>2
  <1> HIDE DEF l, s, v
  <1>3. LimitsTypeOK'
    BY <1>0, <1>1, <1>2 DEF LimitsTypeOK, Amounts, Times
  <1>4. \A a \in Addr : SenderFits(now, record[a], legacy[a], spentAt[a], lifetime[a])'
    BY <1>1, <1>2
  <1>5. \A x \in Addr : (charged[x] <= rate_limit_used(Books, x))'
    BY <1>1 DEF LimitsInv, rate_limit_used, Books
  <1> QED BY <1>0, <1>1, <1>3, <1>4, <1>5 DEF LimitsInv

LEMMA NextLedgerKeepsInv ==
    ASSUME LimitsAssumption, LimitsInv, NextLedger
    PROVE  LimitsInv' /\ \A a \in Addr : ~(charged'[a] > charged[a])
  <1>0. /\ LimitsTypeOK /\ now \in Times /\ now + 1 \in Times /\ now' = now + 1
        /\ Start <= now /\ Start <= now'
    BY DEF LimitsInv, LimitsTypeOK, LimitsAssumption, NextLedger, Times
  <1>1. /\ charged' = [a \in Addr |-> 0]
        /\ UNCHANGED <<record, legacy, rateCounter, rateLimit, exempt, spentAt, lifetime>>
    BY DEF NextLedger
  <1>2. LimitsTypeOK'
    BY <1>0, <1>1 DEF LimitsTypeOK, Times
  <1>3. ASSUME NEW a \in Addr
        PROVE  SenderFits(now + 1, record[a], legacy[a], spentAt[a], lifetime[a])
    <2>1. /\ SenderFits(now, record[a], legacy[a], spentAt[a], lifetime[a])
          /\ record[a] \in Record \cup {NoRecord}
          /\ legacy[a] \in LegacyRecord \cup {NoRecord} /\ spentAt[a] \in Amounts
      BY <1>0 DEF LimitsInv, LimitsTypeOK, Amounts, Times
    <2> QED BY <1>0, <2>1, SenderLater
  <1>4. \A a \in Addr : SenderFits(now, record[a], legacy[a], spentAt[a], lifetime[a])'
    BY <1>0, <1>1, <1>3
  <1>5. ASSUME NEW x \in Addr
        PROVE  (charged[x] <= rate_limit_used(Books, x))'
    <2>1. rateCounter'[x].count \in Nat /\ charged'[x] = 0
      BY <1>1, <1>2 DEF LimitsTypeOK
    <2> QED BY <2>1 DEF rate_limit_used, Books
  <1>6. \A a \in Addr : ~(charged'[a] > charged[a])
    BY <1>0, <1>1 DEF LimitsTypeOK
  <1> QED BY <1>0, <1>2, <1>4, <1>5, <1>6 DEF LimitsInv

LEMMA LimitsInitially ==
    ASSUME LimitsAssumption, LimitsInit
    PROVE  LimitsInv
  <1>0. /\ Start \in Times /\ MaxTime \in Nat /\ now = Start /\ DailyMax \in Nat
        /\ NoRecord \notin LegacyRecord /\ NoTime \notin Nat
        /\ record = [a \in Addr |-> NoRecord]
        /\ legacy \in [Addr -> LegacyRecord \cup {NoRecord}]
        /\ rateCounter = [a \in Addr |-> [window |-> 0, count |-> 0]]
        /\ charged = [a \in Addr |-> 0]
    BY NoRecordIsNone DEF LimitsInit, LimitsAssumption, Times
  <1>1. ASSUME NEW a \in Addr
        PROVE  /\ spentAt[a] \in Amounts /\ lifetime[a] \in Nat
               /\ Unpacked(legacy[a], spentAt[a])
               /\ lifetime[a] = VolumeOf(legacy[a])
    <2>1. CASE legacy[a] = NoRecord
      <3>1. spentAt[a] = [t \in Times |-> 0] /\ lifetime[a] = 0
        BY <2>1 DEF LimitsInit, Times
      <3> QED BY <2>1, <3>1 DEF Unpacked, Amounts, VolumeOf
    <2>2. CASE legacy[a] # NoRecord
      <3>1. /\ spentAt[a] = [t \in Times |-> IF legacy[a].reset = t THEN legacy[a].spent ELSE 0]
            /\ lifetime[a] = legacy[a].volume
        BY <2>2 DEF LimitsInit, Times
      <3>2. legacy[a] \in LegacyRecords
        BY <2>2 DEF LimitsInit
      <3>3. /\ legacy[a].spent \in Nat /\ legacy[a].volume \in Nat
            /\ legacy[a].reset = NoTime => legacy[a].spent = 0
        BY <1>0, <3>2 DEF LimitsAssumption, LegacyRecord
      <3>4. \A x \in Times : spentAt[a][x] = IF legacy[a].reset = x THEN legacy[a].spent ELSE 0
        BY <3>1
      <3>5. spentAt[a] \in Amounts
        BY <3>1, <3>3 DEF Amounts
      <3> QED BY <2>2, <3>1, <3>3, <3>4, <3>5 DEF Unpacked, VolumeOf
    <2> QED BY <2>1, <2>2
  <1>2. \A a \in Addr : SenderFits(now, record[a], legacy[a], spentAt[a], lifetime[a])
    <2> TAKE a \in Addr
    <2>1. legacy[a] \in LegacyRecord \cup {NoRecord} /\ Start <= Start
      BY <1>0 DEF Times
    <2>2. SenderFits(Start, NoRecord, legacy[a], spentAt[a], VolumeOf(legacy[a]))
      BY <1>0, <1>1, <2>1, SenderUnpacked
    <2> QED BY <1>0, <1>1, <2>2
  <1>3. LimitsTypeOK
    <2>1. DefaultRateLimit \in Nat /\ rateLimit = DefaultRateLimit /\ exempt = {}
      BY DEF LimitsInit, LimitsAssumption
    <2>2. /\ spentAt \in [Addr -> Amounts] /\ lifetime \in [Addr -> Nat]
          /\ charged \in [Addr -> Nat]
      <3>1. /\ spentAt = [a \in Addr |-> spentAt[a]]
            /\ lifetime = [a \in Addr |-> lifetime[a]]
        BY DEF LimitsInit
      <3> QED BY <1>0, <1>1, <3>1
    <2> QED BY <1>0, <2>1, <2>2 DEF LimitsTypeOK, Amounts, Times
  <1>4. \A a \in Addr : charged[a] <= rate_limit_used(Books, a)
    BY <1>0 DEF rate_limit_used, Books
  <1> QED BY <1>0, <1>2, <1>3, <1>4 DEF LimitsInv, Times

LEMMA LimitsStep ==
    ASSUME LimitsAssumption, LimitsInv, [LimitsNext]_limitsVars
    PROVE  /\ LimitsInv'
           /\ \A a \in Addr : charged'[a] > charged[a] => charged'[a] <= rateLimit
  <1>0. LimitsTypeOK /\ Books \in SoundBooks
    BY BooksAreSound DEF LimitsInv
  <1>b. /\ BatchesOf(Entries) \subseteq BatchesOf(Entries \cup UnchargedEntries)
        /\ BatchesOf(UnchargedEntries) \subseteq BatchesOf(Entries \cup UnchargedEntries)
    BY DEF BatchesOf
  <1>q. ASSUME UNCHANGED charged
        PROVE  \A a \in Addr : ~(charged'[a] > charged[a])
    BY <1>0, <1>q DEF LimitsTypeOK
  <1>s. ASSUME UNCHANGED <<now, bookVars>>, rateLimit' \in Nat, exempt' \subseteq Addr
        PROVE  LimitsInv'
    BY <1>s DEF LimitsInv, LimitsTypeOK, bookVars, rate_limit_used, Books
  <1>1. CASE \E es \in BatchesOf(Entries) : route_charged(es)
    <2>1. PICK es \in BatchesOf(Entries) : route_charged(es)
      BY <1>1
    <2>2. FoldLeft(charge_entry, Books, es) \in SoundBooks
      BY <1>0, <1>b, <2>1, BatchKeepsBooks
    <2> QED BY <2>1, <2>2, CommitKeepsInv DEF route_charged
  <1>2. CASE \E es \in BatchesOf(UnchargedEntries) : route_uncharged(es)
    <2>1. PICK es \in BatchesOf(UnchargedEntries) : route_uncharged(es)
      BY <1>2
    <2>2. FoldLeft(accrue_entry, Books, es) \in SoundBooks
      BY <1>0, <1>b, <2>1, BatchKeepsBooks
    <2> QED BY <2>1, <2>2, CommitKeepsInv DEF route_uncharged
  <1>3. CASE \E a \in Addr : migrate_user_record(a)
    BY <1>3, <1>q, MigrationKeepsInv DEF migrate_user_record
  <1>4. CASE \E spendings, volumes \in SUBSET {a \in Addr : legacy[a] # NoRecord} :
                prune_legacy(spendings, volumes)
    <2>1. PICK spendings \in SUBSET Addr, volumes \in SUBSET Addr : prune_legacy(spendings, volumes)
      BY <1>4
    <2> QED BY <2>1, <1>q, PruningKeepsInv DEF prune_legacy
  <1>5. CASE \E n \in RateLimits : set_rate_limit(n)
    BY <1>5, <1>0, <1>q, <1>s DEF set_rate_limit, bookVars, LimitsTypeOK, LimitsAssumption
  <1>6. CASE \E a \in Addr : set_rate_limit_whitelist(a)
    BY <1>6, <1>0, <1>q, <1>s DEF set_rate_limit_whitelist, bookVars, LimitsTypeOK
  <1>7. CASE \E a \in Addr : remove_rate_limit_whitelist(a)
    BY <1>7, <1>0, <1>q, <1>s DEF remove_rate_limit_whitelist, bookVars, LimitsTypeOK
  <1>8. CASE NextLedger
    BY <1>8, NextLedgerKeepsInv
  <1>9. CASE UNCHANGED limitsVars
    BY <1>9, <1>0, <1>q, <1>s DEF limitsVars, bookVars, LimitsTypeOK
  <1> QED BY <1>1, <1>2, <1>3, <1>4, <1>5, <1>6, <1>7, <1>8, <1>9 DEF LimitsNext

LEMMA InvIsExact ==
    ASSUME LimitsAssumption, LimitsInv
    PROVE  SpendingIsExact /\ DailySpanBound
  <1>1. \A a \in Addr : /\ Fits(now, load_user_record(Books, a), spentAt[a])
                        /\ load_user_record(Books, a).volume = lifetime[a]
    BY LoadIsLoaded DEF LimitsInv, SenderFits, Books
  <1>2. WindowIsExact
    BY <1>1 DEF WindowIsExact, Routed, Fits, Within, Times
  <1>3. VolumeIsLifetime
    BY <1>1 DEF VolumeIsLifetime
  <1>4. DailySpanBound
    BY <1>1 DEF DailySpanBound, Routed, Fits, Within, Times
  <1> QED BY <1>2, <1>3, <1>4 DEF SpendingIsExact

-----------------------------------------------------------------------------
(* The theorems.                                                           *)

\* Every record fits what its sender routed, whichever way it came to be
\* stored, and no slot was taken uncounted (storage.rs, rate_limit.rs).
THEOREM LimitsInvariant == LimitsSpec => []LimitsInv
  BY LimitsAssumption, LimitsInitially, LimitsStep, PTL DEF LimitsSpec

\* The window of a sender is the sum of what it routed since the window
\* opened, and its volume is all it ever routed: through resets, batches,
\* migration and the deletion of old entries (storage.rs:423-490).
THEOREM SpendingStaysExact == LimitsSpec => []SpendingIsExact
  BY LimitsAssumption, LimitsInvariant, InvIsExact, PTL

\* No day, wherever it begins, holds more than twice DAILY_MAX_LIMIT: the
\* window that is open and the end of the one before it (storage.rs:461-490).
THEOREM DailySpansAreBounded == LimitsSpec => []DailySpanBound
  BY LimitsAssumption, LimitsInvariant, InvIsExact, PTL

\* A payment that takes a slot never takes one beyond the cap in force, in
\* batches of any length and while the cap and the exemptions change
\* (rate_limit.rs).
THEOREM RateCapsHold == LimitsSpec => RateCapHolds
  <1>1. LimitsInv /\ [LimitsNext]_limitsVars
          => [\A a \in Addr : charged'[a] > charged[a] => charged'[a] <= rateLimit]_limitsVars
    BY LimitsAssumption, LimitsStep
  <1> QED BY <1>1, LimitsInvariant, PTL DEF LimitsSpec, RateCapHolds
=============================================================================
