----------------------------- MODULE WideWords -----------------------------
(***************************************************************************)
(* 256-bit arithmetic out of two machine words (ethnum-patch,              *)
(* src/intrinsics): the repository's own fork of ethnum, on which the      *)
(* price oracle's accumulator runs.  A number is the pair <<hi, lo>> of its*)
(* words; U256 and I256 are two readings of the same bits, so the casts of *)
(* intrinsics/cast.rs are the identity here.  The word is WordBits wide    *)
(* instead of 128.                                                         *)
(*                                                                         *)
(* The routines are ports of C code that wraps silently, while the release *)
(* profile of the workspace has overflow-checks on (Cargo.toml): wherever  *)
(* the Rust uses a plain operator the sum must fit the word, or the call   *)
(* aborts.  Such sums are not reduced below, and are listed in `sums`.     *)
(***************************************************************************)
EXTENDS Integers, FiniteSets, Sequences

CONSTANT WordBits   \* bits of a word (128 in the source)

WORD == 2 ^ WordBits             \* the number of values of a word
B == 2 ^ (WordBits \div 2)       \* and of half a word

\* The facts about powers of two that the word arithmetic relies on.
ASSUME WordAssumption ==
    /\ WordBits \in Nat /\ WordBits % 2 = 0
    /\ B \in Nat /\ B > 1 /\ B % 2 = 0
    /\ WORD = B * B

Words == 0..(WORD - 1)
Wide == Words \X Words
Pow2 == [k \in 0..(2 * WordBits) |-> 2 ^ k]

from_words(hi, lo) == <<hi, lo>>
high(a) == a[1]
low(a) == a[2]

\* The two readings of the bits.
u_value(a) == high(a) * WORD + low(a)
signed_word(w) == IF 2 * w < WORD THEN w ELSE w - WORD
i_value(a) == signed_word(high(a)) * WORD + low(a)

\* Ord: the words are compared one after the other, the high one signed.
u_lt(a, b) == high(a) < high(b) \/ (high(a) = high(b) /\ low(a) < low(b))
i_lt(a, b) ==
    \/ signed_word(high(a)) < signed_word(high(b))
    \/ high(a) = high(b) /\ low(a) < low(b)
is_negative(a) == signed_word(high(a)) < 0

ZERO == <<0, 0>>
ONE == <<0, 1>>
MINUS_ONE == <<WORD - 1, WORD - 1>>
U_MAX == MINUS_ONE
I_MIN == <<WORD \div 2, 0>>
I_MAX == <<WORD \div 2 - 1, WORD - 1>>

-----------------------------------------------------------------------------
(* The operations of one word: the value and whether it overflowed.        *)

Bit(flag) == IF flag THEN 1 ELSE 0
word_add(x, y) == <<(x + y) % WORD, x + y >= WORD>>
word_sub(x, y) == <<(x - y) % WORD, x < y>>
word_mul(x, y) == <<(x * y) % WORD, x * y >= WORD>>
word_not(x) == WORD - 1 - x
word_shl(x, n) == (x * Pow2[n]) % WORD
word_shr(x, n) == x \div Pow2[n]
word_leading_zeros(x) == Cardinality({k \in 0..(WordBits - 1) : x < Pow2[k]})
word_trailing_zeros(x) == Cardinality({k \in 1..WordBits : x % Pow2[k] = 0})

not(a) == <<word_not(high(a)), word_not(low(a))>>

-----------------------------------------------------------------------------
(* Addition and subtraction.  add2 and sub2 are the same in place.         *)

add3(a, b) ==
    LET lo == word_add(low(a), low(b))
    IN <<(high(a) + Bit(lo[2]) + high(b)) % WORD, lo[1]>>

uaddc(a, b) ==
    LET lo == word_add(low(a), low(b))
        c  == word_add(high(a), Bit(lo[2]))
        hi == word_add(c[1], high(b))
    IN <<<<hi[1], lo[1]>>, c[2] \/ hi[2]>>

iaddc(a, b) ==
    LET s == add3(a, b)
    IN <<s, IF is_negative(b) THEN ~i_lt(s, a) ELSE i_lt(s, a)>>

sub3(a, b) ==
    LET lo == word_sub(low(a), low(b))
    IN <<(high(a) - Bit(lo[2]) - high(b)) % WORD, lo[1]>>

usubc(a, b) ==
    LET lo == word_sub(low(a), low(b))
        c  == word_sub(high(a), Bit(lo[2]))
        hi == word_sub(c[1], high(b))
    IN <<<<hi[1], lo[1]>>, c[2] \/ hi[2]>>

isubc(a, b) ==
    LET s == sub3(a, b)
    IN <<s, IF is_negative(b) THEN ~i_lt(a, s) ELSE i_lt(a, s)>>

-----------------------------------------------------------------------------
(* Multiplication.                                                         *)

\* The product of two words, in schoolbook fashion on half words.
umulddi3_run(a, b) ==
    LET low1  == (a % B) * (b % B)
        t1    == low1 \div B + (a \div B) * (b % B)
        low2  == (low1 % B) + (t1 % B) * B
        t2    == low2 \div B + (b \div B) * (a % B)
        low3  == (low2 % B) + (t2 % B) * B
        high1 == t1 \div B + t2 \div B
        high2 == high1 + (a \div B) * (b \div B)
    IN [product |-> <<high2, low3>>,
        sums    |-> {low1, t1, low2, t2, low3, high1, high2}]
umulddi3(a, b) == umulddi3_run(a, b).product

mul3(a, b) ==
    LET r == umulddi3(low(a), low(b))
    IN <<(high(r) + high(a) * low(b) + low(a) * high(b)) % WORD, low(r)>>

\* Mutant: the carry out of the high word is not looked at.
umulc_carry_lost(a, b) ==
    LET r     == umulddi3(low(a), low(b))
        hi_lo == word_mul(high(a), low(b))
        lo_hi == word_mul(low(a), high(b))
        hi    == word_add(hi_lo[1], lo_hi[1])
        top   == word_add(high(r), hi[1])
    IN <<<<top[1], low(r)>>,
         hi_lo[2] \/ lo_hi[2] \/ hi[2] \/ (high(a) # 0 /\ high(b) # 0)>>

umulc(a, b) ==
    LET r     == umulddi3(low(a), low(b))
        hi_lo == word_mul(high(a), low(b))
        lo_hi == word_mul(low(a), high(b))
        hi    == word_add(hi_lo[1], lo_hi[1])
        top   == word_add(high(r), hi[1])
    IN <<<<top[1], low(r)>>,
         hi_lo[2] \/ lo_hi[2] \/ hi[2] \/ top[2] \/ (high(a) # 0 /\ high(b) # 0)>>

-----------------------------------------------------------------------------
(* Shifts, rotations and counts.  The parts that are or-ed together have   *)
(* no bit in common, so `|` is the sum; a shift of 0 to 2 * WordBits - 1.  *)

shl3(a, n) ==
    IF n = 0 THEN a
    ELSE IF n < WordBits
         THEN <<word_shl(high(a), n) + word_shr(low(a), WordBits - n), word_shl(low(a), n)>>
         ELSE <<word_shl(low(a), n - WordBits), 0>>

shr3(a, n) ==
    IF n = 0 THEN a
    ELSE IF n < WordBits
         THEN <<word_shr(high(a), n), word_shr(low(a), n) + word_shl(high(a), WordBits - n)>>
         ELSE <<0, word_shr(high(a), n - WordBits)>>

\* The word shifted to the right with its sign.
word_sar(x, n) == (signed_word(x) \div Pow2[n]) % WORD

sar3(a, n) ==
    IF n = 0 THEN a
    ELSE IF n < WordBits
         THEN <<word_sar(high(a), n), word_shr(low(a), n) + word_shl(high(a), WordBits - n)>>
         ELSE <<word_sar(high(a), WordBits - 1), word_sar(high(a), n - WordBits)>>

\* Both shifts by nothing give the number itself.
rol3(a, n) ==
    LET k == n % (2 * WordBits)
    IN IF k = 0 THEN a
       ELSE LET l == shl3(a, k)
                r == shr3(a, 2 * WordBits - k)
            IN <<high(l) + high(r), low(l) + low(r)>>
ror3(a, n) ==
    LET k == n % (2 * WordBits)
    IN IF k = 0 THEN a
       ELSE LET r == shr3(a, k)
                l == shl3(a, 2 * WordBits - k)
            IN <<high(l) + high(r), low(l) + low(r)>>

ctlz(a) ==
    IF high(a) = 0 THEN word_leading_zeros(low(a)) + WordBits
                   ELSE word_leading_zeros(high(a))
cttz(a) ==
    IF low(a) = 0 THEN word_trailing_zeros(high(a)) + WordBits
                  ELSE word_trailing_zeros(low(a))

-----------------------------------------------------------------------------
(* Division: Knuth's Algorithm D, on half words for a divisor of one word  *)
(* and on words for a divisor of two.                                      *)

\* A guessed digit q with rest r is lowered until it passes the test or the
\* rest leaves its digit: after how many turns, of the `at most two` that the
\* comments speak of.
MaxTurns == 3
TurnsUntil(Passes(_), RestLeft(_)) ==
    CHOOSE k \in 0..MaxTurns :
        /\ k = MaxTurns \/ Passes(k) \/ (k > 0 /\ RestLeft(k))
        /\ \A j \in 0..(k - 1) : ~Passes(j) /\ ~(j > 0 /\ RestLeft(j))

\* One digit of a quotient on half words: (un * B + next) by v = (vn1, vn0).
Digit(un, next, v) ==
    LET vn1 == v \div B
        vn0 == v % B
        q   == un \div vn1
        r   == un - q * vn1
        Passes(k) == q - k < B /\ (q - k) * vn0 <= B * (r + k * vn1) + next
        RestLeft(k) == r + k * vn1 >= B
        turns == TurnsUntil(Passes, RestLeft)
        digit == q - turns
    IN [digit |-> digit,
        turns |-> turns,
        rest  |-> (un * B + next - digit * v) % WORD,
        sums  |-> {q * vn1, r + turns * vn1, digit * vn0}]

\* The quotient and the rest of <<u1, u0>> by one word v > u1.
udiv256_by_128_to_128(u1, u0, v) ==
    LET s    == word_leading_zeros(v)
        vn   == word_shl(v, s)
        top  == IF s > 0 THEN word_shl(u1, s) + word_shr(u0, WordBits - s) ELSE u1
        un10 == word_shl(u0, s)
        d1   == Digit(top, un10 \div B, vn)
        d0   == Digit(d1.rest, un10 % B, vn)
    IN [quotient  |-> d1.digit * B + d0.digit,
        remainder |-> word_shr(d0.rest, s),
        turns     |-> {d1.turns, d0.turns},
        sums      |-> d1.sums \cup d0.sums \cup {d1.digit * B + d0.digit}]

\* The words of a, lowest first, shifted into three.
full_shl(a, n) ==
    LET hi == shr3(a, WordBits - n)
    IN <<word_shl(low(a), n), low(hi), high(hi)>>
full_shr(u, n) ==
    IF n = 0 THEN <<u[2], u[1]>>
    ELSE <<word_shr(u[2], n) + word_shl(u[3], WordBits - n),
           word_shr(u[1], n) + word_shl(u[2], WordBits - n)>>

\* The product of two words, written a second time by its author.
fullmul_u128(a, b) ==
    LET t1 == (a % B) * (b % B)
        t2 == (a \div B) * (b % B) + (t1 \div B)
        t3 == (a % B) * (b \div B) + (t2 % B)
    IN <<(a \div B) * (b \div B) + (t2 \div B) + (t3 \div B),
         word_shl(t3, WordBits \div 2) + (t1 % B)>>

fullmul_u256_u128(a, b) ==
    LET l == fullmul_u128(low(a), b)
        h == fullmul_u128(high(a), b)
        m == word_add(high(l), low(h))
    IN <<low(l), m[1], high(h) + Bit(m[2])>>

add_carry(a, b, c) ==
    LET r1 == word_add(b, Bit(c))
        r2 == word_add(a, r1[1])
    IN <<r2[1], r1[2] \/ r2[2]>>
sub_carry(a, b, c) ==
    LET r1 == word_add(b, Bit(c))
        r2 == word_sub(a, r1[1])
    IN <<r2[1], r1[2] \/ r2[2]>>

\* x by y, where high(y) is not 0.  The divisor has two digits and the
\* quotient one, so the test on the guess is exact and `over` stays FALSE: the
\* step that puts a divisor back (D6) is there for longer divisors.
div_mod_knuth(x, y) ==
    LET n  == word_leading_zeros(high(y))
        v  == shl3(y, n)
        u  == full_shl(x, n)
        e  == udiv256_by_128_to_128(u[3], u[2], high(v))
        rh(k) == e.remainder + k * high(v)
        Passes(k) ==
            LET p == fullmul_u128(e.quotient - k, low(v))
            IN high(p) < rh(k) \/ (high(p) = rh(k) /\ low(p) <= u[1])
        RestLeft(k) == rh(k) >= WORD
        turns == TurnsUntil(Passes, RestLeft)
        guess == IF u[3] < high(v) THEN e.quotient - turns ELSE WORD - 1
        taken == fullmul_u256_u128(v, guess)
        s1 == sub_carry(u[1], taken[1], FALSE)
        s2 == sub_carry(u[2], taken[2], s1[2])
        s3 == sub_carry(u[3], taken[3], s2[2])
        a1 == add_carry(s1[1], low(v), FALSE)
        a2 == add_carry(s2[1], high(v), a1[2])
        backed == <<a1[1], a2[1], (s3[1] + Bit(a2[2])) % WORD>>
        over   == s3[2]
    IN [quotient  |-> <<0, IF over THEN guess - 1 ELSE guess>>,
        remainder |-> full_shr(IF over THEN backed ELSE <<s1[1], s2[1], s3[1]>>, n),
        turns     |-> IF u[3] < high(v) THEN {turns} ELSE {}]

\* The quotient and the remainder of a by b # 0: how many words matter decides
\* the routine.
udivmod4(a, b) ==
    LET one == udiv256_by_128_to_128(high(a) % low(b), low(a), low(b))
    IN IF high(a) = 0 /\ high(b) = 0
         THEN [quotient |-> <<0, low(a) \div low(b)>>, remainder |-> <<0, low(a) % low(b)>>]
       ELSE IF u_lt(a, b)
         THEN [quotient |-> ZERO, remainder |-> a]
       ELSE IF high(b) = 0
         THEN [quotient  |-> <<high(a) \div low(b), one.quotient>>,
               remainder |-> <<0, one.remainder>>]
       ELSE LET r == div_mod_knuth(a, b)
            IN [quotient |-> r.quotient, remainder |-> r.remainder]

\* (x ^ s) - s: the negation when s is -1, nothing when it is 0.
negated_if(cond, x) == IF cond THEN sub3(not(x), MINUS_ONE) ELSE x

\* Mutant: the remainder takes the sign of the divisor.
idivmod4_sign_of_divisor(a, b) ==
    LET r == udivmod4(negated_if(is_negative(a), a), negated_if(is_negative(b), b))
    IN [quotient  |-> negated_if(is_negative(a) # is_negative(b), r.quotient),
        remainder |-> negated_if(is_negative(b), r.remainder)]

\* The magnitudes are divided; the remainder has the sign of a.
idivmod4(a, b) ==
    LET r == udivmod4(negated_if(is_negative(a), a), negated_if(is_negative(b), b))
    IN [quotient  |-> negated_if(is_negative(a) # is_negative(b), r.quotient),
        remainder |-> negated_if(is_negative(a), r.remainder)]

\* Mutant: the least number is treated like any other.
imulc_no_min_case(a, b) ==
    LET abs_a == negated_if(is_negative(a), a)
        abs_b == negated_if(is_negative(b), b)
        limit == IF is_negative(a) = is_negative(b)
                 THEN idivmod4(I_MAX, abs_b).quotient
                 ELSE idivmod4(I_MIN, negated_if(TRUE, abs_b)).quotient
    IN <<mul3(a, b), ~i_lt(abs_a, <<0, 2>>) /\ ~i_lt(abs_b, <<0, 2>>) /\ i_lt(limit, abs_a)>>

imulc(a, b) ==
    LET abs_a == negated_if(is_negative(a), a)
        abs_b == negated_if(is_negative(b), b)
        limit == IF is_negative(a) = is_negative(b)
                 THEN idivmod4(I_MAX, abs_b).quotient
                 ELSE idivmod4(I_MIN, negated_if(TRUE, abs_b)).quotient
    IN <<mul3(a, b),
         IF a = I_MIN THEN b \notin {ZERO, ONE}
         ELSE IF b = I_MIN THEN a \notin {ZERO, ONE}
         ELSE /\ ~i_lt(abs_a, <<0, 2>>)
              /\ ~i_lt(abs_b, <<0, 2>>)
              /\ i_lt(limit, abs_a)>>

-----------------------------------------------------------------------------
(* What the routines rely on without saying it in code.                    *)

\* Sums and products written with the checked operators fit the word, and a
\* guess is lowered at most twice.
StepsStayInTheWord(a, b) ==
    /\ umulddi3_run(low(a), low(b)).sums \subseteq Words
    /\ high(a) < low(b) =>
        LET r == udiv256_by_128_to_128(high(a), low(a), low(b))
        IN r.sums \subseteq Words /\ r.turns \subseteq 0..2
    /\ high(b) # 0 /\ ~u_lt(a, b) => div_mod_knuth(a, b).turns \subseteq 0..2
=============================================================================
