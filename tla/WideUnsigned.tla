---------------------------- MODULE WideUnsigned ----------------------------
(***************************************************************************)
(* U256 (ethnum-patch, src/uint.rs and src/uint/api.rs) on the words of    *)
(* WideWords: every method that computes, in the release build, where the  *)
(* operators + - * << >> wrap (macros/ops.rs checks them in debug builds   *)
(* only) and / and % abort the call when the divisor is 0.                 *)
(***************************************************************************)
EXTENDS WideWords, FiniteSetsExt, SequencesExt

CONSTANT ByteBits   \* bits of a byte (8 in the source); divides WordBits

None == <<>>
Some(x) == <<x>>
Panics == "panics"

BITS == 2 * WordBits

\* The idioms the methods share: an Option out of (value, overflowed) and a
\* bound in place of a missing value.
or_none(r) == IF r[2] THEN None ELSE Some(r[1])
unwrap_or(x, bound) == IF x = None THEN bound ELSE x[1]
unless_zero(b, x) == IF b = ZERO THEN None ELSE Some(x)

\* Square and multiply: exp is halved until it is at most 1, squaring the base
\* each time; a set lowest bit multiplies it in.  Times is the multiplication
\* in use, with its overflow flag.
power(Times(_, _), base, exp) ==
    LET halvings == Cardinality({k \in 1..BITS : exp >= Pow2[k]})
        multiply(s) == LET r == Times(s.acc, s.base)
                       IN [s EXCEPT !.acc = r[1], !.over = s.over \/ r[2]]
        square(s) == LET r == Times(s.base, s.base)
                     IN [s EXCEPT !.base = r[1], !.over = s.over \/ r[2]]
        halve(s, bit) == square(IF bit = 1 THEN multiply(s) ELSE s)
        bits == [k \in 1..halvings |-> (exp \div Pow2[k - 1]) % 2]
        last == FoldLeft(halve, [base |-> base, acc |-> ONE, over |-> FALSE], bits)
        done == IF exp = 0 THEN last ELSE multiply(last)
    IN <<done.acc, done.over>>

-----------------------------------------------------------------------------
(* Bits and bytes, on a little-endian machine.                             *)

word_count_ones(x) == Cardinality({k \in 0..(WordBits - 1) : word_shr(x, k) % 2 = 1})
count_ones(a) == word_count_ones(high(a)) + word_count_ones(low(a))
count_zeros(a) == (WordBits - word_count_ones(high(a))) + (WordBits - word_count_ones(low(a)))
leading_zeros(a) == ctlz(a)
trailing_zeros(a) == cttz(a)
leading_ones(a) == leading_zeros(not(a))
trailing_ones(a) == trailing_zeros(not(a))
rotate_left(a, n) == rol3(a, n)
rotate_right(a, n) == ror3(a, n)

\* A word with its groups of `size` bits in the opposite order.
word_reversed(x, size) ==
    LET groups == WordBits \div size
        group(k) == word_shr(x, k * size) % Pow2[size]
        moved(k) == word_shl(group(k), (groups - 1 - k) * size)
    IN MapThenSumSet(moved, 0..(groups - 1))

swap_bytes(a) == <<word_reversed(low(a), ByteBits), word_reversed(high(a), ByteBits)>>
reverse_bits(a) == <<word_reversed(low(a), 1), word_reversed(high(a), 1)>>
from_be(a) == swap_bytes(a)
from_le(a) == a
to_be(a) == swap_bytes(a)
to_le(a) == a

\* The memory of a number: its bytes, the lowest one first.
WordBytes == WordBits \div ByteBits
to_ne_bytes(a) ==
    [k \in 1..(2 * WordBytes) |->
        LET x == IF k <= WordBytes THEN low(a) ELSE high(a)
        IN word_shr(x, ((k - 1) % WordBytes) * ByteBits) % Pow2[ByteBits]]
from_ne_bytes(bytes) ==
    LET placed(from) == LET at(k) == word_shl(bytes[from + k], k * ByteBits)
                        IN MapThenSumSet(at, 0..(WordBytes - 1))
    IN <<placed(WordBytes + 1), placed(1)>>
to_be_bytes(a) == to_ne_bytes(to_be(a))
to_le_bytes(a) == to_ne_bytes(to_le(a))
from_be_bytes(bytes) == from_be(from_ne_bytes(bytes))
from_le_bytes(bytes) == from_le(from_ne_bytes(bytes))

-----------------------------------------------------------------------------
(* Addition, subtraction, multiplication.                                  *)

u_wrapping_add(a, b) == add3(a, b)
u_overflowing_add(a, b) == uaddc(a, b)
u_checked_add(a, b) == or_none(u_overflowing_add(a, b))
u_saturating_add(a, b) == unwrap_or(u_checked_add(a, b), U_MAX)

\* The signed operand's bits, added as if they were a large number.
u_wrapping_add_signed(a, b) == u_wrapping_add(a, b)
u_overflowing_add_signed(a, b) ==
    LET r == u_overflowing_add(a, b)
    IN <<r[1], r[2] # is_negative(b)>>
u_checked_add_signed(a, b) == or_none(u_overflowing_add_signed(a, b))
u_saturating_add_signed(a, b) ==
    LET r == u_overflowing_add(a, b)
    IN IF r[2] = is_negative(b) THEN r[1] ELSE IF r[2] THEN U_MAX ELSE ZERO

u_wrapping_sub(a, b) == sub3(a, b)
u_overflowing_sub(a, b) == usubc(a, b)
u_checked_sub(a, b) == or_none(u_overflowing_sub(a, b))
u_saturating_sub(a, b) == unwrap_or(u_checked_sub(a, b), ZERO)
u_abs_diff(a, b) == IF u_lt(a, b) THEN u_wrapping_sub(b, a) ELSE u_wrapping_sub(a, b)

u_wrapping_mul(a, b) == mul3(a, b)
u_overflowing_mul(a, b) == umulc(a, b)
u_checked_mul(a, b) == or_none(u_overflowing_mul(a, b))
u_saturating_mul(a, b) == unwrap_or(u_checked_mul(a, b), U_MAX)

u_overflowing_neg(a) == <<u_wrapping_add(not(a), ONE), a # ZERO>>
u_wrapping_neg(a) == u_overflowing_neg(a)[1]
u_checked_neg(a) == or_none(u_overflowing_neg(a))

u_overflowing_pow(a, exp) == power(u_overflowing_mul, a, exp)
u_wrapping_pow(a, exp) == power(LAMBDA x, y : <<u_wrapping_mul(x, y), FALSE>>, a, exp)[1]
u_pow(a, exp) == u_wrapping_pow(a, exp)
u_checked_pow(a, exp) == or_none(u_overflowing_pow(a, exp))
u_saturating_pow(a, exp) == unwrap_or(u_checked_pow(a, exp), U_MAX)

-----------------------------------------------------------------------------
(* Division.                                                               *)

u_div(a, b) == IF b = ZERO THEN Panics ELSE udivmod4(a, b).quotient
u_rem(a, b) == IF b = ZERO THEN Panics ELSE udivmod4(a, b).remainder
u_checked_div(a, b) == unless_zero(b, u_div(a, b))
u_checked_rem(a, b) == unless_zero(b, u_rem(a, b))
u_wrapping_div(a, b) == u_div(a, b)
u_wrapping_rem(a, b) == u_rem(a, b)
u_saturating_div(a, b) == u_wrapping_div(a, b)
u_overflowing_div(a, b) == <<u_div(a, b), FALSE>>
u_overflowing_rem(a, b) == <<u_rem(a, b), FALSE>>

u_div_euclid(a, b) == u_div(a, b)
u_rem_euclid(a, b) == u_rem(a, b)
u_checked_div_euclid(a, b) == unless_zero(b, u_div_euclid(a, b))
u_checked_rem_euclid(a, b) == unless_zero(b, u_rem_euclid(a, b))
u_wrapping_div_euclid(a, b) == u_div(a, b)
u_wrapping_rem_euclid(a, b) == u_rem(a, b)
u_overflowing_div_euclid(a, b) == <<u_div(a, b), FALSE>>
u_overflowing_rem_euclid(a, b) == <<u_rem(a, b), FALSE>>

u_div_rem(a, b) ==
    IF b = ZERO THEN Panics
    ELSE LET r == udivmod4(a, b) IN <<r.quotient, r.remainder>>
u_div_rem_euclid(a, b) == u_div_rem(a, b)
u_checked_div_rem(a, b) == unless_zero(b, u_div_rem(a, b))
u_checked_div_rem_euclid(a, b) == u_checked_div_rem(a, b)
u_saturating_div_rem(a, b) == u_div_rem(a, b)
u_saturating_div_rem_euclid(a, b) == u_div_rem(a, b)
u_wrapping_div_rem(a, b) == u_div_rem(a, b)
u_wrapping_div_rem_euclid(a, b) == u_div_rem(a, b)
u_overflowing_div_rem(a, b) == Append(u_div_rem(a, b), FALSE)
u_overflowing_div_rem_euclid(a, b) == Append(u_div_rem(a, b), FALSE)

-----------------------------------------------------------------------------
(* Shifts, powers of two, conversions.                                     *)

u_wrapping_shl(a, n) == shl3(a, n % BITS)
u_overflowing_shl(a, n) == <<u_wrapping_shl(a, n), n > BITS - 1>>
u_checked_shl(a, n) == or_none(u_overflowing_shl(a, n))
u_wrapping_shr(a, n) == shr3(a, n % BITS)
u_overflowing_shr(a, n) == <<u_wrapping_shr(a, n), n > BITS - 1>>
u_checked_shr(a, n) == or_none(u_overflowing_shr(a, n))

is_power_of_two(a) == count_ones(a) = 1
one_less_than_next_power_of_two(a) ==
    IF a \in {ZERO, ONE} THEN ZERO
    ELSE shr3(U_MAX, leading_zeros(u_wrapping_sub(a, ONE)))
next_power_of_two(a) == u_wrapping_add(one_less_than_next_power_of_two(a), ONE)
checked_next_power_of_two(a) == u_checked_add(one_less_than_next_power_of_two(a), ONE)

\* A word taken into a wide number, and back: unsigned, signed, or refused.
u_new(x) == <<0, x>>
as_u128(a) == low(a)
as_u256_of_signed(x) == <<IF signed_word(x) >= 0 THEN 0 ELSE WORD - 1, x>>
u_try_into_u128(a) == IF u_lt(u_new(WORD - 1), a) THEN None ELSE Some(low(a))
u_try_from_i256(a) == IF is_negative(a) THEN None ELSE Some(a)

u_sum(xs) == FoldLeft(u_wrapping_add, ZERO, xs)
u_product(xs) == FoldLeft(u_wrapping_mul, ONE, xs)

-----------------------------------------------------------------------------
(* What the methods promise, in terms of the numbers.                      *)

UNumbers == 0..(WORD * WORD - 1)
Clamped(v, least, most) == IF v < least THEN least ELSE IF v > most THEN most ELSE v

Magnitude(v) == IF v < 0 THEN -v ELSE v

\* The e-th power of v modulo the numbers, for v the value of an I256, and the
\* power itself as far as it matters: beyond the numbers it stays there.
Residue(v) == ((v + (WORD * WORD) \div 2) % (WORD * WORD)) - (WORD * WORD) \div 2
PowerModulo(v, e) ==
    FoldLeft(LAMBDA acc, k : Residue(acc * v), 1, [k \in 1..e |-> k]) % (WORD * WORD)
PowerClamped(v, e) ==
    LET beyond(acc) == v # 0 /\ Magnitude(acc) > (WORD * WORD) \div Magnitude(v)
        next(acc) == IF ~beyond(acc) THEN acc * v
                     ELSE IF (acc < 0) = (v < 0) THEN WORD * WORD ELSE -WORD * WORD
    IN FoldLeft(LAMBDA acc, k : next(acc), 1, [k \in 1..e |-> k])

\* Three flavours of an operation whose exact result is v; the wrapping one is
\* v modulo the numbers.
UGuarded(v, wrapping, overflowing, checked, saturating) ==
    /\ overflowing = <<wrapping, v \notin UNumbers>>
    /\ checked = or_none(overflowing)
    /\ u_value(saturating) = Clamped(v, 0, WORD * WORD - 1)
UFlavours(v, wrapping, overflowing, checked, saturating) ==
    /\ u_value(wrapping) = v % (WORD * WORD)
    /\ UGuarded(v, wrapping, overflowing, checked, saturating)

\* The product of two numbers, or, where it is beyond the integers of TLC, a
\* smaller one with the same residue that is no number either.
UProduct(a, b) ==
    IF is_negative(a) /\ is_negative(b)
    THEN WORD * WORD + ((i_value(a) * i_value(b)) % (WORD * WORD))
    ELSE u_value(a) * u_value(b)

USumsExact(a, b) ==
    LET x == u_value(a)
        y == u_value(b)
    IN /\ UFlavours(x + y, u_wrapping_add(a, b), u_overflowing_add(a, b),
                    u_checked_add(a, b), u_saturating_add(a, b))
       /\ UFlavours(x + i_value(b), u_wrapping_add_signed(a, b), u_overflowing_add_signed(a, b),
                    u_checked_add_signed(a, b), u_saturating_add_signed(a, b))
       /\ UFlavours(x - y, u_wrapping_sub(a, b), u_overflowing_sub(a, b),
                    u_checked_sub(a, b), u_saturating_sub(a, b))
       /\ UFlavours(UProduct(a, b), u_wrapping_mul(a, b), u_overflowing_mul(a, b),
                    u_checked_mul(a, b), u_saturating_mul(a, b))
       /\ UFlavours(-x, u_wrapping_neg(a), u_overflowing_neg(a), u_checked_neg(a),
                    u_saturating_sub(ZERO, a))
       /\ u_value(u_abs_diff(a, b)) = IF x > y THEN x - y ELSE y - x
       /\ u_value(u_sum(<<a, b, a>>)) = (2 * x + y) % (WORD * WORD)
       /\ u_value(u_product(<<a, b>>)) = UProduct(a, b) % (WORD * WORD)

UQuotientsExact(a, b) ==
    IF b = ZERO
    THEN /\ {u_div(a, b), u_rem(a, b), u_div_rem(a, b), u_wrapping_div_rem_euclid(a, b)} = {Panics}
         /\ {u_checked_div(a, b), u_checked_rem(a, b), u_checked_div_rem(a, b)} = {None}
         /\ {u_checked_div_euclid(a, b), u_checked_rem_euclid(a, b),
             u_checked_div_rem_euclid(a, b)} = {None}
    ELSE LET q == u_div(a, b)
             r == u_rem(a, b)
         IN /\ u_value(a) = u_value(q) * u_value(b) + u_value(r)
            /\ u_lt(r, b)
            /\ {u_wrapping_div(a, b), u_saturating_div(a, b), u_overflowing_div(a, b)[1],
                u_checked_div(a, b)[1], u_wrapping_div_euclid(a, b),
                u_overflowing_div_euclid(a, b)[1], u_checked_div_euclid(a, b)[1]} = {q}
            /\ {u_wrapping_rem(a, b), u_overflowing_rem(a, b)[1], u_checked_rem(a, b)[1],
                u_wrapping_rem_euclid(a, b), u_overflowing_rem_euclid(a, b)[1],
                u_checked_rem_euclid(a, b)[1]} = {r}
            /\ {u_div_rem(a, b), u_div_rem_euclid(a, b), u_checked_div_rem(a, b)[1],
                u_checked_div_rem_euclid(a, b)[1], u_saturating_div_rem(a, b),
                u_saturating_div_rem_euclid(a, b), u_wrapping_div_rem(a, b),
                u_wrapping_div_rem_euclid(a, b)} = {<<q, r>>}
            /\ {u_overflowing_div_rem(a, b), u_overflowing_div_rem_euclid(a, b)} = {<<q, r, FALSE>>}

\* n is a shift, a rotation or an exponent.
UPowersExact(a, n) ==
    LET x == u_value(a)
        k == n % BITS
    IN /\ u_value(u_pow(a, n)) = PowerModulo(i_value(a), n)
       /\ UGuarded(PowerClamped(x, n), u_wrapping_pow(a, n), u_overflowing_pow(a, n),
                   u_checked_pow(a, n), u_saturating_pow(a, n))
       /\ u_value(u_wrapping_shl(a, n)) = (x * Pow2[k]) % (WORD * WORD)
       /\ u_value(u_wrapping_shr(a, n)) = x \div Pow2[k]
       /\ (u_checked_shl(a, n) = None) <=> n >= BITS
       /\ (u_checked_shr(a, n) = None) <=> n >= BITS
       /\ u_value(rotate_left(a, n)) = ((x * Pow2[k]) % (WORD * WORD)) + (x \div Pow2[BITS - k])
       /\ rotate_right(rotate_left(a, n), n) = a

\* The value of a sequence of digits of the given base, the highest first, or
\* WORD * WORD if it is no number.
Positional(digits, base) ==
    FoldLeft(LAMBDA acc, d : Clamped(acc * base + d, 0, WORD * WORD), 0, digits)

BitsExact(a) ==
    LET x == u_value(a)
        digits == Reverse([k \in 1..BITS |-> (x \div Pow2[k - 1]) % 2])
        powers == {Pow2[k] : k \in 0..(BITS - 1)}
    IN /\ count_ones(a) = Cardinality({k \in DOMAIN digits : digits[k] = 1})
       /\ count_ones(a) + count_zeros(a) = BITS
       /\ leading_zeros(a) = Cardinality({k \in 0..(BITS - 1) : x < Pow2[k]})
       /\ x # 0 => x % Pow2[trailing_zeros(a)] = 0 /\ (x \div Pow2[trailing_zeros(a)]) % 2 = 1
       /\ leading_ones(a) = leading_zeros(not(a)) /\ trailing_ones(a) = trailing_zeros(not(a))
       /\ u_value(reverse_bits(a)) = Positional(Reverse(digits), 2)
       /\ Positional(to_be_bytes(a), Pow2[ByteBits]) = x
       /\ Positional(Reverse(to_le_bytes(a)), Pow2[ByteBits]) = x
       /\ from_be_bytes(to_be_bytes(a)) = a /\ from_le_bytes(to_le_bytes(a)) = a
       /\ is_power_of_two(a) <=> x \in powers
       /\ LET next == {p \in powers : p >= x}
          IN IF next = {} THEN checked_next_power_of_two(a) = None
             ELSE /\ u_value(next_power_of_two(a)) = Min(next)
                  /\ checked_next_power_of_two(a) = Some(next_power_of_two(a))
       /\ u_try_into_u128(a) = IF x < WORD THEN Some(x) ELSE None
       /\ u_value(as_u256_of_signed(as_u128(a))) = signed_word(low(a)) % (WORD * WORD)
=============================================================================
