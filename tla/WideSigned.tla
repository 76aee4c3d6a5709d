----------------------------- MODULE WideSigned -----------------------------
(***************************************************************************)
(* I256 (ethnum-patch, src/int.rs and src/int/api.rs): the same words read *)
(* with a sign, in the release build.  The bits, bytes, rotations and the  *)
(* casts between U256 and I256 are those of WideUnsigned.                  *)
(***************************************************************************)
EXTENDS WideUnsigned

\* The one quotient that does not fit.
overflows_division(a, b) == a = I_MIN /\ b = MINUS_ONE
unless_undefined(a, b, x) == IF b = ZERO \/ overflows_division(a, b) THEN None ELSE Some(x)
is_positive_rhs(b) == i_lt(ZERO, b)

-----------------------------------------------------------------------------
(* Addition, subtraction, negation.                                        *)

i_wrapping_add(a, b) == add3(a, b)
i_overflowing_add(a, b) == iaddc(a, b)
i_checked_add(a, b) == or_none(i_overflowing_add(a, b))
i_saturating_add(a, b) ==
    unwrap_or(i_checked_add(a, b), IF is_positive_rhs(b) THEN I_MAX ELSE I_MIN)

i_wrapping_sub(a, b) == sub3(a, b)
i_overflowing_sub(a, b) == isubc(a, b)
i_checked_sub(a, b) == or_none(i_overflowing_sub(a, b))
i_saturating_sub(a, b) ==
    unwrap_or(i_checked_sub(a, b), IF is_positive_rhs(b) THEN I_MIN ELSE I_MAX)

\* An unsigned operand, read with a sign first.
i_wrapping_add_unsigned(a, b) == i_wrapping_add(a, b)
i_overflowing_add_unsigned(a, b) ==
    LET r == i_overflowing_add(a, b)
    IN <<r[1], r[2] # is_negative(b)>>
i_checked_add_unsigned(a, b) == or_none(i_overflowing_add_unsigned(a, b))
i_saturating_add_unsigned(a, b) == unwrap_or(i_checked_add_unsigned(a, b), I_MAX)

i_wrapping_sub_unsigned(a, b) == i_wrapping_sub(a, b)
i_overflowing_sub_unsigned(a, b) ==
    LET r == i_overflowing_sub(a, b)
    IN <<r[1], r[2] # is_negative(b)>>
i_checked_sub_unsigned(a, b) == or_none(i_overflowing_sub_unsigned(a, b))
i_saturating_sub_unsigned(a, b) == unwrap_or(i_checked_sub_unsigned(a, b), I_MIN)

i_neg(a) == add3(not(a), ONE)
i_wrapping_neg(a) == i_wrapping_sub(ZERO, a)
i_overflowing_neg(a) == IF a = I_MIN THEN <<I_MIN, TRUE>> ELSE <<i_neg(a), FALSE>>
i_checked_neg(a) == or_none(i_overflowing_neg(a))
i_saturating_neg(a) == i_saturating_sub(ZERO, a)

i_abs(a) == IF is_negative(a) THEN i_neg(a) ELSE a
i_wrapping_abs(a) == IF is_negative(a) THEN i_wrapping_neg(a) ELSE a
i_overflowing_abs(a) == <<i_wrapping_abs(a), a = I_MIN>>
i_checked_abs(a) == IF is_negative(a) THEN i_checked_neg(a) ELSE Some(a)
i_saturating_abs(a) == IF is_negative(a) THEN i_saturating_neg(a) ELSE a
unsigned_abs(a) == i_wrapping_abs(a)
i_abs_diff(a, b) == IF i_lt(a, b) THEN u_wrapping_sub(b, a) ELSE u_wrapping_sub(a, b)

signum128(a) ==
    IF is_negative(a) THEN -1 ELSE IF high(a) > 0 \/ low(a) # 0 THEN 1 ELSE 0
i_new(x) == <<IF signed_word(x) < 0 THEN WORD - 1 ELSE 0, x>>
signum(a) == i_new(signum128(a) % WORD)
is_positive(a) == signum128(a) > 0

-----------------------------------------------------------------------------
(* Multiplication, powers, shifts.                                         *)

i_wrapping_mul(a, b) == mul3(a, b)
i_overflowing_mul(a, b) == imulc(a, b)
i_checked_mul(a, b) == or_none(i_overflowing_mul(a, b))
i_saturating_mul(a, b) ==
    unwrap_or(i_checked_mul(a, b), IF is_negative(a) = is_negative(b) THEN I_MAX ELSE I_MIN)

i_overflowing_pow(a, exp) == power(i_overflowing_mul, a, exp)
i_wrapping_pow(a, exp) == power(LAMBDA x, y : <<i_wrapping_mul(x, y), FALSE>>, a, exp)[1]
i_pow(a, exp) == i_wrapping_pow(a, exp)
i_checked_pow(a, exp) == or_none(i_overflowing_pow(a, exp))
i_saturating_pow(a, exp) ==
    unwrap_or(i_checked_pow(a, exp), IF is_negative(a) /\ exp % 2 = 1 THEN I_MIN ELSE I_MAX)

i_wrapping_shl(a, n) == shl3(a, n % BITS)
i_overflowing_shl(a, n) == <<i_wrapping_shl(a, n), n > BITS - 1>>
i_checked_shl(a, n) == or_none(i_overflowing_shl(a, n))
i_wrapping_shr(a, n) == sar3(a, n % BITS)
i_overflowing_shr(a, n) == <<i_wrapping_shr(a, n), n > BITS - 1>>
i_checked_shr(a, n) == or_none(i_overflowing_shr(a, n))

-----------------------------------------------------------------------------
(* Division towards zero, and Euclidean division.                          *)

i_div(a, b) == IF b = ZERO THEN Panics ELSE idivmod4(a, b).quotient
i_rem(a, b) == IF b = ZERO THEN Panics ELSE idivmod4(a, b).remainder
i_checked_div(a, b) == unless_undefined(a, b, i_div(a, b))
i_checked_rem(a, b) == unless_undefined(a, b, i_rem(a, b))
i_overflowing_div(a, b) ==
    IF overflows_division(a, b) THEN <<a, TRUE>> ELSE <<i_div(a, b), FALSE>>
i_overflowing_rem(a, b) ==
    IF overflows_division(a, b) THEN <<ZERO, TRUE>> ELSE <<i_rem(a, b), FALSE>>
i_wrapping_div(a, b) == i_overflowing_div(a, b)[1]
i_wrapping_rem(a, b) == i_overflowing_rem(a, b)[1]
i_saturating_div(a, b) ==
    LET r == i_overflowing_div(a, b) IN IF r[2] THEN I_MAX ELSE r[1]

i_div_euclid(a, b) ==
    LET q == i_div(a, b)
    IN IF b = ZERO THEN Panics
       ELSE IF is_negative(i_rem(a, b))
            THEN IF is_positive_rhs(b) THEN sub3(q, ONE) ELSE add3(q, ONE)
            ELSE q
i_rem_euclid(a, b) ==
    LET r == i_rem(a, b)
    IN IF b = ZERO THEN Panics
       ELSE IF is_negative(r)
            THEN IF is_negative(b) THEN sub3(r, b) ELSE add3(r, b)
            ELSE r
i_checked_div_euclid(a, b) == unless_undefined(a, b, i_div_euclid(a, b))
i_checked_rem_euclid(a, b) == unless_undefined(a, b, i_rem_euclid(a, b))
i_overflowing_div_euclid(a, b) ==
    IF overflows_division(a, b) THEN <<a, TRUE>> ELSE <<i_div_euclid(a, b), FALSE>>
i_overflowing_rem_euclid(a, b) ==
    IF overflows_division(a, b) THEN <<ZERO, TRUE>> ELSE <<i_rem_euclid(a, b), FALSE>>
i_wrapping_div_euclid(a, b) == i_overflowing_div_euclid(a, b)[1]
i_wrapping_rem_euclid(a, b) == i_overflowing_rem_euclid(a, b)[1]

\* Quotient and remainder together.
i_wrapping_div_rem(a, b) ==
    IF b = ZERO THEN Panics
    ELSE LET r == idivmod4(a, b) IN <<r.quotient, r.remainder>>
i_div_rem(a, b) == IF overflows_division(a, b) THEN Panics ELSE i_wrapping_div_rem(a, b)
i_checked_div_rem(a, b) == unless_undefined(a, b, i_wrapping_div_rem(a, b))
i_overflowing_div_rem(a, b) ==
    IF overflows_division(a, b) THEN <<a, ZERO, TRUE>>
    ELSE IF b = ZERO THEN Panics
    ELSE Append(i_wrapping_div_rem(a, b), FALSE)
i_saturating_div_rem(a, b) ==
    LET r == i_overflowing_div_rem(a, b)
    IN IF r = Panics THEN Panics ELSE <<IF r[3] THEN I_MAX ELSE r[1], r[2]>>

\* The magnitudes are divided; a negative dividend with a rest takes one more
\* divisor, and !q is -(q + 1).
i_wrapping_div_rem_euclid(a, b) ==
    LET abs_b   == unsigned_abs(b)
        qr      == u_div_rem(unsigned_abs(a), abs_b)
        opposed == is_negative(a) # is_negative(b)
        adjust  == is_negative(a) /\ qr[2] # ZERO
    IN IF b = ZERO THEN Panics
       ELSE <<IF adjust THEN IF opposed THEN not(qr[1]) ELSE add3(qr[1], ONE)
              ELSE IF opposed THEN i_wrapping_neg(qr[1]) ELSE qr[1],
              IF adjust THEN sub3(abs_b, qr[2]) ELSE qr[2]>>
i_div_rem_euclid(a, b) ==
    IF overflows_division(a, b) THEN Panics ELSE i_wrapping_div_rem_euclid(a, b)
i_checked_div_rem_euclid(a, b) == unless_undefined(a, b, i_wrapping_div_rem_euclid(a, b))
i_overflowing_div_rem_euclid(a, b) ==
    IF overflows_division(a, b) THEN <<a, ZERO, TRUE>>
    ELSE IF b = ZERO THEN Panics
    ELSE Append(i_wrapping_div_rem_euclid(a, b), FALSE)
i_saturating_div_rem_euclid(a, b) ==
    LET r == i_overflowing_div_rem_euclid(a, b)
    IN IF r = Panics THEN Panics ELSE <<IF r[3] THEN I_MAX ELSE r[1], r[2]>>

-----------------------------------------------------------------------------
(* Conversions, with a refusal where the number does not fit.              *)

i_try_from_u256(a) == IF u_lt(I_MAX, a) THEN None ELSE Some(a)
i_fits(a, least, most) == ~i_lt(a, least) /\ ~i_lt(most, a)
i_try_into_i128(a) ==
    IF i_fits(a, i_new(WORD \div 2), i_new(WORD \div 2 - 1)) THEN Some(low(a)) ELSE None
i_try_into_u128(a) == IF i_fits(a, ZERO, u_new(WORD - 1)) THEN Some(low(a)) ELSE None

i_sum(xs) == FoldLeft(i_wrapping_add, ZERO, xs)
i_product(xs) == FoldLeft(i_wrapping_mul, ONE, xs)

-----------------------------------------------------------------------------
(* What the methods promise, in terms of the numbers.                      *)

HALF == (WORD * WORD) \div 2
INumbers == (-HALF)..(HALF - 1)
Wrapped(v) == ((v + HALF) % (WORD * WORD)) - HALF

IGuarded(v, wrapping, overflowing, checked, saturating) ==
    /\ overflowing = <<wrapping, v \notin INumbers>>
    /\ checked = or_none(overflowing)
    /\ i_value(saturating) = Clamped(v, -HALF, HALF - 1)
IFlavours(v, wrapping, overflowing, checked, saturating) ==
    /\ i_value(wrapping) = Wrapped(v)
    /\ IGuarded(v, wrapping, overflowing, checked, saturating)

ISumsExact(a, b) ==
    LET x == i_value(a)
        y == i_value(b)
    IN /\ IFlavours(x + y, i_wrapping_add(a, b), i_overflowing_add(a, b),
                    i_checked_add(a, b), i_saturating_add(a, b))
       /\ IFlavours(x - y, i_wrapping_sub(a, b), i_overflowing_sub(a, b),
                    i_checked_sub(a, b), i_saturating_sub(a, b))
       /\ IFlavours(x + u_value(b), i_wrapping_add_unsigned(a, b),
                    i_overflowing_add_unsigned(a, b), i_checked_add_unsigned(a, b),
                    i_saturating_add_unsigned(a, b))
       /\ IFlavours(x - u_value(b), i_wrapping_sub_unsigned(a, b),
                    i_overflowing_sub_unsigned(a, b), i_checked_sub_unsigned(a, b),
                    i_saturating_sub_unsigned(a, b))
       /\ IFlavours(x * y, i_wrapping_mul(a, b), i_overflowing_mul(a, b),
                    i_checked_mul(a, b), i_saturating_mul(a, b))
       /\ u_value(i_abs_diff(a, b)) = Magnitude(x - y)
       /\ i_value(i_sum(<<a, b, b>>)) = Wrapped(x + 2 * y)
       /\ i_value(i_product(<<a, b>>)) = Wrapped(x * y)

ISignsExact(a) ==
    LET x == i_value(a)
    IN /\ IFlavours(-x, i_wrapping_neg(a), i_overflowing_neg(a), i_checked_neg(a),
                    i_saturating_neg(a))
       /\ IFlavours(Magnitude(x), i_wrapping_abs(a), i_overflowing_abs(a), i_checked_abs(a),
                    i_saturating_abs(a))
       /\ i_neg(a) = i_wrapping_neg(a) /\ i_abs(a) = i_wrapping_abs(a)
       /\ u_value(unsigned_abs(a)) = Magnitude(x)
       /\ i_value(signum(a)) = signum128(a) /\ x = signum128(a) * Magnitude(x)
       /\ is_positive(a) <=> x > 0
       /\ u_try_from_i256(a) = IF x >= 0 THEN Some(a) ELSE None
       /\ i_try_from_u256(a) = IF u_value(a) = x THEN Some(a) ELSE None
       /\ i_try_into_i128(a) =
            IF \E w \in Words : signed_word(w) = x THEN Some(x % WORD) ELSE None
       /\ i_try_into_u128(a) = IF x \in Words THEN Some(x) ELSE None

IQuotientsExact(a, b) ==
    LET x == i_value(a)
        y == i_value(b)
    IN IF b = ZERO
       THEN /\ {i_div(a, b), i_rem(a, b), i_div_euclid(a, b), i_rem_euclid(a, b), i_div_rem(a, b),
                i_div_rem_euclid(a, b), i_wrapping_div(a, b), i_wrapping_div_euclid(a, b),
                i_wrapping_rem(a, b), i_wrapping_rem_euclid(a, b), i_saturating_div(a, b),
                i_saturating_div_rem(a, b), i_saturating_div_rem_euclid(a, b)} = {Panics}
            /\ {i_checked_div(a, b), i_checked_rem(a, b), i_checked_div_euclid(a, b),
                i_checked_rem_euclid(a, b), i_checked_div_rem(a, b),
                i_checked_div_rem_euclid(a, b)} = {None}
       ELSE LET q  == i_wrapping_div(a, b)
                r  == i_wrapping_rem(a, b)
                qe == i_wrapping_div_euclid(a, b)
                re == i_wrapping_rem_euclid(a, b)
                \* The quotient that both kinds of division round to.
                exact == IF overflows_division(a, b) THEN HALF ELSE i_value(q)
                euclidean == IF overflows_division(a, b) THEN HALF ELSE i_value(qe)
            IN /\ x = exact * y + i_value(r)
               /\ Magnitude(i_value(r)) < Magnitude(y) /\ i_value(r) * x >= 0
               /\ x = euclidean * y + i_value(re)
               /\ i_value(re) \in 0..(Magnitude(y) - 1)
               /\ IGuarded(exact, q, i_overflowing_div(a, b), i_checked_div(a, b),
                           i_saturating_div(a, b))
               /\ i_overflowing_rem(a, b)[1] = r /\ i_overflowing_rem_euclid(a, b)[1] = re
               /\ i_overflowing_div_euclid(a, b) = <<qe, overflows_division(a, b)>>
               /\ i_checked_rem(a, b) = unless_undefined(a, b, r)
               /\ i_checked_rem_euclid(a, b) = unless_undefined(a, b, re)
               /\ i_checked_div_euclid(a, b) = unless_undefined(a, b, qe)
               /\ i_wrapping_div_rem(a, b) = <<q, r>>
               /\ i_wrapping_div_rem_euclid(a, b) = <<qe, re>>
               /\ i_checked_div_rem(a, b) = unless_undefined(a, b, <<q, r>>)
               /\ i_checked_div_rem_euclid(a, b) = unless_undefined(a, b, <<qe, re>>)
               /\ i_overflowing_div_rem(a, b) = <<q, r, overflows_division(a, b)>>
               /\ i_overflowing_div_rem_euclid(a, b) = <<qe, re, overflows_division(a, b)>>
               /\ i_saturating_div_rem(a, b) = <<i_saturating_div(a, b), r>>
               /\ i_saturating_div_rem_euclid(a, b)[2] = re
               /\ (i_div_rem(a, b) = Panics) <=> overflows_division(a, b)
               /\ (i_div_rem_euclid(a, b) = Panics) <=> overflows_division(a, b)

IPowersExact(a, n) ==
    LET x == i_value(a)
        k == n % BITS
    IN /\ i_value(i_pow(a, n)) = Wrapped(PowerModulo(x, n))
       /\ IGuarded(PowerClamped(x, n), i_wrapping_pow(a, n), i_overflowing_pow(a, n),
                   i_checked_pow(a, n), i_saturating_pow(a, n))
       /\ i_value(i_wrapping_shl(a, n)) = Wrapped(x * Pow2[k])
       /\ i_value(i_wrapping_shr(a, n)) = x \div Pow2[k]
       /\ (i_checked_shl(a, n) = None) <=> n >= BITS
       /\ (i_checked_shr(a, n) = None) <=> n >= BITS
=============================================================================
