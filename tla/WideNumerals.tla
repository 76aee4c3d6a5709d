---------------------------- MODULE WideNumerals ----------------------------
(***************************************************************************)
(* Reading U256 and I256 from text (ethnum-patch, src/parse.rs,            *)
(* src/uint/parse.rs, src/int/parse.rs).  A text is a sequence of          *)
(* characters; a character that stands for a digit is that digit, 0 to 35  *)
(* (so `b`, `o` and `x` are 11, 24 and 33), the others are negative.  Half *)
(* a word must hold every radix with a prefix: WordBits >= 8.              *)
(***************************************************************************)
EXTENDS WideSigned

Plus == -1
Minus == -2
Underscore == -3
Other == -4

Binary == <<0, 11>>    \* "0b"
Octal == <<0, 24>>     \* "0o"
Hex == <<0, 33>>       \* "0x"
NoPrefix == <<>>

Ok(x) == <<"ok", x>>
Err(kind) == <<"err", kind>>
IsOk(r) == r[1] = "ok"

\* Short texts cannot overflow, and are read with the operators that wrap.
can_not_overflow(radix, is_signed_ty, digits) ==
    radix <= 16 /\ Len(digits) <= BITS \div 4 - (IF is_signed_ty THEN 1 ELSE 0)

\* One digit more: its own error is found before that of the product.
next_digit(is_signed_ty, is_positive_text, checked, radix, r, c) ==
    LET r32(x) == u_new(x)
        value == r[2]
        product == IF is_signed_ty THEN i_overflowing_mul(value, r32(radix))
                                   ELSE u_overflowing_mul(value, r32(radix))
        moved == IF is_positive_text
                 THEN IF is_signed_ty THEN i_overflowing_add(product[1], r32(c))
                                      ELSE u_overflowing_add(product[1], r32(c))
                 ELSE i_overflowing_sub(product[1], r32(c))
        overflow == IF is_positive_text THEN "PosOverflow" ELSE "NegOverflow"
    IN IF ~IsOk(r) THEN r
       ELSE IF c \notin 0..(radix - 1) THEN Err("InvalidDigit")
       ELSE IF checked /\ (product[2] \/ moved[2]) THEN Err(overflow)
       ELSE Ok(moved[1])

from_str_radix(is_signed_ty, src, radix, prefix) ==
    LET signed_text == src[1] = Plus \/ (src[1] = Minus /\ is_signed_ty)
        is_positive_text == ~(src[1] = Minus /\ is_signed_ty)
        prefixed == IF signed_text THEN Tail(src) ELSE src
        digits == SubSeq(prefixed, Len(prefix) + 1, Len(prefixed))
        checked == ~can_not_overflow(radix, is_signed_ty, digits)
    IN IF src = <<>> THEN Err("Empty")
       ELSE IF src \in {<<Plus>>, <<Minus>>} THEN Err("InvalidDigit")
       ELSE IF ~IsPrefix(prefix, prefixed) \/ digits = <<>> THEN Err("InvalidDigit")
       ELSE FoldLeft(LAMBDA r, c : next_digit(is_signed_ty, is_positive_text, checked, radix, r, c),
                     Ok(ZERO), digits)

or_else(first, second) == IF IsOk(first) THEN first ELSE second

from_str_prefixed(is_signed_ty, src) ==
    or_else(from_str_radix(is_signed_ty, src, 2, Binary),
    or_else(from_str_radix(is_signed_ty, src, 8, Octal),
    or_else(from_str_radix(is_signed_ty, src, 16, Hex),
            from_str_radix(is_signed_ty, src, 10, NoPrefix))))
from_str_hex(is_signed_ty, src) == from_str_radix(is_signed_ty, src, 16, Hex)

-----------------------------------------------------------------------------
(* The const fn behind the uint! and int! macros: it skips `_` and blanks, *)
(* and does its own arithmetic.                                            *)

\* Mutant: the product of the high word may overflow.
const_mul_unchecked(a, r) ==
    LET ll == (low(a) % B) * r
        lh == (low(a) \div B) * r
        hi == word_mul(high(a), r)
        lo == word_add(ll, word_shl(lh, WordBits \div 2))
        top == word_add(hi[1], lh \div B)
    IN IF lo[2] \/ top[2] THEN Panics ELSE <<top[1], lo[1]>>

\* The overflow of the low word is an error, not a carry.
const_mul(a, r) ==
    LET ll == (low(a) % B) * r
        lh == (low(a) \div B) * r
        hi == word_mul(high(a), r)
        lo == word_add(ll, word_shl(lh, WordBits \div 2))
        top == word_add(hi[1], lh \div B)
    IN IF hi[2] \/ lo[2] \/ top[2] THEN Panics ELSE <<top[1], lo[1]>>

const_add(a, c) ==
    LET r == uaddc(a, u_new(c))
    IN IF r[2] THEN Panics ELSE r[1]

const_next(radix, value, c) ==
    IF value = Panics \/ c = Underscore THEN value
    ELSE IF c \notin 0..(radix - 1) THEN Panics
    ELSE LET product == const_mul(value, radix)
         IN IF product = Panics THEN Panics ELSE const_add(product, c)

\* From `start` characters on; a prefix needs a digit behind it.
const_from_str_prefixed(bytes, start) ==
    LET text == SubSeq(bytes, start + 1, Len(bytes))
        radix == CASE Len(text) > 2 /\ IsPrefix(Binary, text) -> 2
                   [] Len(text) > 2 /\ IsPrefix(Octal, text) -> 8
                   [] Len(text) > 2 /\ IsPrefix(Hex, text) -> 16
                   [] OTHER -> 10
        digits == IF radix = 10 THEN text ELSE SubSeq(text, 3, Len(text))
    IN IF text = <<>> THEN Panics
       ELSE FoldLeft(LAMBDA value, c : const_next(radix, value, c), ZERO, digits)

u_const_from_str_prefixed(src) ==
    IF src = <<>> THEN Panics
    ELSE const_from_str_prefixed(src, Bit(src[1] = Plus))

i_const_from_str_prefixed(src) ==
    LET negate == src[1] = Minus
        uint == const_from_str_prefixed(src, Bit(src[1] \in {Plus, Minus}))
        int == IF negate THEN add3(not(uint), ONE) ELSE uint
    IN IF src = <<>> THEN Panics
       ELSE IF uint = Panics THEN Panics
       ELSE IF signum128(int) = (IF negate THEN 1 ELSE -1) THEN Panics
       ELSE int

-----------------------------------------------------------------------------
(* What reading promises.                                                  *)

\* The number a text stands for in a radix, if it is one at all.
Sign(src) == IF src # <<>> /\ src[1] = Minus THEN -1 ELSE 1
Unsigned(src) == IF src # <<>> /\ src[1] \in {Plus, Minus} THEN Tail(src) ELSE src
IsNumeral(digits, radix) == digits # <<>> /\ \A k \in DOMAIN digits : digits[k] \in 0..(radix - 1)

ReadsExactly(is_signed_ty, src, radix) ==
    LET r == from_str_radix(is_signed_ty, src, radix, NoPrefix)
        v == Sign(src) * Positional(Unsigned(src), radix)
        fits == IF is_signed_ty THEN v \in INumbers ELSE v \in UNumbers
        minus == src # <<>> /\ src[1] = Minus
    IN IF ~IsNumeral(Unsigned(src), radix) \/ (minus /\ ~is_signed_ty)
         THEN ~IsOk(r)
       ELSE IF fits
         THEN IsOk(r) /\ v = IF is_signed_ty THEN i_value(r[2]) ELSE u_value(r[2])
       ELSE r = Err(IF minus THEN "NegOverflow" ELSE "PosOverflow")

\* The const readers against the others: what they return is right, and with a
\* prefix they refuse nothing that the others read.
ConstReadsAgree(src) ==
    \A is_signed_ty \in BOOLEAN :
        LET plain == SelectSeq(src, LAMBDA c : c # Underscore)
            r == from_str_prefixed(is_signed_ty, plain)
            c == IF is_signed_ty THEN i_const_from_str_prefixed(src)
                                 ELSE u_const_from_str_prefixed(src)
        IN /\ c # Panics => r = Ok(c)
           /\ (IsOk(r) /\ \E p \in {Binary, Octal, Hex} : IsPrefix(p, Unsigned(plain)))
                => c = r[2]

NumeralsAreRead(src) ==
    /\ \A radix \in {2, 8, 10, 16, 36}, is_signed_ty \in BOOLEAN : ReadsExactly(is_signed_ty, src, radix)
    /\ ConstReadsAgree(src)
=============================================================================
