------------------------------ MODULE BitVector ------------------------------
(***************************************************************************)
(* Package bitvector (src/bitvector/bitvector.go): one BitVector object,   *)
(* made by New or Scan, then changed by Set and Unset.  Get, String,       *)
(* Uint64 and Hamming read it and are operators.  A Go index out of range  *)
(* on the byte slice is a panic, which ends the program: status "panic".   *)
(* A Scan that returns an error leaves no object: status "error".          *)
(***************************************************************************)
EXTENDS Integers, Sequences, FiniteSets, Bitwise

LOCAL INSTANCE SequencesExt

CONSTANTS
  Sizes,   \* the sizes callers pass to New
  Texts    \* the strings callers pass to Scan, as sequences of characters

ASSUME Sizes \subseteq Nat

VARIABLES
  size,    \* BitVector.size
  bits,    \* BitVector.bits: byte j is bits[j+1]
  written, \* history: the bit value last given to each index 0..size-1
  status   \* "ok", "panic" (index out of range) or "error" (Scan failed)

vars == <<size, bits, written, status>>

Mask(i) == 2^(i % 8)                  \* uint8(0x1) << (i & 0x7)

(* New(size): make([]uint8, size >> 3)                                     *)
NewBits(n) == [j \in 1..(n \div 8) |-> 0]

(* Byte i >> 3 exists: otherwise bits[i>>3] panics.                        *)
InBuffer(b, i) == i \div 8 < Len(b)

SetBit(b, i) == [b EXCEPT ![i \div 8 + 1] = @ | Mask(i)]

\* mutant: &^ mask written as ^ mask (toggles instead of clearing)
UnsetBitXor(b, i) == [b EXCEPT ![i \div 8 + 1] = @ ^^ Mask(i)]

UnsetBit(b, i) == [b EXCEPT ![i \div 8 + 1] = @ & (255 - Mask(i))]

GetBit(b, i) == (b[i \div 8 + 1] & Mask(i)) # 0

(* ByteSize: (size + 7) >> 3                                               *)
ByteSize(n) == (n + 7) \div 8

(***************************************************************************)
(* Scan(s): the '0'/'1' characters are the bits, ' ' is skipped, any other *)
(* character is an error; then New(len(bits)) and Set(i) for each '1'.     *)
(***************************************************************************)
\* mutant: ' ' not skipped but read as a '0' bit
ScanBitsSpaceIsZero(t) ==
  [j \in 1..Len(t) |-> t[j] = "1"]

ScanBits(t) ==
  LET kept == SelectSeq(t, LAMBDA c : c # " ")
  IN [j \in 1..Len(kept) |-> kept[j] = "1"]

ScanResult(t) ==
  LET bs    == ScanBits(t)
      n     == Len(bs)
      ones  == {i \in 0..n-1 : bs[i+1]}
      fits  == \A i \in ones : InBuffer(NewBits(n), i)
  IN CASE \E j \in DOMAIN t : t[j] \notin {"0", "1", " "} ->
            [status |-> "error", size |-> 0, bits |-> <<>>, written |-> <<>>]
       [] ~fits ->
            [status |-> "panic", size |-> n, bits |-> NewBits(n), written |-> bs]
       [] OTHER ->
            [status |-> "ok", size |-> n, written |-> bs,
             bits |-> FoldSet(LAMBDA i, b : SetBit(b, i), NewBits(n), ones)]

Init ==
  \/ \E n \in Sizes :
       /\ size = n
       /\ bits = NewBits(n)
       /\ written = [j \in 1..n |-> FALSE]
       /\ status = "ok"
  \/ \E t \in Texts :
       LET r == ScanResult(t)
       IN /\ size = r.size
          /\ bits = r.bits
          /\ written = r.written
          /\ status = r.status

(* Set(i) and Unset(i) for a valid index i < size.                         *)
Set(i) ==
  /\ status = "ok"
  /\ IF InBuffer(bits, i)
     THEN /\ bits' = SetBit(bits, i)
          /\ written' = [written EXCEPT ![i+1] = TRUE]
          /\ UNCHANGED <<size, status>>
     ELSE /\ status' = "panic"
          /\ UNCHANGED <<size, bits, written>>

Unset(i) ==
  /\ status = "ok"
  /\ IF InBuffer(bits, i)
     THEN /\ bits' = UnsetBit(bits, i)
          /\ written' = [written EXCEPT ![i+1] = FALSE]
          /\ UNCHANGED <<size, status>>
     ELSE /\ status' = "panic"
          /\ UNCHANGED <<size, bits, written>>

Next == \E i \in 0..size-1 : Set(i) \/ Unset(i)

Spec == Init /\ [][Next]_vars

(***************************************************************************)
(* Read-only operations                                                    *)
(***************************************************************************)

(* String: '1'/'0' per bit, a ' ' before every bit i > 0 with i % 8 = 0.   *)
String(n, b) ==
  FlattenSeq([i \in 1..n |->
    (IF i - 1 > 0 /\ (i - 1) % 8 = 0 THEN <<" ">> ELSE <<>>)
    \o <<IF GetBit(b, i - 1) THEN "1" ELSE "0">>])

StringPanics(n, b) == \E i \in 0..n-1 : ~InBuffer(b, i)

\* mutant: the size <= 16 case shifts bits[1] by 16
Uint64Shift16(n, b) ==
  CASE n <= 8  -> b[1]
    [] n <= 16 -> b[2] * 2^16 + b[1]
    [] n <= 24 -> b[3] * 2^16 + b[2] * 2^8 + b[1]
    [] OTHER   -> b[4] * 2^24 + b[3] * 2^16 + b[2] * 2^8 + b[1]

(* Uint64: bytes 0..3 at most, little-endian, chosen by size.              *)
Uint64(n, b) ==
  CASE n <= 8  -> b[1]
    [] n <= 16 -> b[2] * 2^8 + b[1]
    [] n <= 24 -> b[3] * 2^16 + b[2] * 2^8 + b[1]
    [] OTHER   -> b[4] * 2^24 + b[3] * 2^16 + b[2] * 2^8 + b[1]

Uint64Panics(n, b) ==
  Len(b) < (CASE n <= 8 -> 1 [] n <= 16 -> 2 [] n <= 24 -> 3 [] OTHER -> 4)

PopCount(x) == Cardinality({k \in 0..7 : (x \div 2^k) % 2 = 1})

\* mutant: the byte loop stops one byte early
HammingShort(nx, x, y) ==
  SumFunction([j \in 1..ByteSize(nx) - 1 |-> PopCount(x[j] ^^ y[j])])

(* Hamming(x, y): popcnt of x.bits[i] ^ y.bits[i] for i < x.ByteSize().    *)
Hamming(nx, x, y) ==
  SumFunction([j \in 1..ByteSize(nx) |-> PopCount(x[j] ^^ y[j])])

HammingPanics(nx, x, y) == ByteSize(nx) > Min({Len(x), Len(y)})

(* The first byte x < ByteSize(nx) where the two vectors differ, or       *)
(* ByteSize(nx) when there is none.                                        *)
FirstDiff(nx, x, y) ==
  LET d == {j \in 0..ByteSize(nx) - 1 : j < Len(x) /\ j < Len(y) /\ x[j+1] # y[j+1]}
  IN IF d = {} THEN ByteSize(nx) ELSE Min(d)

\* mutant: the loop stops one byte before ByteSize
LessShort(nx, x, y) ==
  LET j == FirstDiff(nx, x, y)
  IN j < ByteSize(nx) - 1 /\ x[j+1] < y[j+1]

(* BitVectorSlice.Less(i, j): at the first differing byte below            *)
(* s[i].ByteSize(), the smaller byte is less; equal bytes are not less.    *)
Less(nx, x, y) ==
  LET j == FirstDiff(nx, x, y)
  IN j < ByteSize(nx) /\ x[j+1] < y[j+1]

(* The loop reads a byte past the end of either slice before it finds a   *)
(* difference.                                                             *)
LessPanics(nx, x, y) ==
  \E j \in 0..ByteSize(nx) - 1 :
    /\ j >= Min({Len(x), Len(y)})
    /\ \A k \in 0..j-1 : x[k+1] = y[k+1]

-----------------------------------------------------------------------------
(***************************************************************************)
(* Properties.  Each says that a call which returns (does not panic)       *)
(* returns what the bits given to Set, Unset and Scan determine; the       *)
(* panics themselves are NoPanicOnValidCalls.                              *)
(***************************************************************************)
(* The value the bits 0..n-1 of a written history stand for.               *)
BitsValue(w, n) == SumFunction([i \in 0..n-1 |-> IF w[i+1] THEN 2^i ELSE 0])

(* After any sequence of Scan, Set and Unset, Get(i) of an index in the    *)
(* buffer is the value last given to bit i: Set/Unset of one bit never     *)
(* disturbs another bit of the same byte.                                  *)
GetReflectsWrites ==
  status = "ok" =>
    \A i \in 0..size-1 : InBuffer(bits, i) => GetBit(bits, i) = written[i+1]

(* Scan(String(bv)) rebuilds bv, and String shows exactly the bits in      *)
(* order once its separators are dropped (spec section 8).                 *)
StringRoundTrip ==
  (status = "ok" /\ ~StringPanics(size, bits)) =>
    LET s == String(size, bits)
        r == ScanResult(s)
    IN /\ r.status = "ok" /\ r.size = size /\ r.bits = bits
       /\ SelectSeq(s, LAMBDA c : c # " ")
            = [j \in 1..size |-> IF written[j] THEN "1" ELSE "0"]

ScannedTexts == {ScanResult(t) : t \in Texts}

(* Hamming against every Scan result of the same size equals the number   *)
(* of bit positions below size where the two differ.                       *)
HammingMatchesBits ==
  status = "ok" =>
    \A r \in ScannedTexts :
      (r.status = "ok" /\ r.size = size /\ ~HammingPanics(size, bits, r.bits))
        => Hamming(size, bits, r.bits)
             = Cardinality({i \in 0..size-1 : written[i+1] # r.written[i+1]})

(* Uint64 is the value of the first min(size, 32) bits, bit i weighing 2^i *)
(* (spec 4.1, ToInt32).                                                    *)
Uint64MatchesBits ==
  (status = "ok" /\ ~Uint64Panics(size, bits)) =>
    Uint64(size, bits) = BitsValue(written, Min({size, 32}))

(* Uint64's comment: "the integer value of the first 64 bits": each of   *)
(* the first min(size, 64) bits is the bit of the same weight in Uint64.   *)
(* (Stated bit by bit: 2^32 and beyond do not fit TLC's integers.)         *)
Uint64FirstBitsPerComment ==
  (status = "ok" /\ ~Uint64Panics(size, bits)) =>
    \A i \in 0..Min({size, 64})-1 :
      written[i+1] =
        (i < 32 /\ ((Uint64(size, bits) \div 2^(8 * (i \div 8))) \div Mask(i)) % 2 = 1)

(* BitVectorSlice.Less orders vectors of one size as sort.Sort needs: of   *)
(* two vectors whose bits (as given to Scan, Set and Unset) differ exactly *)
(* one is less, and a vector is never less than an equal one.  The unused  *)
(* high bits of the last byte must stay zero for this.                     *)
LessIsTrichotomous ==
  status = "ok" =>
    \A r \in ScannedTexts :
      (r.status = "ok" /\ r.size = size
        /\ ~LessPanics(size, bits, r.bits) /\ ~LessPanics(size, r.bits, bits))
        => IF written = r.written
           THEN ~Less(size, bits, r.bits) /\ ~Less(size, r.bits, bits)
           ELSE Less(size, bits, r.bits) # Less(size, r.bits, bits)

(* No call with valid arguments panics: Scan of a well-formed string, Set  *)
(* and Unset of i < size, String, Uint64 (size <= 32), Hamming(bv, bv)    *)
(* and Less(bv, bv).                                                       *)
NoPanicOnValidCalls ==
  /\ status # "panic"
  /\ status = "ok" =>
       /\ ~StringPanics(size, bits)
       /\ size <= 32 => ~Uint64Panics(size, bits)
       /\ ~HammingPanics(size, bits, bits)
       /\ ~LessPanics(size, bits, bits)

=============================================================================
