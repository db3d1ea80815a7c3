------------------------------- MODULE Arithmetic -------------------------------
(* The arithmetic coder of lib/transformers/arithmetic.ts, and the             *)
(* decompressionShaper that runs it backwards: transform decodes a packet and  *)
(* restore encodes it.  A byte has ByteBits bits, 8 in the code, and the width *)
(* of the coder, its shifts and its limits follow from it as they do there.    *)
(* The frequencies and their sum are powers of two, as those of sampleConfig:  *)
(* the ranges then divide exactly, and no float of the code is a fraction.     *)
EXTENDS Integers, Sequences, Functions

CONSTANTS
  ByteBits,
  Frequencies,   \* the tables to configure a coder with
  MaxLength      \* bound on the bytes of a packet

VARIABLES probs, packet

vars == <<probs, packet>>

Two[n \in Nat] == IF n = 0 THEN 1 ELSE 2 * Two[n - 1]

Byte == Two[ByteBits]
CODE_BITS == 4 * ByteBits
TOP_VALUE == Two[CODE_BITS - 1]
SHIFT_BITS == CODE_BITS - (ByteBits + 1)
EXTRA_BITS == ((CODE_BITS - 2) % ByteBits) + 1
BOTTOM_VALUE == TOP_VALUE \div Byte
MAX_SUM == Two[ByteBits + 6]
Header == 202 \div Two[8 - ByteBits]       \* 0xCA, or the first bits of it

(* Shifts to the left and to the right, of less than two words. *)
Word == Two[CODE_BITS]
Top(low) == low \div Two[SHIFT_BITS]                \* the byte on top, and a carry
TopTwo(low) == low \div Two[SHIFT_BITS - ByteBits]  \* these and the byte below

Total(items) ==
  LET sum[k \in 0..Len(items)] == IF k = 0 THEN 0 ELSE sum[k - 1] + items[k]
  IN  sum[Len(items)]
Highest(items) == CHOOSE i \in Range(items) : \A j \in Range(items) : i >= j

(* A list is divided by num/den; no entry falls to zero. *)
scale(items, num, den) ==
  [i \in DOMAIN items |-> LET scaled == (items[i] * den) \div num
                          IN  IF scaled = 0 THEN 1 ELSE scaled]

Halved(items) ==
  LET halved[l \in Seq(Nat)] == IF Total(l) >= MAX_SUM THEN halved[scale(l, 2, 1)] ELSE l
  IN  halved[items]
adjustProbs_(items) ==
  Halved(IF Highest(items) >= Byte THEN scale(items, Highest(items), Byte) ELSE items)

(* The table is built from the list before it is adjusted, its sum after.      *)
Low(symbol) == Total(SubSeq(probs, 1, symbol))
Length(symbol) == probs[symbol + 1]
High(symbol) == Low(symbol) + Length(symbol)
total_ == Total(adjustProbs_(probs))

(* The range after a symbol that starts at temp: the last one takes the rest.  *)
Narrowed(high, unit, symbol) ==
  IF High(symbol) >= total_ THEN high - unit * Low(symbol) ELSE unit * Length(symbol)

(* The state of the encoder and of the decoder. *)
Encoder == [low : Nat, high : Nat, working : Nat, underflow : Nat, output : Seq(Nat)]
Decoder == [low : Nat, high : {Two[n] : n \in 0..CODE_BITS - 1}, working : 0..Byte - 1,
            input : Seq(0..Byte - 1), output : Seq(0..Byte - 1)]

Times(n, byte) == [i \in 1..n |-> byte]

(* A byte is written, and the bytes that waited for a carry.                   *)
Written(s, byte, waiting) ==
  [s EXCEPT !.output = Append(@, byte) \o Times(s.underflow, waiting),
            !.working = Top(s.low) % Byte, !.underflow = 0]

(* Mutant: a carry is not passed on to the bytes that wait for it. *)
Settled__keeps(s) ==
  IF s.low < (Byte - 1) * Two[SHIFT_BITS] THEN Written(s, s.working, Byte - 1)
  ELSE IF (s.low \div TOP_VALUE) % 2 # 0 THEN Written(s, s.working + 1, Byte - 1)
  ELSE [s EXCEPT !.underflow = @ + 1]

(* A byte is written when no carry can reach it any more (B), or with the      *)
(* carry that has (C); else it waits for one to pass on (D).                   *)
Settled(s) ==
  IF s.low < (Byte - 1) * Two[SHIFT_BITS] THEN Written(s, s.working, Byte - 1)
  ELSE IF (s.low \div TOP_VALUE) % 2 # 0 THEN Written(s, s.working + 1, 0)
  ELSE [s EXCEPT !.underflow = @ + 1]

(* Encoder.renormalize_: a step of its loop, and the loop. *)
Shifted(s) ==
  [Settled(s) EXCEPT !.high = (@ * Byte) % Word, !.low = (@ * Byte) % TOP_VALUE]
renormalize_(at) ==
  LET normal[s \in Encoder] == IF s.high > BOTTOM_VALUE THEN s ELSE normal[Shifted(s)]
  IN  normal[at]

encodeSymbol_(at, symbol) ==
  LET e    == renormalize_(at)
      unit == e.high \div total_
  IN  [e EXCEPT !.high = Narrowed(@, unit, symbol), !.low = @ + unit * Low(symbol)]

(* Encoder.flush_: the working byte, two more of low_, and the length, whose   *)
(* second byte counts the first.                                               *)
flush_(at) ==
  LET e     == renormalize_(at)
      temp  == Top(e.low)
      carry == temp >= Byte
      bytes == (Append(e.output, IF carry THEN e.working + 1 ELSE e.working)
                  \o Times(e.underflow, IF carry THEN 0 ELSE Byte - 1))
               \o <<temp % Byte, TopTwo(e.low) % Byte>>
  IN  bytes \o <<(Len(bytes) \div Byte) % Byte, (Len(bytes) + 1) % Byte>>

Start == [low |-> 0, high |-> TOP_VALUE, working |-> Header, underflow |-> 0, output |-> <<>>]
Coded(input) ==
  LET coded[k \in 0..Len(input)] ==
        IF k = 0 THEN Start ELSE encodeSymbol_(coded[k - 1], input[k])
  IN  coded[Len(input)]
encode(input) == flush_(Coded(input))

(* Decoder.renormalize_: the range grows by bytes, a byte's bits straddling    *)
(* two of them; after the input it reads zeros.                                *)
Upper(byte) == byte \div Two[ByteBits - EXTRA_BITS]
NextByte(s) == IF s.input = <<>> THEN 0 ELSE s.input[1]
Kept(s) == ((s.working * Two[EXTRA_BITS]) % Byte) + Upper(NextByte(s))
Grown(s) ==
  [s EXCEPT
    !.high = (@ * Byte) % Word, !.low = (@ * Byte + Kept(s)) % Word,
    !.working = NextByte(s), !.input = IF @ = <<>> THEN @ ELSE Tail(@)]
readBytes_(at) ==
  LET read[s \in Decoder] == IF s.high > BOTTOM_VALUE THEN s ELSE read[Grown(s)] IN read[at]

(* The byte is the quotient itself, not the symbol whose interval holds it.    *)
decodeSymbol_(at) ==
  LET d      == readBytes_(at)
      unit   == d.high \div Byte
      temp   == d.low \div unit
      result == IF temp >= Byte THEN Byte - 1 ELSE temp
  IN  [d EXCEPT !.output = Append(@, result), !.low = @ - unit * Low(result),
                !.high = Narrowed(@, unit, result)]

decodeSymbols_(at) ==
  LET all[s \in Decoder] == IF s.input = <<>> THEN s ELSE all[decodeSymbol_(s)] IN all[at]

decode(input) ==
  LET start == [low |-> Upper(input[2]), high |-> Two[EXTRA_BITS],
                working |-> input[2], input |-> SubSeq(input, 3, Len(input)), output |-> <<>>]
  IN  readBytes_(decodeSymbol_(decodeSymbols_(start))).output

(* DecompressionShaper: a header, a footer and a length are put around what it *)
(* decodes, and what they decode to is cut off; restore cuts off the same.     *)
transform(buffer) ==
  LET length  == <<(Len(buffer) \div Byte) % Byte, Len(buffer) % Byte>>
      decoded == decode(<<Header>> \o buffer \o <<0, 0>> \o length)
  IN  SubSeq(decoded, 1, Len(decoded) - 2)
restore(buffer) == LET encoded == encode(buffer) IN SubSeq(encoded, 2, Len(encoded) - 4)

Init == probs \in Frequencies /\ packet = <<>>

(* Packets are tried byte by byte; the symbols of a coder are those it has a   *)
(* frequency for.                                                              *)
Extend(symbol) == /\ Len(packet) < MaxLength
                  /\ packet' = Append(packet, symbol) /\ UNCHANGED probs

Next == \E symbol \in 0..Len(probs) - 1 : Extend(symbol)

Spec == Init /\ [][Next]_vars

(* What a packet was transformed into is restored to it, for the frequencies   *)
(* that every configuration of the repository uses: the same for every byte.   *)
Restores == (probs = Times(Byte, 1)) => restore(transform(packet)) = packet

(* The exact interval of a packet: its low end and its length, over unit.      *)
Narrow(i, symbol) ==
  [low |-> i.low * total_ + i.length * Low(symbol), length |-> i.length * Length(symbol),
   unit |-> i.unit * total_]
Exact(symbols) ==
  LET exact[k \in 0..Len(symbols)] ==
        IF k = 0 THEN [low |-> 0, length |-> 1, unit |-> 1] ELSE Narrow(exact[k - 1], symbols[k])
  IN  exact[Len(symbols)]

(* The number that some digits stand for, and Byte to the power of how many.   *)
Read(n, digit) == [value |-> n.value * Byte + digit, scale |-> n.scale * Byte]
Number(digits) ==
  LET number[k \in 0..Len(digits)] ==
        IF k = 0 THEN [value |-> 0, scale |-> 1] ELSE Read(number[k - 1], digits[k])
  IN  number[Len(digits)]

(* The number that the digits of an encoded packet stand for, and the exact    *)
(* one, over the same denominator, and the unit of the last digit.             *)
Encoding ==
  LET encoded == encode(packet)
      number  == Number(SubSeq(encoded, 2, Len(encoded) - 2))
      exact   == Exact(packet)
  IN  [header |-> encoded[1], unit |-> exact.unit,
       value  |-> exact.unit * number.value,
       exact  |-> exact.low * number.scale]

(* Arithmetic coding: the bytes of an encoded packet are the digits of the low *)
(* end of its interval, cut off after the last.  A carry that is lost, or      *)
(* passed on to the wrong bytes, shows here.                                   *)
EncodesLowEnd ==
  LET e == Encoding
  IN  e.header = Header /\ e.value <= e.exact /\ e.exact < e.value + e.unit

CodesAgree == Restores /\ EncodesLowEnd

(* "No probability can be higher than 255." (arithmetic.ts:163): the highest   *)
(* of a list that has to be scaled becomes 256.                                *)
AdjustedFits == \A p \in Range(adjustProbs_(probs)) : p < Byte

(* The interval of a packet holds what it is encoded to: the digits cut off by *)
(* flush_ can take the number below the interval.                              *)
WithinInterval == LET e == Encoding IN e.value >= e.exact
===============================================================================
