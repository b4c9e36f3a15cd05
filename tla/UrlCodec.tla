------------------------------ MODULE UrlCodec ------------------------------
(***************************************************************************)
(* split, hex2int, url_decode and url_encode of util.cpp.  A byte is a     *)
(* number below 256, a string a sequence of bytes; the NUL that ends a C   *)
(* string is not part of the sequence, and reading it is reading position  *)
(* Len + 1.                                                                *)
(***************************************************************************)
EXTENDS Integers, Sequences, Functions

Byte == 0..255

\* The bytes the code names.
NUL == 0
LF == 10
CR == 13
SPACE == 32
PERCENT == 37
AMP == 38
PLUS == 43
EQ == 61

At(s, i) == IF i = Len(s) + 1 THEN NUL ELSE s[i]

\* What is left of a buffer read as a C string.
CStr(s) ==
    IF NUL \in Range(s)
    THEN SubSeq(s, 1, (CHOOSE i \in 1..Len(s) : s[i] = NUL /\ NUL \notin Range(SubSeq(s, 1, i - 1))) - 1)
    ELSE s

\* split: getline cuts at every delimiter, and finds nothing after a last one.
split(s, delim) ==
    LET after[i \in 0..Len(s)] ==
            IF i = 0 THEN << <<>> >>
            ELSE LET acc == after[i - 1]
                 IN  IF s[i] = delim THEN Append(acc, <<>>)
                     ELSE [acc EXCEPT ![Len(acc)] = Append(@, s[i])]
        cut == after[Len(s)]
    IN  IF cut[Len(cut)] = <<>> THEN SubSeq(cut, 1, Len(cut) - 1) ELSE cut

-----------------------------------------------------------------------------
(* url_decode. *)

\* Bit 5 set, in 8 bits.
Or32(x) == IF (x \div 32) % 2 = 1 THEN x % 256 ELSE (x + 32) % 256

hex2int(hex) ==
    LET d == (hex - 48) % 256
        x == IF d > 9 THEN (Or32(d + 47) - 97 + 11) % 256 ELSE d
    IN  IF x > 15 THEN 255 ELSE x

\* Slip: the second digit is read whatever the first one is.
DecodeAtUnchecked(s, src) ==
    LET high == hex2int(At(s, src + 1))
        low  == hex2int(IF src + 2 > Len(s) THEN NUL ELSE s[src + 2])
    IN  IF s[src] = PLUS THEN [byte |-> SPACE, skip |-> 1, far |-> src]
        ELSE IF s[src] # PERCENT THEN [byte |-> s[src], skip |-> 1, far |-> src]
        ELSE IF low = 255 \/ high = 255
        THEN [byte |-> PERCENT, skip |-> 1, far |-> src + 2]
        ELSE [byte |-> high * 16 + low, skip |-> 3, far |-> src + 2]

\* One round of the loop at src: the byte written, how far src moves, and the
\* furthest position read.
DecodeAt(s, src) ==
    LET high == hex2int(At(s, src + 1))
        low  == hex2int(At(s, src + 2))
    IN  IF s[src] = PLUS THEN [byte |-> SPACE, skip |-> 1, far |-> src]
        ELSE IF s[src] # PERCENT THEN [byte |-> s[src], skip |-> 1, far |-> src]
        ELSE IF high = 255 THEN [byte |-> PERCENT, skip |-> 1, far |-> src + 1]
        ELSE IF low = 255 THEN [byte |-> PERCENT, skip |-> 1, far |-> src + 2]
        ELSE [byte |-> high * 16 + low, skip |-> 3, far |-> src + 2]

\* The loop from src on.
Decoded(s) ==
    LET from[src \in 1..(Len(s) + 3)] ==
            IF src > Len(s) THEN [out |-> <<>>, far |-> src]
            ELSE LET r == DecodeAt(s, src)
                     rest == from[src + r.skip]
                 IN  [out |-> <<r.byte>> \o rest.out,
                      far |-> IF r.far > rest.far THEN r.far ELSE rest.far]
    IN  from[1]

\* A decoded NUL ends the string that is returned.
url_decode(s) == CStr(Decoded(s).out)

-----------------------------------------------------------------------------
(* url_encode, for bytes below 128. *)

IsAlnum(c) == c \in (48..57) \cup (65..90) \cup (97..122)

HexDigit(d) == IF d < 10 THEN 48 + d ELSE 55 + d

\* "%%%2X" pads with a space, not with a zero.
Escape(c) ==
    IF c < 16 THEN <<PERCENT, SPACE, HexDigit(c)>>
    ELSE <<PERCENT, HexDigit(c \div 16), HexDigit(c % 16)>>

EncodeByte(c) ==
    IF IsAlnum(c) \/ c \in {45, 46, 95} THEN <<c>>
    ELSE IF c = SPACE THEN <<PLUS>>
    ELSE Escape(c)

\* The strings of ss, one after the other.
Joined(ss) ==
    LET upto[i \in 0..Len(ss)] == IF i = 0 THEN <<>> ELSE upto[i - 1] \o ss[i]
    IN  upto[Len(ss)]

url_encode(s) == Joined([i \in 1..Len(s) |-> EncodeByte(s[i])])

=============================================================================
