------------------------------- MODULE ChunkId -------------------------------
(***************************************************************************)
(* ChunkId (services/storage_node/src/chunk_id.cpp) over the hexadecimal   *)
(* conversions of Sha256 (libs/common/src/sha256.cpp).  The store names    *)
(* its files by the text of an id and finds the id again by parsing the    *)
(* name, so text and digest must determine each other.  The conversion     *)
(* that Parse relies on is laxer than Parse: std::stoi skips white space,  *)
(* takes a sign and both cases.                                            *)
(***************************************************************************)
EXTENDS Integers, Sequences

CONSTANTS
  N,         \* bytes of a digest (32)
  HexTexts,  \* the texts given to Parse
  Digests    \* the digests given to FromDigest

Byte   == 0..255
Digest == [1..N -> Byte]

\* A character, as far as isxdigit, isupper and stoi tell characters apart.
Lower == [kind : {"lower"}, v : 0..15]   \* 0-9 and a-f
Upper == [kind : {"upper"}, v : 10..15]  \* A-F
Text  == Seq(Lower \cup Upper \cup [kind : {"space", "plus", "minus", "other"}, v : {0}])

ASSUME IdConstants ==
  N \in Nat \ {0} /\ HexTexts \subseteq Text /\ Digests \subseteq Digest

VARIABLES text, given, result

idVars == <<text, given, result>>

NoDigest == [k \in 1..N |-> 0]
Ok(d)  == [error |-> "none", digest |-> d]
Err(e) == [error |-> e, digest |-> NoDigest]

-----------------------------------------------------------------------------
(* Sha256                                                                   *)

LowerDigit(v) == [kind |-> "lower", v |-> v]

\* Mutant: without setfill, setw pads with a space.
ToHexString_Padded(d) ==
  [k \in 1..2 * N |-> LET b == d[(k + 1) \div 2]
                      IN  IF k % 2 = 0 THEN LowerDigit(b % 16)
                          ELSE IF b < 16 THEN [kind |-> "space", v |-> 0]
                          ELSE LowerDigit(b \div 16)]

\* setw(2), setfill('0') and hex, for each byte.
ToHexString(d) ==
  [k \in 1..2 * N |-> LET b == d[(k + 1) \div 2]
                      IN  LowerDigit(IF k % 2 = 1 THEN b \div 16 ELSE b % 16)]

IsXDigit(c) == c.kind \in {"lower", "upper"}

\* stoi(pair, &pos, 16) reads the whole pair (pos == 2).
PairRead(a, b) == IsXDigit(b) /\ (IsXDigit(a) \/ a.kind \in {"space", "plus", "minus"})

\* The number read, as a byte.
PairValue(a, b) ==
  IF IsXDigit(a) THEN 16 * a.v + b.v
  ELSE IF a.kind = "minus" THEN (256 - b.v) % 256 ELSE b.v

FromHexString(t) ==
  IF Len(t) # 2 * N THEN Err("InvalidHexLength")
  ELSE IF \E k \in 1..N : ~PairRead(t[2 * k - 1], t[2 * k]) THEN Err("InvalidHexCharacter")
  ELSE Ok([k \in 1..N |-> PairValue(t[2 * k - 1], t[2 * k])])

-----------------------------------------------------------------------------
(* ChunkId                                                                  *)

Offends(c) == ~IsXDigit(c) \/ c.kind = "upper"

FirstOffender(t) ==
  t[CHOOSE k \in 1..Len(t) : Offends(t[k]) /\ \A j \in 1..k - 1 : ~Offends(t[j])]

\* Mutant: the check of the characters is left to the conversion.
Parse_Lax(t) == IF Len(t) # 2 * N THEN Err("WrongLength") ELSE FromHexString(t)

\* Mutant: upper-case digits are let through.
Parse_AnyCase(t) ==
  IF Len(t) # 2 * N THEN Err("WrongLength")
  ELSE IF \E k \in 1..Len(t) : ~IsXDigit(t[k]) THEN Err("InvalidHexCharacter")
  ELSE FromHexString(t)

Parse(t) ==
  IF Len(t) # 2 * N THEN Err("WrongLength")
  ELSE IF \E k \in 1..Len(t) : Offends(t[k])
    THEN Err(IF IsXDigit(FirstOffender(t)) THEN "NotLowercase" ELSE "InvalidHexCharacter")
  ELSE FromHexString(t)

\* A request or a file name is parsed.
ParseText(t) == text' = t /\ result' = Parse(t) /\ given' = NoDigest

\* The id of a digest is written, as the name of a file or in a message, and
\* what was written is parsed.
FromDigest(d) == text' = ToHexString(d) /\ given' = d /\ result' = Parse(text')

IdInit == text = <<>> /\ given = NoDigest /\ result = Err("WrongLength")
IdNext == (\E t \in HexTexts : ParseText(t)) \/ (\E d \in Digests : FromDigest(d))
IdSpec == IdInit /\ [][IdNext]_idVars

-----------------------------------------------------------------------------
\* One text for each id: Parse accepts exactly the texts of the right length in
\* lower-case digits, and the digest it answers is written as that very text,
\* lax as the conversion below it is.  So no two spellings share a file.
ParseExact ==
  IF Len(text) = 2 * N /\ \A k \in 1..Len(text) : text[k] \in Lower
  THEN result.error = "none" /\ text = ToHexString(result.digest)
  ELSE result.error # "none"

\* An id is found again from the name of its file, as ListAllChunkIds and the
\* nodes that exchange ids as text need: what was written parses to the digest.
RoundTrip == given # NoDigest => result = Ok(given)
=============================================================================
