-------------------------------- MODULE WifiMac --------------------------------
(***************************************************************************)
(* mac_addr_set and chartonum of wifi_dt.c: the "mac_wifi=" kernel        *)
(* parameter is parsed into WIFI_MAC, two hex digits per byte, the loop   *)
(* stepping three characters at a time (the pair and its ':').            *)
(*                                                                         *)
(* The parser holds no state: its operators are checked against a        *)
(* reference over every parameter of up to MaxLen characters from Chars.  *)
(* A character is its code.  The parameter's string sits in the command  *)
(* line buffer, ended by a NUL and followed by the rest of the command    *)
(* line, Rest, so a read past the NUL is modelled by what it reads.  The  *)
(* bytes of the local mac[] the loop never writes are uninitialised stack *)
(* and copied anyway: any byte value may come out; they are Garbage.      *)
(***************************************************************************)
EXTENDS Naturals, Sequences

CONSTANTS
    MacLen,    \* bytes in a MAC address (6 in the code)
    Chars,     \* the character codes a parameter may contain
    MaxLen,    \* longest parameter tried
    Rest,      \* what follows the parameter's NUL in the command line
    Garbage    \* an uninitialised byte

ASSUME /\ MacLen \in Nat \ {0} /\ MaxLen \in Nat /\ 0 \notin Chars
       /\ Rest \in Seq(Nat) /\ Len(Rest) >= 3 * MacLen

NUL == 0

(* chartonum: a hex digit's value; any other character gives 0.           *)
\* Variant: the lower-case range dropped.
CharToNumUpper(c) ==
    IF c >= 48 /\ c <= 57 THEN c - 48
    ELSE IF c >= 65 /\ c <= 70 THEN (c - 65) + 10
    ELSE 0

CharToNum(c) ==
    IF c >= 48 /\ c <= 57 THEN c - 48
    ELSE IF c >= 65 /\ c <= 70 THEN (c - 65) + 10
    ELSE IF c >= 97 /\ c <= 102 THEN (c - 97) + 10
    ELSE 0

\* The memory from the parameter's first character on (1-based).
Mem(l) == l \o <<NUL>> \o Rest

(* The loop of mac_addr_set from byte i, with the string at offset k of   *)
(* the memory: while i < 6 and line[0], line[1] are not NUL, store the    *)
(* byte and step 3.  Returns the bytes written and the highest offset     *)
(* read.  The && reads line[1] only when line[0] is not NUL.               *)
RECURSIVE MacLoop(_, _, _, _)
MacLoop(m, i, k, top) ==
    IF i >= MacLen THEN <<<<>>, top>>
    ELSE IF m[k + 1] = NUL THEN <<<<>>, k>>
    ELSE IF m[k + 2] = NUL THEN <<<<>>, k + 1>>
    ELSE LET b == CharToNum(m[k + 1]) * 16 + CharToNum(m[k + 2])
             r == MacLoop(m, i + 1, k + 3, k + 1)
         IN <<<<b>> \o r[1], r[2]>>

(* mac_addr_set: memcpy of all six bytes of mac[] into WIFI_MAC, and the  *)
(* highest offset of the string read (0-based).                            *)
MacAddrSet(l) ==
    LET r == MacLoop(Mem(l), 0, 0, 0)
    IN [mac  |-> [j \in 1..MacLen |-> IF j <= Len(r[1]) THEN r[1][j] ELSE Garbage],
        read |-> r[2]]

-----------------------------------------------------------------------------
\* The parameters tried: every string over Chars of up to MaxLen characters.
Lines == UNION {[1..n -> Chars] : n \in 0..MaxLen}

(* The reference: the hex digit d is written 0-9, A-F or a-f.             *)
HexChars(d) == {IF d < 10 THEN 48 + d ELSE 55 + d, IF d < 10 THEN 48 + d ELSE 87 + d}
IsHex(c) == \E d \in 0..15 : c \in HexChars(d)
HexVal(c) == CHOOSE d \in 0..15 : c \in HexChars(d)

\* "xx:xx:...:xx", MacLen pairs of hex digits.
WellFormed(l) ==
    /\ Len(l) = 3 * MacLen - 1
    /\ \A p \in 1..Len(l) : IF p % 3 = 0 THEN l[p] = 58 ELSE IsHex(l[p])

RefMac(l) == [j \in 1..MacLen |-> HexVal(l[3 * j - 2]) * 16 + HexVal(l[3 * j - 1])]
=============================================================================
