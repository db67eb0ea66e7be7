---------------------------- MODULE BootstrapAddr ----------------------------
(***************************************************************************)
(* parse_bootstrap_addr_port (mavryk/api environment.rs): splits a         *)
(* bootstrap peer "host[:port]" or "[ipv6][:port]" into a host and a u16   *)
(* port, the default port when none is given.                              *)
(*                                                                         *)
(* A string is a sequence of characters: the three the parser looks for,  *)
(* the sign u16::from_str accepts, decimal digits, and "a" standing for    *)
(* any other host character (a letter, '.', '-'), which the parser never   *)
(* tells apart.  The variable addr runs through every string of at most    *)
(* MaxLen characters over a small alphabet; each is checked against a      *)
(* reference grammar written from the function's documentation and unit   *)
(* tests.                                                                  *)
(***************************************************************************)
EXTENDS Naturals, Sequences, SequencesExt

CONSTANTS
    MaxLen,         \* longest input string checked
    DefaultPort     \* the default_port argument

DigitChars == <<"0", "1", "2", "3", "4", "5", "6", "7", "8", "9">>
Digits == {DigitChars[i] : i \in 1..10}
DigitValue(c) == CHOOSE v \in 0..9 : DigitChars[v + 1] = c

\* The harness alphabet: two digits suffice to write ports on both sides of
\* u16::MAX.
Chars == {"[", "]", ":", "+", "a", "0", "9"}

U16Max == 2^16 - 1

VARIABLES addr

-----------------------------------------------------------------------------
Ok(h, p) == [ok |-> TRUE, host |-> h, port |-> p]
Err == [ok |-> FALSE]

(* A fault: str::find in place of str::rfind.                              *)
FirstIndexOf(s, c) == SelectInSeq(s, LAMBDA x : x = c)

(* str::rfind: the 1-based position of the last c in s, 0 if none.         *)
rfind(s, c) == SelectLastInSeq(s, LAMBDA x : x = c)

CountOf(s, c) == Len(SelectSeq(s, LAMBDA x : x = c))

(* A fault: digits accumulated without the overflow check.                 *)
ParseU16Unchecked(p) ==
    IF p = <<>> \/ p = <<"+">> THEN Err
    ELSE LET d == IF p[1] = "+" THEN Tail(p) ELSE p IN
         IF \E i \in 1..Len(d) : d[i] \notin Digits THEN Err
         ELSE Ok(<<>>, FoldLeft(LAMBDA acc, c : acc * 10 + DigitValue(c), 0, d))

(* <u16 as FromStr>::from_str: an empty string, or a lone sign, is an      *)
(* error; one leading "+" is skipped; every other character must be a      *)
(* digit; the value is accumulated with checked_mul and checked_add and    *)
(* fails with PosOverflow past u16::MAX.  The port is the result's port.   *)
ParseU16(p) ==
    IF p = <<>> \/ p = <<"+">> THEN Err
    ELSE LET d == IF p[1] = "+" THEN Tail(p) ELSE p
             step(acc, c) == IF acc = -1 \/ acc * 10 + DigitValue(c) > U16Max
                             THEN -1 ELSE acc * 10 + DigitValue(c)
             v == FoldLeft(step, 0, d)
         IN IF \E i \in 1..Len(d) : d[i] \notin Digits THEN Err
            ELSE IF v = -1 THEN Err ELSE Ok(<<>>, v)

(* The host with the port part parsed, or with the default port.           *)
WithPort(h, portPart) ==
    LET r == ParseU16(portPart) IN IF r.ok THEN Ok(h, r.port) ELSE Err

(* "[...]" form: the host runs to the LAST ']'; after it comes nothing, or *)
(* ':' and the port.                                                       *)
ParseBracketed(s) ==
    LET idx == rfind(s, "]") IN
    IF idx = 0 THEN Err
    ELSE IF idx = Len(s) THEN Ok(SubSeq(s, 2, idx - 1), DefaultPort)
    ELSE IF s[idx + 1] # ":" THEN Err
    ELSE WithPort(SubSeq(s, 2, idx - 1), SubSeq(s, idx + 2, Len(s)))

(* Other forms: no ']' at all, and no ':' or exactly one, split there.     *)
ParsePlain(s) ==
    IF rfind(s, "]") # 0 THEN Err
    ELSE IF CountOf(s, ":") = 0 THEN Ok(s, DefaultPort)
    ELSE IF CountOf(s, ":") = 1
         THEN LET c == FirstIndexOf(s, ":") IN
              WithPort(SubSeq(s, 1, c - 1), SubSeq(s, c + 1, Len(s)))
    ELSE Err

parse_bootstrap_addr_port(s) ==
    IF s # <<>> /\ s[1] = "[" THEN ParseBracketed(s) ELSE ParsePlain(s)

-----------------------------------------------------------------------------
(* The checking harness: the input is written one character at a time.     *)
Init == addr = <<>>

Type(c) ==
    /\ Len(addr) < MaxLen
    /\ addr' = Append(addr, c)

Next == \E c \in Chars : Type(c)

Spec == Init /\ [][Next]_addr

-----------------------------------------------------------------------------
(* The reference: a port is an optional '+' and one or more digits whose   *)
(* decimal value fits in a u16; an address is "[" host "]" or a host with  *)
(* no ':' and no ']', not starting with '['; each optionally followed by  *)
(* ":" and a port.                                                         *)
Pow10(n) == 10^n

NumeralValue(d) ==
    LET RECURSIVE Sum(_)
        Sum(i) == IF i = 0 THEN 0 ELSE DigitValue(d[i]) * Pow10(Len(d) - i) + Sum(i - 1)
    IN Sum(Len(d))

Ports(q) ==
    { NumeralValue(d) : d \in { d \in {q, IF q # <<>> /\ q[1] = "+" THEN Tail(q) ELSE <<>>} :
          d # <<>> /\ \A i \in 1..Len(d) : d[i] \in Digits } }
    \cap 0..U16Max

\* The (host, rest) ways to read s: s = "[" host "]" rest, or s = host rest
\* with rest empty or starting at the only ':'.
Readings(s) ==
    { [host |-> SubSeq(s, 2, j - 1), rest |-> SubSeq(s, j + 1, Len(s))] :
        j \in { j \in 2..Len(s) : s[1] = "[" /\ s[j] = "]" } }
    \cup
    { [host |-> SubSeq(s, 1, j - 1), rest |-> SubSeq(s, j, Len(s))] :
        j \in { j \in 1..(Len(s) + 1) :
                  /\ s = <<>> \/ s[1] # "["
                  /\ \A i \in 1..Len(s) : s[i] # "]"
                  /\ \A i \in 1..(j - 1) : s[i] # ":"
                  /\ \A i \in (j + 1)..Len(s) : s[i] # ":"
                  /\ j <= Len(s) => s[j] = ":" } }

ReferenceResults(s) ==
    UNION { ( IF r.rest = <<>> THEN {Ok(r.host, DefaultPort)} ELSE {} )
            \cup
            ( IF r.rest # <<>> /\ r.rest[1] = ":"
              THEN {Ok(r.host, p) : p \in Ports(Tail(r.rest))} ELSE {} )
          : r \in Readings(s) }

-----------------------------------------------------------------------------
(* The parser accepts exactly the addresses the reference grammar          *)
(* accepts, with the host and port the grammar reads, however brackets,    *)
(* colons, a sign and overflowing digits are combined: the index           *)
(* arithmetic around rfind, the colon count and the u16 parse agree with   *)
(* the documented format.                                                  *)
ParserMatchesReference ==
    LET res == parse_bootstrap_addr_port(addr)
        ref == ReferenceResults(addr)
    IN IF ref = {} THEN ~res.ok ELSE res \in ref

=============================================================================
