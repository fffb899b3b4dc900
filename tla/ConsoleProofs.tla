--------------------------- MODULE ConsoleProofs ---------------------------
(***************************************************************************)
(* What comes out of the console, for a FIFO of any depth, turns of any    *)
(* length and a message of the tick every any number of ticks.             *)
(***************************************************************************)
EXTENDS Console, FiniteSetTheorems, SequenceTheorems, TLAPS

-----------------------------------------------------------------------------
(* printk() *)

Numerals ==
  {"0", "1", "2", "3", "4", "5", "6", "7", "8", "9", "a", "b", "c", "d", "e", "f"}

\* What the complete lines consist of.
Characters ==
  Numerals \cup {"Task_A", "Task_B", "is_running",
                 "System_Time:", "seconds.", "p_mem=", NEWLINE}

\* What the loop of printk() puts from place i and argument k on.
Rest(put, f, args, i, k) ==
  IF i > Len(f) THEN <<>>
  ELSE IF f[i] # "%" THEN <<f[i]>> \o put[i + 1][k]
  ELSE LET d == Directive(f[i + 1], SubSeq(args, k, Len(args)))
       IN d.text \o put[i + 2][k + d.takes]

Unrolls(put, f, args) ==
  put = [i \in Nat \ {0} |-> [k \in Nat |-> Rest(put, f, args, i, k)]]

LEMMA OutputIs ==
  ASSUME NEW f, NEW args, NEW P, Unrolls(P, f, args)
  PROVE  \E put : Unrolls(put, f, args) /\ Output(f, args) = put[1][1]
<1>1. Output(f, args) = (CHOOSE put : Unrolls(put, f, args))[1][1]
  BY Zenon DEF Output, Unrolls, Rest
<1>2. Unrolls((CHOOSE put : Unrolls(put, f, args)), f, args)
  BY Zenon
<1> QED
  BY <1>1, <1>2, Zenon

LEMMA UnrollsAt ==
  ASSUME NEW put, NEW f, NEW args, Unrolls(put, f, args)
  PROVE  \A i \in Nat \ {0}, k \in Nat : put[i][k] = Rest(put, f, args, i, k)
<1> TAKE i \in Nat \ {0}, k \in Nat
<1>1. put[i] = [j \in Nat |-> Rest(put, f, args, i, j)]
  BY DEF Unrolls
<1> QED
  BY <1>1

LEMMA AtUnrolls ==
  ASSUME NEW put, NEW f, NEW args,
         put = [i \in Nat \ {0} |-> put[i]],
         \A i \in Nat \ {0} : put[i] = [k \in Nat |-> put[i][k]],
         \A i \in Nat \ {0}, k \in Nat : put[i][k] = Rest(put, f, args, i, k)
  PROVE  Unrolls(put, f, args)
<1>1. ASSUME NEW i \in Nat \ {0}
      PROVE  put[i] = [k \in Nat |-> Rest(put, f, args, i, k)]
  <2>1. put[i] = [k \in Nat |-> put[i][k]]
    BY Zenon
  <2>2. \A k \in Nat : put[i][k] = Rest(put, f, args, i, k)
    BY Zenon
  <2> QED
    BY <2>1, <2>2
<1> QED
  BY <1>1 DEF Unrolls

LEMMA Joined ==
  ASSUME NEW S, NEW a \in S, NEW b \in S
  PROVE  <<a>> \o (<<b>> \o <<>>) = <<a, b>>
<1>1. <<a>> \in Seq(S) /\ <<b>> \in Seq(S) /\ <<>> \in Seq(S) /\ <<b>> \o <<>> = <<b>>
  BY ConcatEmptySeq
<1>2. /\ <<a>> \o <<b>> \in Seq(S) /\ Len(<<a>> \o <<b>>) = 2
      /\ (<<a>> \o <<b>>)[1] = a /\ (<<a>> \o <<b>>)[2] = b
  BY <1>1, ConcatProperties
<1>3. <<a, b>> \in Seq(S) /\ Len(<<a, b>>) = 2 /\ <<a, b>>[1] = a /\ <<a, b>>[2] = b
  OBVIOUS
<1> DEFINE s == <<a>> \o <<b>>
           t == <<a, b>>
<1>4. s \in Seq(S) /\ t \in Seq(S) /\ Len(s) = Len(t) /\ \A i \in 1 .. Len(s) : s[i] = t[i]
  BY <1>2, <1>3
<1> HIDE DEF s, t
<1>5. s = t
  BY <1>4, SeqEqual
<1> QED
  BY <1>1, <1>5 DEF s, t

\* A format of two characters that are no directive.
LEMMA PlainLine ==
  ASSUME NEW a \in Characters, NEW b \in Characters, a # "%", b # "%", NEW args
  PROVE  Output(<<a, b>>, args) = <<a, b>>
<1> DEFINE f == <<a, b>>
           T2 == <<b>> \o <<>>
           T1 == <<a>> \o T2
           P == [i \in Nat \ {0} |-> [k \in Nat |->
                  IF i > 2 THEN <<>> ELSE IF i = 2 THEN T2 ELSE T1]]
<1>1. Len(f) = 2 /\ f[1] = a /\ f[2] = b
  OBVIOUS
<1>2. T2 = <<f[2]>> \o <<>> /\ T1 = <<f[1]>> \o T2
  BY <1>1, Zenon
<1> HIDE DEF f, T1, T2
<1>a. /\ P = [i \in Nat \ {0} |-> P[i]]
      /\ \A i \in Nat \ {0} : P[i] = [k \in Nat |-> P[i][k]]
  BY Zenon
<1>b. ASSUME NEW i \in Nat \ {0}, NEW k \in Nat
      PROVE  P[i][k] = IF i > 2 THEN <<>> ELSE IF i = 2 THEN T2 ELSE T1
  BY Zenon
<1> HIDE DEF P
<1>3. ASSUME NEW i \in Nat \ {0}, NEW k \in Nat
      PROVE  P[i][k] = Rest(P, f, args, i, k)
  <2>1. CASE i > 2
    <3>1. P[i][k] = <<>> /\ i > Len(f)
      BY <1>1, <1>b, <2>1, Zenon
    <3> QED
      BY <3>1, Zenon DEF Rest
  <2>2. CASE i = 2
    <3>1. /\ i + 1 \in Nat \ {0} /\ i + 1 > 2 /\ ~ (i > 2) /\ ~ (i > Len(f))
          /\ f[i] = b /\ f[i] # "%"
      BY <1>1, <2>2
    <3>2. P[i][k] = T2 /\ P[i + 1][k] = <<>>
      BY <1>b, <2>2, <3>1, Zenon
    <3>3. Rest(P, f, args, i, k) = <<f[i]>> \o P[i + 1][k]
      BY <3>1, Zenon DEF Rest
    <3> QED
      BY <1>2, <2>2, <3>2, <3>3, Zenon
  <2>3. CASE i = 1
    <3>1. /\ i + 1 \in Nat \ {0} /\ ~ (i + 1 > 2) /\ i + 1 = 2 /\ ~ (i > 2) /\ i # 2
          /\ ~ (i > Len(f)) /\ f[i] = a /\ f[i] # "%"
      BY <1>1, <2>3
    <3>2. P[i][k] = T1 /\ P[i + 1][k] = T2
      BY <1>b, <3>1, Zenon
    <3>3. Rest(P, f, args, i, k) = <<f[i]>> \o P[i + 1][k]
      BY <3>1, Zenon DEF Rest
    <3> QED
      BY <1>2, <2>3, <3>2, <3>3, Zenon
  <2>4. i > 2 \/ i = 2 \/ i = 1
    OBVIOUS
  <2> QED
    BY <2>1, <2>2, <2>3, <2>4, Zenon
<1>4. Unrolls(P, f, args)
  BY <1>a, <1>3, AtUnrolls, Zenon
<1>5. PICK put : Unrolls(put, f, args) /\ Output(f, args) = put[1][1]
  BY <1>4, OutputIs, Zenon
<1>6. \A i \in Nat \ {0}, k \in Nat : put[i][k] = Rest(put, f, args, i, k)
  BY <1>5, UnrollsAt
<1>7. /\ 1 \in Nat \ {0} /\ 2 \in Nat \ {0} /\ 3 \in Nat \ {0} /\ 1 \in Nat
      /\ 1 + 1 = 2 /\ 2 + 1 = 3
      /\ ~ (1 > Len(f)) /\ ~ (2 > Len(f)) /\ 3 > Len(f)
  BY <1>1
<1>8. put[3][1] = <<>>
  BY <1>6, <1>7, Zenon DEF Rest
<1>9. put[2][1] = T2
  <2>1. put[2][1] = Rest(put, f, args, 2, 1)
    BY <1>6, <1>7, Zenon
  <2>2. Rest(put, f, args, 2, 1) = <<f[2]>> \o put[2 + 1][1]
    BY <1>1, <1>7, Zenon DEF Rest
  <2> QED
    BY <1>2, <1>7, <1>8, <2>1, <2>2, Zenon
<1>10. put[1][1] = T1
  <2>1. put[1][1] = Rest(put, f, args, 1, 1)
    BY <1>6, <1>7, Zenon
  <2>2. Rest(put, f, args, 1, 1) = <<f[1]>> \o put[1 + 1][1]
    BY <1>1, <1>7, Zenon DEF Rest
  <2> QED
    BY <1>2, <1>7, <1>9, <2>1, <2>2, Zenon
<1>11. T1 = <<a, b>>
  BY Joined, Zenon DEF T1, T2
<1> QED
  BY <1>5, <1>10, <1>11, Zenon DEF f

\* The directives for numbers.
Converts(c, base) ==
  \/ c = "d" /\ base = 10
  \/ c = "x" /\ base = 16

LEMMA Conversions == Converts("d", 10) /\ Converts("x", 16)
BY DEF Converts

LEMMA DirectiveIs ==
  ASSUME NEW c, NEW base, Converts(c, base), NEW args
  PROVE  /\ Directive(c, args).takes = 1
         /\ Directive(c, args).text = PrintNumber(args[1], base)
<1>1. CASE c = "d" /\ base = 10
  <2>1. Directive(c, args) = [text |-> PrintNumber(args[1], 10), takes |-> 1]
    BY <1>1 DEF Directive
  <2> QED
    BY <1>1, <2>1 DEF Converts
<1>2. CASE c = "x" /\ base = 16
  <2>1. Directive(c, args) = [text |-> PrintNumber(args[1], 16), takes |-> 1]
    BY <1>2 DEF Directive
  <2> QED
    BY <1>2, <2>1
<1> QED
  BY <1>1, <1>2 DEF Converts

Prints(f, args, text) == Output(f, args) = text

\* A format with one number.
LEMMA NumberLine ==
  ASSUME NEW a \in Characters, NEW z \in Characters, a # "%", z # "%",
         NEW c, NEW base, Converts(c, base), NEW v
  PROVE  Prints(<<a, "%", c, z>>, <<v>>, <<a>> \o (PrintNumber(v, base) \o (<<z>> \o <<>>)))
<1> DEFINE f == <<a, "%", c, z>>
           args == <<v>>
           D(k) == Directive(c, SubSeq(args, k, Len(args)))
           T4 == <<z>> \o <<>>
           T3 == <<c>> \o T4
           T2(k) == D(k).text \o T4
           T1(k) == <<a>> \o T2(k)
           P == [i \in Nat \ {0} |-> [k \in Nat |->
                  IF i > 4 THEN <<>> ELSE IF i = 4 THEN T4 ELSE IF i = 3 THEN T3
                  ELSE IF i = 2 THEN T2(k) ELSE T1(k)]]
<1>1. Len(f) = 4 /\ f[1] = a /\ f[2] = "%" /\ f[3] = c /\ f[4] = z /\ c # "%"
  BY DEF Converts
<1>2. /\ T4 = <<f[4]>> \o <<>> /\ T3 = <<f[3]>> \o T4
      /\ \A k : T2(k) = Directive(f[3], SubSeq(args, k, Len(args))).text \o T4
      /\ \A k : T1(k) = <<f[1]>> \o T2(k)
  BY <1>1, Zenon
<1>3. \A k \in Nat : Directive(f[3], SubSeq(args, k, Len(args))).takes = 1
  BY <1>1, DirectiveIs
<1> HIDE DEF f, args, T4, T3, T2, T1
<1>a. /\ P = [i \in Nat \ {0} |-> P[i]]
      /\ \A i \in Nat \ {0} : P[i] = [k \in Nat |-> P[i][k]]
  BY Zenon
<1>b. ASSUME NEW i \in Nat \ {0}, NEW k \in Nat
      PROVE  P[i][k] = IF i > 4 THEN <<>> ELSE IF i = 4 THEN T4 ELSE IF i = 3 THEN T3
                       ELSE IF i = 2 THEN T2(k) ELSE T1(k)
  BY Zenon
<1> HIDE DEF P
<1>4. ASSUME NEW i \in Nat \ {0}, NEW k \in Nat
      PROVE  P[i][k] = Rest(P, f, args, i, k)
  <2>1. CASE i > 4
    <3>1. P[i][k] = <<>> /\ i > Len(f)
      BY <1>1, <1>b, <2>1, Zenon
    <3> QED
      BY <3>1, Zenon DEF Rest
  <2>2. CASE i = 4
    <3>1. i + 1 \in Nat \ {0} /\ i + 1 > 4 /\ ~ (i > 4) /\ ~ (i > Len(f)) /\ f[i] # "%"
      BY <1>1, <2>2
    <3>2. P[i][k] = T4 /\ P[i + 1][k] = <<>>
      BY <1>b, <2>2, <3>1, Zenon
    <3>3. Rest(P, f, args, i, k) = <<f[i]>> \o P[i + 1][k]
      BY <3>1, Zenon DEF Rest
    <3> QED
      BY <1>2, <2>2, <3>2, <3>3, Zenon
  <2>3. CASE i = 3
    <3>1. /\ i + 1 \in Nat \ {0} /\ ~ (i + 1 > 4) /\ i + 1 = 4
          /\ ~ (i > 4) /\ i # 4 /\ ~ (i > Len(f)) /\ f[i] # "%"
      BY <1>1, <2>3
    <3>2. P[i][k] = T3 /\ P[i + 1][k] = T4
      BY <1>b, <2>3, <3>1, Zenon
    <3>3. Rest(P, f, args, i, k) = <<f[i]>> \o P[i + 1][k]
      BY <3>1, Zenon DEF Rest
    <3> QED
      BY <1>2, <2>3, <3>2, <3>3, Zenon
  <2>4. CASE i = 2
    <3>1. /\ i + 2 \in Nat \ {0} /\ i + 1 = 3 /\ ~ (i + 2 > 4) /\ i + 2 = 4 /\ k + 1 \in Nat
          /\ ~ (i > 4) /\ i # 4 /\ i # 3 /\ ~ (i > Len(f)) /\ ~ (f[i] # "%")
      BY <1>1, <2>4
    <3>2. P[i][k] = T2(k) /\ P[i + 2][k + 1] = T4
      BY <1>b, <2>4, <3>1, Zenon
    <3>3. Rest(P, f, args, i, k) = Directive(f[3], SubSeq(args, k, Len(args))).text \o P[i + 2][k + 1]
      BY <1>3, <3>1, Zenon DEF Rest
    <3> QED
      BY <1>2, <3>2, <3>3, Zenon
  <2>5. CASE i = 1
    <3>1. /\ i + 1 \in Nat \ {0} /\ ~ (i + 1 > 4) /\ i + 1 # 4 /\ i + 1 # 3 /\ i + 1 = 2
          /\ ~ (i > 4) /\ i # 4 /\ i # 3 /\ i # 2 /\ ~ (i > Len(f)) /\ f[i] # "%"
      BY <1>1, <2>5
    <3>2. P[i][k] = T1(k) /\ P[i + 1][k] = T2(k)
      BY <1>b, <3>1, Zenon
    <3>3. Rest(P, f, args, i, k) = <<f[i]>> \o P[i + 1][k]
      BY <3>1, Zenon DEF Rest
    <3> QED
      BY <1>2, <2>5, <3>2, <3>3, Zenon
  <2>6. i > 4 \/ i = 4 \/ i = 3 \/ i = 2 \/ i = 1
    OBVIOUS
  <2> QED
    BY <2>1, <2>2, <2>3, <2>4, <2>5, <2>6, Zenon
<1>5. Unrolls(P, f, args)
  BY <1>a, <1>4, AtUnrolls, Zenon
<1>6. PICK put : Unrolls(put, f, args) /\ Output(f, args) = put[1][1]
  BY <1>5, OutputIs, Zenon
<1>7. \A i \in Nat \ {0}, k \in Nat : put[i][k] = Rest(put, f, args, i, k)
  BY <1>6, UnrollsAt
<1>8. /\ 1 \in Nat \ {0} /\ 2 \in Nat \ {0} /\ 4 \in Nat \ {0} /\ 5 \in Nat \ {0}
      /\ 1 \in Nat /\ 2 \in Nat
      /\ 1 + 1 = 2 /\ 2 + 1 = 3 /\ 2 + 2 = 4 /\ 4 + 1 = 5
      /\ ~ (1 > Len(f)) /\ ~ (2 > Len(f)) /\ ~ (4 > Len(f)) /\ 5 > Len(f)
  BY <1>1
<1>9. put[5][2] = <<>>
  BY <1>7, <1>8, Zenon DEF Rest
<1>10. put[4][2] = T4
  <2>1. put[4][2] = Rest(put, f, args, 4, 2)
    BY <1>7, <1>8, Zenon
  <2>2. Rest(put, f, args, 4, 2) = <<f[4]>> \o put[4 + 1][2]
    BY <1>1, <1>8, Zenon DEF Rest
  <2> QED
    BY <1>2, <1>8, <1>9, <2>1, <2>2, Zenon
<1>11. put[2][1] = T2(1)
  <2>1. put[2][1] = Rest(put, f, args, 2, 1)
    BY <1>7, <1>8, Zenon
  <2>2. Rest(put, f, args, 2, 1) = Directive(f[3], SubSeq(args, 1, Len(args))).text \o put[4][2]
    <3>1. Directive(f[2 + 1], SubSeq(args, 1, Len(args))).takes = 1
      BY <1>3, <1>8, Zenon
    <3> QED
      BY <1>1, <1>8, <3>1, Zenon DEF Rest
  <2> QED
    BY <1>2, <1>10, <2>1, <2>2, Zenon
<1>12. put[1][1] = T1(1)
  <2>1. put[1][1] = Rest(put, f, args, 1, 1)
    BY <1>7, <1>8, Zenon
  <2>2. Rest(put, f, args, 1, 1) = <<f[1]>> \o put[1 + 1][1]
    BY <1>1, <1>8, Zenon DEF Rest
  <2> QED
    BY <1>2, <1>8, <1>11, <2>1, <2>2, Zenon
<1>13. D(1).text = PrintNumber(v, base)
  <2>1. SubSeq(args, 1, Len(args))[1] = v
    BY DEF args
  <2>2. D(1).text = PrintNumber(SubSeq(args, 1, Len(args))[1], base)
    BY DirectiveIs, Zenon
  <2> QED
    BY <2>1, <2>2, Zenon
<1> QED
  BY <1>6, <1>12, <1>13, Zenon DEF Prints, f, args, T1, T2, T4

-----------------------------------------------------------------------------
(* Numbers *)

Digits(digits, val, base) ==
  digits = [v \in 0 .. val |->
             IF v = 0 THEN <<>> ELSE <<DIGITS[(v % base) + 1]>> \o digits[v \div base]]

LEMMA BuffIs ==
  ASSUME NEW val, NEW base, NEW D, Digits(D, val, base)
  PROVE  \E digits : Digits(digits, val, base) /\ Buff(val, base) = digits[val]
<1>1. Buff(val, base) = (CHOOSE digits : Digits(digits, val, base))[val]
  BY Zenon DEF Buff, Digits
<1>2. Digits((CHOOSE digits : Digits(digits, val, base)), val, base)
  BY Zenon
<1> QED
  BY <1>1, <1>2, Zenon

LEMMA DigitIs ==
  ASSUME NEW d \in 0 .. 15
  PROVE  DIGITS[d + 1] \in Characters
<1>1. /\ Len(DIGITS) = 16
      /\ \A x \in Numerals : x \in Characters
  BY DEF DIGITS, Characters, NEWLINE
<1>2. DIGITS \in Seq(Numerals)
  BY DEF DIGITS, Numerals
<1>3. d + 1 \in 1 .. Len(DIGITS)
  BY <1>1
<1> QED
  BY <1>1, <1>2, <1>3, ElementOfSeq

LEMMA Division ==
  ASSUME NEW base, base = 10 \/ base = 16, NEW v \in Nat, v < base * base
  PROVE  /\ v \div base \in 0 .. base - 1 /\ v % base \in 0 .. base - 1
         /\ v < base => v \div base = 0 /\ v % base = v
         /\ v >= base => v \div base # 0 /\ v \div base < v
<1>1. CASE base = 10
  BY <1>1
<1>2. CASE base = 16
  BY <1>2
<1> QED
  BY <1>1, <1>2

\* print_number() of a number with two digits at most.
LEMMA NumberIs ==
  ASSUME NEW base, base = 10 \/ base = 16, NEW val \in Nat, val < base * base
  PROVE  PrintNumber(val, base) = Numeral(val, base) /\ Numeral(val, base) \in Seq(Characters)
<1> DEFINE Low(v) == DIGITS[(v % base) + 1]
           High(v) == DIGITS[(v \div base) + 1]
           D == [v \in 0 .. val |-> IF v = 0 THEN <<>> ELSE IF v < base THEN <<Low(v)>> \o <<>>
                                    ELSE <<Low(v)>> \o (<<High(v)>> \o <<>>)]
<1>1. base \in Nat /\ base > 1 /\ base <= 16
  OBVIOUS
<1>2. ASSUME NEW v \in 0 .. val
      PROVE  /\ v \in Nat /\ v < base * base
             /\ v \div base \in 0 .. base - 1 /\ v % base \in 0 .. base - 1
             /\ v < base => v \div base = 0 /\ v % base = v
             /\ v >= base => v \div base # 0 /\ v \div base < v
  <2>1. base * base \in Nat
    BY <1>1
  <2>2. v \in Nat /\ v < base * base
    BY <2>1
  <2> QED
    BY <2>2, Division
<1>3. ASSUME NEW v \in 0 .. val
      PROVE  /\ v \div base \in 0 .. val /\ (v < base <=> ~ (v >= base))
             /\ (v \div base) % base = v \div base
             /\ Low(v) \in Characters /\ High(v) \in Characters
  <2>1. /\ v \div base \in 0 .. 15 /\ v % base \in 0 .. 15
        /\ v \div base \in 0 .. val /\ (v < base <=> ~ (v >= base))
    BY <1>1, <1>2
  <2>2. (v \div base) % base = v \div base
    <3>1. v \div base \in 0 .. val /\ v \div base < base
      BY <1>1, <1>2, <2>1
    <3> QED
      BY <1>2, <3>1
  <2> QED
    BY <2>1, <2>2, DigitIs
<1>4. ASSUME NEW v \in 0 .. val
      PROVE  D[v] = IF v = 0 THEN <<>> ELSE IF v < base THEN <<Low(v)>> \o <<>>
                    ELSE <<Low(v)>> \o (<<High(v)>> \o <<>>)
  BY Zenon
<1>5. Digits(D, val, base)
  <2>1. D = [v \in 0 .. val |-> D[v]]
    BY Zenon
  <2> HIDE DEF D
  <2>2. ASSUME NEW v \in 0 .. val
        PROVE  D[v] = IF v = 0 THEN <<>> ELSE <<DIGITS[(v % base) + 1]>> \o D[v \div base]
    <3>1. CASE v = 0
      BY <1>4, <3>1, Zenon
    <3>2. CASE v # 0 /\ v < base
      <4>1. v \div base = 0 /\ v \div base \in 0 .. val
        BY <1>2, <1>3, <3>2, Zenon
      <4>2. D[v \div base] = <<>>
        BY <1>4, <4>1, Zenon
      <4> QED
        BY <1>4, <3>2, <4>2, Zenon
    <3>3. CASE v # 0 /\ ~ (v < base)
      <4>1. /\ v \div base \in 0 .. val /\ v \div base # 0 /\ v \div base < base
            /\ (v \div base) % base = v \div base
        <5>1. v \div base \in 0 .. base - 1 /\ v >= base
          BY <1>2, <1>3, <3>3, Zenon
        <5>2. v \div base < base
          BY <1>1, <5>1
        <5> QED
          BY <1>2, <1>3, <5>1, <5>2, Zenon
      <4>2. D[v \div base] = <<High(v)>> \o <<>>
        BY <1>4, <4>1, Zenon
      <4> QED
        BY <1>4, <3>3, <4>2, Zenon
    <3> QED
      BY <3>1, <3>2, <3>3, Zenon
  <2> QED
    BY <2>1, <2>2, Zenon DEF Digits
<1> HIDE DEF D
<1>6. PICK digits : Digits(digits, val, base) /\ Buff(val, base) = digits[val]
  BY <1>5, BuffIs, Zenon
<1>7. ASSUME NEW v \in 0 .. val
      PROVE  digits[v] = IF v = 0 THEN <<>> ELSE <<DIGITS[(v % base) + 1]>> \o digits[v \div base]
  BY <1>6 DEF Digits
<1>8. val \in 0 .. val /\ 0 \in 0 .. val
  OBVIOUS
<1>9. CASE val = 0
  <2>1. DIGITS[0 + 1] = "0" /\ DIGITS[0 + 1] \in Characters
    <3>1. DIGITS[0 + 1] = "0"
      BY DEF DIGITS
    <3>2. 0 \in 0 .. 15
      OBVIOUS
    <3> QED
      BY <3>1, <3>2, DigitIs
  <2>2. PrintNumber(val, base) = <<"0">> /\ Numeral(val, base) = <<DIGITS[0 + 1]>>
    BY <1>1, <1>9 DEF PrintNumber, Numeral
  <2> QED
    BY <2>1, <2>2
<1>10. CASE val # 0 /\ val < base
  <2>1. digits[val] = <<Low(val)>>
    <3>1. digits[val \div base] = <<>>
      BY <1>2, <1>7, <1>8, <1>10, Zenon
    <3>2. digits[val] = <<Low(val)>> \o <<>>
      BY <1>7, <1>8, <1>10, <3>1, Zenon
    <3>3. <<Low(val)>> \in Seq(Characters)
      BY <1>3, <1>8
    <3> HIDE DEF Low
    <3> QED
      BY <3>2, <3>3, ConcatEmptySeq
  <2>2. Low(val) = DIGITS[val + 1]
    BY <1>2, <1>8, <1>10, Zenon
  <2>3. PrintNumber(val, base) = Reverse(<<Low(val)>>)
    BY <1>6, <1>10, <2>1, Zenon DEF PrintNumber
  <2>4. Low(val) \in Characters
    BY <1>3, <1>8, Zenon
  <2> HIDE DEF Low
  <2>5. Reverse(<<Low(val)>>) = <<Low(val)>>
    BY DEF Reverse
  <2>6. Numeral(val, base) = <<Low(val)>>
    BY <1>10, <2>2, Zenon DEF Numeral
  <2> QED
    BY <2>3, <2>4, <2>5, <2>6
<1>11. CASE val # 0 /\ ~ (val < base)
  <2>1. /\ val \div base \in 0 .. val /\ val \div base # 0
        /\ (val \div base) % base = val \div base
        /\ Low(val) \in Characters /\ High(val) \in Characters
    BY <1>2, <1>3, <1>8, <1>11, Zenon
  <2>2. digits[val \div base] = <<High(val)>> \o <<>>
    <3>1. (val \div base) \div base = 0
      <4>1. val \div base < base
        <5>1. val \div base \in 0 .. base - 1
          BY <1>2, <1>8, Zenon
        <5> QED
          BY <1>1, <5>1
      <4> QED
        BY <1>2, <2>1, <4>1, Zenon
    <3>2. digits[(val \div base) \div base] = <<>>
      BY <1>7, <1>8, <3>1, Zenon
    <3> QED
      BY <1>7, <2>1, <3>2, Zenon
  <2>3. digits[val] = <<Low(val)>> \o (<<High(val)>> \o <<>>)
    BY <1>7, <1>8, <1>11, <2>2, Zenon
  <2>4. Numeral(val, base) = <<High(val), Low(val)>>
    BY <1>11, Zenon DEF Numeral
  <2>5. PrintNumber(val, base) = Reverse(digits[val])
    BY <1>6, <1>11, Zenon DEF PrintNumber
  <2> HIDE DEF Low, High
  <2>6. digits[val] = <<Low(val), High(val)>>
    BY <2>1, <2>3, Joined, Zenon
  <2>7. Reverse(<<Low(val), High(val)>>) = <<High(val), Low(val)>>
    BY <2>1 DEF Reverse
  <2> QED
    BY <2>1, <2>4, <2>5, <2>6, <2>7
<1> QED
  BY <1>9, <1>10, <1>11, Zenon

-----------------------------------------------------------------------------
(* The lines *)

\* A call whose characters are those of its text.
Faithful(call) ==
  Output(call.format, call.args) = call.text /\ call.text \in Seq(Characters)

LEMMA NumberFaithful ==
  ASSUME NEW a \in Characters, NEW z \in Characters, a # "%", z # "%",
         NEW c, NEW base, Converts(c, base),
         NEW v \in Nat, v < base * base
  PROVE  Faithful(Line(<<a, "%", c, z>>, <<v>>, <<a>> \o Numeral(v, base) \o <<z>>))
<1> DEFINE num == Numeral(v, base)
<1>1. base = 10 \/ base = 16
  BY DEF Converts
<1>2. PrintNumber(v, base) = num /\ num \in Seq(Characters)
  BY <1>1, NumberIs
<1>3. Output(<<a, "%", c, z>>, <<v>>) = <<a>> \o (num \o (<<z>> \o <<>>))
  <2>1. Prints(<<a, "%", c, z>>, <<v>>, <<a>> \o (PrintNumber(v, base) \o (<<z>> \o <<>>)))
    BY NumberLine, Zenon
  <2> QED
    BY <1>2, <2>1, Zenon DEF Prints
<1> HIDE DEF num
<1>4. <<a>> \in Seq(Characters) /\ <<z>> \in Seq(Characters) /\ <<z>> \o <<>> = <<z>>
  BY ConcatEmptySeq
<1>5. /\ (<<a>> \o num) \o <<z>> = <<a>> \o (num \o <<z>>)
      /\ (<<a>> \o num) \o <<z>> \in Seq(Characters)
  BY <1>2, <1>4, ConcatAssociative, ConcatProperties
<1> QED
  BY <1>3, <1>4, <1>5, Zenon DEF Faithful, Line, num

LEMMA CharactersPrintable ==
  /\ "Task_A" \in Characters /\ "Task_B" \in Characters /\ "is_running" \in Characters
  /\ "System_Time:" \in Characters /\ "seconds." \in Characters
  /\ "p_mem=" \in Characters /\ NEWLINE \in Characters
  /\ \A a \in Characters : a # "%" /\ a # "cut"
BY DEF Characters, Numerals, NEWLINE

LEMMA TaskLineFaithful ==
  ASSUME NEW t
  PROVE  Faithful(TaskLine(t))
<1> DEFINE a == IF t = TaskA THEN "Task_A" ELSE "Task_B"
           b == "is_running"
<1>1. a \in Characters /\ b \in Characters
  BY CharactersPrintable
<1>2. TaskLine(t) = Line(<<a, b>>, <<>>, <<a, b>>)
  BY Zenon DEF TaskLine
<1> HIDE DEF a, b
<1>3. Output(<<a, b>>, <<>>) = <<a, b>> /\ <<a, b>> \in Seq(Characters)
  BY <1>1, CharactersPrintable, PlainLine
<1>4. /\ TaskLine(t).format = <<a, b>> /\ TaskLine(t).args = <<>>
      /\ TaskLine(t).text = <<a, b>>
  BY <1>2 DEF Line
<1> QED
  BY <1>3, <1>4, Zenon DEF Faithful

LEMMA MemLineFaithful == Faithful(MemLine)
<1> DEFINE v == 176
<1>1. v \in Nat /\ v < 16 * 16
  OBVIOUS
<1>2. MemLine = Line(<<"p_mem=", "%", "x", NEWLINE>>, <<v>>,
                     <<"p_mem=">> \o Numeral(v, 16) \o <<NEWLINE>>)
  BY Zenon DEF MemLine
<1> HIDE DEF v
<1>3. Faithful(Line(<<"p_mem=", "%", "x", NEWLINE>>, <<v>>,
                    <<"p_mem=">> \o Numeral(v, 16) \o <<NEWLINE>>))
  BY <1>1, CharactersPrintable, Conversions, NumberFaithful, Zenon
<1> QED
  BY <1>2, <1>3, Zenon

LEMMA TickLineFaithful ==
  ASSUME NEW s \in 0 .. Seconds
  PROVE  Faithful(TickLine(s))
<1>1. s \in Nat /\ s < 10 * 10
  BY ConsoleAssumption
<1>2. Faithful(Line(<<"System_Time:", "%", "d", "seconds.">>, <<s>>,
                    <<"System_Time:">> \o Numeral(s, 10) \o <<"seconds.">>))
  BY <1>1, CharactersPrintable, Conversions, NumberFaithful, Zenon
<1> QED
  BY <1>2, Zenon DEF TickLine

-----------------------------------------------------------------------------
(* The invariant *)

\* Nothing of the latest call of w is lost or out of order.
Whole(w) ==
  /\ shown[w] \in Seq(Characters) /\ todo[w] \in Seq(Characters)
  /\ Complete(w)

\* The scheduler's part of TypeOK, and that the tick prints where nothing interrupts it:
\* the room that it has found is there when it writes.
PathInv ==
  /\ TypeOK
  /\ n = 3
  /\ line = [w \in Writers |-> line[w]] /\ todo = [w \in Writers |-> todo[w]]
  /\ shown = [w \in Writers |-> shown[w]]
  /\ path # "tick" => ~ Printing(Tick)
  /\ ready[Tick] => room > 0
  /\ instant => room = Depth

LineInv ==
  /\ Whole(Tick)
  /\ instant => \A w \in Writers : line[w] = StartLine \/ Whole(w)

ConsoleInv == PathInv /\ LineInv

LEMMA WritersAre ==
  /\ Tick \in Writers /\ \A t \in Tasks : t \in Writers /\ t # Tick
  /\ Tasks = {1, 2, 3} /\ Cardinality(Tasks) = 3 /\ KernelMain \in Tasks
<1>1. Tasks = {1, 2, 3}
  BY DEF Tasks, KernelMain, TaskA, TaskB
<1>2. Cardinality({1, 2, 3}) = 3
  <2>1. Cardinality({1}) = 1 /\ IsFiniteSet({1})
    BY FS_Singleton
  <2>2. Cardinality({1} \cup {2}) = 2 /\ IsFiniteSet({1} \cup {2})
    BY <2>1, FS_AddElement
  <2>3. Cardinality({1} \cup {2} \cup {3}) = 3
    BY <2>2, FS_AddElement
  <2>4. {1} \cup {2} \cup {3} = {1, 2, 3}
    OBVIOUS
  <2> QED
    BY <2>3, <2>4
<1> QED
  BY <1>1, <1>2 DEF Writers, Tick, KernelMain, TaskA, TaskB

LEMMA NothingWhole ==
  /\ <<>> \in Seq(Characters) /\ <<>> \o <<>> = <<>>
  /\ NoLine.text = <<>>
<1>1. <<>> \in Seq(Characters) /\ <<>> \o <<>> = <<>>
  BY ConcatEmptySeq
<1> QED
  BY <1>1 DEF NoLine, Line

LEMMA ConsoleInvInit == Init => ConsoleInv
<1> SUFFICES ASSUME Init
             PROVE  ConsoleInv
  OBVIOUS
<1>1. /\ Len(KernelMainLines) = 2
      /\ 0 \in 0 .. Period * Seconds /\ Depth \in 0 .. Depth /\ Depth \in Nat
      /\ Slice \in 0 .. Slice
  <2>1. Period * Seconds \in Nat
    BY ConsoleAssumption
  <2> QED
    BY <2>1, ConsoleAssumption DEF KernelMainLines
<1>2. \A w \in Writers : line[w] = NoLine /\ todo[w] = <<>> /\ shown[w] = <<>> /\ ready[w] = FALSE
  BY DEF Init
<1>3. TypeOK
  <2>1. \A w \in Writers : ready[w] => Printing(w)
    BY <1>2
  <2>2. ready \in [Writers -> BOOLEAN]
    BY DEF Init
  <2> QED
    BY <1>1, <2>1, <2>2, WritersAre DEF Init, TypeOK
<1>4. PathInv
  BY <1>1, <1>2, <1>3, WritersAre DEF PathInv, Init, Printing
<1>5. \A w \in Writers : Whole(w)
  BY <1>2, NothingWhole, Zenon DEF Whole, Complete
<1> QED
  BY <1>4, <1>5, WritersAre, Zenon DEF ConsoleInv, LineInv

\* A call of printk() by code that has finished the one before.
LEMMA PrintkStep ==
  ASSUME ConsoleInv, NEW w \in Writers, NEW call, Printk(w, call), ~ Printing(w),
         path = "task", room' = room, ready' = ready
  PROVE  /\ line'[w] = call /\ todo'[w] = Output(call.format, call.args)
         /\ shown'[w] = <<>>
         /\ \A v \in Writers \ {w} : /\ line'[v] = line[v] /\ todo'[v] = todo[v]
                                     /\ shown'[v] = shown[v]
         /\ line' = [v \in Writers |-> line'[v]] /\ todo' = [v \in Writers |-> todo'[v]]
         /\ shown' = [v \in Writers |-> shown'[v]]
         /\ \A v \in Writers : ready[v] => Printing(v)'
         /\ \A v \in Writers \ {w} : Whole(v)' <=> Whole(v)
         /\ Faithful(call) => Whole(w)'
<1>1. /\ line' = [line EXCEPT ![w] = call] /\ shown' = [shown EXCEPT ![w] = <<>>]
      /\ todo' = [todo EXCEPT ![w] = Output(call.format, call.args)]
  BY Zenon DEF Printk
<1>2. /\ line = [v \in Writers |-> line[v]] /\ todo = [v \in Writers |-> todo[v]]
      /\ shown = [v \in Writers |-> shown[v]]
  BY Zenon DEF ConsoleInv, PathInv
<1> DEFINE new == Output(call.format, call.args)
<1> HIDE DEF new
<1>3. /\ line' = [v \in Writers |-> IF v = w THEN call ELSE line[v]]
      /\ todo' = [v \in Writers |-> IF v = w THEN new ELSE todo[v]]
      /\ shown' = [v \in Writers |-> IF v = w THEN <<>> ELSE shown[v]]
  <2>1. line' = [v \in Writers |-> IF v = w THEN call ELSE line[v]]
    BY <1>1, <1>2
  <2>2. todo' = [v \in Writers |-> IF v = w THEN new ELSE todo[v]]
    BY <1>1, <1>2 DEF new
  <2>3. shown' = [v \in Writers |-> IF v = w THEN <<>> ELSE shown[v]]
    BY <1>1, <1>2
  <2> QED
    BY <2>1, <2>2, <2>3, Zenon
<1>4. /\ line' = [v \in Writers |-> line'[v]] /\ todo' = [v \in Writers |-> todo'[v]]
      /\ shown' = [v \in Writers |-> shown'[v]]
  BY <1>3, Zenon
<1>5. line'[w] = call /\ todo'[w] = new /\ shown'[w] = <<>>
  BY <1>3, Zenon
<1>6. ASSUME NEW v \in Writers, v # w
      PROVE  line'[v] = line[v] /\ todo'[v] = todo[v] /\ shown'[v] = shown[v]
  BY <1>3, <1>6, Zenon
<1>7. ASSUME NEW v \in Writers, ready[v]
      PROVE  Printing(v)'
  <2>1. Printing(v) /\ v # w
    BY <1>7, Zenon DEF ConsoleInv, PathInv, TypeOK
  <2> QED
    BY <1>6, <2>1, Zenon DEF Printing
<1>8. ASSUME NEW v \in Writers, v # w
      PROVE  Whole(v)' <=> Whole(v)
  BY <1>6, <1>8, Zenon DEF Whole, Complete
<1>9. ASSUME Faithful(call)
      PROVE  Whole(w)'
  <2>1. new = call.text /\ new \in Seq(Characters)
    BY <1>9, Zenon DEF Faithful, new
  <2>2. <<>> \o new = new /\ <<>> \in Seq(Characters)
    BY <2>1, ConcatEmptySeq
  <2> QED
    BY <1>5, <2>1, <2>2, Zenon DEF Whole, Complete
<1> QED
  BY <1>4, <1>5, <1>6, <1>7, <1>8, <1>9, Zenon DEF new

\* The variables of the scheduler's part that most steps leave alone.
LEMMA SchedKept ==
  ASSUME ConsoleInv, UNCHANGED <<instant, masked, schedVars, path, ticks, told>>,
         room' \in 0 .. Depth, ready' \in [Writers -> BOOLEAN],
         \A w \in Writers : ready'[w] => Printing(w)'
  PROVE  TypeOK' /\ n' = 3
BY DEF ConsoleInv, PathInv, TypeOK, schedVars

\* A step that leaves the lines as they are.
LEMMA LinesKept ==
  ASSUME ConsoleInv, UNCHANGED <<instant, line, todo, shown>>
  PROVE  LineInv'
<1>1. \A w \in Writers : Whole(w)' <=> Whole(w)
  BY Zenon DEF Whole, Complete
<1> QED
  BY <1>1, WritersAre, Zenon DEF ConsoleInv, LineInv

LEMMA FindRoomStep ==
  ASSUME ConsoleInv, NEW w \in Writers, FindRoom(w)
  PROVE  ConsoleInv'
<1>1. /\ UNCHANGED <<instant, masked, schedVars, path, ticks, told, line, todo, room, shown>>
      /\ Printing(w) /\ room > 0 /\ Runs(w)
      /\ ready' = [ready EXCEPT ![w] = TRUE]
  BY DEF FindRoom
<1>2. LineInv'
  BY <1>1, LinesKept
<1>3. /\ room \in 0 .. Depth /\ ready \in [Writers -> BOOLEAN]
      /\ \A v \in Writers : ready[v] => Printing(v)
  BY DEF ConsoleInv, PathInv, TypeOK
<1>4. \A v \in Writers : ready'[v] => Printing(v)'
  BY <1>1, <1>3 DEF Printing
<1>5. TypeOK' /\ n' = 3
  BY <1>1, <1>3, <1>4, SchedKept
<1>6. PathInv'
  BY <1>1, <1>5 DEF ConsoleInv, PathInv, Printing
<1> QED
  BY <1>2, <1>6 DEF ConsoleInv

\* The character goes from what is to come to what has gone out.
LEMMA SentAndTodo ==
  ASSUME NEW S, NEW sent \in Seq(S), NEW rest \in Seq(S), rest # <<>>
  PROVE  /\ Append(sent, Head(rest)) \in Seq(S) /\ Tail(rest) \in Seq(S)
         /\ Append(sent, Head(rest)) \o Tail(rest) = sent \o rest
<1>1. /\ Head(rest) \in S /\ Tail(rest) \in Seq(S) /\ Len(Tail(rest)) = Len(rest) - 1
      /\ \A i \in 1 .. Len(Tail(rest)) : Tail(rest)[i] = rest[i + 1]
      /\ Head(rest) = rest[1] /\ Len(rest) \in Nat /\ Len(rest) > 0 /\ Len(sent) \in Nat
  <2>1. Len(rest) \in Nat \ {0} /\ Len(sent) \in Nat
    BY EmptySeq, LenProperties
  <2> QED
    BY <2>1, HeadTailProperties
<1> DEFINE h == Head(rest)
           t == Tail(rest)
           more == Append(sent, h)
<1>2. /\ more \in Seq(S) /\ Len(more) = Len(sent) + 1 /\ more[Len(sent) + 1] = h
      /\ \A i \in 1 .. Len(sent) : more[i] = sent[i]
  BY <1>1, AppendProperties
<1> HIDE DEF h, t, more
<1>3. /\ more \o t \in Seq(S) /\ Len(more \o t) = Len(more) + Len(t)
      /\ \A i \in 1 .. Len(more) + Len(t) :
           (more \o t)[i] = IF i <= Len(more) THEN more[i] ELSE t[i - Len(more)]
  BY <1>1, <1>2, ConcatProperties DEF t
<1>4. /\ sent \o rest \in Seq(S) /\ Len(sent \o rest) = Len(sent) + Len(rest)
      /\ \A i \in 1 .. Len(sent) + Len(rest) :
           (sent \o rest)[i] = IF i <= Len(sent) THEN sent[i] ELSE rest[i - Len(sent)]
  BY ConcatProperties
<1>5. Len(more) + Len(t) = Len(sent) + Len(rest)
  BY <1>1, <1>2 DEF t
<1>6. ASSUME NEW i \in 1 .. Len(sent) + Len(rest)
      PROVE  (more \o t)[i] = (sent \o rest)[i]
  <2>1. CASE i <= Len(sent)
    <3>1. i \in 1 .. Len(sent) /\ i <= Len(more) /\ i \in 1 .. Len(more) + Len(t)
      BY <1>1, <1>2, <1>5, <2>1
    <3> QED
      BY <1>2, <1>3, <1>4, <2>1, <3>1, Zenon
  <2>2. CASE i = Len(sent) + 1
    <3>1. /\ i <= Len(more) /\ i \in 1 .. Len(more) + Len(t) /\ ~ (i <= Len(sent))
          /\ i - Len(sent) = 1
      BY <1>1, <1>2, <1>5, <2>2
    <3>2. more[i] = rest[1]
      BY <1>1, <1>2, <2>2, Zenon DEF h
    <3> QED
      BY <1>3, <1>4, <3>1, <3>2, Zenon
  <2>3. CASE i > Len(sent) + 1
    <3>1. /\ ~ (i <= Len(more)) /\ i \in 1 .. Len(more) + Len(t) /\ ~ (i <= Len(sent))
          /\ i - Len(more) \in 1 .. Len(t) /\ (i - Len(more)) + 1 = i - Len(sent)
      BY <1>1, <1>2, <1>5, <2>3 DEF t
    <3>2. t[i - Len(more)] = rest[i - Len(sent)]
      BY <1>1, <3>1 DEF t
    <3> QED
      BY <1>3, <1>4, <3>1, <3>2, Zenon
  <2>4. i <= Len(sent) \/ i = Len(sent) + 1 \/ i > Len(sent) + 1
    BY <1>1
  <2> QED
    BY <2>1, <2>2, <2>3, <2>4, Zenon
<1>7. more \o t = sent \o rest
  BY <1>3, <1>4, <1>5, <1>6, SeqEqual
<1> QED
  BY <1>1, <1>2, <1>7 DEF more, h, t

LEMMA CutIsNone == CUT \notin Seq(Characters)
<1> SUFFICES ASSUME CUT \in Seq(Characters)
             PROVE  FALSE
  OBVIOUS
<1>1. CUT[1] \in Characters
  BY DEF CUT
<1>2. CUT[1] = "cut"
  BY DEF CUT
<1> QED
  BY <1>1, <1>2, CharactersPrintable

LEMMA SendCharStep ==
  ASSUME ConsoleInv, NEW w \in Writers, SendChar(w)
  PROVE  ConsoleInv'
<1>1. /\ UNCHANGED <<instant, masked, schedVars, path, ticks, told, line>>
      /\ ready[w] /\ Runs(w)
      /\ ready' = [ready EXCEPT ![w] = FALSE]
      /\ todo' = [todo EXCEPT ![w] = Tail(@)]
  BY DEF SendChar
<1>2. /\ room \in 0 .. Depth /\ Depth \in Nat /\ ready \in [Writers -> BOOLEAN]
      /\ \A v \in Writers : ready[v] => Printing(v)
      /\ line = [v \in Writers |-> line[v]] /\ todo = [v \in Writers |-> todo[v]]
      /\ shown = [v \in Writers |-> shown[v]]
      /\ path # "tick" => ~ Printing(Tick)
      /\ ready[Tick] => room > 0
      /\ instant => room = Depth /\ Depth > 0
  BY ConsoleAssumption DEF ConsoleInv, PathInv, TypeOK
<1>3. \/ room = 0 /\ shown' = [shown EXCEPT ![w] = CUT] /\ room' = room
      \/ /\ room # 0
         /\ shown' = [shown EXCEPT ![w] = IF @ = CUT THEN CUT ELSE Append(@, Head(todo[w]))]
         /\ room' = IF instant THEN room ELSE room - 1
  BY DEF SendChar
<1>4. /\ todo' = [v \in Writers |-> todo'[v]] /\ shown' = [v \in Writers |-> shown'[v]]
      /\ line' = [v \in Writers |-> line'[v]]
      /\ \A v \in Writers : v # w => todo'[v] = todo[v] /\ shown'[v] = shown[v]
      /\ todo'[w] = Tail(todo[w])
  <2>1. /\ todo' = [v \in Writers |-> IF v = w THEN Tail(todo[v]) ELSE todo[v]]
    BY <1>1, <1>2
  <2>2. PICK c : shown' = [shown EXCEPT ![w] = c]
    BY <1>3, Zenon
  <2>3. shown' = [v \in Writers |-> IF v = w THEN c ELSE shown[v]]
    BY <1>2, <2>2
  <2> QED
    BY <1>1, <1>2, <2>1, <2>3
<1>5. /\ \A v \in Writers : ready'[v] => ready[v] /\ v # w
      /\ ready' \in [Writers -> BOOLEAN]
  BY <1>1, <1>2
<1>6. room' \in 0 .. Depth /\ (instant' => room' = Depth)
  BY <1>1, <1>2, <1>3
<1>7. \A v \in Writers : ready'[v] => Printing(v)'
  BY <1>2, <1>4, <1>5, Zenon DEF Printing
<1>8. TypeOK' /\ n' = 3
  BY <1>1, <1>5, <1>6, <1>7, SchedKept
<1>9. w # Tick => path = "task"
  BY <1>1, WritersAre DEF Runs
<1>10. ~ ready'[Tick]
  <2>1. w # Tick => ~ Printing(Tick)
    BY <1>2, <1>9
  <2> QED
    BY <1>2, <1>5, <2>1, WritersAre, Zenon
<1>11. path' # "tick" => ~ Printing(Tick)'
  <2>1. ASSUME path' # "tick"
        PROVE  ~ Printing(Tick)'
    <3>1. w # Tick /\ ~ Printing(Tick)
      BY <1>1, <1>2, <2>1 DEF Runs
    <3> QED
      BY <1>4, <3>1, WritersAre, Zenon DEF Printing
  <2> QED
    BY <2>1
<1>12. PathInv'
  BY <1>4, <1>6, <1>8, <1>10, <1>11, Zenon DEF PathInv
<1>13. ASSUME NEW v \in Writers, v # w
       PROVE  Whole(v)' <=> Whole(v)
  BY <1>1, <1>4, <1>13, Zenon DEF Whole, Complete
<1>14. ASSUME Whole(w), room # 0
       PROVE  Whole(w)'
  <2>1. shown[w] # CUT
    BY <1>14, CutIsNone, Zenon DEF Whole
  <2>2. shown'[w] = Append(shown[w], Head(todo[w]))
    BY <1>2, <1>3, <1>14, <2>1
  <2>3. todo[w] # <<>>
    BY <1>1, <1>2, Zenon DEF Printing
  <2>4. /\ Append(shown[w], Head(todo[w])) \in Seq(Characters) /\ Tail(todo[w]) \in Seq(Characters)
        /\ Append(shown[w], Head(todo[w])) \o Tail(todo[w]) = shown[w] \o todo[w]
    BY <1>14, <2>3, SentAndTodo DEF Whole
  <2> QED
    BY <1>1, <1>4, <1>14, <2>2, <2>4, Zenon DEF Whole, Complete
<1>15. Whole(Tick)'
  <2>1. Whole(Tick)
    BY DEF ConsoleInv, LineInv
  <2>2. w = Tick => room # 0
    BY <1>1, <1>2
  <2> QED
    BY <1>13, <1>14, <2>1, <2>2, WritersAre, Zenon
<1>16. ASSUME instant', NEW v \in Writers
       PROVE  (line[v] = StartLine \/ Whole(v))'
  <2>1. instant /\ (line[v] = StartLine \/ Whole(v)) /\ line' = line
    BY <1>1, <1>16, Zenon DEF ConsoleInv, LineInv
  <2>2. room # 0
    BY <1>2, <2>1
  <2> QED
    BY <1>13, <1>14, <2>1, <2>2, Zenon
<1> QED
  BY <1>12, <1>15, <1>16, Zenon DEF ConsoleInv, LineInv

LEMMA TransmitStep ==
  ASSUME ConsoleInv, Transmit
  PROVE  ConsoleInv'
<1>1. /\ UNCHANGED <<instant, masked, schedVars, path, ticks, told, line, todo, ready, shown>>
      /\ room < Depth /\ room' = room + 1
  BY DEF Transmit
<1>2. /\ room \in 0 .. Depth /\ Depth \in Nat /\ ready \in [Writers -> BOOLEAN]
      /\ \A v \in Writers : ready[v] => Printing(v)
      /\ instant => room = Depth
  BY ConsoleAssumption DEF ConsoleInv, PathInv, TypeOK
<1>3. room' \in 0 .. Depth /\ room' > 0 /\ ~ instant
  BY <1>1, <1>2
<1>4. \A v \in Writers : ready'[v] => Printing(v)'
  BY <1>1, <1>2 DEF Printing
<1>5. TypeOK' /\ n' = 3
  BY <1>1, <1>2, <1>3, <1>4, SchedKept
<1>6. PathInv'
  BY <1>1, <1>3, <1>5 DEF ConsoleInv, PathInv, Printing
<1>7. LineInv'
  BY <1>1, LinesKept
<1> QED
  BY <1>6, <1>7 DEF ConsoleInv

\* A call that a task makes is its own, and of a complete line or the first one.
LEMMA TaskPrintsStep ==
  ASSUME ConsoleInv, NEW t \in Tasks, NEW call, TaskPrints(t, call),
         Faithful(call) \/ call = StartLine,
         told' \in 0 .. Len(KernelMainLines)
  PROVE  ConsoleInv'
<1>1. /\ UNCHANGED <<instant, masked, schedVars, path, ticks, ready, room>>
      /\ ~ Printing(t) /\ Runs(t) /\ Printk(t, call)
  BY DEF TaskPrints, Printk
<1>2. t \in Writers /\ t # Tick /\ Tick \in Writers
  BY WritersAre, Zenon
<1>3. path = "task"
  BY <1>1, <1>2 DEF Runs
<1>4. /\ line'[t] = call
      /\ \A v \in Writers \ {t} : line'[v] = line[v] /\ todo'[v] = todo[v]
      /\ line' = [v \in Writers |-> line'[v]] /\ todo' = [v \in Writers |-> todo'[v]]
      /\ shown' = [v \in Writers |-> shown'[v]]
      /\ \A v \in Writers : ready[v] => Printing(v)'
      /\ \A v \in Writers \ {t} : Whole(v)' <=> Whole(v)
      /\ Faithful(call) => Whole(t)'
  BY <1>1, <1>2, <1>3, PrintkStep
<1>5. TypeOK' /\ n' = 3
  BY <1>1, <1>4 DEF ConsoleInv, PathInv, TypeOK, schedVars
<1>6. todo'[Tick] = todo[Tick]
  BY <1>2, <1>4
<1>7. PathInv'
  BY <1>1, <1>4, <1>5, <1>6 DEF ConsoleInv, PathInv, Printing
<1>8. Whole(Tick)'
  BY <1>2, <1>4 DEF ConsoleInv, LineInv
<1>9. ASSUME instant', NEW v \in Writers
      PROVE  (line[v] = StartLine \/ Whole(v))'
  <2>1. CASE v = t
    BY <1>4, <2>1, Zenon
  <2>2. CASE v # t
    <3>1. line[v] = StartLine \/ Whole(v)
      BY <1>1, <1>9, Zenon DEF ConsoleInv, LineInv
    <3>2. line'[v] = line[v] /\ (Whole(v)' <=> Whole(v))
      BY <1>4, <2>2
    <3> QED
      BY <3>1, <3>2, Zenon
  <2> QED
    BY <2>1, <2>2, Zenon
<1> QED
  BY <1>7, <1>8, <1>9, Zenon DEF ConsoleInv, LineInv

LEMMA TaskStepKeeps ==
  ASSUME ConsoleInv, NEW t \in Tasks, TaskStep(t)
  PROVE  ConsoleInv'
<1>1. t \in Writers
  BY WritersAre
<1>2. told \in 0 .. 2 /\ Len(KernelMainLines) = 2
      /\ KernelMainLines[0 + 1] = StartLine /\ KernelMainLines[1 + 1] = MemLine
  BY DEF ConsoleInv, PathInv, TypeOK, KernelMainLines
<1>3. CASE Putc(t)
  BY <1>1, <1>3, FindRoomStep, SendCharStep DEF Putc
<1>4. CASE TestTaskPrints(t)
  <2>1. TaskPrints(t, TaskLine(t)) /\ told' = told
    BY <1>4 DEF TestTaskPrints
  <2>2. told' \in 0 .. Len(KernelMainLines)
    BY <1>2, <2>1
  <2> QED
    BY <2>1, <2>2, TaskLineFaithful, TaskPrintsStep
<1>5. CASE t = KernelMain /\ KernelMainPrints
  <2> DEFINE call == KernelMainLines[told + 1]
  <2>1. TaskPrints(t, call) /\ told' = told + 1 /\ told < 2
    BY <1>2, <1>5 DEF KernelMainPrints
  <2>2. told' \in 0 .. Len(KernelMainLines)
    BY <1>2, <2>1
  <2>3. told = 0 \/ told = 1
    BY <1>2, <2>1
  <2>4. call = StartLine \/ call = MemLine
    BY <1>2, <2>3, Zenon
  <2>5. Faithful(call) \/ call = StartLine
    BY <2>4, MemLineFaithful, Zenon
  <2> HIDE DEF call
  <2> QED
    BY <2>1, <2>2, <2>5, TaskPrintsStep
<1>6. CASE BootUnmask
  <2>1. /\ UNCHANGED <<instant, schedVars, path, ticks, told, line, uartVars>>
        /\ masked' = FALSE
    BY <1>6 DEF BootUnmask
  <2>2. UNCHANGED <<todo, ready, room, shown>>
    BY <2>1 DEF uartVars
  <2>3. LineInv'
    BY <2>1, <2>2, LinesKept
  <2>4. TypeOK'
    BY <2>1, <2>2 DEF ConsoleInv, PathInv, TypeOK, schedVars, Printing
  <2>5. PathInv'
    BY <2>1, <2>2, <2>4 DEF ConsoleInv, PathInv, schedVars, Printing
  <2> QED
    BY <2>3, <2>5 DEF ConsoleInv
<1> QED
  BY <1>3, <1>4, <1>5, <1>6 DEF TaskStep

LEMMA Quotient ==
  ASSUME NEW p \in Nat \ {0}, NEW s \in Nat, NEW m \in 0 .. p * s
  PROVE  m \div p \in 0 .. s
<1>1. m \in Nat /\ m <= p * s
  BY SMT
<1>2. m \div p \in Nat /\ p * (m \div p) <= m
  BY <1>1, SMTT(30)
<1>3. ASSUME m \div p > s
      PROVE  FALSE
  <2> DEFINE q == m \div p
  <2>1. q \in Nat /\ q >= s + 1 /\ p * q <= p * s
    BY <1>1, <1>2, <1>3
  <2> HIDE DEF q
  <2>2. p * q >= p * (s + 1)
    BY <2>1, SMTT(30)
  <2>3. p * (s + 1) = p * s + p
    BY SMTT(30)
  <2> QED
    BY <2>1, <2>2, <2>3, SMTT(30)
<1> QED
  BY <1>2, <1>3

LEMMA TickPathKeeps ==
  ASSUME ConsoleInv, TickPath
  PROVE  ConsoleInv'
<1>a. Tick \in Writers
  BY WritersAre
<1>b. Period \in Nat \ {0} /\ Seconds \in Nat /\ Seconds >= 1
  BY ConsoleAssumption
<1>1. CASE TakeTick
  <2>1. /\ path = "task" /\ path' = "tick" /\ UNCHANGED <<instant, masked, schedVars, told>>
        /\ ticks' = IF ticks = Period * Seconds THEN ticks - Period + 1 ELSE ticks + 1
    BY <1>1 DEF TakeTick
  <2>2. ~ Printing(Tick) /\ ~ ready[Tick]
    BY <1>a, <2>1 DEF ConsoleInv, PathInv, TypeOK
  <2>3. ticks' \in 0 .. Period * Seconds
    <3>0. ticks \in 0 .. Period * Seconds
      BY Zenon DEF ConsoleInv, PathInv, TypeOK
    <3>1. /\ Period \in Nat \ {0} /\ Seconds \in Nat /\ Seconds >= 1
          /\ ticks \in 0 .. Period * Seconds
      BY <1>b, <3>0
    <3>2. Period * Seconds \in Nat /\ Period <= Period * Seconds
      BY <3>1, SMTT(30)
    <3> DEFINE top == Period * Seconds
    <3>3. top \in Nat /\ Period <= top /\ ticks \in 0 .. top
          /\ ticks' = IF ticks = top THEN ticks - Period + 1 ELSE ticks + 1
      BY <2>1, <3>1, <3>2
    <3> HIDE DEF top
    <3>4. ticks' \in 0 .. top
      BY <3>1, <3>3
    <3> QED
      BY <3>4 DEF top
  <2>4. CASE Printk(Tick, TickLine(ticks' \div Period))
    <3> DEFINE call == TickLine(ticks' \div Period)
    <3>1. Faithful(call)
      <4>1. ticks' \div Period \in 0 .. Seconds
        BY <1>b, <2>3, Quotient, Zenon
      <4> QED
        BY <4>1, TickLineFaithful
    <3> HIDE DEF call
    <3>2. Printk(Tick, call) /\ ready' = ready /\ room' = room
      BY <2>4 DEF Printk, call
    <3>3. /\ \A v \in Writers \ {Tick} : line'[v] = line[v]
          /\ line' = [v \in Writers |-> line'[v]] /\ todo' = [v \in Writers |-> todo'[v]]
          /\ shown' = [v \in Writers |-> shown'[v]]
          /\ \A v \in Writers : ready[v] => Printing(v)'
          /\ \A v \in Writers \ {Tick} : Whole(v)' <=> Whole(v)
          /\ Whole(Tick)'
      BY <1>a, <2>1, <2>2, <3>1, <3>2, PrintkStep
    <3>4. TypeOK' /\ n' = 3
      BY <2>1, <2>3, <3>2, <3>3 DEF ConsoleInv, PathInv, TypeOK, schedVars
    <3>5. PathInv'
      BY <2>1, <2>2, <3>2, <3>3, <3>4 DEF ConsoleInv, PathInv
    <3>6. ASSUME instant', NEW v \in Writers
          PROVE  (line[v] = StartLine \/ Whole(v))'
      <4>1. CASE v = Tick
        BY <3>3, <4>1, Zenon
      <4>2. CASE v # Tick
        <5>1. line[v] = StartLine \/ Whole(v)
          BY <2>1, <3>6, Zenon DEF ConsoleInv, LineInv
        <5>2. line'[v] = line[v] /\ (Whole(v)' <=> Whole(v))
          BY <3>3, <4>2
        <5> QED
          BY <5>1, <5>2, Zenon
      <4> QED
        BY <4>1, <4>2, Zenon
    <3> QED
      BY <3>3, <3>5, <3>6, Zenon DEF ConsoleInv, LineInv
  <2>5. CASE UNCHANGED <<line, uartVars>>
    <3>1. UNCHANGED <<line, todo, ready, room, shown>>
      BY <2>5 DEF uartVars
    <3>2. LineInv'
      BY <2>1, <3>1, LinesKept
    <3>3. TypeOK' /\ n' = 3
      BY <2>1, <2>3, <3>1 DEF ConsoleInv, PathInv, TypeOK, schedVars, Printing
    <3>4. PathInv'
      BY <2>1, <3>1, <3>3 DEF ConsoleInv, PathInv, Printing
    <3> QED
      BY <3>2, <3>4 DEF ConsoleInv
  <2> QED
    BY <1>1, <2>4, <2>5 DEF TakeTick
<1>2. CASE Putc(Tick)
  BY <1>a, <1>2, FindRoomStep, SendCharStep DEF Putc
<1>3. CASE TickCounts
  <2>1. /\ path' = "check" /\ ~ Printing(Tick)
        /\ UNCHANGED <<instant, masked, ticks, told, line, uartVars>>
        /\ n' = n /\ turn' = turn /\ left > 0 /\ left' = left - 1
    BY <1>3 DEF TickCounts, Sched!Tick
  <2>2. UNCHANGED <<line, todo, ready, room, shown>>
    BY <2>1 DEF uartVars
  <2>3. left' \in 0 .. Slice
    BY <2>1, ConsoleAssumption DEF ConsoleInv, PathInv, TypeOK
  <2>4. TypeOK' /\ n' = 3
    BY <2>1, <2>2, <2>3 DEF ConsoleInv, PathInv, TypeOK, Printing
  <2>5. PathInv'
    BY <2>1, <2>2, <2>4 DEF ConsoleInv, PathInv, Printing
  <2>6. LineInv'
    BY <2>1, <2>2, LinesKept
  <2> QED
    BY <2>5, <2>6 DEF ConsoleInv
<1>4. CASE TickReturns
  <2>1. /\ path = "check" /\ path' = "task"
        /\ UNCHANGED <<instant, masked, ticks, told, line, uartVars>>
        /\ IF left = 0 THEN Sched!Rotate ELSE UNCHANGED schedVars
    BY <1>4 DEF TickReturns
  <2>2. UNCHANGED <<line, todo, ready, room, shown>>
    BY <2>1 DEF uartVars
  <2>3. n = 3 /\ turn \in {1, 2, 3} /\ left \in 0 .. Slice /\ Slice \in Nat /\ ~ Printing(Tick)
    BY <2>1, WritersAre, ConsoleAssumption DEF ConsoleInv, PathInv, TypeOK
  <2>4. n' = 3 /\ turn' \in {1, 2, 3} /\ left' \in 0 .. Slice
    BY <2>1, <2>3 DEF Sched!Rotate, schedVars
  <2>5. TypeOK'
    BY <2>1, <2>2, <2>4, WritersAre DEF ConsoleInv, PathInv, TypeOK, Printing
  <2>6. PathInv'
    BY <2>1, <2>2, <2>3, <2>4, <2>5 DEF ConsoleInv, PathInv, Printing
  <2>7. LineInv'
    BY <2>1, <2>2, LinesKept
  <2> QED
    BY <2>6, <2>7 DEF ConsoleInv
<1> QED
  BY <1>1, <1>2, <1>3, <1>4 DEF TickPath

LEMMA ConsoleInvStep == ConsoleInv /\ [Next]_vars => ConsoleInv'
<1> SUFFICES ASSUME ConsoleInv, [Next]_vars
             PROVE  ConsoleInv'
  OBVIOUS
<1>1. CASE UNCHANGED vars
  <2>1. UNCHANGED <<instant, masked, schedVars, path, ticks, told, line, todo, ready, room, shown>>
    BY <1>1 DEF vars, uartVars
  <2>2. LineInv'
    BY <2>1, LinesKept
  <2>3. PathInv'
    BY <2>1 DEF ConsoleInv, PathInv, TypeOK, schedVars, Printing
  <2> QED
    BY <2>2, <2>3 DEF ConsoleInv
<1> QED
  BY <1>1, TaskStepKeeps, TickPathKeeps, TransmitStep DEF Next

\* The inductive invariant: whose characters are still to come at each point of the
\* timer's interrupt, and which lines are whole.
THEOREM Invariance == Spec => []ConsoleInv
BY ConsoleInvInit, ConsoleInvStep, PTL DEF Spec

\* The variables keep their types; a task has found room only while it is printing.
THEOREM TypeCorrect == Spec => []TypeOK
<1>1. ConsoleInv => TypeOK
  BY DEF ConsoleInv, PathInv
<1> QED
  BY <1>1, Invariance, PTL

\* Whoever prints at the same time, every line but the first comes out whole when the
\* UART sends at once: printk.c and uart_putc() keep what they put, and numbers read
\* back as their arguments.
THEOREM LinesWhole == Spec => []LinesComplete
<1>1. ConsoleInv => LinesComplete
  BY Zenon DEF ConsoleInv, LineInv, LinesComplete, Whole
<1> QED
  BY <1>1, Invariance, PTL

\* The line of scheduler_tick() is whole behind a FIFO of any depth: nothing takes the
\* room that it has found.
THEOREM TickLineWhole == Spec => []TickLineComplete
<1>1. ConsoleInv => TickLineComplete
  BY Zenon DEF ConsoleInv, LineInv, TickLineComplete, Whole
<1> QED
  BY <1>1, Invariance, PTL
=============================================================================
