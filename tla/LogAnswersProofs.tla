--------------------------- MODULE LogAnswersProofs ----------------------------
(***************************************************************************)
(* Proofs about LogAnswers, for every set of logs and of numbers.          *)
(*                                                                         *)
(* First what no sanitized log has, whatever the log; then the check       *)
(* digit; then that of a Recognisable log the sanitizer masks what         *)
(* Reference masks, and so leaves no value of a key and no card number.  A *)
(* pass puts one mask where Reference has one for every token: Merged says *)
(* that this is all the difference.                                        *)
(***************************************************************************)
EXTENDS LogAnswers, FiniteSetTheorems, SequenceTheorems, WellFoundedInduction, TLAPS

-----------------------------------------------------------------------------
(* Loops.                                                                  *)

\* Induction up to n over a set of numbers: there is no least one outside.
LEMMA Induction ==
  ASSUME NEW n \in Nat, NEW T, 0 \in T,
         ASSUME NEW i \in 1..n, i - 1 \in T PROVE i \in T
  PROVE  \A i \in 0..n : i \in T
<1> DEFINE Bad == {i \in 0..n : i \notin T}
<1>1. SUFFICES ASSUME Bad # {} PROVE FALSE
  OBVIOUS
<1>2. PICK x \in Bad : \A y \in Bad : ~ (<<y, x>> \in OpToRel(<, Nat))
  <2>1. Bad \subseteq Nat
    OBVIOUS
  <2> HIDE DEF Bad
  <2> QED
    BY <1>1, <2>1, NatLessThanWellFounded, WFMin
<1>3. x \in 1..n
  OBVIOUS
<1>4. x - 1 \in T
  <2>1. <<x - 1, x>> \in {ss \in Nat \X Nat : ss[1] < ss[2]}
    BY <1>3
  <2>2. x - 1 \notin Bad
    BY <1>2, <2>1 DEF OpToRel
  <2> QED
    BY <1>3, <2>2
<1> QED
  BY <1>2, <1>3, <1>4

\* The recursion that begins with a and takes the steps of step has values.
HasValues(n, S, a, step) ==
  \E f \in [0..n -> S] : f[0] = a /\ \A i \in 1..n : f[i] = step[i][f[i - 1]]

\* A function can be defined by recursion up to n.
LEMMA Recursion ==
  ASSUME NEW n \in Nat, NEW S, NEW a \in S, NEW step \in [1..n -> [S -> S]]
  PROVE  HasValues(n, S, a, step)
<1> DEFINE T == {m \in 0..n : \E f \in [0..m -> S] :
                   f[0] = a /\ \A i \in 1..m : f[i] = step[i][f[i - 1]]}
<1>1. 0 \in T
  <2> DEFINE g == [i \in 0..0 |-> a]
  <2>1. g \in [0..0 -> S] /\ g[0] = a /\ 1..0 = {}
    OBVIOUS
  <2> HIDE DEF g
  <2> QED
    BY <2>1
<1>2. ASSUME NEW m \in 1..n, m - 1 \in T PROVE m \in T
  <2>1. PICK f \in [0..(m - 1) -> S] :
           f[0] = a /\ \A i \in 1..(m - 1) : f[i] = step[i][f[i - 1]]
    BY <1>2
  <2> DEFINE g == [i \in 0..m |-> IF i = m THEN step[m][f[m - 1]] ELSE f[i]]
  <2>2. g \in [0..m -> S]
    OBVIOUS
  <2>3. g[0] = a /\ \A i \in 1..m : g[i] = step[i][g[i - 1]]
    BY <2>1
  <2>4. m \in 0..n
    OBVIOUS
  <2> HIDE DEF g
  <2> QED
    BY <2>2, <2>3, <2>4
<1>3. n \in T
  <2>1. n \in 0..n
    OBVIOUS
  <2> HIDE DEF T
  <2>2. \A i \in 0..n : i \in T
    BY <1>1, <1>2, Induction
  <2> QED
    BY <2>1, <2>2
<1> QED
  BY <1>3 DEF HasValues

\* A scan of a sequence is in S at all times, if S is kept by a step of it.
Scans(ts, length, by, s) ==
  /\ Replaced(ts, length, by) = s[Len(ts)].out
  /\ s[0] = [out |-> <<>>, next |-> 1]
  /\ \A i \in 1..Len(ts) :
       /\ i < s[i - 1].next => s[i] = s[i - 1]
       /\ ~ (i < s[i - 1].next) /\ length[i] = 0 =>
            s[i] = [out |-> Append(s[i - 1].out, ts[i]), next |-> i + 1]
       /\ ~ (i < s[i - 1].next) /\ length[i] # 0 =>
            s[i] = [out |-> s[i - 1].out \o by[i], next |-> i + length[i]]

\* The loop of Replaced has the values its recursion says.
LEMMA Scan ==
  ASSUME NEW G, NEW F, NEW ts \in Seq(G), NEW length \in [1..Len(ts) -> Nat],
         NEW by, \A i \in 1..Len(ts) : length[i] # 0 => by[i] \in Seq(F),
         \A i \in 1..Len(ts) : length[i] = 0 => ts[i] \in F
  PROVE  \E s \in [0..Len(ts) -> [out : Seq(F), next : Nat]] :
           Scans(ts, length, by, s)
<1> DEFINE n == Len(ts)
           S == [out : Seq(F), next : Nat]
           Step(i, p) == IF i < p.next THEN p
                         ELSE IF length[i] = 0
                           THEN [out |-> Append(p.out, ts[i]), next |-> i + 1]
                         ELSE [out |-> p.out \o by[i], next |-> i + length[i]]
           step == [i \in 1..n |-> [p \in S |-> Step(i, p)]]
           start == [out |-> <<>>, next |-> 1]
           Unfold(f) == [i \in 0..n |-> IF i = 0 THEN start ELSE Step(i, f[i - 1])]
           scanned == CHOOSE f : f = Unfold(f)
<1>1. n \in Nat /\ start \in S
  OBVIOUS
<1>2. \A i \in 1..n, p \in S : Step(i, p) \in S
  OBVIOUS
<1>3. step \in [1..n -> [S -> S]]
  BY <1>2
<1>4. \E f \in [0..n -> S] : f[0] = start /\ \A i \in 1..n : f[i] = step[i][f[i - 1]]
  <2> HIDE DEF n, S, step, start
  <2>1. HasValues(n, S, start, step)
    BY <1>1, <1>3, Recursion
  <2> QED
    BY <2>1 DEF HasValues
<1>5. PICK f \in [0..n -> S] : f[0] = start /\ \A i \in 1..n : f[i] = step[i][f[i - 1]]
  BY <1>4
<1>6. ASSUME NEW i \in 1..n PROVE f[i] = Step(i, f[i - 1])
  <2>1. i - 1 \in 0..n
    BY <1>1
  <2> HIDE DEF Step, S, start, n
  <2>2. f[i - 1] \in S
    BY <1>5, <2>1
  <2> QED
    BY <1>5, <2>2
<1>7. f = Unfold(f)
  <2> HIDE DEF S, Step, start, step, n
  <2>1. \A i \in 0..n : i = 0 \/ i \in 1..n
    BY <1>1
  <2> QED
    BY <1>5, <1>6, <2>1
<1>8. scanned = Unfold(scanned)
  <2> HIDE DEF Unfold
  <2> QED
    BY <1>7
<1>9. Replaced(ts, length, by) = scanned[Len(ts)].out
  BY DEF Replaced
<1> HIDE DEF scanned
<1>10. /\ scanned[0] = start
       /\ \A i \in 1..n : scanned[i] = Step(i, scanned[i - 1])
  <2> HIDE DEF S, Step, start, step, n
  <2>1. 0 \in 0..n /\ \A i \in 1..n : i \in 0..n /\ i # 0
    BY <1>1
  <2> QED
    BY <1>8, <2>1
<1>11. \A i \in 0..n : scanned[i] \in S
  <2> DEFINE T == {i \in 0..n : scanned[i] \in S}
  <2>1. 0 \in T
    <3> HIDE DEF S, start
    <3> QED
      BY <1>1, <1>10
  <2>2. ASSUME NEW i \in 1..n, i - 1 \in T PROVE i \in T
    <3> HIDE DEF S, Step, start, step, n
    <3> QED
      BY <1>2, <1>10, <2>2, <1>1
  <2> HIDE DEF T, n
  <2>3. \A i \in 0..n : i \in T
    BY <1>1, <2>1, <2>2, Induction
  <2> QED
    BY <2>3 DEF T
<1>12. scanned = [i \in 0..n |-> scanned[i]]
  <2> HIDE DEF n, S, Step, start
  <2> QED
    BY <1>8
<1>13. scanned \in [0..n -> S]
  <2> HIDE DEF n, S
  <2> QED
    BY <1>11, <1>12
<1>14. Scans(ts, length, by, scanned)
  BY <1>9, <1>10 DEF Scans
<1> QED
  BY <1>13, <1>14

\* Matches lie within the sequence, and what is copied or put in is from F.
Matches(ts, length, by, F) ==
  /\ length \in [1..Len(ts) -> Nat]
  /\ \A i \in 1..Len(ts) :
       /\ i + length[i] <= Len(ts) + 1
       /\ length[i] = 0 => ts[i] \in F
       /\ length[i] # 0 => by[i] \in Seq(F)

\* P holds of the output and the next token at the beginning, and is kept by
\* copying a token and by replacing a match.
Kept(ts, length, by, F, P) ==
  /\ [out |-> <<>>, next |-> 1] \in P
  /\ \A p \in P : p.out \in Seq(F) /\ p.next \in 1..Len(ts) =>
       /\ length[p.next] = 0 =>
            [out |-> Append(p.out, ts[p.next]), next |-> p.next + 1] \in P
       /\ length[p.next] # 0 =>
            [out |-> p.out \o by[p.next], next |-> p.next + length[p.next]] \in P

\* P holds when all is read.
Ends(ts, length, by, F, P) ==
  \E p \in P : /\ p.out \in Seq(F) /\ p.next = Len(ts) + 1
               /\ p.out = Replaced(ts, length, by)

\* What the scan keeps holds of its output.
LEMMA ScanInvariant ==
  ASSUME NEW G, NEW F, NEW ts \in Seq(G), NEW length, NEW by,
         Matches(ts, length, by, F), NEW P, Kept(ts, length, by, F, P)
  PROVE  Ends(ts, length, by, F, P)
<1>1. PICK s \in [0..Len(ts) -> [out : Seq(F), next : Nat]] : Scans(ts, length, by, s)
  BY Scan DEF Matches
<1> DEFINE T == {i \in 0..Len(ts) : s[i] \in P /\ i < s[i].next /\ s[i].next <= Len(ts) + 1}
<1>2. Len(ts) \in Nat
  OBVIOUS
<1>3. 0 \in T
  BY <1>1, <1>2 DEF Scans, Kept
<1>4. ASSUME NEW i \in 1..Len(ts), i - 1 \in T PROVE i \in T
  <2>1. /\ s[i - 1] \in P /\ i - 1 < s[i - 1].next /\ s[i - 1].next <= Len(ts) + 1
        /\ s[i - 1].out \in Seq(F) /\ s[i - 1].next \in Nat
    BY <1>1, <1>2, <1>4
  <2>2. CASE i < s[i - 1].next
    <3>1. s[i] = s[i - 1]
      BY <1>1, <2>2 DEF Scans
    <3> QED
      BY <2>1, <2>2, <3>1
  <2>3. CASE ~ (i < s[i - 1].next) /\ length[i] = 0
    <3>1. s[i - 1].next = i
      BY <2>1, <2>3
    <3>2. s[i] = [out |-> Append(s[i - 1].out, ts[i]), next |-> i + 1]
      BY <1>1, <2>3 DEF Scans
    <3>3. [out |-> Append(s[i - 1].out, ts[i]), next |-> i + 1] \in P
      BY <2>1, <2>3, <3>1 DEF Kept
    <3> QED
      BY <3>2, <3>3
  <2>4. CASE ~ (i < s[i - 1].next) /\ length[i] # 0
    <3>1. s[i - 1].next = i
      BY <2>1, <2>4
    <3>2. s[i] = [out |-> s[i - 1].out \o by[i], next |-> i + length[i]]
      BY <1>1, <2>4 DEF Scans
    <3>3. [out |-> s[i - 1].out \o by[i], next |-> i + length[i]] \in P
      BY <2>1, <2>4, <3>1 DEF Kept
    <3>4. length[i] \in Nat /\ i + length[i] <= Len(ts) + 1
      BY DEF Matches
    <3> QED
      BY <3>2, <3>3, <3>4, <2>4
  <2> QED
    BY <2>2, <2>3, <2>4
<1>5. Len(ts) \in T
  <2> HIDE DEF T
  <2>1. \A i \in 0..Len(ts) : i \in T
    BY <1>2, <1>3, <1>4, Induction
  <2> QED
    BY <1>2, <2>1
<1>6. /\ s[Len(ts)] \in P /\ s[Len(ts)].out \in Seq(F)
      /\ s[Len(ts)].next = Len(ts) + 1
  BY <1>1, <1>2, <1>5
<1> QED
  BY <1>1, <1>6 DEF Scans, Ends

-----------------------------------------------------------------------------
(* What matches.                                                           *)

\* The first of some positions is one of them, and none comes before it.
LEMMA FirstOfIs ==
  ASSUME NEW S, S \subseteq Nat, NEW default
  PROVE  /\ S = {} => FirstOf(S, default) = default
         /\ S # {} => FirstOf(S, default) \in S /\ \A j \in S : FirstOf(S, default) <= j
<1>1. SUFFICES ASSUME S # {} PROVE \E m \in S : \A j \in S : m <= j
  BY DEF FirstOf, Min
<1>2. PICK m \in S : \A y \in S : ~ (<<y, m>> \in OpToRel(<, Nat))
  BY <1>1, NatLessThanWellFounded, WFMin
<1>3. ASSUME NEW j \in S PROVE m <= j
  <2>1. j < m => <<j, m>> \in {ss \in Nat \X Nat : ss[1] < ss[2]}
    OBVIOUS
  <2>2. ~ (j < m)
    BY <1>2, <2>1 DEF OpToRel
  <2> QED
    BY <2>2
<1> QED
  BY <1>3

\* A match that runs up to the first of some tokens, or to the end.
LEMMA UpTo ==
  ASSUME NEW n \in Nat, NEW i \in 1..n, NEW S, S \subseteq i..n
  PROVE  /\ FirstOf(S, n + 1) - i \in Nat
         /\ i + (FirstOf(S, n + 1) - i) = FirstOf(S, n + 1)
         /\ FirstOf(S, n + 1) <= n + 1
         /\ FirstOf(S, n + 1) <= n => FirstOf(S, n + 1) \in S
         /\ \A j \in i..(FirstOf(S, n + 1) - 1) : j \notin S
         /\ FirstOf(S, n + 1) - i = 0 <=> i \in S
<1>1. S \subseteq Nat /\ \A j \in S : j \in i..n
  OBVIOUS
<1>2. PICK f : f = FirstOf(S, n + 1)
  OBVIOUS
<1>3. (S = {} => f = n + 1) /\ (S # {} => f \in S /\ \A j \in S : f <= j)
  BY <1>1, <1>2, FirstOfIs
<1>4. /\ f - i \in Nat /\ i + (f - i) = f /\ f <= n + 1 /\ (f <= n => f \in S)
      /\ (\A j \in i..(f - 1) : j \notin S)
      /\ (f - i = 0 <=> i \in S)
  <2>1. CASE S = {}
    BY <1>3, <2>1
  <2>2. CASE S # {}
    <3>1. f \in i..n /\ \A j \in S : f <= j
      BY <1>1, <1>3, <2>2
    <3>2. \A j \in i..(f - 1) : j \notin S
      BY <3>1
    <3>3. i \in S <=> f = i
      BY <1>3, <2>2, <3>1
    <3> QED
      BY <1>3, <2>2, <3>1, <3>2, <3>3
  <2> QED
    BY <2>1, <2>2
<1> QED
  BY <1>2, <1>4

\* A match that runs through the first of some tokens, if there is one.
LEMMA Through ==
  ASSUME NEW n \in Nat, NEW i \in 1..n, NEW S, S \subseteq i..n
  PROVE  /\ FirstOf(S, i - 1) - i + 1 \in Nat
         /\ i + (FirstOf(S, i - 1) - i + 1) <= n + 1
         /\ FirstOf(S, i - 1) - i + 1 = 0 <=> S = {}
         /\ S # {} => /\ FirstOf(S, i - 1) \in S
                      /\ i + (FirstOf(S, i - 1) - i + 1) - 1 = FirstOf(S, i - 1)
<1>1. S \subseteq Nat /\ \A j \in S : j \in i..n
  OBVIOUS
<1>2. PICK f : f = FirstOf(S, i - 1)
  OBVIOUS
<1>3. (S = {} => f = i - 1) /\ (S # {} => f \in S /\ \A j \in S : f <= j)
  BY <1>1, <1>2, FirstOfIs
<1>4. /\ f - i + 1 \in Nat /\ i + (f - i + 1) <= n + 1
      /\ (f - i + 1 = 0 <=> S = {})
      /\ (S # {} => f \in S /\ i + (f - i + 1) - 1 = f)
  <2>1. CASE S = {}
    BY <1>3, <2>1
  <2>2. CASE S # {}
    <3>1. f \in i..n /\ f \in S
      BY <1>1, <1>3, <2>2
    <3> QED
      BY <2>2, <3>1
  <2> QED
    BY <2>1, <2>2
<1> QED
  BY <1>2, <1>4

\* A candidate for a card number is all the groups of digits there are.
LEMMA CardLengthIs ==
  ASSUME NEW G, NEW ts \in Seq(G), NEW i \in 1..Len(ts)
  PROVE  /\ CardLength(ts, i) \in Nat /\ i + CardLength(ts, i) <= Len(ts) + 1
         /\ \A j \in i..(i + CardLength(ts, i) - 1) : IsDigits(ts[j])
         /\ i + CardLength(ts, i) <= Len(ts) => ~IsDigits(ts[i + CardLength(ts, i)])
         /\ CardLength(ts, i) = 0 <=> ~IsDigits(ts[i])
<1> DEFINE S == {j \in i..Len(ts) : ~IsDigits(ts[j])}
<1>1. Len(ts) \in Nat /\ S \subseteq i..Len(ts) /\ i \in i..Len(ts)
  OBVIOUS
<1>2. CardLength(ts, i) = FirstOf(S, Len(ts) + 1) - i
  BY DEF CardLength
<1>3. PICK f : f = FirstOf(S, Len(ts) + 1)
  OBVIOUS
<1>4. /\ f - i \in Nat /\ i + (f - i) = f /\ f <= Len(ts) + 1
      /\ (f <= Len(ts) => f \in S) /\ (\A j \in i..(f - 1) : j \notin S)
      /\ (f - i = 0 <=> i \in S)
  <2> HIDE DEF S
  <2> QED
    BY <1>1, <1>3, UpTo
<1>5. \A j \in i..(f - 1) : IsDigits(ts[j])
  <2>1. \A j \in i..(f - 1) : j \in i..Len(ts) /\ j \notin S
    <3> HIDE DEF S
    <3> QED
      BY <1>1, <1>4
  <2> QED
    BY <2>1
<1>6. /\ f <= Len(ts) => ~IsDigits(ts[f])
      /\ f - i = 0 <=> ~IsDigits(ts[i])
  BY <1>1, <1>4
<1>7. CardLength(ts, i) = f - i
  BY <1>2, <1>3
<1> HIDE DEF S
<1> QED
  BY <1>4, <1>5, <1>6, <1>7

\* A line is all there is before the next line end.
LEMMA LineLengthIs ==
  ASSUME NEW G, NEW ts \in Seq(G), NEW i \in 1..Len(ts)
  PROVE  /\ LineLength(ts, i) \in Nat /\ i + LineLength(ts, i) <= Len(ts) + 1
         /\ \A j \in i..(i + LineLength(ts, i) - 1) : ts[j] # NewLine
         /\ i + LineLength(ts, i) <= Len(ts) => ts[i + LineLength(ts, i)] = NewLine
         /\ LineLength(ts, i) = 0 <=> ts[i] = NewLine
<1> DEFINE S == {j \in i..Len(ts) : ts[j] = NewLine}
<1>1. Len(ts) \in Nat /\ S \subseteq i..Len(ts) /\ i \in i..Len(ts)
  OBVIOUS
<1>2. LineLength(ts, i) = FirstOf(S, Len(ts) + 1) - i
  BY DEF LineLength
<1>3. PICK f : f = FirstOf(S, Len(ts) + 1)
  OBVIOUS
<1>4. /\ f - i \in Nat /\ i + (f - i) = f /\ f <= Len(ts) + 1
      /\ (f <= Len(ts) => f \in S) /\ (\A j \in i..(f - 1) : j \notin S)
      /\ (f - i = 0 <=> i \in S)
  <2> HIDE DEF S
  <2> QED
    BY <1>1, <1>3, UpTo
<1>5. \A j \in i..(f - 1) : ts[j] # NewLine
  <2>1. \A j \in i..(f - 1) : j \in i..Len(ts) /\ j \notin S
    <3> HIDE DEF S
    <3> QED
      BY <1>1, <1>4
  <2> QED
    BY <2>1
<1>6. /\ f <= Len(ts) => ts[f] = NewLine
      /\ f - i = 0 <=> ts[i] = NewLine
  BY <1>1, <1>4
<1>7. LineLength(ts, i) = f - i
  BY <1>2, <1>3
<1> HIDE DEF S
<1> QED
  BY <1>4, <1>5, <1>6, <1>7

\* The beginning of a block is matched if there is an end.
LEMMA BlockLengthIs ==
  ASSUME NEW G, NEW ts \in Seq(G), NEW i \in 1..Len(ts)
  PROVE  /\ BlockLength(ts, i) \in Nat /\ i + BlockLength(ts, i) <= Len(ts) + 1
         /\ BlockLength(ts, i) = 0 /\ ts[i] = Begin => \A j \in i..Len(ts) : ts[j] # End
<1> DEFINE S == {j \in i..Len(ts) : ts[j] = End}
<1>1. Len(ts) \in Nat /\ S \subseteq i..Len(ts)
  OBVIOUS
<1>2. BlockLength(ts, i) = IF ts[i] # Begin THEN 0 ELSE FirstOf(S, i - 1) - i + 1
  BY DEF BlockLength
<1> HIDE DEF S
<1>3. /\ FirstOf(S, i - 1) - i + 1 \in Nat
      /\ i + (FirstOf(S, i - 1) - i + 1) <= Len(ts) + 1
      /\ FirstOf(S, i - 1) - i + 1 = 0 <=> S = {}
  BY <1>1, Through
<1> QED
  BY <1>1, <1>2, <1>3 DEF S

\* A sensitive key is matched with its value: quotes and all between them, or
\* one token; it is not at the end of the line, before a quote that does not
\* close, and before another key.
LEMMA KeyLengthIs ==
  ASSUME NEW G, NEW ts \in Seq(G), NEW i \in 1..Len(ts)
  PROVE  /\ KeyLength(ts, i) \in Nat /\ i + KeyLength(ts, i) <= Len(ts) + 1
         /\ KeyLength(ts, i) # 0 =>
              /\ IsKey(ts[i]) /\ Sensitive(ts[i]) /\ i < Len(ts) /\ ~IsKey(ts[i + 1])
              /\ ~IsQuote(ts[i + 1]) => KeyLength(ts, i) = 2
              /\ IsQuote(ts[i + 1]) => /\ KeyLength(ts, i) >= 3
                                       /\ ts[i + KeyLength(ts, i) - 1] = ts[i + 1]
         /\ KeyLength(ts, i) = 0 /\ IsKey(ts[i]) /\ Sensitive(ts[i]) /\ i < Len(ts) =>
              \/ IsKey(ts[i + 1])
              \/ IsQuote(ts[i + 1]) /\ \A j \in (i + 2)..Len(ts) : ts[j] # ts[i + 1]
<1> DEFINE S == {j \in (i + 2)..Len(ts) : ts[j] = ts[i + 1]}
           k == FirstOf(S, i - 1) - i + 1
<1>1. Len(ts) \in Nat /\ S \subseteq i..Len(ts) /\ \A j \in S : j >= i + 2 /\ ts[j] = ts[i + 1]
  OBVIOUS
<1>2. KeyLength(ts, i) = IF ~ (IsKey(ts[i]) /\ Sensitive(ts[i]) /\ i < Len(ts)) THEN 0
                         ELSE IF IsQuote(ts[i + 1]) THEN k
                         ELSE IF IsKey(ts[i + 1]) THEN 0 ELSE 2
  BY DEF KeyLength
<1>3. \A j \in (i + 2)..Len(ts) : S = {} => ts[j] # ts[i + 1]
  OBVIOUS
<1> HIDE DEF S
<1>4. /\ k \in Nat /\ i + k <= Len(ts) + 1 /\ (k = 0 <=> S = {})
      /\ S # {} => FirstOf(S, i - 1) \in S /\ i + k - 1 = FirstOf(S, i - 1)
  BY <1>1, Through
<1> HIDE DEF k
<1>5. k # 0 => k >= 3 /\ ts[i + k - 1] = ts[i + 1]
  <2>1. SUFFICES ASSUME k # 0 PROVE k >= 3 /\ ts[i + k - 1] = ts[i + 1]
    OBVIOUS
  <2>2. i + k - 1 \in S
    BY <1>4, <2>1
  <2> QED
    BY <1>1, <1>4, <2>2
<1>6. ~ (IsKey(ts[i + 1]) /\ IsQuote(ts[i + 1]))
  BY DEF IsKey, IsQuote
<1> QED
  BY <1>1, <1>2, <1>3, <1>4, <1>5, <1>6

\* A matched key and its value become one of four: the key and the mask, bare or
\* in the quotes of the value; the masked key and the value that repeats it, bare
\* or in quotes.
MaskedForm(k, v, m) ==
  \/ Len(m) = 2 /\ m[1] = k /\ m[2] = Mask
  \/ Len(m) = 2 /\ m[1] = [k EXCEPT !.of = "masked"] /\ m[2] = Echo /\ v = Echo
  \/ Len(m) = 4 /\ m[1] = k /\ m[2] = v /\ m[3] = Mask /\ m[4] = v /\ IsQuote(v)
  \/ Len(m) = 4 /\ m[1] = [k EXCEPT !.of = "masked"] /\ m[2] = v /\ m[3] = Echo
       /\ m[4] = v /\ IsQuote(v)

\* What takes the place of a matched key has one of these forms, and its tokens.
LEMMA MaskedIs ==
  ASSUME NEW G, NEW ts \in Seq(G), NEW i \in 1..Len(ts), KeyLength(ts, i) # 0
  PROVE  /\ MaskedForm(ts[i], ts[i + 1],
                       Masked(ts[i], SubSeq(ts, i + 1, i + KeyLength(ts, i) - 1)))
         /\ Masked(ts[i], SubSeq(ts, i + 1, i + KeyLength(ts, i) - 1))
              \in Seq(G \cup {Mask, [ts[i] EXCEPT !.of = "masked"]})
<1>1. PICK c \in Nat : c = KeyLength(ts, i) - 1
  BY KeyLengthIs
<1> DEFINE k == ts[i]
           v == ts[i + 1]
           value == SubSeq(ts, i + 1, i + c)
           mk == [k EXCEPT !.of = "masked"]
           H == G \cup {Mask, mk}
           inner == IF IsQuote(value[1]) THEN SubSeq(value, 2, Len(value) - 1) ELSE value
           echoes == inner = <<Echo>> /\ (~IsQuote(value[1]) \/ k.form = "json")
<1>2. /\ i + c <= Len(ts) /\ i < Len(ts) /\ c >= 1
      /\ ~IsQuote(v) => c = 1
      /\ IsQuote(v) => c >= 2 /\ ts[i + c] = v
  BY <1>1, KeyLengthIs
<1>3. /\ value \in Seq(G) /\ Len(value) = c /\ value[1] = v
      /\ value[c] = ts[i + c] /\ k \in G /\ v \in G
  <2>1. i + 1 \in 1..(Len(ts) + 1) /\ i + c \in Nat /\ i + c <= Len(ts)
    BY <1>2
  <2>2. /\ value \in Seq(G) /\ Len(value) = (i + c) - (i + 1) + 1
        /\ \A j \in 1..((i + c) - (i + 1) + 1) : value[j] = ts[i + 1 + j - 1]
    BY <2>1
  <2>3. (i + c) - (i + 1) + 1 = c /\ 1 \in 1..c /\ c \in 1..c
        /\ i + 1 + 1 - 1 = i + 1 /\ i + 1 + c - 1 = i + c
    BY <1>2
  <2> HIDE DEF value
  <2>4. k \in G /\ v \in G
    BY <1>2
  <2> QED
    BY <2>2, <2>3, <2>4
<1>4. SubSeq(ts, i + 1, i + KeyLength(ts, i) - 1) = value
  <2>1. i + KeyLength(ts, i) - 1 = i + c
    BY <1>1, KeyLengthIs
  <2> QED
    BY <2>1
<1> HIDE DEF value, mk
<1> SUFFICES MaskedForm(k, v, Masked(k, value)) /\ Masked(k, value) \in Seq(H)
  BY <1>4 DEF mk
<1>5. Masked(k, value) = IF echoes THEN <<mk>> \o value
                         ELSE IF IsQuote(value[1]) THEN <<k, value[1], Mask, value[1]>>
                         ELSE <<k, Mask>>
  BY DEF Masked, mk
<1>6. ASSUME NEW w \in Seq(G) PROVE
        /\ <<mk>> \o w \in Seq(H) /\ Len(<<mk>> \o w) = Len(w) + 1
        /\ (<<mk>> \o w)[1] = mk
        /\ \A j \in 1..Len(w) : (<<mk>> \o w)[j + 1] = w[j]
  <2>1. w \in Seq(H) /\ <<mk>> \in Seq(H)
    OBVIOUS
  <2> HIDE DEF H
  <2> QED
    BY <2>1
<1>7. CASE echoes /\ ~IsQuote(v)
  <2>1. value = <<Echo>> /\ c = 1
    BY <1>2, <1>3, <1>7
  <2>2. Masked(k, value) = <<mk>> \o value /\ v = Echo
    BY <1>3, <1>5, <1>7, <2>1
  <2>3. Len(Masked(k, value)) = 2 /\ Masked(k, value)[1] = mk /\ Masked(k, value)[2] = Echo
    BY <1>3, <1>6, <2>1, <2>2
  <2> QED
    BY <1>3, <1>6, <2>2, <2>3 DEF MaskedForm, mk
<1>8. CASE echoes /\ IsQuote(v)
  <2>1. Masked(k, value) = <<mk>> \o value /\ SubSeq(value, 2, c - 1) = <<Echo>>
    BY <1>3, <1>5, <1>8
  <2>2. c = 3 /\ value[2] = Echo
    <3>1. Len(SubSeq(value, 2, c - 1)) = 1 /\ SubSeq(value, 2, c - 1)[1] = Echo
      <4>1. Len(<<Echo>>) = 1 /\ <<Echo>>[1] = Echo
        OBVIOUS
      <4> QED
        BY <2>1, <4>1, Zenon
    <3>2. Len(SubSeq(value, 2, c - 1)) = c - 2
      BY <1>2, <1>3, <1>8
    <3>3. c = 3
      BY <1>2, <1>8, <3>1, <3>2
    <3>4. SubSeq(value, 2, c - 1)[1] = value[2]
      BY <1>3, <3>3
    <3> QED
      BY <3>1, <3>3, <3>4
  <2>3. value[3] = v
    BY <1>2, <1>3, <1>8, <2>2
  <2>4. /\ Len(Masked(k, value)) = 4 /\ Masked(k, value)[1] = mk
        /\ Masked(k, value)[2] = v /\ Masked(k, value)[3] = Echo /\ Masked(k, value)[4] = v
    <3>1. 1 \in 1..Len(value) /\ 2 \in 1..Len(value) /\ 3 \in 1..Len(value)
      BY <1>3, <2>2
    <3>2. /\ Len(<<mk>> \o value) = c + 1 /\ (<<mk>> \o value)[1] = mk
          /\ (<<mk>> \o value)[1 + 1] = value[1] /\ (<<mk>> \o value)[2 + 1] = value[2]
          /\ (<<mk>> \o value)[3 + 1] = value[3]
      BY <1>3, <1>6, <3>1, Zenon
    <3> QED
      BY <1>3, <2>1, <2>2, <2>3, <3>2
  <2> QED
    BY <1>3, <1>6, <1>8, <2>1, <2>4 DEF MaskedForm, mk
<1>9. CASE ~echoes /\ IsQuote(v)
  <2>1. Masked(k, value) = <<k, v, Mask, v>>
    BY <1>3, <1>5, <1>9
  <2>2. <<k, v, Mask, v>> \in Seq(H)
    BY <1>3
  <2> QED
    BY <1>9, <2>1, <2>2 DEF MaskedForm
<1>10. CASE ~echoes /\ ~IsQuote(v)
  <2>1. Masked(k, value) = <<k, Mask>>
    BY <1>3, <1>5, <1>10
  <2>2. <<k, Mask>> \in Seq(H)
    BY <1>3
  <2> QED
    BY <2>1, <2>2 DEF MaskedForm
<1> QED
  BY <1>7, <1>8, <1>9, <1>10

-----------------------------------------------------------------------------
(* Typing, and what is left of values.                                     *)

\* Tokens without values of a format, long keys and user information.
Clean == {t \in Token : t.is # "value" /\ ~IsLong(t) /\ t # Link("credentials")}

\* Tokens of one line.
InLine(S) == S \ {NewLine}

\* What the value patterns leave, and its parts.
LEMMA CleanTokens ==
  /\ Mask \in Clean /\ NewLine \in Clean /\ Mask # NewLine
  /\ InLine(Clean) \subseteq Clean /\ Clean \subseteq Token /\ Mask \in InLine(Clean)
  /\ Link("masked") \in InLine(Clean)
BY DEF Clean, InLine, Token, IsLong, IsKey, Mask, NewLine, Link

\* A masked key is none of the keys that are masked.
LEMMA MaskedKey ==
  ASSUME NEW t \in Token, IsKey(t)
  PROVE  /\ [t EXCEPT !.of = "masked"] \in Token
         /\ IsKey([t EXCEPT !.of = "masked"]) /\ ~IsLong([t EXCEPT !.of = "masked"])
         /\ [t EXCEPT !.of = "masked"].is = "key"
BY DEF IsKey, IsLong, Token, Begin, End, NewLine, Mask

\* The blocks that are matched, and what takes their place.
LEMMA BlockMatches ==
  ASSUME NEW ts \in Seq(Token)
  PROVE  Matches(ts, [i \in DOMAIN ts |-> BlockLength(ts, i)],
                 [i \in DOMAIN ts |-> <<Mask>>], Token)
<1>1. DOMAIN ts = 1..Len(ts) /\ \A i \in 1..Len(ts) : ts[i] \in Token
  OBVIOUS
<1>2. \A i \in 1..Len(ts) : BlockLength(ts, i) \in Nat /\ i + BlockLength(ts, i) <= Len(ts) + 1
  BY BlockLengthIs
<1>3. <<Mask>> \in Seq(Token)
  BY CleanTokens
<1> QED
  BY <1>1, <1>2, <1>3 DEF Matches

\* The result of a replacement is made of what is copied and put in.
LEMMA ReplacedType ==
  ASSUME NEW G, NEW F, NEW ts \in Seq(G), NEW length, NEW by,
         Matches(ts, length, by, F)
  PROVE  Replaced(ts, length, by) \in Seq(F)
<1> DEFINE P == [out : Seq(F), next : Nat]
<1>1. Kept(ts, length, by, F, P)
  BY DEF Kept, Matches
<1>2. Ends(ts, length, by, F, P)
  <2> HIDE DEF P
  <2> QED
    BY <1>1, ScanInvariant
<1> QED
  BY <1>2 DEF Ends

\* The passes give sequences of tokens again: the one for blocks,
LEMMA BlocksType ==
  ASSUME NEW ts \in Seq(Token)
  PROVE  maskBlocks(ts) \in Seq(Token)
BY BlockMatches, ReplacedType DEF maskBlocks

\* The candidates for card numbers, and what takes their place.
LEMMA CardMatches ==
  ASSUME NEW ts \in Seq(InLine(Token))
  PROVE  Matches(ts, [i \in DOMAIN ts |-> CardLength(ts, i)],
                 [i \in DOMAIN ts |-> MaskedCard(SubSeq(ts, i, i + CardLength(ts, i) - 1))],
                 InLine(Token))
<1> DEFINE F == InLine(Token)
<1> HIDE DEF F
<1>1. DOMAIN ts = 1..Len(ts) /\ \A i \in 1..Len(ts) : ts[i] \in F
  BY DEF F
<1>2. \A i \in 1..Len(ts) : CardLength(ts, i) \in Nat /\ i + CardLength(ts, i) <= Len(ts) + 1
  BY CardLengthIs
<1>3. ASSUME NEW i \in 1..Len(ts)
      PROVE  MaskedCard(SubSeq(ts, i, i + CardLength(ts, i) - 1)) \in Seq(F)
  <2>1. SubSeq(ts, i, i + CardLength(ts, i) - 1) \in Seq(F)
    BY <1>2 DEF F
  <2>2. <<Mask>> \in Seq(F)
    BY CleanTokens DEF F, InLine
  <2> QED
    BY <2>1, <2>2 DEF MaskedCard
<1> QED
  BY <1>1, <1>2, <1>3 DEF Matches, F

\* the one for card numbers,
LEMMA CardsType ==
  ASSUME NEW ts \in Seq(InLine(Token))
  PROVE  maskCards(ts) \in Seq(InLine(Token))
BY CardMatches, ReplacedType DEF maskCards

\* The keys that are matched with their values, and what takes their place.
LEMMA KeyMatches ==
  ASSUME NEW ts \in Seq(InLine(Clean))
  PROVE  Matches(ts, [i \in DOMAIN ts |-> KeyLength(ts, i)],
                 [i \in DOMAIN ts |->
                    Masked(ts[i], SubSeq(ts, i + 1, i + KeyLength(ts, i) - 1))],
                 InLine(Clean))
<1> DEFINE F == InLine(Clean)
<1>1. DOMAIN ts = 1..Len(ts) /\ \A i \in 1..Len(ts) : ts[i] \in F
  OBVIOUS
<1>2. \A i \in 1..Len(ts) : KeyLength(ts, i) \in Nat /\ i + KeyLength(ts, i) <= Len(ts) + 1
  BY KeyLengthIs
<1>3. ASSUME NEW i \in 1..Len(ts), KeyLength(ts, i) # 0
      PROVE  Masked(ts[i], SubSeq(ts, i + 1, i + KeyLength(ts, i) - 1)) \in Seq(F)
  <2>1. IsKey(ts[i]) /\ ts[i + 1] \in F
    BY <1>3, KeyLengthIs
  <2>2. ts[i] \in Token
    BY <1>1 DEF InLine, Clean
  <2>3. [ts[i] EXCEPT !.of = "masked"] \in F
    BY <2>1, <2>2, MaskedKey DEF InLine, Clean, Link, NewLine
  <2>4. Mask \in F
    BY CleanTokens
  <2>5. F \cup {Mask, [ts[i] EXCEPT !.of = "masked"]} = F
    BY <2>3, <2>4
  <2> HIDE DEF F
  <2>6. Masked(ts[i], SubSeq(ts, i + 1, i + KeyLength(ts, i) - 1))
          \in Seq(F \cup {Mask, [ts[i] EXCEPT !.of = "masked"]})
    BY <1>3, MaskedIs DEF F
  <2> QED
    BY <2>5, <2>6
<1> QED
  BY <1>1, <1>2, <1>3 DEF Matches

\* the one for keys,
LEMMA KeysType ==
  ASSUME NEW ts \in Seq(InLine(Clean))
  PROVE  maskKeys(ts) \in Seq(InLine(Clean))
BY KeyMatches, ReplacedType DEF maskKeys

\* What the value patterns make of a token, in the end.
Changed(t, u) ==
  \/ u = t
  \/ t.is = "value" /\ u = Mask
  \/ IsLong(t) /\ u = [t EXCEPT !.of = "masked"]
  \/ t = Link("credentials") /\ u = Link("masked")

\* The value patterns change nothing but values, long keys and URLs.
Similar(ts, us) ==
  /\ Len(us) = Len(ts)
  /\ \A i \in 1..Len(ts) : Changed(ts[i], us[i])

\* After the first k patterns nothing is left of what they match.
Rid(us, k) ==
  \A i \in 1..Len(us) :
    /\ us[i].is = "value" => \A j \in 1..k : us[i].of # valuePatterns[j]
    /\ k >= 3 => us[i] # Link("credentials")
    /\ k >= 4 => ~IsLong(us[i])

\* Each pattern gets rid of what it matches and brings back nothing.
LEMMA PatternMasks ==
  ASSUME NEW ts \in Seq(InLine(Token)), NEW us \in Seq(InLine(Token)),
         NEW k \in 1..6, Similar(ts, us), Rid(us, k - 1)
  PROVE  /\ maskPattern(valuePatterns[k], us) \in Seq(InLine(Token))
         /\ Similar(ts, maskPattern(valuePatterns[k], us))
         /\ Rid(maskPattern(valuePatterns[k], us), k)
<1> DEFINE p == valuePatterns[k]
           vs == maskPattern(p, us)
           v(i) == CASE p = "url" /\ us[i].is = "url" /\ us[i].of = "credentials"
                          -> Link("masked")
                     [] p = "email" /\ us[i].is = "url" /\ us[i].of = "credentials" -> Mask
                     [] p = "generic" /\ IsLong(us[i]) -> [us[i] EXCEPT !.of = "masked"]
                     [] us[i].is = "value" /\ us[i].of = p -> Mask
                     [] OTHER -> us[i]
<1>1. vs = [i \in DOMAIN us |-> v(i)] /\ DOMAIN us = 1..Len(us) /\ Len(us) \in Nat
  BY DEF maskPattern
<1>2. \A i \in 1..Len(us) :
        \/ v(i) = us[i] /\ ~ (p = "url" /\ us[i].is = "url" /\ us[i].of = "credentials")
                        /\ ~ (us[i].is = "value" /\ us[i].of = p)
                        /\ ~ (p = "generic" /\ IsLong(us[i]))
        \/ v(i) \in {Mask, Link("masked")} /\ us[i].is \in {"value", "url"}
        \/ v(i) = [us[i] EXCEPT !.of = "masked"] /\ IsLong(us[i])
  OBVIOUS
<1> HIDE DEF v, p
<1>3. Mask \in InLine(Token) /\ Link("masked") \in InLine(Token)
  BY CleanTokens DEF InLine
<1>4. \A i \in 1..Len(us) : us[i] \in InLine(Token) /\ v(i) \in InLine(Token)
  <2> TAKE i \in 1..Len(us)
  <2>1. us[i] \in Token /\ us[i] \in InLine(Token)
    BY DEF InLine
  <2>2. ASSUME IsLong(us[i]) PROVE [us[i] EXCEPT !.of = "masked"] \in InLine(Token)
    BY <2>1, <2>2, MaskedKey DEF IsLong, InLine, NewLine
  <2> QED
    BY <1>2, <1>3, <2>1, <2>2
<1>5. vs \in Seq(InLine(Token)) /\ Len(vs) = Len(us) /\ \A i \in 1..Len(us) : vs[i] = v(i)
  BY <1>1, <1>4
<1>6. Similar(ts, vs)
  <2>1. ASSUME NEW i \in 1..Len(ts) PROVE Changed(ts[i], vs[i])
    <3>1. i \in 1..Len(us) /\ Changed(ts[i], us[i])
      BY DEF Similar
    <3>2. k - 1 >= 3 => us[i] # Link("credentials")
      BY <3>1 DEF Rid
    <3>3. p = "email" => k = 5
      BY DEF p, valuePatterns
    <3>4. us[i].is = "url" /\ us[i].of = "credentials" => us[i] = Link("credentials")
      BY <1>4, <3>1 DEF InLine, Token, Link, Mask, Begin, End, NewLine
    <3>5. \/ v(i) \in {us[i], Mask, Link("masked")}
          \/ IsLong(us[i]) /\ v(i) = [us[i] EXCEPT !.of = "masked"]
      BY DEF v
    <3>6. /\ v(i) = Link("masked") => v(i) = us[i] \/ us[i] = Link("credentials")
          /\ v(i) = Mask => v(i) = us[i] \/ us[i].is = "value"
      <4>1. IsLong(us[i]) => [us[i] EXCEPT !.of = "masked"].is = "key"
        BY <1>4, <3>1, MaskedKey DEF IsLong, InLine
      <4> QED
        BY <3>2, <3>3, <3>4, <4>1 DEF v, Link, Mask
    <3>7. Changed(us[i], v(i))
      BY <3>5, <3>6 DEF Changed
    <3>8. Changed(ts[i], v(i))
      <4>1. us[i] # ts[i] => v(i) = us[i]
        <5>1. us[i] \in {Mask, Link("masked")} => v(i) = us[i]
          BY <3>5, <3>7 DEF Changed, IsLong, IsKey, Mask, Link
        <5>2. ASSUME IsLong(ts[i]), us[i] = [ts[i] EXCEPT !.of = "masked"]
              PROVE  v(i) = us[i]
          <6>1. us[i].is = "key" /\ ~IsLong(us[i])
            BY <5>2, MaskedKey DEF IsLong, InLine
          <6> QED
            BY <3>7, <6>1 DEF Changed, Link
        <5> QED
          BY <3>1, <5>1, <5>2 DEF Changed
      <4> QED
        BY <3>1, <3>7, <4>1
    <3> HIDE DEF vs
    <3> QED
      BY <1>5, <3>1, <3>8
  <2> QED
    BY <1>5, <2>1 DEF Similar
<1>7. Rid(vs, k)
  <2> SUFFICES ASSUME NEW i \in 1..Len(us)
               PROVE  /\ vs[i].is = "value" => \A j \in 1..k : vs[i].of # valuePatterns[j]
                      /\ k >= 3 => vs[i] # Link("credentials")
                      /\ k >= 4 => ~IsLong(vs[i])
    BY <1>5 DEF Rid
  <2>1. CASE vs[i] \in {Mask, Link("masked")}
    BY <2>1 DEF IsLong, IsKey, Mask, Link
  <2>2. CASE /\ vs[i] = us[i]
             /\ ~ (p = "url" /\ us[i].is = "url" /\ us[i].of = "credentials")
             /\ ~ (us[i].is = "value" /\ us[i].of = p)
             /\ ~ (p = "generic" /\ IsLong(us[i]))
    <3>1. us[i].is = "value" => \A j \in 1..(k - 1) : us[i].of # valuePatterns[j]
      BY DEF Rid
    <3>2. \A j \in 1..k : j = k \/ j \in 1..(k - 1)
      OBVIOUS
    <3>3. k >= 3 => k = 3 \/ k - 1 >= 3
      OBVIOUS
    <3>4. k = 3 => p = "url"
      BY DEF p, valuePatterns
    <3>5. k >= 3 => us[i] # Link("credentials")
      BY <2>2, <3>3, <3>4 DEF Rid, Link
    <3>6. k >= 4 => ~IsLong(us[i])
      <4>1. k >= 4 => k = 4 \/ k - 1 >= 4
        OBVIOUS
      <4>2. k = 4 => p = "generic"
        BY DEF p, valuePatterns
      <4> QED
        BY <2>2, <4>1, <4>2 DEF Rid
    <3> QED
      BY <2>2, <3>1, <3>2, <3>5, <3>6 DEF p
  <2>3. CASE vs[i] = [us[i] EXCEPT !.of = "masked"] /\ IsLong(us[i])
    <3>1. us[i] \in Token
      BY DEF InLine
    <3>2. vs[i].is = "key" /\ ~IsLong(vs[i])
      BY <2>3, <3>1, MaskedKey DEF IsLong
    <3> QED
      BY <3>2 DEF Link
  <2> QED
    BY <1>2, <1>5, <2>1, <2>2, <2>3
<1> QED
  BY <1>5, <1>6, <1>7 DEF p

\* All patterns together leave no value, long key and user information in a line.
LEMMA ValuesMasked ==
  ASSUME NEW ts \in Seq(InLine(Token))
  PROVE  /\ maskValues(ts) \in Seq(InLine(Clean))
         /\ Similar(maskCards(ts), maskValues(ts))
<1> DEFINE S == Seq(InLine(Token))
           cards == maskCards(ts)
           step == [k \in 1..6 |-> [us \in S |->
                      IF maskPattern(valuePatterns[k], us) \in S
                        THEN maskPattern(valuePatterns[k], us) ELSE us]]
           Unfold(f) == [n \in 0..Len(valuePatterns) |->
                           IF n = 0 THEN maskCards(ts)
                           ELSE maskPattern(valuePatterns[n], f[n - 1])]
           masked == CHOOSE f : f = Unfold(f)
           After(us, k) == us \in S /\ Similar(cards, us) /\ Rid(us, k)
<1>1. Len(valuePatterns) = 6
  BY DEF valuePatterns
<1>2. cards \in S
  BY CardsType
<1> HIDE DEF S
<1>3. step \in [1..6 -> [S -> S]]
  OBVIOUS
<1>4. PICK f \in [0..6 -> S] : f[0] = cards /\ \A k \in 1..6 : f[k] = step[k][f[k - 1]]
  <2> HIDE DEF step, cards
  <2>1. HasValues(6, S, cards, step)
    BY <1>2, <1>3, Recursion
  <2> QED
    BY <2>1 DEF HasValues
<1>5. After(cards, 0)
  <2>1. Similar(cards, cards)
    BY DEF Similar, Changed
  <2>2. Rid(cards, 0)
    BY DEF Rid
  <2> QED
    BY <1>2, <2>1, <2>2
<1>6. ASSUME NEW k \in 1..6, NEW us, After(us, k - 1)
      PROVE  After(maskPattern(valuePatterns[k], us), k)
  BY <1>2, <1>6, PatternMasks DEF S
<1> HIDE DEF After, cards
<1>7. ASSUME NEW k \in 1..6 PROVE f[k - 1] \in S
  BY <1>4
<1>8. \A k \in 0..6 : After(f[k], k)
  <2> DEFINE T == {k \in 0..6 : After(f[k], k)}
  <2>1. 0 \in T
    BY <1>4, <1>5
  <2>2. ASSUME NEW k \in 1..6, k - 1 \in T PROVE k \in T
    <3>1. After(maskPattern(valuePatterns[k], f[k - 1]), k)
      BY <1>6, <2>2
    <3>2. maskPattern(valuePatterns[k], f[k - 1]) \in S
      BY <3>1 DEF After
    <3>3. f[k] = maskPattern(valuePatterns[k], f[k - 1])
      BY <1>4, <1>7, <3>2
    <3> QED
      BY <3>1, <3>3
  <2> HIDE DEF T
  <2>3. \A k \in 0..6 : k \in T
    BY <2>1, <2>2, Induction
  <2> QED
    BY <2>3 DEF T
<1>9. \A k \in 1..6 : f[k] = maskPattern(valuePatterns[k], f[k - 1])
  <2> TAKE k \in 1..6
  <2>1. After(f[k - 1], k - 1)
    BY <1>8
  <2>2. maskPattern(valuePatterns[k], f[k - 1]) \in S
    BY <1>6, <2>1 DEF After
  <2> QED
    BY <1>4, <1>7, <2>2
<1>10. f = Unfold(f)
  <2> HIDE DEF S, step
  <2>1. \A k \in 0..6 : k = 0 \/ k \in 1..6
    OBVIOUS
  <2> QED
    BY <1>1, <1>4, <1>9, <2>1 DEF cards
<1>11. masked = Unfold(masked)
  <2> HIDE DEF Unfold
  <2> QED
    BY <1>10
<1>12. maskValues(ts) = masked[6]
  BY <1>1 DEF maskValues
<1> HIDE DEF masked
<1>13. /\ masked[0] = cards
       /\ \A k \in 1..6 : masked[k] = maskPattern(valuePatterns[k], masked[k - 1])
  <2>1. \A k \in 1..6 : k \in 0..6 /\ k # 0
    OBVIOUS
  <2> QED
    BY <1>1, <1>11, <2>1 DEF cards
<1>14. masked[6] = f[6]
  <2> DEFINE T == {k \in 0..6 : masked[k] = f[k]}
  <2>1. 0 \in T
    BY <1>4, <1>13
  <2>2. ASSUME NEW k \in 1..6, k - 1 \in T PROVE k \in T
    BY <1>9, <1>13, <2>2
  <2> HIDE DEF T
  <2>3. \A k \in 0..6 : k \in T
    BY <2>1, <2>2, Induction
  <2> QED
    BY <2>3 DEF T
<1>15. PICK us : us = f[6]
  OBVIOUS
<1>16. us \in S /\ Similar(cards, us) /\ Rid(us, 6)
  BY <1>8, <1>15 DEF After
<1>17. us \in Seq(InLine(Clean))
  <2>1. ASSUME NEW i \in 1..Len(us) PROVE us[i] \in InLine(Clean)
    <3>1. us[i] \in InLine(Token)
      BY <1>16 DEF S
    <3>2. us[i].is = "value" => \A j \in 1..6 : us[i].of # valuePatterns[j]
      BY <1>16 DEF Rid
    <3>3. us[i] # Link("credentials")
      BY <1>16 DEF Rid
    <3>4. us[i].is # "value"
      BY <3>1, <3>2 DEF InLine, Token, valuePatterns, Mask, Begin, End, NewLine
    <3>5. ~IsLong(us[i])
      BY <1>16 DEF Rid
    <3> QED
      BY <3>1, <3>3, <3>4, <3>5 DEF InLine, Clean
  <2>2. us \in Seq(InLine(Token))
    BY <1>16 DEF S
  <2> QED
    BY <2>1, <2>2
<1> QED
  BY <1>12, <1>14, <1>15, <1>16, <1>17 DEF cards

\* and all those of a line.
LEMMA LineType ==
  ASSUME NEW ts \in Seq(InLine(Token))
  PROVE  maskLine(ts) \in Seq(InLine(Clean))
BY ValuesMasked, KeysType DEF maskLine

\* A line of a log, without its end.
LEMMA LineIs ==
  ASSUME NEW ts \in Seq(Token), NEW i \in 1..Len(ts), LineLength(ts, i) # 0
  PROVE  /\ SubSeq(ts, i, i + LineLength(ts, i) - 1) \in Seq(InLine(Token))
         /\ Len(SubSeq(ts, i, i + LineLength(ts, i) - 1)) = LineLength(ts, i)
         /\ \A j \in 1..LineLength(ts, i) :
              SubSeq(ts, i, i + LineLength(ts, i) - 1)[j] = ts[i + j - 1]
<1>1. PICK c \in Nat : c = LineLength(ts, i)
  BY LineLengthIs
<1> DEFINE line == SubSeq(ts, i, i + c - 1)
<1>2. c >= 1 /\ i + c <= Len(ts) + 1 /\ \A j \in i..(i + c - 1) : ts[j] # NewLine
  BY <1>1, LineLengthIs
<1>3. /\ Len(line) = c /\ line \in Seq(Token)
      /\ \A j \in 1..c : line[j] = ts[i + j - 1]
  <2>1. i \in 1..(Len(ts) + 1) /\ i + c - 1 \in Nat /\ i + c - 1 <= Len(ts)
        /\ (i + c - 1) - i + 1 = c
    BY <1>2
  <2> QED
    BY <2>1
<1> HIDE DEF line
<1>4. \A j \in 1..c : line[j] # NewLine
  <2>1. \A j \in 1..c : i + j - 1 \in i..(i + c - 1)
    OBVIOUS
  <2> QED
    BY <1>2, <1>3, <2>1
<1>5. line \in Seq(InLine(Token))
  <2>1. \A j \in 1..Len(line) : line[j] \in InLine(Token)
    BY <1>3, <1>4 DEF InLine
  <2> QED
    BY <1>3, <2>1
<1> QED
  BY <1>1, <1>3, <1>5 DEF line

\* The lines, and what takes their place.
LEMMA LineMatches ==
  ASSUME NEW ts \in Seq(Token)
  PROVE  Matches(ts, [i \in DOMAIN ts |-> LineLength(ts, i)],
                 [i \in DOMAIN ts |->
                    maskLine(SubSeq(ts, i, i + LineLength(ts, i) - 1))], Clean)
<1>1. DOMAIN ts = 1..Len(ts)
  OBVIOUS
<1>2. \A i \in 1..Len(ts) : LineLength(ts, i) \in Nat /\ i + LineLength(ts, i) <= Len(ts) + 1
  BY LineLengthIs
<1>3. \A i \in 1..Len(ts) : LineLength(ts, i) = 0 => ts[i] \in Clean
  BY LineLengthIs, CleanTokens
<1>4. ASSUME NEW i \in 1..Len(ts), LineLength(ts, i) # 0
      PROVE  maskLine(SubSeq(ts, i, i + LineLength(ts, i) - 1)) \in Seq(Clean)
  <2>1. maskLine(SubSeq(ts, i, i + LineLength(ts, i) - 1)) \in Seq(InLine(Clean))
    BY <1>4, LineIs, LineType
  <2> QED
    BY <2>1, CleanTokens
<1> QED
  BY <1>1, <1>2, <1>3, <1>4 DEF Matches

\* The log is tokens again, none of which is a value or gives user information.
LEMMA SanitizedType ==
  ASSUME NEW log \in Seq(Token)
  PROVE  Sanitize(log) \in Seq(Clean)
BY BlocksType, LineMatches, ReplacedType DEF Sanitize, maskLines

\* No value of a format, no long key and no user information is left in the log.
LEMMA FormatsGone ==
  ASSUME NEW log \in Seq(Token)
  PROVE  NoFormat(Sanitize(log))
<1>1. PICK out \in Seq(Clean) : out = Sanitize(log)
  BY SanitizedType
<1>2. \A i \in DOMAIN out : out[i] \in Clean
  OBVIOUS
<1> QED
  BY <1>1, <1>2 DEF NoFormat, Clean

-----------------------------------------------------------------------------
(* Blocks.                                                                 *)

\* What stands for the tokens from i to j has a beginning of a block only if B
\* has one of their positions, an end only if E has, and no block.
Stands(us, i, j, B, E) ==
  /\ NoBlock(us)
  /\ \A k \in 1..Len(us) : us[k] = Begin => \E b \in B : i <= b /\ b <= j
  /\ \A k \in 1..Len(us) : us[k] = End => \E e \in E : i <= e /\ e <= j

\* Two pieces that stand for what was there do so behind each other.
LEMMA StandsJoin ==
  ASSUME NEW F, NEW us \in Seq(F), NEW vs \in Seq(F), NEW B, NEW E,
         B \subseteq Nat, E \subseteq Nat,
         \A b \in B, e \in E : ~ (b < e),
         NEW i \in Nat, NEW j \in Nat, i <= j,
         Stands(us, 1, i, B, E), Stands(vs, i + 1, j, B, E)
  PROVE  Stands(us \o vs, 1, j, B, E)
<1> DEFINE ws == us \o vs
           m == Len(us)
           n == Len(vs)
<1>1. /\ m \in Nat /\ n \in Nat /\ Len(ws) = m + n /\ DOMAIN ws = 1..(m + n)
      /\ DOMAIN us = 1..m /\ DOMAIN vs = 1..n
      /\ \A k \in 1..m : ws[k] = us[k]
      /\ \A k \in (m + 1)..(m + n) : k - m \in 1..n /\ ws[k] = vs[k - m]
  OBVIOUS
<1> HIDE DEF ws
<1>2. ASSUME NEW k \in 1..(m + n), ws[k] = Begin
      PROVE  \E b \in B : /\ 1 <= b /\ b <= j
                          /\ k <= m => b <= i
                          /\ k > m => i + 1 <= b
  <2>1. CASE k <= m
    <3>1. us[k] = Begin /\ k \in 1..m
      BY <1>1, <1>2, <2>1
    <3>2. PICK b \in B : 1 <= b /\ b <= i
      BY <3>1 DEF Stands
    <3> QED
      BY <2>1, <3>2, <1>1
  <2>2. CASE k > m
    <3>1. vs[k - m] = Begin /\ k - m \in 1..n
      BY <1>1, <1>2, <2>2
    <3>2. PICK b \in B : i + 1 <= b /\ b <= j
      BY <3>1 DEF Stands
    <3> QED
      BY <2>2, <3>2, <1>1
  <2> QED
    BY <1>1, <2>1, <2>2
<1>3. ASSUME NEW k \in 1..(m + n), ws[k] = End
      PROVE  \E e \in E : /\ 1 <= e /\ e <= j
                          /\ k <= m => e <= i
                          /\ k > m => i + 1 <= e
  <2>1. CASE k <= m
    <3>1. us[k] = End /\ k \in 1..m
      BY <1>1, <1>3, <2>1
    <3>2. PICK e \in E : 1 <= e /\ e <= i
      BY <3>1 DEF Stands
    <3> QED
      BY <2>1, <3>2, <1>1
  <2>2. CASE k > m
    <3>1. vs[k - m] = End /\ k - m \in 1..n
      BY <1>1, <1>3, <2>2
    <3>2. PICK e \in E : i + 1 <= e /\ e <= j
      BY <3>1 DEF Stands
    <3> QED
      BY <2>2, <3>2, <1>1
  <2> QED
    BY <1>1, <2>1, <2>2
<1>4. ASSUME NEW a \in 1..(m + n), NEW z \in 1..(m + n), a < z, ws[a] = Begin, ws[z] = End
      PROVE  FALSE
  <2>1. CASE z <= m
    <3>1. a \in DOMAIN us /\ z \in DOMAIN us /\ us[a] = Begin /\ us[z] = End
      BY <1>1, <1>4, <2>1
    <3> QED
      BY <1>4, <3>1 DEF Stands, NoBlock
  <2>2. CASE a > m
    <3>1. /\ a - m \in DOMAIN vs /\ z - m \in DOMAIN vs /\ a - m < z - m
          /\ vs[a - m] = Begin /\ vs[z - m] = End
      BY <1>1, <1>4, <2>2
    <3> QED
      BY <3>1 DEF Stands, NoBlock
  <2>3. CASE a <= m /\ z > m
    <3>1. PICK b \in B : b <= i
      BY <1>2, <1>4, <2>3
    <3>2. PICK e \in E : i + 1 <= e
      BY <1>3, <1>4, <2>3
    <3> QED
      BY <3>1, <3>2
  <2> QED
    BY <1>1, <2>1, <2>2, <2>3
<1>5. NoBlock(ws)
  BY <1>1, <1>4 DEF NoBlock
<1> QED
  BY <1>1, <1>2, <1>3, <1>5 DEF Stands, ws

\* If what is copied and put in stands for what was there, the whole does.
LEMMA ReplacedStands ==
  ASSUME NEW G, NEW F, NEW ts \in Seq(G), NEW length, NEW by,
         Matches(ts, length, by, F),
         NEW B, NEW E, B \subseteq Nat, E \subseteq Nat,
         \A b \in B, e \in E : ~ (b < e),
         \A i \in 1..Len(ts) : length[i] = 0 =>
            (ts[i] = Begin => i \in B) /\ (ts[i] = End => i \in E),
         \A i \in 1..Len(ts) : length[i] # 0 =>
            Stands(by[i], i, i + length[i] - 1, B, E)
  PROVE  Stands(Replaced(ts, length, by), 1, Len(ts), B, E)
<1> DEFINE P == {p \in [out : Seq(F), next : Nat] :
                   p.next >= 1 /\ Stands(p.out, 1, p.next - 1, B, E)}
<1>1. [out |-> <<>>, next |-> 1] \in P
  <2>1. Stands(<<>>, 1, 0, B, E)
    BY DEF Stands, NoBlock
  <2> QED
    BY <2>1
<1>2. ASSUME NEW p \in P, p.out \in Seq(F), p.next \in 1..Len(ts), length[p.next] = 0
      PROVE  [out |-> Append(p.out, ts[p.next]), next |-> p.next + 1] \in P
  <2>1. PICK i \in 1..Len(ts) : i = p.next
    BY <1>2
  <2>2. ts[i] \in F /\ Stands(p.out, 1, i - 1, B, E) /\ i \in Nat /\ i - 1 \in Nat
    BY <1>2, <2>1 DEF Matches
  <2>3. Stands(<<ts[i]>>, i, i, B, E)
    <3>1. (ts[i] = Begin => i \in B) /\ (ts[i] = End => i \in E)
      BY <1>2, <2>1
    <3>2. Len(<<ts[i]>>) = 1 /\ DOMAIN <<ts[i]>> = 1..1 /\ <<ts[i]>>[1] = ts[i]
      OBVIOUS
    <3>3. \A k \in 1..1 : k = 1
      OBVIOUS
    <3>4. NoBlock(<<ts[i]>>)
      BY <3>2, <3>3 DEF NoBlock
    <3> QED
      BY <2>2, <3>1, <3>2, <3>3, <3>4 DEF Stands
  <2>4. Stands(p.out \o <<ts[i]>>, 1, i, B, E)
    <3>1. i - 1 <= i /\ (i - 1) + 1 = i /\ <<ts[i]>> \in Seq(F)
      BY <2>2
    <3> QED
      BY <1>2, <2>2, <2>3, <3>1, StandsJoin
  <2>5. Append(p.out, ts[i]) = p.out \o <<ts[i]>>
    BY <1>2, <2>2, AppendIsConcat
  <2>6. (i + 1) - 1 = i /\ i + 1 \in Nat /\ i + 1 >= 1 /\ Append(p.out, ts[i]) \in Seq(F)
    BY <1>2, <2>2
  <2>7. [out |-> Append(p.out, ts[i]), next |-> i + 1] \in P
    BY <2>4, <2>5, <2>6
  <2> QED
    BY <2>1, <2>7
<1>3. ASSUME NEW p \in P, p.out \in Seq(F), p.next \in 1..Len(ts), length[p.next] # 0
      PROVE  [out |-> p.out \o by[p.next], next |-> p.next + length[p.next]] \in P
  <2>1. PICK i \in 1..Len(ts) : i = p.next
    BY <1>3
  <2>2. PICK c \in Nat : c = length[i] /\ c # 0
    BY <1>3, <2>1 DEF Matches
  <2>3. by[i] \in Seq(F) /\ Stands(p.out, 1, i - 1, B, E) /\ i - 1 \in Nat /\ i + c \in Nat
    BY <1>3, <2>1, <2>2 DEF Matches
  <2>4. Stands(by[i], i, i + c - 1, B, E)
    BY <1>3, <2>1, <2>2
  <2>5. Stands(p.out \o by[i], 1, i + c - 1, B, E)
    <3>1. i - 1 <= i + c - 1 /\ (i - 1) + 1 = i /\ i + c - 1 \in Nat
      BY <2>2
    <3> QED
      BY <1>3, <2>3, <2>4, <3>1, StandsJoin
  <2>6. p.out \o by[i] \in Seq(F) /\ i + c >= 1
    BY <1>3, <2>2, <2>3
  <2>7. [out |-> p.out \o by[i], next |-> i + c] \in P
    <3>1. PICK o \in Seq(F) : o = p.out \o by[i]
      BY <2>6
    <3>2. Stands(o, 1, (i + c) - 1, B, E)
      BY <2>5, <3>1
    <3>3. [out |-> o, next |-> i + c] \in P
      BY <2>3, <2>6, <3>2
    <3> QED
      BY <3>1, <3>3
  <2>8. p.next + length[p.next] = i + c /\ by[p.next] = by[i]
    BY <2>1, <2>2
  <2> QED
    BY <2>7, <2>8
<1>4. Kept(ts, length, by, F, P)
  <2> HIDE DEF P
  <2> QED
    BY <1>1, <1>2, <1>3 DEF Kept
<1>5. Ends(ts, length, by, F, P)
  <2> HIDE DEF P
  <2> QED
    BY <1>4, ScanInvariant
<1>6. Len(ts) + 1 - 1 = Len(ts)
  OBVIOUS
<1> QED
  BY <1>5, <1>6 DEF Ends

\* The positions of a token.
Marks(ts, t) == {i \in 1..Len(ts) : ts[i] = t}

\* Without a block, every beginning is behind every end.
LEMMA MarksApart ==
  ASSUME NEW G, NEW ts \in Seq(G), NoBlock(ts)
  PROVE  /\ Marks(ts, Begin) \subseteq Nat /\ Marks(ts, End) \subseteq Nat
         /\ \A b \in Marks(ts, Begin), e \in Marks(ts, End) : ~ (b < e)
<1>1. DOMAIN ts = 1..Len(ts)
  OBVIOUS
<1> QED
  BY <1>1 DEF Marks, NoBlock

\* Tokens that are no ends of a block can stand for anything.
LEMMA StandsFree ==
  ASSUME NEW G, NEW us \in Seq(G), NEW i, NEW j, NEW B, NEW E,
         \A k \in 1..Len(us) : us[k] # Begin /\ us[k] # End
  PROVE  Stands(us, i, j, B, E)
<1>1. DOMAIN us = 1..Len(us)
  OBVIOUS
<1> QED
  BY <1>1 DEF Stands, NoBlock

\* No block is left in the whole log after the first pass.
LEMMA BlocksMasked ==
  ASSUME NEW ts \in Seq(Token)
  PROVE  NoBlock(maskBlocks(ts))
<1> DEFINE B == {i \in 1..Len(ts) : ts[i] = Begin /\ \A j \in i..Len(ts) : ts[j] # End}
           E == Marks(ts, End)
           length == [i \in DOMAIN ts |-> BlockLength(ts, i)]
           by == [i \in DOMAIN ts |-> <<Mask>>]
<1>1. DOMAIN ts = 1..Len(ts) /\ Len(ts) \in Nat
  OBVIOUS
<1>2. B \subseteq Nat /\ E \subseteq Nat
  BY <1>1 DEF Marks
<1>3. \A b \in B, e \in E : ~ (b < e)
  BY <1>1 DEF Marks
<1>4. ASSUME NEW i \in 1..Len(ts), length[i] = 0
      PROVE  (ts[i] = Begin => i \in B) /\ (ts[i] = End => i \in E)
  <2>1. BlockLength(ts, i) = 0
    BY <1>1, <1>4
  <2>2. ts[i] = Begin => \A j \in i..Len(ts) : ts[j] # End
    BY <2>1, BlockLengthIs
  <2> QED
    BY <2>2 DEF Marks
<1>5. ASSUME NEW i \in 1..Len(ts)
      PROVE  Stands(by[i], i, i + length[i] - 1, B, E)
  <2>1. Len(<<Mask>>) = 1 /\ <<Mask>>[1] = Mask /\ <<Mask>> \in Seq({Mask})
    OBVIOUS
  <2>2. Mask # Begin /\ Mask # End
    BY DEF Mask, Begin, End
  <2>3. \A k \in 1..Len(<<Mask>>) : <<Mask>>[k] # Begin /\ <<Mask>>[k] # End
    BY <2>1, <2>2
  <2>4. by[i] = <<Mask>>
    BY <1>1
  <2> QED
    BY <2>1, <2>3, <2>4, StandsFree
<1> HIDE DEF B, E, length, by
<1>6. Matches(ts, length, by, Token)
  BY BlockMatches DEF length, by
<1>7. Stands(Replaced(ts, length, by), 1, Len(ts), B, E)
  BY <1>2, <1>3, <1>4, <1>5, <1>6, ReplacedStands
<1> QED
  BY <1>7 DEF Stands, maskBlocks, length, by

\* Masking cards, values and keys of a line does not put together a block.
LEMMA CardsStand ==
  ASSUME NEW ts \in Seq(InLine(Token)), NoBlock(ts)
  PROVE  Stands(maskCards(ts), 1, Len(ts), Marks(ts, Begin), Marks(ts, End))
<1> DEFINE B == Marks(ts, Begin)
           E == Marks(ts, End)
           length == [i \in DOMAIN ts |-> CardLength(ts, i)]
           by == [i \in DOMAIN ts |-> MaskedCard(SubSeq(ts, i, i + CardLength(ts, i) - 1))]
<1>1. DOMAIN ts = 1..Len(ts) /\ Len(ts) \in Nat
  OBVIOUS
<1>2. \A i \in 1..Len(ts) : (ts[i] = Begin => i \in B) /\ (ts[i] = End => i \in E)
  BY DEF Marks
<1>3. ASSUME NEW i \in 1..Len(ts), length[i] # 0
      PROVE  Stands(by[i], i, i + length[i] - 1, B, E)
  <2>1. PICK c \in Nat : c = CardLength(ts, i)
    BY CardLengthIs
  <2>2. c # 0 /\ i + c <= Len(ts) + 1 /\ \A j \in i..(i + c - 1) : IsDigits(ts[j])
    BY <1>1, <1>3, <2>1, CardLengthIs
  <2> DEFINE run == SubSeq(ts, i, i + c - 1)
  <2>3. /\ run \in Seq(InLine(Token)) /\ Len(run) = c
        /\ \A k \in 1..c : run[k] = ts[i + k - 1]
    <3>1. i \in 1..(Len(ts) + 1) /\ i + c - 1 \in Nat /\ i + c - 1 <= Len(ts)
          /\ (i + c - 1) - i + 1 = c
      BY <1>1, <2>2
    <3> QED
      BY <3>1
  <2>4. by[i] = MaskedCard(run)
    BY <1>1, <2>1
  <2> HIDE DEF run, by
  <2>5. \A k \in 1..Len(run) : run[k] # Begin /\ run[k] # End
    <3>1. \A k \in 1..c : i + k - 1 \in i..(i + c - 1)
      OBVIOUS
    <3> QED
      BY <2>2, <2>3, <3>1 DEF IsDigits, Begin, End
  <2>6. /\ <<Mask>> \in Seq({Mask})
        /\ \A k \in 1..Len(<<Mask>>) : <<Mask>>[k] # Begin /\ <<Mask>>[k] # End
    <3>1. Len(<<Mask>>) = 1 /\ <<Mask>>[1] = Mask /\ <<Mask>> \in Seq({Mask})
      OBVIOUS
    <3>2. Mask # Begin /\ Mask # End
      BY DEF Mask, Begin, End
    <3> QED
      BY <3>1, <3>2
  <2>7. CASE by[i] = run
    BY <2>3, <2>5, <2>7, StandsFree
  <2>8. CASE by[i] = <<Mask>>
    BY <2>6, <2>8, StandsFree
  <2> QED
    BY <2>4, <2>7, <2>8 DEF MaskedCard
<1>4. B \subseteq Nat /\ E \subseteq Nat /\ \A b \in B, e \in E : ~ (b < e)
  BY MarksApart
<1>5. Matches(ts, length, by, InLine(Token))
  BY CardMatches
<1> HIDE DEF B, E, length, by
<1>6. Stands(Replaced(ts, length, by), 1, Len(ts), B, E)
  BY <1>2, <1>3, <1>4, <1>5, ReplacedStands
<1> QED
  BY <1>6 DEF maskCards, length, by, B, E

\* The same of the other value patterns,
LEMMA ValuesStand ==
  ASSUME NEW ts \in Seq(InLine(Token)), NoBlock(ts)
  PROVE  Stands(maskValues(ts), 1, Len(ts), Marks(ts, Begin), Marks(ts, End))
<1>1. PICK cs \in Seq(InLine(Token)) : cs = maskCards(ts)
  BY CardsType
<1>2. PICK us \in Seq(InLine(Clean)) : us = maskValues(ts)
  BY ValuesMasked
<1>3. Similar(cs, us)
  BY <1>1, <1>2, ValuesMasked
<1>4. Stands(cs, 1, Len(ts), Marks(ts, Begin), Marks(ts, End))
  BY <1>1, CardsStand
<1>5. DOMAIN cs = 1..Len(cs) /\ DOMAIN us = 1..Len(cs) /\ Len(us) = Len(cs)
  BY <1>3 DEF Similar
<1>6. ASSUME NEW i \in 1..Len(cs)
      PROVE  (us[i] = Begin => cs[i] = Begin) /\ (us[i] = End => cs[i] = End)
  <2>1. Changed(cs[i], us[i])
    BY <1>3 DEF Similar
  <2>2. Begin \notin {Mask, Link("masked")} /\ End \notin {Mask, Link("masked")}
    BY DEF Begin, End, Mask, Link
  <2>3. cs[i] \in Token
    BY DEF InLine
  <2>4. IsLong(cs[i]) => [cs[i] EXCEPT !.of = "masked"] \notin {Begin, End}
    BY <2>3, MaskedKey DEF IsLong, Begin, End
  <2> QED
    BY <2>1, <2>2, <2>4 DEF Changed
<1> QED
  BY <1>2, <1>4, <1>5, <1>6 DEF Stands, NoBlock

\* of the keys,
LEMMA KeysStand ==
  ASSUME NEW ts \in Seq(InLine(Clean)), NoBlock(ts)
  PROVE  Stands(maskKeys(ts), 1, Len(ts), Marks(ts, Begin), Marks(ts, End))
<1> DEFINE B == Marks(ts, Begin)
           E == Marks(ts, End)
           length == [i \in DOMAIN ts |-> KeyLength(ts, i)]
           by == [i \in DOMAIN ts |->
                    Masked(ts[i], SubSeq(ts, i + 1, i + KeyLength(ts, i) - 1))]
<1>1. DOMAIN ts = 1..Len(ts) /\ Len(ts) \in Nat
  OBVIOUS
<1>2. \A i \in 1..Len(ts) : (ts[i] = Begin => i \in B) /\ (ts[i] = End => i \in E)
  BY DEF Marks
<1>5. Matches(ts, length, by, InLine(Clean))
  BY KeyMatches
<1>3. ASSUME NEW i \in 1..Len(ts), length[i] # 0
      PROVE  Stands(by[i], i, i + length[i] - 1, B, E)
  <2>1. KeyLength(ts, i) # 0
    BY <1>1, <1>3
  <2>2. PICK m \in Seq(InLine(Clean)) : m = by[i]
    BY <1>3, <1>5 DEF Matches
  <2>3. MaskedForm(ts[i], ts[i + 1], m)
    BY <1>1, <2>1, <2>2, MaskedIs
  <2>4. IsKey(ts[i])
    BY <2>1, KeyLengthIs
  <2>5. \A k \in 1..Len(m) : k \in {1, 2, 3, 4} /\ m[k] # Begin /\ m[k] # End
    <3>1. /\ Mask # Begin /\ Mask # End /\ Echo # Begin /\ Echo # End
          /\ ts[i] # Begin /\ ts[i] # End
          /\ [ts[i] EXCEPT !.of = "masked"] # Begin /\ [ts[i] EXCEPT !.of = "masked"] # End
          /\ IsQuote(ts[i + 1]) => ts[i + 1] # Begin /\ ts[i + 1] # End
      <4>1. [ts[i] EXCEPT !.of = "masked"].is = "key"
        BY <2>4, <1>1 DEF IsKey, InLine, Clean, Token, Begin, End, NewLine, Mask
      <4> QED
        BY <2>4, <4>1 DEF Mask, Begin, End, Echo, Word, IsKey, IsQuote
    <3>2. CASE Len(m) = 2
      <4>1. m[1] # Begin /\ m[1] # End /\ m[2] # Begin /\ m[2] # End
        BY <2>3, <3>1, <3>2 DEF MaskedForm
      <4>2. \A k \in 1..2 : k = 1 \/ k = 2
        OBVIOUS
      <4> QED
        BY <3>2, <4>1, <4>2
    <3>3. CASE Len(m) = 4
      <4>1. /\ m[1] # Begin /\ m[1] # End /\ m[2] # Begin /\ m[2] # End
            /\ m[3] # Begin /\ m[3] # End /\ m[4] # Begin /\ m[4] # End
        BY <2>3, <3>1, <3>3 DEF MaskedForm
      <4>2. \A k \in 1..4 : k = 1 \/ k = 2 \/ k = 3 \/ k = 4
        OBVIOUS
      <4> QED
        BY <3>3, <4>1, <4>2
    <3> QED
      BY <2>3, <3>2, <3>3 DEF MaskedForm
  <2> QED
    BY <2>2, <2>5, StandsFree
<1>4. B \subseteq Nat /\ E \subseteq Nat /\ \A b \in B, e \in E : ~ (b < e)
  BY MarksApart
<1> HIDE DEF B, E, length, by
<1>6. Stands(Replaced(ts, length, by), 1, Len(ts), B, E)
  BY <1>2, <1>3, <1>4, <1>5, ReplacedStands
<1> QED
  BY <1>6 DEF maskKeys, length, by, B, E

\* and of all passes over a line.
LEMMA LineStands ==
  ASSUME NEW ts \in Seq(InLine(Token)), NoBlock(ts)
  PROVE  Stands(maskLine(ts), 1, Len(ts), Marks(ts, Begin), Marks(ts, End))
<1>1. PICK vs \in Seq(InLine(Clean)) : vs = maskValues(ts)
  BY ValuesMasked
<1>2. Stands(vs, 1, Len(ts), Marks(ts, Begin), Marks(ts, End))
  BY <1>1, ValuesStand
<1>3. Stands(maskKeys(vs), 1, Len(vs), Marks(vs, Begin), Marks(vs, End))
  BY <1>2, KeysStand DEF Stands
<1>4. PICK out : out = maskLine(ts) /\ out = maskKeys(vs)
  BY <1>1 DEF maskLine
<1>5. ASSUME NEW k \in 1..Len(out), out[k] = Begin
      PROVE  \E b \in Marks(ts, Begin) : 1 <= b /\ b <= Len(ts)
  <2>1. PICK b \in Marks(vs, Begin) : TRUE
    BY <1>3, <1>4, <1>5 DEF Stands
  <2>2. b \in 1..Len(vs) /\ vs[b] = Begin
    BY <2>1 DEF Marks
  <2> QED
    BY <1>2, <2>2 DEF Stands
<1>6. ASSUME NEW k \in 1..Len(out), out[k] = End
      PROVE  \E e \in Marks(ts, End) : 1 <= e /\ e <= Len(ts)
  <2>1. PICK e \in Marks(vs, End) : TRUE
    BY <1>3, <1>4, <1>6 DEF Stands
  <2>2. e \in 1..Len(vs) /\ vs[e] = End
    BY <2>1 DEF Marks
  <2> QED
    BY <1>2, <2>2 DEF Stands
<1>7. NoBlock(out)
  BY <1>3, <1>4 DEF Stands
<1> QED
  BY <1>4, <1>5, <1>6, <1>7 DEF Stands

\* No block is left in the log.
LEMMA BlocksGone ==
  ASSUME NEW log \in Seq(Token)
  PROVE  NoBlock(Sanitize(log))
<1>1. PICK ts \in Seq(Token) : ts = maskBlocks(log) /\ NoBlock(ts)
  BY BlocksType, BlocksMasked
<1> DEFINE B == Marks(ts, Begin)
           E == Marks(ts, End)
           length == [i \in DOMAIN ts |-> LineLength(ts, i)]
           by == [i \in DOMAIN ts |-> maskLine(SubSeq(ts, i, i + LineLength(ts, i) - 1))]
<1>2. DOMAIN ts = 1..Len(ts) /\ Len(ts) \in Nat
  OBVIOUS
<1>3. \A i \in 1..Len(ts) : (ts[i] = Begin => i \in B) /\ (ts[i] = End => i \in E)
  BY DEF Marks
<1>4. ASSUME NEW i \in 1..Len(ts), length[i] # 0
      PROVE  Stands(by[i], i, i + length[i] - 1, B, E)
  <2>1. PICK c \in Nat : c = LineLength(ts, i) /\ c = length[i] /\ c # 0 /\ i + c <= Len(ts) + 1
    BY <1>2, <1>4, LineLengthIs
  <2>2. PICK line \in Seq(InLine(Token)) :
          /\ line = SubSeq(ts, i, i + c - 1) /\ Len(line) = c
          /\ \A j \in 1..c : line[j] = ts[i + j - 1]
    BY <2>1, LineIs
  <2>3. by[i] = maskLine(line)
    BY <1>2, <2>1, <2>2
  <2>4. \A j \in 1..c : i + j - 1 \in 1..Len(ts) /\ i <= i + j - 1 /\ i + j - 1 <= i + c - 1
    BY <1>2, <2>1
  <2>5. NoBlock(line)
    <3>1. DOMAIN line = 1..c
      BY <2>2
    <3>2. ASSUME NEW a \in 1..c, NEW z \in 1..c, a < z, line[a] = Begin, line[z] = End
          PROVE  FALSE
      <4>1. i + a - 1 < i + z - 1 /\ ts[i + a - 1] = Begin /\ ts[i + z - 1] = End
        BY <2>2, <3>2
      <4> QED
        BY <1>1, <1>2, <2>4, <4>1 DEF NoBlock
    <3> QED
      BY <3>1, <3>2 DEF NoBlock
  <2>6. Stands(maskLine(line), 1, c, Marks(line, Begin), Marks(line, End))
    BY <2>2, <2>5, LineStands
  <2>7. \A b \in Marks(line, Begin) : i + b - 1 \in B /\ i <= i + b - 1 /\ i + b - 1 <= i + c - 1
    BY <2>2, <2>4 DEF Marks
  <2>8. \A e \in Marks(line, End) : i + e - 1 \in E /\ i <= i + e - 1 /\ i + e - 1 <= i + c - 1
    BY <2>2, <2>4 DEF Marks
  <2>9. Stands(maskLine(line), i, i + c - 1, B, E)
    <3> HIDE DEF B, E
    <3>1. \A k \in 1..Len(maskLine(line)) : maskLine(line)[k] = Begin =>
            \E b \in B : i <= b /\ b <= i + c - 1
      BY <2>6, <2>7 DEF Stands
    <3>2. \A k \in 1..Len(maskLine(line)) : maskLine(line)[k] = End =>
            \E e \in E : i <= e /\ e <= i + c - 1
      BY <2>6, <2>8 DEF Stands
    <3> QED
      BY <2>6, <3>1, <3>2 DEF Stands
  <2> HIDE DEF by, length, B, E
  <2> QED
    BY <2>1, <2>3, <2>9
<1>5. B \subseteq Nat /\ E \subseteq Nat /\ \A b \in B, e \in E : ~ (b < e)
  BY <1>1, MarksApart
<1>6. Matches(ts, length, by, Clean)
  BY LineMatches
<1> HIDE DEF B, E, length, by
<1>7. Stands(Replaced(ts, length, by), 1, Len(ts), B, E)
  BY <1>3, <1>4, <1>5, <1>6, ReplacedStands
<1> QED
  BY <1>1, <1>7 DEF Stands, Sanitize, maskLines, length, by

-----------------------------------------------------------------------------
(* Sequences behind each other.                                            *)

\* Two sequences behind each other.
LEMMA Joined ==
  ASSUME NEW F, NEW us \in Seq(F), NEW vs \in Seq(F)
  PROVE  /\ us \o vs \in Seq(F) /\ Len(us \o vs) = Len(us) + Len(vs)
         /\ Len(us) \in Nat /\ Len(vs) \in Nat
         /\ \A k \in 1..Len(us) : (us \o vs)[k] = us[k]
         /\ \A k \in (Len(us) + 1)..(Len(us) + Len(vs)) :
              k - Len(us) \in 1..Len(vs) /\ (us \o vs)[k] = vs[k - Len(us)]
         /\ \A k \in 1..Len(vs) :
              /\ Len(us) + k \in (Len(us) + 1)..(Len(us) + Len(vs))
              /\ (us \o vs)[Len(us) + k] = vs[k]
OBVIOUS

\* One token behind a sequence.
LEMMA JoinedOne ==
  ASSUME NEW F, NEW us \in Seq(F), NEW t \in F
  PROVE  /\ us \o <<t>> \in Seq(F) /\ Append(us, t) = us \o <<t>>
         /\ Len(us \o <<t>>) = Len(us) + 1 /\ Len(us) \in Nat
         /\ \A k \in 1..Len(us) : (us \o <<t>>)[k] = us[k]
         /\ (us \o <<t>>)[Len(us) + 1] = t
<1>1. us \o <<t>> = Append(us, t)
  BY AppendIsConcat
<1> QED
  BY <1>1

-----------------------------------------------------------------------------
(* Numbers.                                                                *)

\* From a to b in one sequence are the same tokens as from c to d in another.
SameTokens(us, a, b, vs, c, d) ==
  /\ a \in 1..Len(us) /\ b \in a..Len(us)
  /\ c \in 1..Len(vs) /\ d \in c..Len(vs)
  /\ b - a = d - c
  /\ \A j \in 0..(b - a) : us[a + j] = vs[c + j]

\* The digits from a to b are a card number.
IsNumber(us, a, b) == luhnValid(NumberOf(SubSeq(us, a, b)))

\* Equal pieces are the same number.
LEMMA SamePiece ==
  ASSUME NEW F, NEW us \in Seq(F), NEW vs \in Seq(F), NEW a, NEW b, NEW c, NEW d,
         SameTokens(us, a, b, vs, c, d)
  PROVE  IsNumber(us, a, b) <=> IsNumber(vs, c, d)
<1>0. /\ a \in 1..Len(us) /\ b \in a..Len(us)
      /\ c \in 1..Len(vs) /\ d \in c..Len(vs) /\ b - a = d - c
      /\ \A j \in 0..(b - a) : us[a + j] = vs[c + j]
  BY DEF SameTokens
<1> DEFINE l == b - a + 1
<1>1. l \in Nat /\ l = d - c + 1
  BY <1>0
<1>2. /\ SubSeq(us, a, b) \in Seq(F) /\ Len(SubSeq(us, a, b)) = l
      /\ \A k \in 1..l : SubSeq(us, a, b)[k] = us[a + k - 1]
  <2>1. a \in 1..(Len(us) + 1) /\ b \in Nat /\ b <= Len(us)
    BY <1>0
  <2> QED
    BY <1>0, <2>1
<1>3. /\ SubSeq(vs, c, d) \in Seq(F) /\ Len(SubSeq(vs, c, d)) = l
      /\ \A k \in 1..l : SubSeq(vs, c, d)[k] = vs[c + k - 1]
  <2>1. c \in 1..(Len(vs) + 1) /\ d \in Nat /\ d <= Len(vs)
    BY <1>0
  <2> QED
    BY <1>0, <1>1, <2>1
<1>4. \A k \in 1..l : us[a + k - 1] = vs[c + k - 1]
  <2> TAKE k \in 1..l
  <2>1. k - 1 \in 0..(b - a) /\ a + (k - 1) = a + k - 1 /\ c + (k - 1) = c + k - 1
    BY <1>0
  <2> QED
    BY <1>0, <2>1
<1> HIDE DEF l
<1>5. PICK ps \in Seq(F), qs \in Seq(F) :
        ps = SubSeq(us, a, b) /\ qs = SubSeq(vs, c, d)
  BY <1>2, <1>3
<1>6. Len(ps) = Len(qs) /\ \A k \in 1..Len(ps) : ps[k] = qs[k]
  BY <1>2, <1>3, <1>4, <1>5
<1>7. ps = qs
  BY <1>6, SeqEqual
<1> QED
  BY <1>5, <1>7 DEF IsNumber

-----------------------------------------------------------------------------
(* Check digits.                                                           *)

\* What a digit adds to the sum.
Adds(d, doubled) ==
  IF ~doubled THEN d ELSE IF 2 * d > 9 THEN 2 * d - 9 ELSE 2 * d

\* Whether the digit at i of n is doubled.
Doubled(n, i) == (n - i) % 2 = 1

\* The sums of the digits up to each position.
IsSums(ds, p) ==
  /\ p \in [0..Len(ds) -> Nat]
  /\ p[0] = 0
  /\ \A i \in 1..Len(ds) : p[i] = Adds(ds[i], Doubled(Len(ds), i)) + p[i - 1]

\* A digit adds a digit, and another one adds another.
LEMMA AddsType ==
  /\ \A d \in 0..9, b \in BOOLEAN : Adds(d, b) \in 0..9
  /\ \A d, e \in 0..9, b \in BOOLEAN : Adds(d, b) = Adds(e, b) => d = e
  /\ \A d \in 0..9 : Adds(d, TRUE) = ((2 * d) \div 10) + ((2 * d) % 10)
<1>1. \A d \in 0..9 : d = 0 \/ d = 1 \/ d = 2 \/ d = 3 \/ d = 4 \/ d = 5 \/ d = 6
                      \/ d = 7 \/ d = 8 \/ d = 9
  OBVIOUS
<1>2. \A d \in 0..9 : ((2 * d) \div 10) + ((2 * d) % 10) = (IF 2 * d > 9 THEN 2 * d - 9 ELSE 2 * d)
  BY <1>1
<1> QED
  BY <1>2 DEF Adds

\* The reference adds from the left.
LEMMA ReferenceSums ==
  ASSUME NEW ds \in Seq(0..9)
  PROVE  \E p : /\ IsSums(ds, p)
                /\ LuhnReference(ds) <=> Len(ds) \in 13..19 /\ p[Len(ds)] % 10 = 0
<1> DEFINE n == Len(ds)
           counts(i) == IF (n - i) % 2 = 0 THEN ds[i]
                        ELSE ((2 * ds[i]) \div 10) + ((2 * ds[i]) % 10)
           step == [i \in 1..n |-> [q \in Nat |-> counts(i) + q]]
           Unfold(f) == [i \in 0..n |-> IF i = 0 THEN 0 ELSE counts(i) + f[i - 1]]
           sum == CHOOSE f : f = Unfold(f)
<1>1. n \in Nat
  OBVIOUS
<1>2. ASSUME NEW i \in 1..n
      PROVE  counts(i) \in Nat /\ counts(i) = Adds(ds[i], Doubled(n, i))
  <2>1. ds[i] \in 0..9 /\ n - i \in Nat
    BY <1>1
  <2>2. (n - i) % 2 = 0 \/ (n - i) % 2 = 1
    BY <2>1
  <2> QED
    BY <2>1, <2>2, AddsType DEF Adds, Doubled
<1> HIDE DEF counts
<1>3. step \in [1..n -> [Nat -> Nat]]
  BY <1>2
<1>4. PICK f \in [0..n -> Nat] : f[0] = 0 /\ \A i \in 1..n : f[i] = step[i][f[i - 1]]
  <2> HIDE DEF n, step
  <2>1. HasValues(n, Nat, 0, step)
    BY <1>1, <1>3, Recursion
  <2> QED
    BY <2>1 DEF HasValues
<1>5. ASSUME NEW i \in 1..n PROVE f[i] = counts(i) + f[i - 1]
  <2>1. i - 1 \in 0..n
    BY <1>1
  <2>2. f[i - 1] \in Nat
    BY <1>4, <2>1
  <2> QED
    BY <1>4, <2>2
<1>6. f = Unfold(f)
  <2> HIDE DEF n, step
  <2> QED
    BY <1>1, <1>4, <1>5
<1>7. sum = Unfold(sum)
  <2> HIDE DEF Unfold
  <2> QED
    BY <1>6
<1>8. LuhnReference(ds) <=> n >= 13 /\ n <= 19 /\ sum[n] % 10 = 0
  BY DEF LuhnReference, counts
<1> HIDE DEF sum, step
<1>9. sum[0] = 0 /\ \A i \in 1..n : sum[i] = counts(i) + sum[i - 1]
  <2> HIDE DEF n
  <2>1. 0 \in 0..n /\ \A i \in 1..n : i \in 0..n /\ i # 0
    BY <1>1
  <2> QED
    BY <1>7, <2>1
<1>10. sum \in [0..n -> Nat]
  <2> DEFINE T == {i \in 0..n : sum[i] \in Nat}
  <2>1. 0 \in T
    BY <1>1, <1>9
  <2>2. ASSUME NEW i \in 1..n, i - 1 \in T PROVE i \in T
    BY <1>1, <1>2, <1>9, <2>2
  <2>3. \A i \in 0..n : sum[i] \in Nat
    <3> HIDE DEF T, n
    <3>1. \A i \in 0..n : i \in T
      BY <1>1, <2>1, <2>2, Induction
    <3> QED
      BY <3>1 DEF T
  <2>4. sum = [i \in 0..n |-> sum[i]]
    <3> HIDE DEF n
    <3> QED
      BY <1>7
  <2> HIDE DEF n
  <2> QED
    BY <2>3, <2>4
<1>11. IsSums(ds, sum)
  BY <1>2, <1>9, <1>10 DEF IsSums
<1>12. LuhnReference(ds) <=> n \in 13..19 /\ sum[n] % 10 = 0
  <2> HIDE DEF n
  <2>1. n \in 13..19 <=> n >= 13 /\ n <= 19
    BY <1>1
  <2> QED
    BY <1>8, <2>1
<1> QED
  BY <1>11, <1>12

\* The loop of luhnValid adds from the right, and comes to the same.
LEMMA LoopSum ==
  ASSUME NEW ds \in Seq(0..9), NEW p, IsSums(ds, p)
  PROVE  luhnSum(ds, FALSE) = p[Len(ds)]
<1> DEFINE n == Len(ds)
           S == [sum : Nat, double : BOOLEAN]
           Step(k, s) == LET d == IF s.double THEN 2 * ds[Len(ds) - k + 1]
                                              ELSE ds[Len(ds) - k + 1]
                         IN  [sum |-> s.sum + (IF d > 9 THEN d - 9 ELSE d),
                              double |-> ~s.double]
           Unfold(f) == [k \in 0..Len(ds) |->
                           IF k = 0 THEN [sum |-> 0, double |-> FALSE]
                           ELSE Step(k, f[k - 1])]
           loop == CHOOSE f : f = Unfold(f)
           \* the loop as it goes
           at(k) == [sum |-> p[n] - p[n - k], double |-> k % 2 = 1]
           g == [k \in 0..n |-> at(k)]
<1>1. n \in Nat /\ p \in [0..n -> Nat]
  BY DEF IsSums
<1>2. at(0) = [sum |-> 0, double |-> FALSE]
  <2>1. p[n] - p[n - 0] = 0 /\ (0 % 2 = 1) = FALSE
    BY <1>1
  <2> QED
    BY <2>1
<1>3. ASSUME NEW k \in 1..n PROVE at(k) = Step(k, at(k - 1))
  <2> DEFINE i == n - k + 1
             d == ds[i]
             b == (k - 1) % 2 = 1
  <2>1. i \in 1..n /\ d \in 0..9 /\ n - i = k - 1 /\ n - k = i - 1 /\ n - (k - 1) = i
    BY <1>1
  <2>2. p[i] = Adds(d, b) + p[i - 1]
    BY <2>1 DEF IsSums, Doubled
  <2>3. (k % 2 = 1) <=> ~b
    BY <1>1
  <2>4. p[n] \in Nat /\ p[i] \in Nat /\ p[i - 1] \in Nat
    BY <1>1, <2>1
  <2>5. at(k).sum = (p[n] - p[i]) + Adds(d, b)
    <3>1. at(k).sum = p[n] - p[i - 1]
      BY <2>1
    <3>2. Adds(d, b) \in 0..9
      BY <2>1, AddsType
    <3> HIDE DEF at, n, d, b, i
    <3>3. PICK x \in Nat, y \in Nat, z \in Nat : x = p[n] /\ y = p[i] /\ z = p[i - 1]
      BY <2>4
    <3>4. PICK w \in 0..9 : w = Adds(d, b)
      BY <3>2
    <3>5. y = w + z
      BY <2>2, <3>3, <3>4
    <3>6. x - z = (x - y) + w
      BY <3>5
    <3> QED
      BY <3>1, <3>3, <3>4, <3>6
  <2>6. Adds(d, b) = (IF (IF b THEN 2 * d ELSE d) > 9 THEN (IF b THEN 2 * d ELSE d) - 9
                                                     ELSE (IF b THEN 2 * d ELSE d))
    BY <2>1 DEF Adds
  <2>7. (k % 2 = 1) = ~b
    BY <2>3
  <2> QED
    BY <2>1, <2>5, <2>6, <2>7
<1>4. g = Unfold(g)
  <2> HIDE DEF at, Step
  <2>1. \A k \in 0..n : k = 0 \/ (k \in 1..n /\ k - 1 \in 0..n)
    BY <1>1
  <2> QED
    BY <1>2, <1>3, <2>1
<1>5. loop = Unfold(loop)
  <2> HIDE DEF Unfold, g
  <2> QED
    BY <1>4
<1>6. luhnSum(ds, FALSE) = loop[n].sum
  BY DEF luhnSum
<1> HIDE DEF loop, Step, at
<1>7. \A k \in 0..n : loop[k] = at(k)
  <2> DEFINE T == {k \in 0..n : loop[k] = at(k)}
  <2>1. 0 \in T
    BY <1>1, <1>2, <1>5
  <2>2. ASSUME NEW k \in 1..n, k - 1 \in T PROVE k \in T
    <3>1. loop[k] = Step(k, loop[k - 1])
      <4>1. k \in 0..Len(ds) /\ k # 0
        BY <1>1
      <4> HIDE DEF n
      <4> QED
        BY <1>5, <4>1
    <3>2. loop[k - 1] = at(k - 1) /\ k \in 0..n
      BY <1>1, <2>2
    <3> QED
      BY <1>3, <3>1, <3>2
  <2> HIDE DEF T, n
  <2>3. \A k \in 0..n : k \in T
    BY <1>1, <2>1, <2>2, Induction
  <2> QED
    BY <2>3 DEF T
<1>8. at(n).sum = p[n]
  <2>1. p[n - n] = 0 /\ p[n] \in Nat
    BY <1>1 DEF IsSums
  <2> QED
    BY <2>1, <1>1 DEF at
<1> QED
  BY <1>1, <1>6, <1>7, <1>8

\* The check of the code is the reference.
LEMMA LuhnValidReference ==
  ASSUME NEW ds \in Seq(0..9)
  PROVE  luhnValid(ds) = LuhnReference(ds)
BY ReferenceSums, LoopSum DEF luhnValid, LuhnReference

\* A changed digit changes every sum behind it by the same.
LEMMA DigitChanged ==
  ASSUME NEW ds \in Seq(0..9), NEW j \in 1..Len(ds), NEW d \in 0..9,
         NEW p, IsSums(ds, p), NEW q, IsSums([ds EXCEPT ![j] = d], q)
  PROVE  q[Len(ds)] + Adds(ds[j], Doubled(Len(ds), j))
           = p[Len(ds)] + Adds(d, Doubled(Len(ds), j))
<1> DEFINE n == Len(ds)
           es == [ds EXCEPT ![j] = d]
           old == Adds(ds[j], Doubled(n, j))
           new == Adds(d, Doubled(n, j))
           T == {i \in 0..n : /\ i < j => q[i] = p[i]
                              /\ i >= j => q[i] + old = p[i] + new}
<1>1. n \in Nat /\ es \in Seq(0..9) /\ Len(es) = n
  OBVIOUS
<1>2. \A i \in 1..n : ds[i] \in 0..9 /\ es[i] = (IF i = j THEN d ELSE ds[i])
  OBVIOUS
<1>3. \A i \in 1..n : Adds(ds[i], Doubled(n, i)) \in 0..9
  BY <1>2, AddsType DEF Doubled
<1>4. old \in 0..9 /\ new \in 0..9
  BY <1>2, AddsType DEF Doubled
<1> HIDE DEF es
<1>5. p \in [0..n -> Nat] /\ q \in [0..n -> Nat]
  BY <1>1 DEF IsSums, es
<1>6. p[0] = 0 /\ q[0] = 0
  BY DEF IsSums
<1>7. \A i \in 1..n : /\ p[i] = Adds(ds[i], Doubled(n, i)) + p[i - 1]
                      /\ q[i] = Adds(es[i], Doubled(n, i)) + q[i - 1]
  BY <1>1 DEF IsSums, es
<1>8. 0 \in T
  BY <1>1, <1>6
<1>9. ASSUME NEW i \in 1..n, i - 1 \in T PROVE i \in T
  <2>1. /\ i \in 0..n /\ i - 1 \in 0..n
        /\ p[i] \in Nat /\ p[i - 1] \in Nat /\ q[i] \in Nat /\ q[i - 1] \in Nat
    <3>1. i \in 0..n /\ i - 1 \in 0..n
      BY <1>1
    <3> HIDE DEF n
    <3> QED
      BY <1>5, <3>1
  <2>2. CASE i < j
    <3>1. q[i - 1] = p[i - 1] /\ es[i] = ds[i]
      BY <1>1, <1>2, <1>9, <2>2
    <3>2. q[i] = p[i]
      BY <1>7, <3>1
    <3> QED
      BY <2>1, <2>2, <3>2
  <2>3. CASE i = j
    <3>1. q[i - 1] = p[i - 1] /\ es[i] = d
      BY <1>1, <1>2, <1>9, <2>3
    <3>2. p[i] = old + p[i - 1] /\ q[i] = new + p[i - 1]
      BY <1>7, <2>3, <3>1
    <3>3. q[i] + old = p[i] + new
      <4> HIDE DEF old, new, n
      <4> QED
        BY <1>4, <2>1, <3>2
    <3> QED
      BY <2>1, <2>3, <3>3
  <2>4. CASE i > j
    <3>1. q[i - 1] + old = p[i - 1] + new /\ es[i] = ds[i]
      <4>1. i - 1 >= j /\ i # j
        BY <1>1, <2>4
      <4> QED
        BY <1>2, <1>9, <4>1
    <3>2. PICK a \in 0..9 : p[i] = a + p[i - 1] /\ q[i] = a + q[i - 1]
      BY <1>3, <1>7, <3>1
    <3>3. q[i] + old = p[i] + new
      <4>1. PICK x \in Nat : x = q[i - 1]
        BY <2>1
      <4>2. PICK y \in Nat : y = p[i - 1]
        BY <2>1
      <4>3. PICK b \in 0..9 : b = old
        BY <1>4
      <4>4. PICK c \in 0..9 : c = new
        BY <1>4
      <4> HIDE DEF old, new
      <4>5. x + b = y + c
        BY <3>1, <4>1, <4>2, <4>3, <4>4
      <4>6. (a + x) + b = (a + y) + c
        BY <4>5
      <4> QED
        BY <3>2, <4>1, <4>2, <4>3, <4>4, <4>6
    <3> QED
      BY <2>1, <2>4, <3>3
  <2> QED
    BY <2>2, <2>3, <2>4
<1> HIDE DEF T
<1>10. \A i \in 0..n : i \in T
  <2> HIDE DEF n
  <2> QED
    BY <1>1, <1>8, <1>9, Induction
<1> QED
  <2>1. n \in T /\ n >= j
    BY <1>1, <1>10
  <2> QED
    BY <2>1 DEF T

\* Two numbers that differ in one digit are not both valid.
LEMMA ChangeDetected ==
  ASSUME NEW ds \in Seq(0..9), NEW j \in 1..Len(ds), NEW d \in 0..9, d # ds[j],
         luhnValid(ds)
  PROVE  ~luhnValid([ds EXCEPT ![j] = d])
<1> DEFINE n == Len(ds)
           es == [ds EXCEPT ![j] = d]
<1>1. es \in Seq(0..9) /\ Len(es) = n /\ ds[j] \in 0..9 /\ n \in Nat
  OBVIOUS
<1>2. PICK p : IsSums(ds, p) /\ p[n] % 10 = 0
  BY ReferenceSums, LuhnValidReference
<1> HIDE DEF es
<1>3. PICK q : IsSums(es, q) /\ (LuhnReference(es) => q[n] % 10 = 0)
  BY <1>1, ReferenceSums
<1>4. PICK a \in 0..9, b \in 0..9 : a # b /\ q[n] + a = p[n] + b
  <2>1. q[n] + Adds(ds[j], Doubled(n, j)) = p[n] + Adds(d, Doubled(n, j))
    BY <1>2, <1>3, DigitChanged DEF es
  <2>2. Doubled(n, j) \in BOOLEAN
    BY DEF Doubled
  <2> QED
    BY <1>1, <2>1, <2>2, AddsType
<1>5. p[n] \in Nat /\ q[n] \in Nat
  BY <1>1, <1>2, <1>3 DEF IsSums
<1>6. q[n] % 10 # 0
  <2>1. \A x, y \in Nat : y + a = x + b /\ x % 10 = 0 => y % 10 # 0
    BY <1>4
  <2> HIDE DEF n
  <2> QED
    BY <1>2, <1>4, <1>5, <2>1
<1> QED
  BY <1>1, <1>3, <1>6, LuhnValidReference DEF es

\* Every number of a card's length has one check digit.
LEMMA OneCheckDigit ==
  ASSUME NEW ds \in Seq(0..9), Len(ds) \in 13..19
  PROVE  \E d \in 0..9 :
           {e \in 0..9 : luhnValid([ds EXCEPT ![Len(ds)] = e])} = {d}
<1> DEFINE n == Len(ds)
           with(e) == [ds EXCEPT ![n] = e]
<1>1. n \in 1..Len(ds) /\ n \in 13..19 /\ n \in Nat /\ ds[n] \in 0..9
  <2>1. n \in Nat /\ n \in 13..19
    BY LenProperties
  <2>2. n \in 1..n
    <3> HIDE DEF n
    <3> QED
      BY <2>1
  <2> QED
    BY <2>1, <2>2, ElementOfSeq
<1>2. \A e \in 0..9 : with(e) \in Seq(0..9) /\ Len(with(e)) = n /\ with(e)[n] = e
  BY <1>1
<1>3. PICK p : IsSums(ds, p)
  BY ReferenceSums
<1>4. p[n] \in Nat /\ ~Doubled(n, n)
  BY <1>1, <1>3 DEF IsSums, Doubled
<1>5. ASSUME NEW e \in 0..9
      PROVE  luhnValid(with(e)) <=> (p[n] + e - ds[n]) % 10 = 0
  <2> HIDE DEF with
  <2>0. PICK es \in Seq(0..9) : es = with(e) /\ Len(es) = n
    BY <1>2
  <2>1. PICK q : IsSums(with(e), q) /\ (LuhnReference(with(e)) <=> n \in 13..19 /\ q[n] % 10 = 0)
    <3>1. PICK q : IsSums(es, q) /\ (LuhnReference(es) <=> Len(es) \in 13..19 /\ q[Len(es)] % 10 = 0)
      BY ReferenceSums
    <3> QED
      BY <2>0, <3>1
  <2>2. q[n] + Adds(ds[n], Doubled(n, n)) = p[n] + Adds(e, Doubled(n, n))
    <3>1. IsSums([ds EXCEPT ![n] = e], q)
      BY <2>1 DEF with
    <3>2. n \in 1..Len(ds)
      BY <1>1
    <3> QED
      BY <1>3, <3>1, <3>2, DigitChanged
  <2>3. q[n] + ds[n] = p[n] + e
    BY <1>4, <2>2 DEF Adds
  <2>4. q[n] \in Nat
    <3>1. q \in [0..n -> Nat]
      BY <1>2, <2>1 DEF IsSums
    <3>2. n \in 0..n
      BY <1>1
    <3> QED
      BY <3>1, <3>2
  <2>5. q[n] = p[n] + e - ds[n]
    <3>1. \A x, y \in Nat, a, b \in 0..9 : x + a = y + b => x = y + b - a
      OBVIOUS
    <3>2. ds[n] \in 0..9 /\ p[n] \in Nat
      BY <1>1, <1>4
    <3>3. PICK x \in Nat : x = q[n]
      BY <2>4
    <3>4. PICK y \in Nat : y = p[n]
      BY <3>2
    <3>5. PICK a \in 0..9 : a = ds[n]
      BY <3>2
    <3>6. x + a = y + e
      BY <2>3, <3>3, <3>4, <3>5
    <3>7. x = y + e - a
      BY <3>6
    <3> QED
      BY <3>3, <3>4, <3>5, <3>7
  <2>6. luhnValid(with(e)) = LuhnReference(with(e))
    BY <1>2, LuhnValidReference
  <2> QED
    BY <1>1, <2>1, <2>5, <2>6
<1>6. \E d \in 0..9 : \A e \in 0..9 : (p[n] + e - ds[n]) % 10 = 0 <=> e = d
  <2>1. \A x \in Nat, c \in 0..9 : \E d \in 0..9 : \A e \in 0..9 : (x + e - c) % 10 = 0 <=> e = d
    <3> TAKE x \in Nat, c \in 0..9
    <3>1. PICK r \in 0..9, m \in Int : x - c = 10 * m + r
      <4>1. /\ (x - c) % 10 \in 0..9 /\ (x - c) \div 10 \in Int
            /\ x - c = 10 * ((x - c) \div 10) + ((x - c) % 10)
        <5>1. x - c \in Int
          OBVIOUS
        <5>2. \A y \in Int : y % 10 \in 0..9 /\ y \div 10 \in Int
          OBVIOUS
        <5>3. \A y \in Int : y = 10 * (y \div 10) + (y % 10)
          OBVIOUS
        <5> QED
          BY <5>1, <5>2, <5>3
      <4> QED
        BY <4>1
    <3> DEFINE d == IF r = 0 THEN 0 ELSE 10 - r
    <3>2. d \in 0..9
      OBVIOUS
    <3>3. \A e \in 0..9 : (x + e - c) % 10 = 0 <=> e = d
      BY <3>1
    <3> QED
      BY <3>2, <3>3
  <2> QED
    BY <1>1, <1>4, <2>1
<1>7. PICK d \in 0..9 : \A e \in 0..9 : luhnValid(with(e)) <=> e = d
  <2> HIDE DEF with, n
  <2> QED
    BY <1>5, <1>6
<1> QED
  BY <1>7

-----------------------------------------------------------------------------
(* Merged masks.                                                           *)

\* The sequence us is vs but for masks that went into the one before them;
\* place[p] is where the first p tokens of vs end in us.
IsPlace(us, vs, place) ==
  /\ place \in [0..Len(vs) -> 0..Len(us)]
  /\ place[0] = 0 /\ place[Len(vs)] = Len(us)
  /\ \A p \in 1..Len(vs) :
       /\ place[p] >= 1 /\ us[place[p]] = vs[p]
       /\ \/ place[p] = place[p - 1] + 1
          \/ place[p] = place[p - 1] /\ vs[p] = Mask

Merged(us, vs) == \E place : IsPlace(us, vs, place)

\* Nothing need be merged.
LEMMA MergedSame ==
  ASSUME NEW F, NEW us \in Seq(F)
  PROVE  Merged(us, us)
<1> DEFINE place == [p \in 0..Len(us) |-> p]
<1>1. Len(us) \in Nat
  OBVIOUS
<1>2. IsPlace(us, us, place)
  BY <1>1 DEF IsPlace
<1> QED
  BY <1>2 DEF Merged

\* One mask for some.
LEMMA MergedMasks ==
  ASSUME NEW F, NEW vs \in Seq(F), Len(vs) >= 1, \A p \in 1..Len(vs) : vs[p] = Mask
  PROVE  Merged(<<Mask>>, vs)
<1> DEFINE place == [p \in 0..Len(vs) |-> IF p = 0 THEN 0 ELSE 1]
<1>1. Len(vs) \in Nat /\ Len(<<Mask>>) = 1 /\ <<Mask>>[1] = Mask
  OBVIOUS
<1>2. place \in [0..Len(vs) -> 0..1]
  OBVIOUS
<1>3. place[0] = 0 /\ place[Len(vs)] = 1
  BY <1>1
<1>4. ASSUME NEW p \in 1..Len(vs)
      PROVE  /\ place[p] = 1
             /\ place[p] = place[p - 1] + 1 \/ place[p] = place[p - 1]
  BY <1>1
<1> HIDE DEF place
<1>5. IsPlace(<<Mask>>, vs, place)
  BY <1>1, <1>2, <1>3, <1>4 DEF IsPlace
<1> QED
  BY <1>5 DEF Merged

\* Pieces that are merged are merged behind each other.
LEMMA MergedJoin ==
  ASSUME NEW F, NEW us \in Seq(F), NEW ws \in Seq(F),
         NEW vs \in Seq(F), NEW xs \in Seq(F), Merged(us, vs), Merged(ws, xs)
  PROVE  Merged(us \o ws, vs \o xs)
<1>1. PICK f : IsPlace(us, vs, f)
  BY DEF Merged
<1>2. PICK g : IsPlace(ws, xs, g)
  BY DEF Merged
<1> DEFINE m == Len(us)
           n == Len(vs)
           h == [p \in 0..(n + Len(xs)) |-> IF p <= n THEN f[p] ELSE m + g[p - n]]
<1>3. /\ m \in Nat /\ n \in Nat /\ Len(ws) \in Nat /\ Len(xs) \in Nat
      /\ Len(us \o ws) = m + Len(ws) /\ Len(vs \o xs) = n + Len(xs)
      /\ \A k \in 1..m : (us \o ws)[k] = us[k]
      /\ \A k \in 1..Len(ws) : (us \o ws)[m + k] = ws[k]
      /\ \A k \in 1..n : (vs \o xs)[k] = vs[k]
      /\ \A k \in 1..Len(xs) : (vs \o xs)[n + k] = xs[k]
  BY Joined
<1>4. /\ f \in [0..n -> 0..m] /\ f[0] = 0 /\ f[n] = m
      /\ \A p \in 1..n : /\ f[p] >= 1 /\ us[f[p]] = vs[p]
                         /\ \/ f[p] = f[p - 1] + 1
                            \/ f[p] = f[p - 1] /\ vs[p] = Mask
  BY <1>1 DEF IsPlace
<1>5. /\ g \in [0..Len(xs) -> 0..Len(ws)] /\ g[0] = 0 /\ g[Len(xs)] = Len(ws)
      /\ \A p \in 1..Len(xs) : /\ g[p] >= 1 /\ ws[g[p]] = xs[p]
                               /\ \/ g[p] = g[p - 1] + 1
                                  \/ g[p] = g[p - 1] /\ xs[p] = Mask
  BY <1>2 DEF IsPlace
<1>6. /\ \A p \in 0..n : h[p] = f[p]
      /\ \A p \in 0..Len(xs) : h[n + p] = m + g[p]
  <2>1. \A p \in 0..n : h[p] = f[p]
    BY <1>3
  <2>2. ASSUME NEW p \in 0..Len(xs) PROVE h[n + p] = m + g[p]
    <3>1. n + p \in 0..(n + Len(xs)) /\ (n + p) - n = p /\ (n + p <= n <=> p = 0)
      BY <1>3
    <3>2. CASE p = 0
      BY <1>3, <1>4, <1>5, <2>1, <3>2
    <3>3. CASE p # 0
      BY <3>1, <3>3
    <3> QED
      BY <3>2, <3>3
  <2> QED
    BY <2>1, <2>2
<1>7. h \in [0..(n + Len(xs)) -> 0..(m + Len(ws))]
  <2>1. ASSUME NEW p \in 0..(n + Len(xs)) PROVE h[p] \in 0..(m + Len(ws))
    <3>1. CASE p <= n
      <4>1. f[p] \in 0..m
        BY <1>3, <1>4, <3>1
      <4> QED
        BY <1>3, <1>6, <3>1, <4>1
    <3>2. CASE ~ (p <= n)
      <4>1. p - n \in 0..Len(xs)
        BY <1>3, <3>2
      <4>2. g[p - n] \in 0..Len(ws)
        BY <1>5, <4>1
      <4> QED
        BY <1>3, <3>2, <4>2
    <3> QED
      BY <3>1, <3>2
  <2> HIDE DEF n, m
  <2> QED
    BY <2>1
<1>8. h[0] = 0 /\ h[n + Len(xs)] = m + Len(ws)
  <2>1. 0 \in 0..n /\ Len(xs) \in 0..Len(xs)
    BY <1>3
  <2> HIDE DEF h
  <2> QED
    BY <1>4, <1>5, <1>6, <2>1
<1>9. ASSUME NEW p \in 1..(n + Len(xs))
      PROVE  /\ h[p] >= 1 /\ (us \o ws)[h[p]] = (vs \o xs)[p]
             /\ \/ h[p] = h[p - 1] + 1
                \/ h[p] = h[p - 1] /\ (vs \o xs)[p] = Mask
  <2>1. CASE p <= n
    <3>1. p \in 1..n /\ p \in 0..n /\ p - 1 \in 0..n
      BY <1>3, <2>1
    <3>2. h[p] = f[p] /\ h[p - 1] = f[p - 1]
      BY <1>6, <3>1
    <3>3. f[p] \in 1..m
      BY <1>3, <1>4, <3>1
    <3> HIDE DEF h, m, n
    <3> QED
      BY <1>3, <1>4, <3>1, <3>2, <3>3
  <2>2. CASE ~ (p <= n)
    <3> HIDE DEF h, m, n
    <3>0. p - n \in 1..Len(xs)
      BY <1>3, <2>2
    <3>1. PICK q \in 1..Len(xs) : q = p - n
      BY <3>0
    <3>2. q \in 0..Len(xs) /\ q - 1 \in 0..Len(xs) /\ p = n + q /\ p - 1 = n + (q - 1)
      BY <1>3, <3>1
    <3>3. h[p] = m + g[q] /\ h[p - 1] = m + g[q - 1]
      BY <1>6, <3>2
    <3>4. g[q] \in 1..Len(ws) /\ g[q - 1] \in 0..Len(ws)
      <4>1. g[q] \in 0..Len(ws) /\ g[q - 1] \in 0..Len(ws) /\ g[q] >= 1
        BY <1>5, <3>2
      <4> QED
        BY <1>3, <4>1
    <3>5. (us \o ws)[h[p]] = ws[g[q]] /\ (vs \o xs)[p] = xs[q]
      BY <1>3, <3>2, <3>3, <3>4
    <3>6. h[p] >= 1
      BY <1>3, <3>3, <3>4
    <3>7. \/ g[q] = g[q - 1] + 1
          \/ g[q] = g[q - 1] /\ xs[q] = Mask
      BY <1>5
    <3>8. ws[g[q]] = xs[q]
      BY <1>5
    <3>9. g[q] = g[q - 1] + 1 => h[p] = h[p - 1] + 1
      BY <1>3, <3>3, <3>4
    <3> QED
      BY <3>3, <3>5, <3>6, <3>7, <3>8, <3>9
  <2> QED
    BY <2>1, <2>2
<1> HIDE DEF h, m, n
<1>10. IsPlace(us \o ws, vs \o xs, h)
  BY <1>3, <1>7, <1>8, <1>9 DEF IsPlace
<1> QED
  BY <1>10 DEF Merged

\* What is merged twice is merged.
LEMMA MergedTwice ==
  ASSUME NEW F, NEW us \in Seq(F), NEW vs \in Seq(F), NEW ws \in Seq(F),
         Merged(us, vs), Merged(vs, ws)
  PROVE  Merged(us, ws)
<1>1. PICK f : IsPlace(us, vs, f)
  BY DEF Merged
<1>2. PICK g : IsPlace(vs, ws, g)
  BY DEF Merged
<1> DEFINE h == [p \in 0..Len(ws) |-> f[g[p]]]
<1>3. Len(us) \in Nat /\ Len(vs) \in Nat /\ Len(ws) \in Nat
  OBVIOUS
<1>4. h \in [0..Len(ws) -> 0..Len(us)]
  BY <1>1, <1>2 DEF IsPlace
<1>5. h[0] = 0 /\ h[Len(ws)] = Len(us)
  BY <1>1, <1>2, <1>3 DEF IsPlace
<1>6. ASSUME NEW p \in 1..Len(ws)
      PROVE  /\ h[p] >= 1 /\ us[h[p]] = ws[p]
             /\ \/ h[p] = h[p - 1] + 1
                \/ h[p] = h[p - 1] /\ ws[p] = Mask
  <2>1. p \in 0..Len(ws) /\ p - 1 \in 0..Len(ws) /\ h[p] = f[g[p]] /\ h[p - 1] = f[g[p - 1]]
    BY <1>3
  <2>2. g[p] \in 1..Len(vs) /\ g[p - 1] \in 0..Len(vs) /\ vs[g[p]] = ws[p]
    <3>1. /\ g[p] \in 0..Len(vs) /\ g[p - 1] \in 0..Len(vs)
          /\ g[p] >= 1 /\ vs[g[p]] = ws[p]
      BY <1>2, <2>1 DEF IsPlace
    <3> QED
      BY <1>3, <3>1
  <2>3. \/ g[p] = g[p - 1] + 1
        \/ g[p] = g[p - 1] /\ ws[p] = Mask
    BY <1>2 DEF IsPlace
  <2>4. /\ f[g[p]] >= 1 /\ us[f[g[p]]] = vs[g[p]]
        /\ \/ f[g[p]] = f[g[p] - 1] + 1
           \/ f[g[p]] = f[g[p] - 1] /\ vs[g[p]] = Mask
    BY <1>1, <2>2 DEF IsPlace
  <2>5. CASE g[p] = g[p - 1] + 1
    <3>1. g[p] - 1 = g[p - 1]
      BY <2>2, <2>5
    <3> HIDE DEF h
    <3> QED
      BY <2>1, <2>2, <2>4, <3>1
  <2>6. CASE g[p] = g[p - 1] /\ ws[p] = Mask
    <3> HIDE DEF h
    <3> QED
      BY <2>1, <2>2, <2>4, <2>6
  <2> QED
    BY <2>3, <2>5, <2>6
<1> HIDE DEF h
<1>7. IsPlace(us, ws, h)
  BY <1>3, <1>4, <1>5, <1>6 DEF IsPlace
<1> QED
  BY <1>7 DEF Merged

\* What OneMask has copied of the first i tokens is s[i].
OneMasks(ts, F, s) ==
  /\ s \in [0..Len(ts) -> Seq(F)]
  /\ s[0] = <<>> /\ s[Len(ts)] = OneMask(ts)
  /\ \A i \in 1..Len(ts) :
       s[i] = IF i > 1 /\ ts[i] = Mask /\ ts[i - 1] = Mask THEN s[i - 1]
              ELSE Append(s[i - 1], ts[i])

\* The scan of OneMask, step by step.
LEMMA OneMaskIs ==
  ASSUME NEW F, NEW ts \in Seq(F)
  PROVE  \E s : OneMasks(ts, F, s)
<1> DEFINE second(i) == i > 1 /\ ts[i] = Mask /\ ts[i - 1] = Mask
           length == [i \in DOMAIN ts |-> IF second(i) THEN 1 ELSE 0]
           by == [i \in DOMAIN ts |-> <<>>]
<1>1. Len(ts) \in Nat /\ DOMAIN ts = 1..Len(ts)
  OBVIOUS
<1>2. /\ length \in [1..Len(ts) -> Nat]
      /\ \A i \in 1..Len(ts) : /\ length[i] # 0 <=> second(i)
                               /\ length[i] # 0 => length[i] = 1
                               /\ by[i] = <<>>
                               /\ ts[i] \in F
  <2> HIDE DEF second
  <2> QED
    BY <1>1
<1>3. OneMask(ts) = Replaced(ts, length, by)
  BY DEF OneMask
<1> HIDE DEF length, by
<1>4. \A i \in 1..Len(ts) : length[i] # 0 => by[i] \in Seq(F)
  <2>1. <<>> \in Seq(F)
    OBVIOUS
  <2> QED
    BY <1>2, <2>1
<1>5. PICK r \in [0..Len(ts) -> [out : Seq(F), next : Nat]] : Scans(ts, length, by, r)
  BY <1>2, <1>4, Scan
<1> HIDE DEF second
<1> DEFINE T == {i \in 0..Len(ts) : r[i].next = i + 1}
           s == [i \in 0..Len(ts) |-> r[i].out]
<1>6. 0 \in T
  BY <1>1, <1>5 DEF Scans
<1>7. ASSUME NEW i \in 1..Len(ts), r[i - 1].next = i
      PROVE  /\ r[i].next = i + 1
             /\ r[i].out = IF second(i) THEN r[i - 1].out ELSE Append(r[i - 1].out, ts[i])
  <2>1. ~ (i < r[i - 1].next)
    BY <1>7
  <2>2. r[i - 1].out \in Seq(F)
    BY <1>1, <1>5
  <2>3. CASE second(i)
    <3>1. r[i] = [out |-> r[i - 1].out \o <<>>, next |-> i + 1]
      BY <1>2, <1>5, <2>1, <2>3 DEF Scans
    <3> QED
      BY <2>2, <2>3, <3>1
  <2>4. CASE ~second(i)
    <3>1. r[i] = [out |-> Append(r[i - 1].out, ts[i]), next |-> i + 1]
      BY <1>2, <1>5, <2>1, <2>4 DEF Scans
    <3> QED
      BY <2>4, <3>1
  <2> QED
    BY <2>3, <2>4
<1>8. ASSUME NEW i \in 1..Len(ts), i - 1 \in T PROVE i \in T
  BY <1>7, <1>8
<1>9. \A i \in 0..Len(ts) : i \in T
  <2> HIDE DEF T
  <2> QED
    BY <1>1, <1>6, <1>8, Induction
<1>10. \A i \in 1..Len(ts) :
         s[i] = IF second(i) THEN s[i - 1] ELSE Append(s[i - 1], ts[i])
  <2> TAKE i \in 1..Len(ts)
  <2>1. i - 1 \in 0..Len(ts) /\ i \in 0..Len(ts)
    BY <1>1
  <2>2. r[i - 1].next = i
    BY <1>9, <2>1
  <2> QED
    BY <1>7, <2>1, <2>2
<1>11. /\ s \in [0..Len(ts) -> Seq(F)] /\ s[0] = <<>> /\ s[Len(ts)] = OneMask(ts)
  BY <1>1, <1>3, <1>5 DEF Scans
<1> HIDE DEF s
<1>12. OneMasks(ts, F, s)
  BY <1>10, <1>11 DEF OneMasks, second
<1> QED
  BY <1>12

\* Merging masks makes no difference if adjacent ones count as one.
LEMMA MergedOneMask ==
  ASSUME NEW F, NEW us \in Seq(F), NEW vs \in Seq(F), Merged(us, vs)
  PROVE  OneMask(us) = OneMask(vs)
<1>1. PICK f : IsPlace(us, vs, f)
  BY DEF Merged
<1>2. PICK s : OneMasks(us, F, s)
  BY OneMaskIs
<1>3. PICK r : OneMasks(vs, F, r)
  BY OneMaskIs
<1> DEFINE T == {p \in 0..Len(vs) : r[p] = s[f[p]]}
<1>4. Len(us) \in Nat /\ Len(vs) \in Nat
  OBVIOUS
<1>5. 0 \in T
  BY <1>1, <1>2, <1>3, <1>4 DEF IsPlace, OneMasks
<1>6. ASSUME NEW p \in 1..Len(vs), p - 1 \in T PROVE p \in T
  <2>1. p \in 0..Len(vs) /\ p - 1 \in 0..Len(vs) /\ r[p - 1] = s[f[p - 1]]
    BY <1>4, <1>6
  <2>2. f[p] \in 1..Len(us) /\ f[p - 1] \in 0..Len(us) /\ us[f[p]] = vs[p]
    BY <1>1, <1>4, <2>1 DEF IsPlace
  <2>3. r[p] = IF p > 1 /\ vs[p] = Mask /\ vs[p - 1] = Mask THEN r[p - 1]
               ELSE Append(r[p - 1], vs[p])
    BY <1>3 DEF OneMasks
  <2>4. s[f[p]] = IF f[p] > 1 /\ us[f[p]] = Mask /\ us[f[p] - 1] = Mask THEN s[f[p] - 1]
                  ELSE Append(s[f[p] - 1], us[f[p]])
    BY <1>2, <2>2 DEF OneMasks
  <2>5. p > 1 => f[p - 1] >= 1 /\ us[f[p - 1]] = vs[p - 1]
    <3>1. p > 1 => p - 1 \in 1..Len(vs)
      OBVIOUS
    <3> QED
      BY <1>1, <3>1 DEF IsPlace
  <2>6. p = 1 => f[p - 1] = 0
    BY <1>1 DEF IsPlace
  <2>7. CASE f[p] = f[p - 1] + 1
    <3>1. f[p] - 1 = f[p - 1] /\ (f[p] > 1 <=> f[p - 1] >= 1)
      BY <2>2, <2>7
    <3>2. f[p] > 1 <=> p > 1
      BY <2>5, <2>6, <3>1
    <3>3. r[p] = s[f[p]]
      BY <2>1, <2>2, <2>3, <2>4, <2>5, <3>1, <3>2
    <3> QED
      BY <2>1, <3>3
  <2>8. CASE f[p] = f[p - 1] /\ vs[p] = Mask
    <3>1. p > 1
      BY <2>2, <2>6, <2>8
    <3>2. vs[p - 1] = Mask
      BY <2>2, <2>5, <2>8, <3>1
    <3>3. r[p] = s[f[p]]
      BY <2>1, <2>3, <2>8, <3>1, <3>2
    <3> QED
      BY <2>1, <3>3
  <2> QED
    BY <1>1, <2>7, <2>8 DEF IsPlace
<1>7. Len(vs) \in T
  <2> HIDE DEF T
  <2>1. \A p \in 0..Len(vs) : p \in T
    BY <1>4, <1>5, <1>6, Induction
  <2> QED
    BY <1>4, <2>1
<1> QED
  BY <1>1, <1>2, <1>3, <1>7 DEF IsPlace, OneMasks

-----------------------------------------------------------------------------
(* Keys and their values.                                                  *)

\* The value of the key at k is in quotes and ends at e.
Quoted(ts, k, e) ==
  /\ IsQuote(ts[k + 1]) /\ ts[e] = ts[k + 1]
  /\ \A j \in (k + 2)..(e - 1) : ~IsQuote(ts[j]) /\ ~IsKey(ts[j]) /\ ts[j] # NewLine

\* Every key has its value behind it, a quoted one has something in it.
Assigned(ts) ==
  \A k \in 1..Len(ts) : IsKey(ts[k]) =>
    /\ k < Len(ts) /\ ~IsKey(ts[k + 1]) /\ ts[k + 1] # NewLine
    /\ IsQuote(ts[k + 1]) => \E e \in (k + 3)..Len(ts) : Quoted(ts, k, e)

\* The token at i is to be masked for the key before it.
ValueOfKey(ts, i) == \E k \in 1..(i - 1) : InValueOf(ts, k, i) /\ ~Echoes(ts, k)

\* The tokens that assignments are made of are no others.
LEMMA Apart ==
  /\ ~IsKey(Mask) /\ ~IsQuote(Mask) /\ Mask # NewLine /\ Mask # Echo
  /\ ~IsKey(Link("masked")) /\ ~IsQuote(Link("masked"))
  /\ Link("masked") # NewLine /\ Link("masked") # Echo /\ Link("masked") # Mask
  /\ ~IsKey(Echo) /\ ~IsQuote(Echo) /\ Echo # NewLine
  /\ ~IsKey(NewLine) /\ ~IsQuote(NewLine)
  /\ \A t : IsKey(t) => ~IsQuote(t)
  /\ \A t : IsDigits(t) => ~IsQuote(t) /\ ~IsKey(t) /\ t # NewLine /\ t # Echo /\ t # Mask
BY DEF IsKey, IsQuote, IsDigits, Mask, NewLine, Echo, Word, Link

\* What is behind the key is its value, if it is not in quotes.
LEMMA BareValue ==
  ASSUME NEW F, NEW ts \in Seq(F), NEW k \in 1..Len(ts), k < Len(ts),
         IsKey(ts[k]), Sensitive(ts[k]), ~IsQuote(ts[k + 1])
  PROVE  /\ \A p \in 1..Len(ts) : InValueOf(ts, k, p) <=> p = k + 1
         /\ Echoes(ts, k) <=> ts[k + 1] = Echo
BY DEF InValueOf, Echoes

\* What is between the quotes is the value, if it is.
LEMMA QuotedValue ==
  ASSUME NEW F, NEW ts \in Seq(F), NEW k \in 1..Len(ts), k < Len(ts),
         IsKey(ts[k]), Sensitive(ts[k]), NEW e \in (k + 3)..Len(ts), Quoted(ts, k, e)
  PROVE  /\ \A p \in 1..Len(ts) : InValueOf(ts, k, p) <=> k + 2 <= p /\ p < e
         /\ Echoes(ts, k) <=> ts[k].form = "json" /\ ts[k + 2] = Echo /\ e = k + 3
<1>1. Len(ts) \in Nat /\ IsQuote(ts[k + 1]) /\ ts[e] = ts[k + 1]
  BY DEF Quoted
<1>2. \A j \in (k + 2)..(e - 1) : ts[j] # ts[k + 1]
  BY <1>1 DEF Quoted
<1>3. ASSUME NEW p \in 1..Len(ts)
      PROVE  InValueOf(ts, k, p) <=> k + 2 <= p /\ p < e
  <2>1. InValueOf(ts, k, p) <=> p > k + 1 /\ \A j \in (k + 2)..p : ts[j] # ts[k + 1]
    BY <1>1 DEF InValueOf
  <2>2. CASE p < e
    <3>1. \A j \in (k + 2)..p : j \in (k + 2)..(e - 1)
      BY <1>1, <2>2
    <3> QED
      BY <1>1, <1>2, <2>1, <2>2, <3>1
  <2>3. CASE ~ (p < e)
    <3>1. e \in (k + 2)..p
      BY <1>1, <2>3
    <3> QED
      BY <1>1, <2>1, <2>3, <3>1
  <2> QED
    BY <2>2, <2>3
<1>4. Echoes(ts, k) <=> ts[k].form = "json" /\ ts[k + 2] = Echo /\ e = k + 3
  <2>1. ts[k + 1] # Echo
    BY <1>1, Apart
  <2>2. Echoes(ts, k) <=> ts[k].form = "json" /\ ts[k + 2] = Echo /\ ts[k + 3] = ts[k + 1]
    BY <1>1, <2>1 DEF Echoes
  <2>3. ts[k + 3] = ts[k + 1] => e = k + 3
    <3>1. e # k + 3 => k + 3 \in (k + 2)..(e - 1)
      BY <1>1
    <3> QED
      BY <1>2, <3>1
  <2> QED
    BY <1>1, <2>2, <2>3
<1> QED
  BY <1>3, <1>4

-----------------------------------------------------------------------------
(* Covered tokens.                                                         *)

\* What makes up the assignment of the key at k is in vs as it is in ts.
KeyStands(ts, vs, k) ==
  /\ vs[k] = ts[k]
  /\ ts[k + 1] = Echo \/ IsQuote(ts[k + 1]) => vs[k + 1] = ts[k + 1]
  /\ \A e \in (k + 3)..Len(ts) : Quoted(ts, k, e) =>
       vs[e] = ts[e] /\ (ts[k + 2] = Echo => vs[k + 2] = Echo)

\* Some tokens of ts are covered in vs, a key only with all of its value.
Covers(ts, vs) ==
  /\ Len(vs) = Len(ts)
  /\ \A p \in 1..Len(ts) : vs[p] \in {ts[p], Mask, Link("masked")}
  /\ \A k \in 1..Len(ts) : IsKey(ts[k]) =>
       \/ KeyStands(ts, vs, k)
       \/ vs[k] = Mask /\ \A p \in 1..Len(ts) : InValueOf(ts, k, p) => vs[p] = Mask

\* A key that stands is behind the same things.
LEMMA KeyCovered ==
  ASSUME NEW F, NEW ts \in Seq(F), NEW vs \in Seq(F), Assigned(ts), Covers(ts, vs),
         NEW k \in 1..Len(ts), IsKey(ts[k]), KeyStands(ts, vs, k)
  PROVE  /\ k < Len(ts)
         /\ ~IsKey(vs[k + 1]) /\ vs[k + 1] # NewLine
         /\ IsQuote(vs[k + 1]) <=> IsQuote(ts[k + 1])
         /\ IsQuote(ts[k + 1]) =>
              \E e \in (k + 3)..Len(ts) : Quoted(ts, k, e) /\ Quoted(vs, k, e)
         /\ vs[k + 1] = Echo <=> ts[k + 1] = Echo
         /\ IsQuote(ts[k + 1]) => (vs[k + 2] = Echo <=> ts[k + 2] = Echo)
<1>1. Len(ts) \in Nat /\ k < Len(ts) /\ ~IsKey(ts[k + 1]) /\ ts[k + 1] # NewLine
  BY DEF Assigned
<1>2. k + 1 \in 1..Len(ts)
  BY <1>1
<1>3. vs[k + 1] \in {ts[k + 1], Mask, Link("masked")}
  BY <1>2 DEF Covers
<1>4. /\ ~IsKey(vs[k + 1]) /\ vs[k + 1] # NewLine
      /\ IsQuote(vs[k + 1]) <=> IsQuote(ts[k + 1])
      /\ vs[k + 1] = Echo <=> ts[k + 1] = Echo
  BY <1>1, <1>3, Apart DEF KeyStands
<1>5. ASSUME IsQuote(ts[k + 1])
      PROVE  /\ \E e \in (k + 3)..Len(ts) : Quoted(ts, k, e) /\ Quoted(vs, k, e)
             /\ vs[k + 2] = Echo <=> ts[k + 2] = Echo
  <2>1. PICK e \in (k + 3)..Len(ts) : Quoted(ts, k, e)
    BY <1>5 DEF Assigned
  <2>2. vs[e] = ts[e] /\ (ts[k + 2] = Echo => vs[k + 2] = Echo)
    BY <2>1 DEF KeyStands
  <2>3. vs[k + 1] = ts[k + 1]
    BY <1>5 DEF KeyStands
  <2>4. ASSUME NEW j \in (k + 2)..(e - 1)
        PROVE  ~IsQuote(vs[j]) /\ ~IsKey(vs[j]) /\ vs[j] # NewLine
    <3>1. j \in 1..Len(ts)
      BY <1>1
    <3>2. vs[j] \in {ts[j], Mask, Link("masked")}
      BY <3>1 DEF Covers
    <3>3. ~IsQuote(ts[j]) /\ ~IsKey(ts[j]) /\ ts[j] # NewLine
      BY <2>1 DEF Quoted
    <3> QED
      BY <3>2, <3>3, Apart
  <2>5. Quoted(vs, k, e)
    BY <2>1, <2>2, <2>3, <2>4 DEF Quoted
  <2>6. k + 2 \in 1..Len(ts)
    BY <1>1
  <2>7. vs[k + 2] \in {ts[k + 2], Mask, Link("masked")}
    BY <2>6 DEF Covers
  <2> QED
    BY <2>1, <2>2, <2>5, <2>7, Apart
<1> QED
  BY <1>1, <1>4, <1>5

\* What is not covered stays what it is to the keys.
LEMMA Covering ==
  ASSUME NEW F, NEW ts \in Seq(F), NEW vs \in Seq(F), Assigned(ts), Covers(ts, vs)
  PROVE  /\ Assigned(vs)
         /\ \A p \in 1..Len(ts) : vs[p] = Mask \/ (ValueOfKey(vs, p) <=> ValueOfKey(ts, p))
         /\ \A k \in 1..Len(ts) : vs[k] = ts[k] => (Echoes(vs, k) <=> Echoes(ts, k))
<1>1. Len(vs) = Len(ts) /\ Len(ts) \in Nat
  BY DEF Covers
<1>2. \A k \in 1..Len(ts) : IsKey(vs[k]) => IsKey(ts[k]) /\ KeyStands(ts, vs, k)
  BY Apart DEF Covers
<1>3. Assigned(vs)
  <2> SUFFICES ASSUME NEW k \in 1..Len(ts), IsKey(vs[k])
               PROVE  /\ k < Len(ts) /\ ~IsKey(vs[k + 1]) /\ vs[k + 1] # NewLine
                      /\ IsQuote(vs[k + 1]) => \E e \in (k + 3)..Len(ts) : Quoted(vs, k, e)
    BY <1>1 DEF Assigned
  <2> QED
    BY <1>2, KeyCovered
<1>4. ASSUME NEW k \in 1..Len(ts), IsKey(ts[k]), Sensitive(ts[k]), KeyStands(ts, vs, k)
      PROVE  /\ Echoes(vs, k) <=> Echoes(ts, k)
             /\ \A p \in 1..Len(ts) : InValueOf(vs, k, p) <=> InValueOf(ts, k, p)
  <2>1. vs[k] = ts[k]
    BY <1>4 DEF KeyStands
  <2>2. k < Len(ts)
    BY <1>4, KeyCovered
  <2>3. CASE ~IsQuote(ts[k + 1])
    <3>1. ~IsQuote(vs[k + 1]) /\ (vs[k + 1] = Echo <=> ts[k + 1] = Echo)
      BY <1>4, <2>3, KeyCovered
    <3>2. /\ \A p \in 1..Len(ts) : InValueOf(ts, k, p) <=> p = k + 1
          /\ Echoes(ts, k) <=> ts[k + 1] = Echo
      BY <1>4, <2>2, <2>3, BareValue
    <3>3. /\ \A p \in 1..Len(ts) : InValueOf(vs, k, p) <=> p = k + 1
          /\ Echoes(vs, k) <=> vs[k + 1] = Echo
      BY <1>1, <1>4, <2>1, <2>2, <3>1, BareValue
    <3> QED
      BY <3>1, <3>2, <3>3
  <2>4. CASE IsQuote(ts[k + 1])
    <3>1. vs[k + 2] = Echo <=> ts[k + 2] = Echo
      BY <1>4, <2>4, KeyCovered
    <3>2. PICK e \in (k + 3)..Len(ts) : Quoted(ts, k, e) /\ Quoted(vs, k, e)
      BY <1>4, <2>4, KeyCovered
    <3>3. /\ \A p \in 1..Len(ts) : InValueOf(ts, k, p) <=> k + 2 <= p /\ p < e
          /\ Echoes(ts, k) <=> ts[k].form = "json" /\ ts[k + 2] = Echo /\ e = k + 3
      BY <1>4, <2>2, <3>2, QuotedValue
    <3>4. /\ \A p \in 1..Len(ts) : InValueOf(vs, k, p) <=> k + 2 <= p /\ p < e
          /\ Echoes(vs, k) <=> vs[k].form = "json" /\ vs[k + 2] = Echo /\ e = k + 3
      BY <1>1, <1>4, <2>1, <2>2, <3>2, QuotedValue
    <3> QED
      BY <2>1, <3>1, <3>3, <3>4
  <2> QED
    BY <2>3, <2>4
<1>5. ASSUME NEW p \in 1..Len(ts), vs[p] # Mask
      PROVE  ValueOfKey(vs, p) <=> ValueOfKey(ts, p)
  <2>1. ASSUME ValueOfKey(vs, p) PROVE ValueOfKey(ts, p)
    <3>1. PICK k \in 1..(p - 1) : InValueOf(vs, k, p) /\ ~Echoes(vs, k)
      BY <2>1 DEF ValueOfKey
    <3>2. k \in 1..Len(ts) /\ IsKey(vs[k]) /\ Sensitive(vs[k])
      BY <3>1 DEF InValueOf
    <3>3. IsKey(ts[k]) /\ KeyStands(ts, vs, k) /\ Sensitive(ts[k])
      BY <1>2, <3>2 DEF KeyStands
    <3>4. InValueOf(ts, k, p) /\ ~Echoes(ts, k)
      BY <1>4, <3>1, <3>2, <3>3
    <3> QED
      BY <3>4 DEF ValueOfKey
  <2>2. ASSUME ValueOfKey(ts, p) PROVE ValueOfKey(vs, p)
    <3>1. PICK k \in 1..(p - 1) : InValueOf(ts, k, p) /\ ~Echoes(ts, k)
      BY <2>2 DEF ValueOfKey
    <3>2. k \in 1..Len(ts) /\ IsKey(ts[k]) /\ Sensitive(ts[k])
      BY <3>1 DEF InValueOf
    <3>3. KeyStands(ts, vs, k)
      BY <1>5, <3>1, <3>2 DEF Covers
    <3>4. InValueOf(vs, k, p) /\ ~Echoes(vs, k)
      BY <1>4, <3>1, <3>2, <3>3
    <3> QED
      BY <3>4 DEF ValueOfKey
  <2> QED
    BY <2>1, <2>2
<1>6. ASSUME NEW k \in 1..Len(ts), vs[k] = ts[k]
      PROVE  Echoes(vs, k) <=> Echoes(ts, k)
  <2>1. CASE IsKey(ts[k]) /\ Sensitive(ts[k])
    <3>1. KeyStands(ts, vs, k)
      BY <1>2, <1>6, <2>1
    <3> QED
      BY <1>4, <2>1, <3>1
  <2>2. CASE ~ (IsKey(ts[k]) /\ Sensitive(ts[k]))
    BY <1>6, <2>2 DEF Echoes
  <2> QED
    BY <2>1, <2>2
<1> QED
  BY <1>3, <1>5, <1>6

-----------------------------------------------------------------------------
(* Keys and merged masks.                                                  *)

\* Places are in the order of the tokens, and only masks share one.
InOrder(us, vs, f) ==
  /\ \A p \in 1..Len(vs) : f[p] \in 1..Len(us) /\ us[f[p]] = vs[p]
  /\ \A q \in 0..Len(vs) : \A p \in 0..q : f[p] <= f[q]
  /\ \A q \in 1..Len(vs) : vs[q] # Mask =>
       /\ f[q] = f[q - 1] + 1
       /\ \A p \in 0..(q - 1) : f[p] < f[q]
       /\ q < Len(vs) => f[q + 1] = f[q] + 1
  /\ \A x \in 1..Len(us) : \E p \in 1..Len(vs) : f[p] = x

\* Places have all that order.
LEMMA PlaceIs ==
  ASSUME NEW F, NEW us \in Seq(F), NEW vs \in Seq(F), NEW f, IsPlace(us, vs, f)
  PROVE  InOrder(us, vs, f)
<1>1. Len(us) \in Nat /\ Len(vs) \in Nat
  OBVIOUS
<1>2. /\ f \in [0..Len(vs) -> 0..Len(us)] /\ f[0] = 0 /\ f[Len(vs)] = Len(us)
      /\ \A p \in 1..Len(vs) :
           /\ f[p] >= 1 /\ us[f[p]] = vs[p]
           /\ \/ f[p] = f[p - 1] + 1
              \/ f[p] = f[p - 1] /\ vs[p] = Mask
  BY DEF IsPlace
<1>3. \A p \in 0..Len(vs) : f[p] \in 0..Len(us) /\ f[p] \in Nat
  BY <1>1, <1>2
<1>4. \A p \in 1..Len(vs) : f[p] \in 1..Len(us) /\ us[f[p]] = vs[p]
  BY <1>1, <1>2, <1>3
<1>5. \A q \in 0..Len(vs) : \A p \in 0..q : f[p] <= f[q]
  <2> DEFINE T == {q \in 0..Len(vs) : \A p \in 0..q : f[p] <= f[q]}
  <2>1. 0 \in T
    BY <1>1, <1>2
  <2>2. ASSUME NEW q \in 1..Len(vs), q - 1 \in T PROVE q \in T
    <3>1. q \in 0..Len(vs) /\ q - 1 \in 0..Len(vs)
      BY <1>1
    <3>2. f[q - 1] <= f[q]
      <4>1. f[q - 1] \in Nat /\ f[q] \in Nat
        BY <1>3, <3>1
      <4>2. f[q] = f[q - 1] + 1 \/ f[q] = f[q - 1]
        BY <1>2
      <4> QED
        BY <4>1, <4>2
    <3>3. ASSUME NEW p \in 0..q PROVE f[p] <= f[q]
      <4>1. p = q \/ p \in 0..(q - 1)
        BY <1>1
      <4>2. p \in 0..Len(vs)
        BY <1>1
      <4>3. p \in 0..(q - 1) => f[p] <= f[q - 1]
        BY <2>2
      <4> QED
        BY <1>3, <3>1, <3>2, <4>1, <4>2, <4>3
    <3> QED
      BY <3>1, <3>3
  <2> HIDE DEF T
  <2>3. \A q \in 0..Len(vs) : q \in T
    BY <1>1, <2>1, <2>2, Induction
  <2> QED
    BY <2>3 DEF T
<1>6. ASSUME NEW q \in 1..Len(vs), vs[q] # Mask
      PROVE  /\ f[q] = f[q - 1] + 1
             /\ \A p \in 0..(q - 1) : f[p] < f[q]
             /\ q < Len(vs) => f[q + 1] = f[q] + 1
  <2>1. f[q] = f[q - 1] + 1
    BY <1>2, <1>6
  <2>2. ASSUME NEW p \in 0..(q - 1) PROVE f[p] < f[q]
    <3>1. q - 1 \in 0..Len(vs) /\ p \in 0..Len(vs)
      BY <1>1
    <3>2. f[p] <= f[q - 1]
      BY <1>5, <3>1
    <3> QED
      BY <1>3, <2>1, <3>1, <3>2
  <2>3. ASSUME q < Len(vs) PROVE f[q + 1] = f[q] + 1
    <3>1. q + 1 \in 1..Len(vs) /\ (q + 1) - 1 = q
      BY <1>1, <2>3
    <3>2. \/ f[q + 1] = f[q] + 1
          \/ f[q + 1] = f[q] /\ vs[q + 1] = Mask
      BY <1>2, <3>1
    <3>3. us[f[q]] = vs[q] /\ us[f[q + 1]] = vs[q + 1]
      BY <1>4, <3>1
    <3> QED
      BY <1>6, <3>2, <3>3
  <2> QED
    BY <2>1, <2>2, <2>3
<1>7. ASSUME NEW x \in 1..Len(us) PROVE \E p \in 1..Len(vs) : f[p] = x
  <2> DEFINE T == {q \in 0..Len(vs) : x <= f[q] => \E p \in 1..q : f[p] = x}
  <2>1. 0 \in T
    BY <1>1, <1>2
  <2>2. ASSUME NEW q \in 1..Len(vs), q - 1 \in T PROVE q \in T
    <3>1. q \in 0..Len(vs) /\ q - 1 \in 0..Len(vs) /\ q \in 1..q
      BY <1>1
    <3>2. SUFFICES ASSUME x <= f[q] PROVE \E p \in 1..q : f[p] = x
      BY <3>1
    <3>3. CASE x <= f[q - 1]
      <4>1. PICK p \in 1..(q - 1) : f[p] = x
        BY <2>2, <3>3
      <4> QED
        BY <4>1
    <3>4. CASE ~ (x <= f[q - 1])
      <4>2. f[q - 1] \in Nat /\ f[q] \in Nat
        BY <1>3, <3>1
      <4>3. f[q] = f[q - 1] + 1 \/ f[q] = f[q - 1]
        BY <1>2
      <4>1. f[q] = x
        BY <3>2, <3>4, <4>2, <4>3
      <4> QED
        BY <3>1, <4>1
    <3> QED
      BY <3>3, <3>4
  <2> HIDE DEF T
  <2>3. \A q \in 0..Len(vs) : q \in T
    BY <1>1, <2>1, <2>2, Induction
  <2>4. Len(vs) \in T /\ x <= f[Len(vs)]
    BY <1>1, <1>2, <2>3
  <2> QED
    BY <2>4 DEF T
<1> QED
  BY <1>4, <1>5, <1>6, <1>7 DEF InOrder

\* The value of a key of vs, in us.
LEMMA KeyMerged ==
  ASSUME NEW F, NEW us \in Seq(F), NEW vs \in Seq(F), NEW f, IsPlace(us, vs, f),
         Assigned(vs), NEW k \in 1..Len(vs), IsKey(vs[k])
  PROVE  /\ f[k] < Len(us) /\ us[f[k]] = vs[k] /\ f[k] + 1 = f[k + 1] /\ k < Len(vs)
         /\ us[f[k] + 1] = vs[k + 1] /\ ~IsKey(vs[k + 1]) /\ vs[k + 1] # NewLine
         /\ IsQuote(vs[k + 1]) =>
              \E e \in (k + 3)..Len(vs) :
                /\ Quoted(vs, k, e) /\ f[e] \in (f[k] + 3)..Len(us) /\ Quoted(us, f[k], f[e])
                /\ f[k] + 2 = f[k + 2] /\ us[f[k] + 2] = vs[k + 2]
                /\ vs[k + 2] = Echo => (f[e] = f[k] + 3 <=> e = k + 3)
<1>1. /\ \A p \in 1..Len(vs) : f[p] \in 1..Len(us) /\ us[f[p]] = vs[p]
      /\ \A q \in 0..Len(vs) : \A p \in 0..q : f[p] <= f[q]
      /\ \A q \in 1..Len(vs) : vs[q] # Mask =>
           /\ f[q] = f[q - 1] + 1
           /\ \A p \in 0..(q - 1) : f[p] < f[q]
           /\ q < Len(vs) => f[q + 1] = f[q] + 1
      /\ \A x \in 1..Len(us) : \E p \in 1..Len(vs) : f[p] = x
  <2>1. InOrder(us, vs, f)
    BY PlaceIs
  <2> QED
    BY <2>1 DEF InOrder
<1>2. Len(us) \in Nat /\ Len(vs) \in Nat
  OBVIOUS
<1>3. k < Len(vs) /\ ~IsKey(vs[k + 1]) /\ vs[k + 1] # NewLine /\ k + 1 \in 1..Len(vs)
  BY <1>2 DEF Assigned
<1>4. vs[k] # Mask
  BY Apart
<1>5. us[f[k]] = vs[k] /\ f[k + 1] = f[k] + 1 /\ us[f[k + 1]] = vs[k + 1]
  BY <1>1, <1>3, <1>4
<1>6. f[k] \in 1..Len(us) /\ f[k + 1] \in 1..Len(us)
  BY <1>1, <1>3
<1>7. ASSUME IsQuote(vs[k + 1])
      PROVE  \E e \in (k + 3)..Len(vs) :
               /\ Quoted(vs, k, e) /\ f[e] \in (f[k] + 3)..Len(us) /\ Quoted(us, f[k], f[e])
               /\ f[k] + 2 = f[k + 2] /\ us[f[k] + 2] = vs[k + 2]
               /\ vs[k + 2] = Echo => (f[e] = f[k] + 3 <=> e = k + 3)
  <2>1. PICK e \in (k + 3)..Len(vs) : Quoted(vs, k, e)
    BY <1>7 DEF Assigned
  <2>2. /\ e \in 1..Len(vs) /\ k + 2 \in 1..Len(vs) /\ k + 3 \in 1..Len(vs)
        /\ (k + 1) + 1 = k + 2 /\ (k + 2) + 1 = k + 3
    BY <1>2
  <2>3. vs[k + 1] # Mask /\ vs[e] # Mask /\ vs[e] = vs[k + 1]
    BY <1>7, <2>1, Apart DEF Quoted
  <2>4. f[k + 2] = f[k + 1] + 1 /\ us[f[k + 2]] = vs[k + 2]
    <3>1. k + 1 < Len(vs)
      BY <1>2, <2>2
    <3> QED
      BY <1>1, <1>3, <2>2, <2>3, <3>1
  <2>5. f[k + 2] \in 1..Len(us) /\ f[e] \in 1..Len(us) /\ f[k + 3] \in 1..Len(us)
    BY <1>1, <2>2
  <2>6. f[k + 2] = f[k] + 2
    BY <1>5, <1>6, <2>4
  <2>7. f[k + 2] < f[e]
    <3>1. k + 2 \in 0..(e - 1)
      BY <1>2, <2>2
    <3> QED
      BY <1>1, <2>2, <2>3, <3>1
  <2>8. f[e] \in (f[k] + 3)..Len(us)
    BY <1>2, <1>6, <2>5, <2>6, <2>7
  <2>9. ASSUME NEW x \in (f[k] + 2)..(f[e] - 1)
        PROVE  ~IsQuote(us[x]) /\ ~IsKey(us[x]) /\ us[x] # NewLine
    <3>1. x \in 1..Len(us)
      <4>1. PICK d \in 1..Len(us) : d = f[e]
        BY <2>5
      <4>2. PICK c \in 1..Len(us) : c = f[k]
        BY <1>6
      <4>3. x \in (c + 2)..(d - 1)
        BY <4>1, <4>2
      <4> QED
        BY <1>2, <4>3
    <3>2. PICK j \in 1..Len(vs) : f[j] = x
      BY <1>1, <3>1
    <3>3. j > k + 1
      <4>1. j <= k + 1 => f[j] <= f[k + 1]
        <5>1. j <= k + 1 => j \in 0..(k + 1)
          BY <1>2
        <5>2. k + 1 \in 0..Len(vs)
          BY <1>3
        <5> QED
          BY <1>1, <5>1, <5>2
      <4> QED
        BY <1>5, <1>6, <3>2, <4>1
    <3>4. j < e
      <4>1. j >= e => f[e] <= f[j]
        <5>1. j >= e => e \in 0..j
          BY <1>2, <2>2
        <5>2. j \in 0..Len(vs)
          BY <1>2
        <5> QED
          BY <1>1, <5>1, <5>2
      <4> QED
        BY <1>6, <2>5, <3>2, <4>1
    <3>5. j \in (k + 2)..(e - 1)
      BY <1>2, <3>3, <3>4
    <3>6. us[x] = vs[j]
      BY <1>1, <3>2
    <3> QED
      BY <2>1, <3>5, <3>6 DEF Quoted
  <2>10. Quoted(us, f[k], f[e])
    <3>1. us[f[e]] = vs[e] /\ us[f[k] + 1] = vs[k + 1]
      BY <1>1, <1>5, <2>2
    <3> QED
      BY <1>7, <2>3, <2>9, <3>1 DEF Quoted
  <2>11. ASSUME vs[k + 2] = Echo PROVE f[e] = f[k] + 3 <=> e = k + 3
    <3>1. vs[k + 2] # Mask
      BY <2>11, Apart
    <3>2. f[k + 3] = f[k + 2] + 1
      <4>1. k + 2 < Len(vs)
        BY <1>2, <2>2
      <4> QED
        BY <1>1, <2>2, <3>1, <4>1
    <3>3. e # k + 3 => f[k + 3] < f[e]
      <4>1. e # k + 3 => k + 3 \in 0..(e - 1)
        BY <1>2, <2>2
      <4> QED
        BY <1>1, <2>2, <2>3, <4>1
    <3> QED
      BY <1>6, <2>5, <2>6, <3>2, <3>3
  <2>12. us[f[k] + 2] = vs[k + 2]
    BY <2>4, <2>6
  <2> QED
    BY <2>1, <2>6, <2>8, <2>10, <2>11, <2>12
<1>8. f[k] < Len(us)
  BY <1>2, <1>5, <1>6
<1> QED
  BY <1>3, <1>5, <1>7, <1>8

\* The values of a key, in a sequence and in the merged one.
LEMMA ValuesMerged ==
  ASSUME NEW F, NEW us \in Seq(F), NEW vs \in Seq(F), NEW f, IsPlace(us, vs, f),
         Assigned(vs), NEW k \in 1..Len(vs), IsKey(vs[k]), Sensitive(vs[k])
  PROVE  /\ Echoes(us, f[k]) <=> Echoes(vs, k)
         /\ \A p \in 1..Len(vs) :
              vs[p] = Mask \/ (InValueOf(us, f[k], f[p]) <=> InValueOf(vs, k, p))
<1>1. InOrder(us, vs, f)
  BY PlaceIs
<1>2. /\ f[k] < Len(us) /\ us[f[k]] = vs[k] /\ f[k] + 1 = f[k + 1] /\ k < Len(vs)
      /\ us[f[k] + 1] = vs[k + 1]
  BY KeyMerged
<1>3. f[k] \in 1..Len(us) /\ Len(us) \in Nat /\ Len(vs) \in Nat
  BY <1>1 DEF InOrder
<1>4. \A p \in 1..Len(vs) : f[p] \in 1..Len(us) /\ us[f[p]] = vs[p]
  BY <1>1 DEF InOrder
<1>5. ASSUME NEW p \in 1..Len(vs), NEW q \in 1..Len(vs), vs[q] # Mask
      PROVE  p < q <=> f[p] < f[q]
  <2>1. p < q => f[p] < f[q]
    <3>1. p < q => p \in 0..(q - 1)
      OBVIOUS
    <3> QED
      BY <1>1, <1>5, <3>1 DEF InOrder
  <2>2. ~ (p < q) => f[q] <= f[p]
    <3>1. ~ (p < q) => q \in 0..p /\ p \in 0..Len(vs)
      BY <1>3
    <3> QED
      BY <1>1, <3>1 DEF InOrder
  <2>3. f[p] \in 1..Len(us) /\ f[q] \in 1..Len(us)
    BY <1>4
  <2> QED
    BY <1>3, <2>1, <2>2, <2>3
<1>6. CASE ~IsQuote(vs[k + 1])
  <2>1. /\ \A p \in 1..Len(vs) : InValueOf(vs, k, p) <=> p = k + 1
        /\ Echoes(vs, k) <=> vs[k + 1] = Echo
    BY <1>2, <1>6, BareValue
  <2>2. /\ \A p \in 1..Len(us) : InValueOf(us, f[k], p) <=> p = f[k] + 1
        /\ Echoes(us, f[k]) <=> us[f[k] + 1] = Echo
    BY <1>2, <1>3, <1>6, BareValue
  <2>3. ASSUME NEW p \in 1..Len(vs), vs[p] # Mask
        PROVE  f[p] = f[k] + 1 <=> p = k + 1
    <3>1. p = k + 1 => f[p] = f[k] + 1
      BY <1>2
    <3>2. k + 1 \in 1..Len(vs)
      BY <1>2, <1>3
    <3>3. k + 1 < p <=> f[k + 1] < f[p]
      BY <1>5, <2>3, <3>2
    <3>4. k < p <=> f[k] < f[p]
      BY <1>5, <2>3
    <3>5. f[p] \in 1..Len(us)
      BY <1>4
    <3> QED
      BY <1>2, <1>3, <3>1, <3>3, <3>4, <3>5
  <2> QED
    BY <1>2, <1>4, <2>1, <2>2, <2>3
<1>7. CASE IsQuote(vs[k + 1])
  <2>1. PICK e \in (k + 3)..Len(vs) :
           /\ Quoted(vs, k, e) /\ f[e] \in (f[k] + 3)..Len(us) /\ Quoted(us, f[k], f[e])
           /\ f[k] + 2 = f[k + 2] /\ us[f[k] + 2] = vs[k + 2]
           /\ vs[k + 2] = Echo => (f[e] = f[k] + 3 <=> e = k + 3)
    BY <1>7, KeyMerged
  <2>2. /\ \A p \in 1..Len(vs) : InValueOf(vs, k, p) <=> k + 2 <= p /\ p < e
        /\ Echoes(vs, k) <=> vs[k].form = "json" /\ vs[k + 2] = Echo /\ e = k + 3
    BY <1>2, <2>1, QuotedValue
  <2>3. PICK d \in (f[k] + 3)..Len(us) : d = f[e] /\ Quoted(us, f[k], d)
    BY <2>1
  <2>4. /\ \A p \in 1..Len(us) : InValueOf(us, f[k], p) <=> f[k] + 2 <= p /\ p < d
        /\ Echoes(us, f[k]) <=> us[f[k]].form = "json" /\ us[f[k] + 2] = Echo /\ d = f[k] + 3
    BY <1>2, <1>3, <2>3, QuotedValue
  <2>5. vs[e] # Mask /\ e \in 1..Len(vs) /\ k + 1 \in 1..Len(vs) /\ vs[k + 1] # Mask
    <3>1. vs[k + 1] # Mask
      BY <1>7, Apart
    <3>2. vs[e] = vs[k + 1]
      BY <2>1 DEF Quoted
    <3>3. e \in 1..Len(vs) /\ k + 1 \in 1..Len(vs)
      BY <1>2, <1>3, <2>1
    <3> QED
      BY <3>1, <3>2, <3>3
  <2>6. ASSUME NEW p \in 1..Len(vs), vs[p] # Mask
        PROVE  f[k] + 2 <= f[p] /\ f[p] < f[e] <=> k + 2 <= p /\ p < e
    <3>1. p < e <=> f[p] < f[e]
      BY <1>5, <2>5
    <3>2. k + 1 < p <=> f[k + 1] < f[p]
      BY <1>5, <2>5, <2>6
    <3>3. f[p] \in 1..Len(us)
      BY <1>4
    <3>4. k + 1 < p <=> k + 2 <= p
      BY <1>3
    <3>5. f[k + 1] < f[p] <=> f[k] + 2 <= f[p]
      <4>1. \A x, y \in Nat : x + 1 < y <=> x + 2 <= y
        OBVIOUS
      <4>2. f[k] \in Nat /\ f[p] \in Nat /\ f[k + 1] = f[k] + 1
        BY <1>2, <1>3, <3>3
      <4> QED
        BY <4>1, <4>2
    <3> QED
      BY <3>1, <3>2, <3>4, <3>5
  <2> QED
    BY <1>2, <1>4, <2>1, <2>2, <2>3, <2>4, <2>6
<1> QED
  BY <1>6, <1>7

\* What the keys make of a token is the same in the merged sequence.
SameToKeys(us, i, vs, p) ==
  /\ ValueOfKey(us, i) <=> ValueOfKey(vs, p)
  /\ Echoes(us, i) <=> Echoes(vs, p)

\* Merging masks takes no value from its key.
LEMMA Merging ==
  ASSUME NEW F, NEW us \in Seq(F), NEW vs \in Seq(F), NEW f, IsPlace(us, vs, f),
         Assigned(vs)
  PROVE  /\ Assigned(us)
         /\ \A p \in 1..Len(vs) : vs[p] = Mask \/ SameToKeys(us, f[p], vs, p)
<1>1. InOrder(us, vs, f)
  BY PlaceIs
<1>2. \A p \in 1..Len(vs) : f[p] \in 1..Len(us) /\ us[f[p]] = vs[p]
  BY <1>1 DEF InOrder
<1>3. Len(us) \in Nat /\ Len(vs) \in Nat
  OBVIOUS
<1>4. Assigned(us)
  <2> SUFFICES ASSUME NEW x \in 1..Len(us), IsKey(us[x])
               PROVE  /\ x < Len(us) /\ ~IsKey(us[x + 1]) /\ us[x + 1] # NewLine
                      /\ IsQuote(us[x + 1]) => \E e \in (x + 3)..Len(us) : Quoted(us, x, e)
    BY DEF Assigned
  <2>1. PICK k \in 1..Len(vs) : f[k] = x
    BY <1>1 DEF InOrder
  <2>2. IsKey(vs[k])
    BY <1>2, <2>1
  <2>3. /\ x < Len(us) /\ us[x + 1] = vs[k + 1] /\ ~IsKey(vs[k + 1]) /\ vs[k + 1] # NewLine
    BY <2>1, <2>2, KeyMerged
  <2>4. ASSUME IsQuote(us[x + 1]) PROVE \E e \in (x + 3)..Len(us) : Quoted(us, x, e)
    <3>1. PICK e \in (k + 3)..Len(vs) : f[e] \in (f[k] + 3)..Len(us) /\ Quoted(us, f[k], f[e])
      BY <2>2, <2>3, <2>4, KeyMerged
    <3> QED
      BY <2>1, <3>1
  <2> QED
    BY <2>3, <2>4
<1>5. ASSUME NEW p \in 1..Len(vs), vs[p] # Mask
      PROVE  SameToKeys(us, f[p], vs, p)
  <2>1. f[p] \in 1..Len(us) /\ us[f[p]] = vs[p]
    BY <1>2
  <2>2. Echoes(us, f[p]) <=> Echoes(vs, p)
    <3>1. CASE IsKey(vs[p]) /\ Sensitive(vs[p])
      BY <3>1, ValuesMerged
    <3>2. CASE ~ (IsKey(vs[p]) /\ Sensitive(vs[p]))
      BY <2>1, <3>2 DEF Echoes
    <3> QED
      BY <3>1, <3>2
  <2>3. ASSUME ValueOfKey(vs, p) PROVE ValueOfKey(us, f[p])
    <3>1. PICK k \in 1..(p - 1) : InValueOf(vs, k, p) /\ ~Echoes(vs, k)
      BY <2>3 DEF ValueOfKey
    <3>2. k \in 1..Len(vs) /\ IsKey(vs[k]) /\ Sensitive(vs[k])
      BY <1>3, <3>1 DEF InValueOf
    <3>3. InValueOf(us, f[k], f[p]) /\ ~Echoes(us, f[k])
      BY <1>5, <3>1, <3>2, ValuesMerged
    <3>4. f[k] \in 1..(f[p] - 1)
      <4>1. f[k] < f[p]
        <5>1. k \in 0..(p - 1)
          BY <3>1
        <5> QED
          BY <1>1, <1>5, <5>1 DEF InOrder
      <4>2. f[k] \in 1..Len(us)
        BY <1>2, <3>2
      <4> QED
        BY <2>1, <4>1, <4>2
    <3> QED
      BY <3>3, <3>4 DEF ValueOfKey
  <2>4. ASSUME ValueOfKey(us, f[p]) PROVE ValueOfKey(vs, p)
    <3>1. PICK x \in 1..(f[p] - 1) : InValueOf(us, x, f[p]) /\ ~Echoes(us, x)
      BY <2>4 DEF ValueOfKey
    <3>2. x \in 1..Len(us)
      BY <1>3, <2>1
    <3>3. PICK k \in 1..Len(vs) : f[k] = x
      BY <1>1, <3>2 DEF InOrder
    <3>4. IsKey(vs[k]) /\ Sensitive(vs[k])
      <4>1. us[x] = vs[k]
        BY <1>2, <3>3
      <4> QED
        BY <3>1, <4>1 DEF InValueOf
    <3>5. InValueOf(vs, k, p) /\ ~Echoes(vs, k)
      BY <1>5, <3>1, <3>3, <3>4, ValuesMerged
    <3>6. k \in 1..(p - 1)
      <4>1. ~ (k < p) => f[p] <= f[k]
        <5>1. ~ (k < p) => p \in 0..k /\ k \in 0..Len(vs)
          BY <1>3
        <5> QED
          BY <1>1, <5>1 DEF InOrder
      <4> QED
        BY <2>1, <3>1, <3>3, <4>1
    <3> QED
      BY <3>5, <3>6 DEF ValueOfKey
  <2> QED
    BY <2>2, <2>3, <2>4 DEF SameToKeys
<1> QED
  BY <1>4, <1>5

-----------------------------------------------------------------------------
(* Replacements that amount to a reference.                                *)

\* At the positions at, a token that is copied is the one of ref, and what takes
\* the place of a match is what ref has there, but for masks.
Follows(ts, length, by, ref, at) ==
  /\ 1 \in at
  /\ \A i \in at \cap (1..Len(ts)) :
       /\ length[i] = 0 => i + 1 \in at /\ ref[i] = ts[i]
       /\ length[i] # 0 => /\ i + length[i] \in at
                           /\ Merged(by[i], SubSeq(ref, i, i + length[i] - 1))

\* A sequence up to some token is what comes before a piece, and the piece.
LEMMA Pieces ==
  ASSUME NEW F, NEW ts \in Seq(F), NEW i \in 1..Len(ts), NEW c \in Nat,
         i + c <= Len(ts) + 1
  PROVE  /\ SubSeq(ts, 1, i + c - 1) = SubSeq(ts, 1, i - 1) \o SubSeq(ts, i, i + c - 1)
         /\ SubSeq(ts, 1, i - 1) \in Seq(F) /\ SubSeq(ts, i, i + c - 1) \in Seq(F)
         /\ SubSeq(ts, 1, i) = SubSeq(ts, 1, i - 1) \o <<ts[i]>>
<1> QED
  OBVIOUS

\* If each replacement is the reference but for masks, the result is.
LEMMA MergedScan ==
  ASSUME NEW G, NEW F, NEW ts \in Seq(G), NEW length, NEW by,
         Matches(ts, length, by, F),
         NEW ref \in Seq(F), Len(ref) = Len(ts), NEW at, Follows(ts, length, by, ref, at)
  PROVE  Merged(Replaced(ts, length, by), ref)
<1> DEFINE P == {p \in [out : Seq(F), next : Nat] :
                   /\ p.next \in at
                   /\ p.next \in 1..(Len(ts) + 1) => Merged(p.out, SubSeq(ref, 1, p.next - 1))}
<1>1. Len(ts) \in Nat
  OBVIOUS
<1>2. [out |-> <<>>, next |-> 1] \in P
  <2>1. SubSeq(ref, 1, 1 - 1) = <<>> /\ <<>> \in Seq(F)
    OBVIOUS
  <2>2. Merged(<<>>, <<>>)
    BY <2>1, MergedSame
  <2> QED
    BY <2>1, <2>2 DEF Follows
<1>3. ASSUME NEW p \in P, p.next \in 1..Len(ts), length[p.next] = 0
      PROVE  [out |-> Append(p.out, ts[p.next]), next |-> p.next + 1] \in P
  <2>1. PICK us \in Seq(F), i \in 1..Len(ts) : us = p.out /\ i = p.next
    BY <1>3
  <2>2. i + 1 \in at /\ ref[i] = ts[i] /\ ts[i] \in F
    BY <1>3, <2>1 DEF Follows, Matches
  <2>3. Merged(us, SubSeq(ref, 1, i - 1))
    BY <1>1, <1>3, <2>1
  <2>4. i + 1 <= Len(ref) + 1 /\ i \in 1..Len(ref) /\ 1 \in Nat
    BY <1>1
  <2>5. /\ SubSeq(ref, 1, i - 1) \in Seq(F)
        /\ SubSeq(ref, 1, i) = SubSeq(ref, 1, i - 1) \o <<ref[i]>>
    BY <2>4, Pieces
  <2>6. <<ts[i]>> \in Seq(F)
    BY <2>2
  <2>7. Merged(us \o <<ts[i]>>, SubSeq(ref, 1, i - 1) \o <<ts[i]>>)
    <3>1. Merged(<<ts[i]>>, <<ts[i]>>)
      BY <2>6, MergedSame
    <3> QED
      BY <2>3, <2>5, <2>6, <3>1, MergedJoin
  <2>8. PICK ws \in Seq(F) : ws = us \o <<ts[i]>> /\ ws = Append(us, ts[i])
    <3>1. us \o <<ts[i]>> \in Seq(F) /\ Append(us, ts[i]) = us \o <<ts[i]>>
      BY <2>2, JoinedOne
    <3> QED
      BY <3>1
  <2>9. Merged(ws, SubSeq(ref, 1, (i + 1) - 1))
    <3>1. (i + 1) - 1 = i
      OBVIOUS
    <3> QED
      BY <2>2, <2>5, <2>7, <2>8, <3>1
  <2>10. [out |-> ws, next |-> i + 1] \in P
    BY <2>2, <2>9
  <2> QED
    BY <2>1, <2>8, <2>10
<1>4. ASSUME NEW p \in P, p.next \in 1..Len(ts), length[p.next] # 0
      PROVE  [out |-> p.out \o by[p.next], next |-> p.next + length[p.next]] \in P
  <2>1. PICK us \in Seq(F), i \in 1..Len(ts) : us = p.out /\ i = p.next
    BY <1>4
  <2>2. PICK c \in Nat : c = length[i] /\ i + c <= Len(ts) + 1 /\ by[i] \in Seq(F)
    BY <1>4, <2>1 DEF Matches
  <2>3. PICK m \in Seq(F) : m = by[i]
    BY <2>2
  <2>4. i + c \in at /\ Merged(m, SubSeq(ref, i, i + c - 1))
    BY <1>4, <2>1, <2>2, <2>3 DEF Follows
  <2>5. Merged(us, SubSeq(ref, 1, i - 1))
    BY <1>1, <1>4, <2>1
  <2>6. /\ SubSeq(ref, 1, i - 1) \in Seq(F) /\ SubSeq(ref, i, i + c - 1) \in Seq(F)
        /\ SubSeq(ref, 1, i + c - 1) = SubSeq(ref, 1, i - 1) \o SubSeq(ref, i, i + c - 1)
    <3>1. i \in 1..Len(ref) /\ i + c <= Len(ref) + 1
      BY <2>2
    <3> QED
      BY <3>1, Pieces
  <2>7. Merged(us \o m, SubSeq(ref, 1, i + c - 1))
    BY <2>4, <2>5, <2>6, MergedJoin
  <2>8. PICK ws \in Seq(F) : ws = us \o m
    BY Joined
  <2>9. PICK x \in Nat : x = i + c
    OBVIOUS
  <2>10. [out |-> ws, next |-> x] \in P
    <3>1. Merged(ws, SubSeq(ref, 1, x - 1))
      BY <2>7, <2>8, <2>9
    <3> QED
      BY <2>4, <2>9, <3>1
  <2> QED
    BY <2>1, <2>2, <2>3, <2>8, <2>9, <2>10
<1>5. Kept(ts, length, by, F, P)
  <2> HIDE DEF P
  <2> QED
    BY <1>2, <1>3, <1>4 DEF Kept
<1>6. Ends(ts, length, by, F, P)
  <2> HIDE DEF P
  <2> QED
    BY <1>5, ScanInvariant
<1>7. PICK p \in P : p.out = Replaced(ts, length, by) /\ p.next = Len(ts) + 1
  <2> HIDE DEF P
  <2> QED
    BY <1>6 DEF Ends
<1>8. Merged(p.out, SubSeq(ref, 1, Len(ts)))
  <2>1. p.next \in 1..(Len(ts) + 1) /\ p.next - 1 = Len(ts)
    BY <1>1, <1>7
  <2> QED
    BY <2>1
<1>9. SubSeq(ref, 1, Len(ts)) = ref
  BY <1>1
<1> QED
  BY <1>7, <1>8, <1>9

\* The tokens from a to b.
PieceIs(ts, a, b, us, F) ==
  /\ us = SubSeq(ts, a, b) /\ us \in Seq(F) /\ Len(us) = b - a + 1
  /\ \A j \in 1..(b - a + 1) : us[j] = ts[a + j - 1]

\* A piece of a sequence has its tokens.
LEMMA Piece ==
  ASSUME NEW F, NEW ts \in Seq(F), NEW a \in 1..Len(ts), NEW b \in a..Len(ts)
  PROVE  PieceIs(ts, a, b, SubSeq(ts, a, b), F)
<1>1. a \in 1..(Len(ts) + 1) /\ b \in Nat /\ b <= Len(ts)
  OBVIOUS
<1> QED
  BY <1>1 DEF PieceIs

\* All that is masked becomes one mask.
LEMMA AllMasked ==
  ASSUME NEW F, NEW ref \in Seq(F), NEW a \in 1..Len(ref), NEW b \in a..Len(ref),
         \A j \in a..b : ref[j] = Mask
  PROVE  Merged(<<Mask>>, SubSeq(ref, a, b))
<1>1. PICK us : PieceIs(ref, a, b, us, F)
  BY Piece
<1>2. us \in Seq(F) /\ Len(us) = b - a + 1 /\ us = SubSeq(ref, a, b)
  BY <1>1 DEF PieceIs
<1>3. ASSUME NEW j \in 1..Len(us) PROVE us[j] = Mask
  <2>1. j \in 1..(b - a + 1) /\ a + j - 1 \in a..b
    BY <1>2
  <2> QED
    BY <1>1, <2>1 DEF PieceIs
<1>4. Len(us) >= 1
  BY <1>2
<1> QED
  BY <1>2, <1>3, <1>4, MergedMasks

-----------------------------------------------------------------------------
(* Blocks and the reference.                                               *)

\* The log with its blocks masked, token by token.
BlockRef(log) == [i \in 1..Len(log) |-> IF InBlock(log, i) THEN Mask ELSE log[i]]

\* A block that is matched goes to the first end.
LEMMA BlockIs ==
  ASSUME NEW G, NEW ts \in Seq(G), NEW i \in 1..Len(ts), BlockLength(ts, i) # 0
  PROVE  \E e \in i..Len(ts) :
           /\ i + BlockLength(ts, i) = e + 1
           /\ ts[i] = Begin /\ ts[e] = End /\ i < e
           /\ \A j \in i..(e - 1) : ts[j] # End
<1> DEFINE S == {j \in i..Len(ts) : ts[j] = End}
           e == FirstOf(S, i - 1)
<1>1. Len(ts) \in Nat /\ S \subseteq Nat
  OBVIOUS
<1>2. BlockLength(ts, i) = IF ts[i] # Begin THEN 0 ELSE FirstOf(S, i - 1) - i + 1
  BY DEF BlockLength
<1>3. (S = {} => e = i - 1) /\ (S # {} => e \in S /\ \A j \in S : e <= j)
  <2> HIDE DEF S
  <2> QED
    BY <1>1, FirstOfIs
<1>4. ts[i] = Begin /\ BlockLength(ts, i) = e - i + 1
  BY <1>2
<1> HIDE DEF e
<1>5. S # {}
  BY <1>3, <1>4
<1>6. e \in i..Len(ts) /\ ts[e] = End
  BY <1>3, <1>5
<1>7. i + BlockLength(ts, i) = e + 1
  BY <1>4, <1>6
<1>8. i # e
  BY <1>4, <1>6 DEF Begin, End
<1>9. ASSUME NEW j \in i..(e - 1) PROVE ts[j] # End
  <2>1. j \in i..Len(ts) /\ j < e
    BY <1>1, <1>6
  <2>2. j \notin S
    BY <1>3, <1>5, <1>6, <2>1
  <2> QED
    BY <2>1, <2>2
<1> QED
  BY <1>4, <1>6, <1>7, <1>8, <1>9

\* Before i no block has begun that could end behind it, but one without an end.
Fresh(log, i) ==
  \/ \A j \in 1..(i - 1) : log[j] # Begin
  \/ \E e \in 1..(i - 1) : log[e] = End /\ \A j \in (e + 1)..(i - 1) : log[j] # Begin
  \/ \A j \in i..Len(log) : log[j] # End

\* The scan for blocks is in no block where it copies a token,
LEMMA FreshCopied ==
  ASSUME NEW log \in Seq(Token), NEW i \in 1..Len(log), Fresh(log, i),
         BlockLength(log, i) = 0
  PROVE  Fresh(log, i + 1) /\ ~InBlock(log, i)
<1>1. Len(log) \in Nat /\ (i + 1) - 1 = i
  OBVIOUS
<1>2. log[i] = Begin => \A j \in i..Len(log) : log[j] # End
  BY BlockLengthIs
<1>3. \A j \in 1..i : j = i \/ j \in 1..(i - 1)
  OBVIOUS
<1>4. Fresh(log, i + 1)
  <2>1. CASE \A j \in i..Len(log) : log[j] # End
    <3>1. \A j \in (i + 1)..Len(log) : log[j] # End
      BY <2>1
    <3> QED
      BY <3>1 DEF Fresh
  <2>2. CASE log[i] # Begin /\ \A j \in 1..(i - 1) : log[j] # Begin
    <3>1. \A j \in 1..i : log[j] # Begin
      BY <1>3, <2>2
    <3> QED
      BY <1>1, <3>1 DEF Fresh
  <2>3. CASE /\ log[i] # Begin
             /\ \E e \in 1..(i - 1) :
                  log[e] = End /\ \A j \in (e + 1)..(i - 1) : log[j] # Begin
    <3>1. PICK e \in 1..(i - 1) : log[e] = End /\ \A j \in (e + 1)..(i - 1) : log[j] # Begin
      BY <2>3
    <3>2. \A j \in (e + 1)..i : log[j] # Begin
      <4>1. \A j \in (e + 1)..i : j = i \/ j \in (e + 1)..(i - 1)
        OBVIOUS
      <4> QED
        BY <2>3, <3>1, <4>1
    <3>3. e \in 1..i
      OBVIOUS
    <3> QED
      BY <1>1, <3>1, <3>2, <3>3 DEF Fresh
  <2> QED
    BY <1>2, <2>1, <2>2, <2>3 DEF Fresh
<1>5. ASSUME InBlock(log, i) PROVE FALSE
  <2>1. PICK a \in 1..Len(log), b \in 1..Len(log) :
          /\ a <= i /\ i <= b /\ a < b
          /\ log[a] = Begin /\ log[b] = End
          /\ \A j \in (a + 1)..(b - 1) : log[j] # End
    BY <1>5 DEF InBlock
  <2>2. b \in i..Len(log)
    BY <1>1, <2>1
  <2>3. a # i /\ a \in 1..(i - 1)
    <3>1. a # i
      BY <1>2, <2>1, <2>2
    <3> QED
      BY <2>1, <3>1
  <2>4. PICK e \in 1..(i - 1) : log[e] = End /\ \A j \in (e + 1)..(i - 1) : log[j] # Begin
    BY <2>1, <2>2, <2>3 DEF Fresh
  <2>5. ~ (e < a)
    BY <2>1, <2>3, <2>4
  <2>6. e # a
    BY <2>1, <2>4 DEF Begin, End
  <2>7. e \in (a + 1)..(b - 1)
    BY <2>1, <2>5, <2>6
  <2> QED
    BY <2>1, <2>4, <2>7
<1> QED
  BY <1>4, <1>5

\* and in one where it has a match.
LEMMA FreshMatched ==
  ASSUME NEW log \in Seq(Token), NEW i \in 1..Len(log), Fresh(log, i),
         NEW e \in i..Len(log), log[i] = Begin, log[e] = End, i < e,
         \A j \in i..(e - 1) : log[j] # End
  PROVE  Fresh(log, e + 1) /\ \A j \in i..e : InBlock(log, j)
<1>1. Len(log) \in Nat /\ i \in 1..Len(log) /\ e \in 1..Len(log) /\ (e + 1) - 1 = e
  OBVIOUS
<1>2. Fresh(log, e + 1)
  <2>1. e \in 1..e /\ \A j \in (e + 1)..e : log[j] # Begin
    BY <1>1
  <2> QED
    BY <1>1, <2>1 DEF Fresh
<1>3. \/ \A j \in 1..(i - 1) : log[j] # Begin
      \/ \E d \in 1..(i - 1) : log[d] = End /\ \A j \in (d + 1)..(i - 1) : log[j] # Begin
  BY <1>1 DEF Fresh
<1>4. \A j \in (i + 1)..(e - 1) : log[j] # End
  OBVIOUS
<1>5. DOMAIN log = 1..Len(log)
  OBVIOUS
<1>6. ASSUME NEW j \in i..e PROVE InBlock(log, j)
  <2>1. i <= j /\ j <= e
    OBVIOUS
  <2> QED
    BY <1>1, <1>3, <1>4, <1>5, <2>1 DEF InBlock
<1> QED
  BY <1>2, <1>6

\* The log with its blocks masked is one of tokens.
LEMMA BlockRefType ==
  ASSUME NEW log \in Seq(Token)
  PROVE  /\ BlockRef(log) \in Seq(Token) /\ Len(BlockRef(log)) = Len(log)
         /\ \A i \in 1..Len(log) :
              BlockRef(log)[i] = IF InBlock(log, i) THEN Mask ELSE log[i]
<1>1. Len(log) \in Nat /\ \A i \in 1..Len(log) : log[i] \in Token
  OBVIOUS
<1>2. Mask \in Token
  BY CleanTokens
<1> QED
  BY <1>1, <1>2 DEF BlockRef

\* The blocks are masked, each with one mask.
LEMMA BlocksMerged ==
  ASSUME NEW log \in Seq(Token)
  PROVE  Merged(maskBlocks(log), BlockRef(log))
<1> DEFINE length == [i \in DOMAIN log |-> BlockLength(log, i)]
           by == [i \in DOMAIN log |-> <<Mask>>]
           at == {i \in 1..(Len(log) + 1) : Fresh(log, i)}
<1>1. DOMAIN log = 1..Len(log) /\ Len(log) \in Nat
  OBVIOUS
<1>2. Matches(log, length, by, Token)
  BY BlockMatches
<1>3. 1 \in at
  BY <1>1 DEF Fresh
<1>4. PICK ref \in Seq(Token) :
        /\ ref = BlockRef(log) /\ Len(ref) = Len(log)
        /\ \A i \in 1..Len(log) : ref[i] = IF InBlock(log, i) THEN Mask ELSE log[i]
  BY BlockRefType
<1>5. ASSUME NEW i \in 1..Len(log), Fresh(log, i), length[i] = 0
      PROVE  i + 1 \in at /\ ref[i] = log[i]
  <2>1. Fresh(log, i + 1) /\ ~InBlock(log, i)
    BY <1>1, <1>5, FreshCopied
  <2> QED
    BY <1>1, <1>4, <2>1
<1>6. ASSUME NEW i \in 1..Len(log), Fresh(log, i), length[i] # 0
      PROVE  i + length[i] \in at /\ Merged(by[i], SubSeq(ref, i, i + length[i] - 1))
  <2>1. PICK e \in i..Len(log) :
           /\ i + BlockLength(log, i) = e + 1
           /\ log[i] = Begin /\ log[e] = End /\ i < e
           /\ \A j \in i..(e - 1) : log[j] # End
    BY <1>1, <1>6, BlockIs
  <2>2. Fresh(log, e + 1) /\ \A j \in i..e : InBlock(log, j)
    BY <1>6, <2>1, FreshMatched
  <2>3. \A j \in i..e : ref[j] = Mask
    BY <1>1, <1>4, <2>2
  <2>4. Merged(<<Mask>>, SubSeq(ref, i, e))
    <3>1. i \in 1..Len(ref) /\ e \in i..Len(ref)
      BY <1>4
    <3> QED
      BY <2>3, <3>1, AllMasked
  <2>5. i + length[i] = e + 1 /\ by[i] = <<Mask>> /\ (e + 1) - 1 = e
    BY <1>1, <2>1
  <2>6. e + 1 \in at
    BY <1>1, <2>2
  <2> HIDE DEF at, length, by
  <2>7. i + length[i] - 1 = e
    <3>1. PICK c \in Nat : c = length[i]
      BY <1>2 DEF Matches
    <3>2. i + c = e + 1
      BY <2>5, <3>1
    <3> QED
      BY <3>1, <3>2
  <2>8. i + length[i] \in at
    BY <2>5, <2>6
  <2>9. Merged(by[i], SubSeq(ref, i, i + length[i] - 1))
    BY <2>4, <2>5, <2>7
  <2> QED
    BY <2>8, <2>9
<1>7. Follows(log, length, by, ref, at)
  <2>1. \A i \in at \cap (1..Len(log)) : Fresh(log, i)
    OBVIOUS
  <2> HIDE DEF at, length, by
  <2> QED
    BY <1>3, <1>5, <1>6, <2>1 DEF Follows
<1> HIDE DEF at, length, by
<1>8. Merged(Replaced(log, length, by), ref)
  BY <1>2, <1>4, <1>7, MergedScan
<1> QED
  BY <1>4, <1>8 DEF maskBlocks, length, by

\* A block has all its tokens, from its beginning to its end.
LEMMA BlockWhole ==
  ASSUME NEW log \in Seq(Token), NEW i \in 1..Len(log), InBlock(log, i)
  PROVE  /\ log[i] # End => i < Len(log) /\ InBlock(log, i + 1)
         /\ log[i] # Begin => i > 1 /\ InBlock(log, i - 1)
<1>1. PICK a \in DOMAIN log, b \in DOMAIN log :
        /\ a <= i /\ i <= b /\ a < b
        /\ log[a] = Begin /\ log[b] = End
        /\ \A j \in (a + 1)..(b - 1) : log[j] # End
        /\ \/ \A j \in 1..(a - 1) : log[j] # Begin
           \/ \E e \in 1..(a - 1) : /\ log[e] = End
                                    /\ \A j \in (e + 1)..(a - 1) : log[j] # Begin
  BY DEF InBlock
<1>2. DOMAIN log = 1..Len(log) /\ Len(log) \in Nat
  OBVIOUS
<1>3. ASSUME NEW x \in a..b PROVE InBlock(log, x)
  <2>1. a <= x /\ x <= b
    BY <1>2
  <2> QED
    BY <1>1, <2>1 DEF InBlock
<1>4. log[i] # End => i + 1 \in a..b
  BY <1>1, <1>2
<1>5. log[i] # Begin => i - 1 \in a..b
  BY <1>1, <1>2
<1> QED
  BY <1>2, <1>3, <1>4, <1>5

\* In a well-formed log every key has its value.
LEMMA WellAssigned ==
  ASSUME NEW log \in Seq(Token), WellFormed(log)
  PROVE  Assigned(log)
<1> SUFFICES ASSUME NEW k \in 1..Len(log), IsKey(log[k])
             PROVE  /\ k < Len(log) /\ ~IsKey(log[k + 1]) /\ log[k + 1] # NewLine
                    /\ IsQuote(log[k + 1]) => \E e \in (k + 3)..Len(log) : Quoted(log, k, e)
  BY DEF Assigned
<1>1. DOMAIN log = 1..Len(log)
  OBVIOUS
<1>2. /\ k < Len(log) /\ log[k + 1].is \notin {"key", "newline", "end"}
      /\ IsQuote(log[k + 1]) =>
           \E e \in (k + 3)..Len(log) :
             /\ log[e] = log[k + 1]
             /\ \A j \in (k + 2)..(e - 1) : log[j].is \notin {"quote", "newline", "key"}
  BY <1>1 DEF WellFormed
<1>3. ~IsKey(log[k + 1]) /\ log[k + 1] # NewLine
  BY <1>2 DEF IsKey, NewLine
<1>4. ASSUME IsQuote(log[k + 1]) PROVE \E e \in (k + 3)..Len(log) : Quoted(log, k, e)
  <2>1. PICK e \in (k + 3)..Len(log) :
          /\ log[e] = log[k + 1]
          /\ \A j \in (k + 2)..(e - 1) : log[j].is \notin {"quote", "newline", "key"}
    BY <1>2, <1>4
  <2>2. \A j \in (k + 2)..(e - 1) : ~IsQuote(log[j]) /\ ~IsKey(log[j]) /\ log[j] # NewLine
    BY <2>1 DEF IsQuote, IsKey, NewLine
  <2>3. Quoted(log, k, e)
    BY <1>4, <2>1, <2>2 DEF Quoted
  <2> QED
    BY <2>3
<1> QED
  BY <1>2, <1>3, <1>4

\* A quoted value has one end.
LEMMA OneEnd ==
  ASSUME NEW F, NEW ts \in Seq(F), NEW k \in 1..Len(ts),
         NEW d \in (k + 3)..Len(ts), NEW e \in (k + 3)..Len(ts),
         Quoted(ts, k, d), Quoted(ts, k, e)
  PROVE  d = e
<1>1. IsQuote(ts[d]) /\ IsQuote(ts[e])
  BY DEF Quoted
<1>2. d < e => d \in (k + 2)..(e - 1)
  OBVIOUS
<1>3. e < d => e \in (k + 2)..(d - 1)
  OBVIOUS
<1> QED
  BY <1>1, <1>2, <1>3 DEF Quoted

\* What is before the value of a key is in its block or has none.
LEMMA BlocksCover ==
  ASSUME NEW log \in Seq(Token), WellFormed(log)
  PROVE  Covers(log, BlockRef(log))
<1>1. PICK ref \in Seq(Token) :
        /\ ref = BlockRef(log) /\ Len(ref) = Len(log)
        /\ \A i \in 1..Len(log) : ref[i] = IF InBlock(log, i) THEN Mask ELSE log[i]
  BY BlockRefType
<1>2. Assigned(log)
  BY WellAssigned
<1>3. DOMAIN log = 1..Len(log) /\ Len(log) \in Nat
  OBVIOUS
<1>4. Begin # Echo /\ ~IsQuote(Begin) /\ ~IsKey(Begin) /\ ~IsKey(End) /\ ~IsQuote(End)
  BY DEF Begin, End, Echo, Word, IsQuote, IsKey
<1>5. ASSUME NEW k \in 1..Len(log), IsKey(log[k])
      PROVE  \/ KeyStands(log, ref, k)
             \/ ref[k] = Mask /\ \A p \in 1..Len(log) : InValueOf(log, k, p) => ref[p] = Mask
  <2>1. k < Len(log) /\ k + 1 \in 1..Len(log)
    BY <1>2, <1>3, <1>5 DEF Assigned
  <2>2. ASSUME IsQuote(log[k + 1])
        PROVE  \E e \in (k + 3)..Len(log) :
                 /\ Quoted(log, k, e)
                 /\ InBlock(log, e) => InBlock(log, k)
                 /\ InBlock(log, k) => \A j \in k..e : InBlock(log, j)
    <3>1. PICK e \in (k + 3)..Len(log) :
            /\ log[e] = log[k + 1]
            /\ InBlock(log, e) => InBlock(log, k)
            /\ InBlock(log, k) => \A j \in k..e : InBlock(log, j)
            /\ \A j \in (k + 2)..(e - 1) : log[j].is \notin {"quote", "newline", "key"}
      BY <1>3, <1>5, <2>2 DEF WellFormed
    <3>2. \A j \in (k + 2)..(e - 1) : ~IsQuote(log[j]) /\ ~IsKey(log[j]) /\ log[j] # NewLine
      BY <3>1 DEF IsQuote, IsKey, NewLine
    <3>3. Quoted(log, k, e)
      BY <2>2, <3>1, <3>2 DEF Quoted
    <3> QED
      BY <3>1, <3>3
  <2>3. CASE ~InBlock(log, k)
    <3>1. ref[k] = log[k]
      BY <1>1, <2>3
    <3>2. log[k + 1] # Begin => ~InBlock(log, k + 1)
      <4>1. (k + 1) - 1 = k
        OBVIOUS
      <4> QED
        BY <2>1, <2>3, <4>1, BlockWhole
    <3>3. log[k + 1] = Echo \/ IsQuote(log[k + 1]) => ref[k + 1] = log[k + 1]
      BY <1>1, <1>4, <2>1, <3>2
    <3>4. ASSUME NEW e \in (k + 3)..Len(log), Quoted(log, k, e)
          PROVE  ref[e] = log[e] /\ (log[k + 2] = Echo => ref[k + 2] = Echo)
      <4>1. IsQuote(log[k + 1])
        BY <3>4 DEF Quoted
      <4>2. PICK d \in (k + 3)..Len(log) : Quoted(log, k, d) /\ (InBlock(log, d) => InBlock(log, k))
        BY <2>2, <4>1
      <4>3. d = e
        BY <3>4, <4>2, OneEnd
      <4>4. e \in 1..Len(log) /\ k + 2 \in 1..Len(log) /\ (k + 2) - 1 = k + 1
        BY <1>3
      <4>5. ref[e] = log[e]
        BY <1>1, <2>3, <4>2, <4>3, <4>4
      <4>6. ~InBlock(log, k + 1)
        BY <1>4, <3>2, <4>1
      <4>7. log[k + 2] = Echo => ~InBlock(log, k + 2)
        BY <1>4, <4>4, <4>6, BlockWhole
      <4> QED
        BY <1>1, <4>4, <4>5, <4>7
    <3> QED
      BY <3>1, <3>3, <3>4 DEF KeyStands
  <2>4. CASE InBlock(log, k)
    <3>1. ref[k] = Mask
      BY <1>1, <2>4
    <3>2. ASSUME NEW p \in 1..Len(log), InValueOf(log, k, p) PROVE InBlock(log, p)
      <4>1. IsKey(log[k]) /\ Sensitive(log[k])
        BY <3>2 DEF InValueOf
      <4>2. CASE ~IsQuote(log[k + 1])
        <5>1. p = k + 1
          BY <2>1, <3>2, <4>1, <4>2, BareValue
        <5>2. log[k] # End
          BY <1>4, <4>1
        <5> QED
          BY <2>4, <5>1, <5>2, BlockWhole
      <4>3. CASE IsQuote(log[k + 1])
        <5>1. PICK e \in (k + 3)..Len(log) :
                 Quoted(log, k, e) /\ \A j \in k..e : InBlock(log, j)
          BY <2>2, <2>4, <4>3
        <5>2. k + 2 <= p /\ p < e
          BY <2>1, <3>2, <4>1, <5>1, QuotedValue
        <5>3. p \in k..e
          BY <1>3, <5>2
        <5> QED
          BY <5>1, <5>3
      <4> QED
        BY <4>2, <4>3
    <3> QED
      BY <1>1, <3>1, <3>2
  <2> QED
    BY <2>3, <2>4
<1>6. \A p \in 1..Len(log) : ref[p] \in {log[p], Mask, Link("masked")}
  BY <1>1
<1> QED
  BY <1>1, <1>5, <1>6 DEF Covers

-----------------------------------------------------------------------------
(* Card numbers of the reference.                                          *)

\* Groups of digits make up a number.
LEMMA NumberType ==
  ASSUME NEW us \in Seq(Token), \A j \in 1..Len(us) : IsDigits(us[j])
  PROVE  NumberOf(us) \in Seq(0..9)
<1> DEFINE n == Len(us)
           S == Seq(0..9)
           seqs == [i \in DOMAIN us |-> us[i].digits]
           step == [i \in 1..n |-> [p \in S |-> p \o seqs[i]]]
           Unfold(f) == [i \in 1..Len(seqs) |-> IF i = 1 THEN seqs[i] ELSE f[i - 1] \o seqs[i]]
           flatten == CHOOSE f : f = Unfold(f)
<1>1. n \in Nat /\ DOMAIN us = 1..n
  OBVIOUS
<1>2. \A i \in 1..n : seqs[i] \in S
  <2> TAKE i \in 1..n
  <2>1. us[i] \in Token /\ us[i].is = "digits"
    BY <1>1 DEF IsDigits
  <2>2. us[i].digits \in Seq(0..9)
    BY <2>1 DEF Token, Begin, End, NewLine, Mask
  <2> QED
    BY <1>1, <2>2
<1>3. seqs \in Seq(S) /\ Len(seqs) = n
  <2>1. seqs = [i \in 1..n |-> seqs[i]]
    BY <1>1
  <2> HIDE DEF seqs, S, n
  <2> QED
    BY <1>1, <1>2, <2>1
<1>4. NumberOf(us) = IF Len(seqs) = 0 THEN seqs ELSE flatten[Len(seqs)]
  BY DEF NumberOf, FlattenSeq
<1>5. <<>> \in S /\ \A p, q \in S : p \o q \in S /\ <<>> \o q = q
  OBVIOUS
<1> HIDE DEF S, seqs
<1>6. step \in [1..n -> [S -> S]]
  BY <1>2, <1>5
<1>7. PICK f \in [0..n -> S] : f[0] = <<>> /\ \A i \in 1..n : f[i] = step[i][f[i - 1]]
  <2> HIDE DEF step, n
  <2>1. HasValues(n, S, <<>>, step)
    BY <1>1, <1>5, <1>6, Recursion
  <2> QED
    BY <2>1 DEF HasValues
<1>8. ASSUME NEW i \in 1..n PROVE f[i] = f[i - 1] \o seqs[i]
  <2>1. i - 1 \in 0..n
    BY <1>1
  <2>2. f[i - 1] \in S
    BY <1>7, <2>1
  <2> QED
    BY <1>7, <2>2
<1> DEFINE g == [i \in 1..n |-> f[i]]
<1>9. g = Unfold(g)
  <2>1. ASSUME NEW i \in 1..n PROVE g[i] = IF i = 1 THEN seqs[i] ELSE g[i - 1] \o seqs[i]
    <3>1. CASE i = 1
      <4>1. i - 1 = 0
        BY <3>1
      <4>2. f[i] = <<>> \o seqs[i]
        BY <1>7, <1>8, <4>1
      <4> QED
        BY <1>2, <1>5, <3>1, <4>2
    <3>2. CASE i # 1
      <4>1. i - 1 \in 1..n
        BY <1>1, <3>2
      <4> QED
        BY <1>8, <3>2, <4>1
    <3> QED
      BY <3>1, <3>2
  <2>2. g = [i \in 1..n |-> g[i]]
    OBVIOUS
  <2> HIDE DEF g, n
  <2> QED
    BY <1>3, <2>1, <2>2
<1>10. flatten = Unfold(flatten)
  <2> HIDE DEF Unfold, g
  <2> QED
    BY <1>9
<1> HIDE DEF flatten
<1>11. \A i \in 1..n : flatten[i] = IF i = 1 THEN seqs[i] ELSE flatten[i - 1] \o seqs[i]
  <2> HIDE DEF n
  <2> QED
    BY <1>3, <1>10
<1> DEFINE T == {i \in 0..n : i = 0 \/ flatten[i] \in S}
<1>12. 0 \in T
  BY <1>1
<1>13. ASSUME NEW i \in 1..n, i - 1 \in T PROVE i \in T
  <2>1. CASE i = 1
    BY <1>1, <1>2, <1>11, <2>1
  <2>2. CASE i # 1
    <3>1. flatten[i - 1] \in S
      BY <1>1, <1>13, <2>2
    <3>2. flatten[i] = flatten[i - 1] \o seqs[i] /\ seqs[i] \in S
      BY <1>2, <1>11, <2>2
    <3>3. flatten[i] \in S
      BY <1>5, <3>1, <3>2
    <3>4. i \in 0..n
      BY <1>1
    <3> HIDE DEF n
    <3> QED
      BY <3>3, <3>4
  <2> QED
    BY <2>1, <2>2
<1>14. n = 0 \/ flatten[n] \in S
  <2> HIDE DEF T
  <2>1. \A i \in 0..n : i \in T
    <3> HIDE DEF n
    <3> QED
      BY <1>1, <1>12, <1>13, Induction
  <2>2. n \in T
    BY <1>1, <2>1
  <2> QED
    BY <2>2 DEF T
<1>15. n = 0 => seqs = <<>>
  <2> HIDE DEF n
  <2> QED
    BY <1>3
<1> HIDE DEF n
<1> QED
  BY <1>3, <1>4, <1>5, <1>14, <1>15 DEF S

\* The digits of a run are a card number by either rule.
LEMMA RunNumber ==
  ASSUME NEW ts \in Seq(Token), NEW a \in 1..Len(ts), NEW b \in a..Len(ts), IsRun(ts, a, b)
  PROVE  LuhnReference(NumberOf(SubSeq(ts, a, b))) <=> IsNumber(ts, a, b)
<1>1. PICK us : PieceIs(ts, a, b, us, Token)
  BY Piece
<1>2. us = SubSeq(ts, a, b) /\ us \in Seq(Token) /\ Len(us) = b - a + 1
  BY <1>1 DEF PieceIs
<1>3. ASSUME NEW j \in 1..Len(us) PROVE IsDigits(us[j])
  <2>1. j \in 1..(b - a + 1) /\ a + j - 1 \in a..b
    BY <1>2
  <2> QED
    BY <1>1, <2>1 DEF PieceIs, IsRun
<1>4. NumberOf(us) \in Seq(0..9)
  BY <1>2, <1>3, NumberType
<1> QED
  BY <1>2, <1>4, LuhnValidReference DEF IsNumber

\* The group at i belongs to a card number that is a run.
RunCard(ts, i) ==
  \E a \in 1..i, b \in i..Len(ts) :
    IsRun(ts, a, b) /\ LuhnReference(NumberOf(SubSeq(ts, a, b)))

\* Two runs that meet are one.
LEMMA OneRun ==
  ASSUME NEW F, NEW ts \in Seq(F), NEW i \in 1..Len(ts),
         NEW a \in 1..i, NEW b \in i..Len(ts), IsRun(ts, a, b),
         NEW c \in 1..i, NEW d \in i..Len(ts), IsRun(ts, c, d)
  PROVE  a = c /\ b = d
<1>1. Len(ts) \in Nat
  OBVIOUS
<1>2. a < c => c - 1 \in a..b /\ c # 1
  BY <1>1
<1>3. c < a => a - 1 \in c..d /\ a # 1
  BY <1>1
<1>4. b < d => b + 1 \in c..d /\ b # Len(ts)
  BY <1>1
<1>5. d < b => d + 1 \in a..b /\ d # Len(ts)
  BY <1>1
<1>6. ~ (a < c) /\ ~ (c < a) /\ ~ (b < d) /\ ~ (d < b)
  BY <1>2, <1>3, <1>4, <1>5 DEF IsRun
<1> QED
  BY <1>1, <1>6

\* A group of digits is in a card if its run is one.
LEMMA CardOfRun ==
  ASSUME NEW ts \in Seq(Token), NEW i \in 1..Len(ts),
         NEW a \in 1..i, NEW b \in i..Len(ts), IsRun(ts, a, b)
  PROVE  RunCard(ts, i) <=> IsNumber(ts, a, b)
<1>1. /\ Len(ts) \in Nat /\ a \in 1..Len(ts) /\ b \in a..Len(ts)
  OBVIOUS
<1>2. LuhnReference(NumberOf(SubSeq(ts, a, b))) <=> IsNumber(ts, a, b)
  BY <1>1, RunNumber
<1>3. ASSUME RunCard(ts, i) PROVE IsNumber(ts, a, b)
  <2>1. PICK c \in 1..i, d \in i..Len(ts) :
          IsRun(ts, c, d) /\ LuhnReference(NumberOf(SubSeq(ts, c, d)))
    BY <1>3 DEF RunCard
  <2>2. a = c /\ b = d
    BY <2>1, OneRun
  <2> QED
    BY <1>2, <2>1, <2>2
<1> QED
  BY <1>2, <1>3 DEF RunCard

\* Every group of digits is in a run.
LEMMA RunIs ==
  ASSUME NEW F, NEW ts \in Seq(F), NEW i \in 1..Len(ts), IsDigits(ts[i])
  PROVE  \E a \in 1..i, b \in i..Len(ts) : IsRun(ts, a, b)
<1>1. Len(ts) \in Nat
  OBVIOUS
<1> DEFINE T == {k \in 0..Len(ts) : k >= 1 /\ IsDigits(ts[k]) =>
                   \E a \in 1..k : /\ \A j \in a..k : IsDigits(ts[j])
                                   /\ a = 1 \/ ~IsDigits(ts[a - 1])}
<1>2. 0 \in T
  BY <1>1
<1>3. ASSUME NEW k \in 1..Len(ts), k - 1 \in T PROVE k \in T
  <2>1. k \in 0..Len(ts)
    BY <1>1
  <2>2. SUFFICES ASSUME IsDigits(ts[k])
                 PROVE  \E a \in 1..k : /\ \A j \in a..k : IsDigits(ts[j])
                                        /\ a = 1 \/ ~IsDigits(ts[a - 1])
    BY <2>1
  <2>3. CASE k = 1 \/ ~IsDigits(ts[k - 1])
    <3>1. k \in 1..k /\ \A j \in k..k : j = k
      OBVIOUS
    <3> QED
      BY <2>2, <2>3, <3>1
  <2>4. CASE k # 1 /\ IsDigits(ts[k - 1])
    <3>1. k - 1 >= 1
      BY <2>4
    <3>2. PICK a \in 1..(k - 1) : /\ \A j \in a..(k - 1) : IsDigits(ts[j])
                                  /\ a = 1 \/ ~IsDigits(ts[a - 1])
      BY <1>3, <2>4, <3>1
    <3>3. \A j \in a..k : j = k \/ j \in a..(k - 1)
      OBVIOUS
    <3>4. a \in 1..k
      OBVIOUS
    <3> QED
      BY <2>2, <3>2, <3>3, <3>4
  <2> QED
    BY <2>3, <2>4
<1>4. i \in T
  <2> HIDE DEF T
  <2>1. \A k \in 0..Len(ts) : k \in T
    BY <1>1, <1>2, <1>3, Induction
  <2> QED
    BY <1>1, <2>1
<1>5. PICK a \in 1..i : /\ \A j \in a..i : IsDigits(ts[j])
                        /\ a = 1 \/ ~IsDigits(ts[a - 1])
  BY <1>4
<1>6. PICK c \in Nat : c = CardLength(ts, i)
  BY CardLengthIs
<1>7. /\ i + c <= Len(ts) + 1 /\ c # 0
      /\ \A j \in i..(i + c - 1) : IsDigits(ts[j])
      /\ i + c <= Len(ts) => ~IsDigits(ts[i + c])
  BY <1>6, CardLengthIs
<1> DEFINE b == i + c - 1
<1>8. b \in i..Len(ts) /\ b + 1 = i + c
  BY <1>1, <1>7
<1>9. \A j \in a..b : j \in a..i \/ j \in i..b
  BY <1>8
<1>10. b = Len(ts) \/ ~IsDigits(ts[b + 1])
  BY <1>1, <1>7, <1>8
<1>11. \A j \in a..b : IsDigits(ts[j])
  BY <1>5, <1>7, <1>9
<1> HIDE DEF b
<1>12. IsRun(ts, a, b)
  BY <1>5, <1>10, <1>11 DEF IsRun
<1> QED
  BY <1>8, <1>12

\* What the runs around two tokens have to do with each other for them to be in
\* a card number or not.
SameRun(us, i, vs, k) ==
  \E a \in 1..i, b \in i..Len(us), c \in 1..k, d \in k..Len(vs) :
    IsRun(us, a, b) /\ IsRun(vs, c, d) /\ SameTokens(us, a, b, vs, c, d)

\* Groups of digits in equal runs are in a card or not alike.
LEMMA SameCard ==
  ASSUME NEW us \in Seq(Token), NEW vs \in Seq(Token),
         NEW i \in 1..Len(us), NEW k \in 1..Len(vs),
         SameRun(us, i, vs, k) \/ (~IsDigits(us[i]) /\ ~IsDigits(vs[k]))
  PROVE  RunCard(us, i) <=> RunCard(vs, k)
<1>1. CASE SameRun(us, i, vs, k)
  <2>1. PICK a \in 1..i, b \in i..Len(us), c \in 1..k, d \in k..Len(vs) :
          IsRun(us, a, b) /\ IsRun(vs, c, d) /\ SameTokens(us, a, b, vs, c, d)
    BY <1>1 DEF SameRun
  <2> QED
    BY <2>1, CardOfRun, SamePiece
<1>2. CASE ~IsDigits(us[i]) /\ ~IsDigits(vs[k])
  <2>1. ~RunCard(us, i)
    <3>1. \A a \in 1..i, b \in i..Len(us) : i \in a..b
      OBVIOUS
    <3> QED
      BY <1>2, <3>1 DEF RunCard, IsRun
  <2>2. ~RunCard(vs, k)
    <3>1. \A a \in 1..k, b \in k..Len(vs) : k \in a..b
      OBVIOUS
    <3> QED
      BY <1>2, <3>1 DEF RunCard, IsRun
  <2> QED
    BY <2>1, <2>2
<1> QED
  BY <1>1, <1>2

-----------------------------------------------------------------------------
(* The reference without blocks.                                           *)

\* What the reference has for the token at i, if blocks are masked already.
Shown(ts, i) ==
  IF RunCard(ts, i) \/ InFormat(ts, i) \/ ValueOfKey(ts, i) THEN Mask
  ELSE IF ts[i] = Link("credentials") THEN Link("masked")
  ELSE IF Echoes(ts, i) THEN [ts[i] EXCEPT !.of = "masked"]
  ELSE ts[i]

\* The reference of one without blocks, before masks are merged.
LineRef(ts) == [i \in 1..Len(ts) |-> Shown(ts, i)]

\* A mask remains one.
LEMMA MaskShown ==
  ASSUME NEW ts, NEW i, ts[i] = Mask
  PROVE  Shown(ts, i) = Mask
BY Apart DEF Shown, Echoes, Link, Mask

\* The reference is a sequence of tokens.
LEMMA LineRefType ==
  ASSUME NEW ts \in Seq(Token)
  PROVE  /\ LineRef(ts) \in Seq(Token) /\ Len(LineRef(ts)) = Len(ts)
         /\ \A i \in 1..Len(ts) : LineRef(ts)[i] = Shown(ts, i)
<1>1. Len(ts) \in Nat /\ \A i \in 1..Len(ts) : ts[i] \in Token
  OBVIOUS
<1>2. ASSUME NEW i \in 1..Len(ts) PROVE Shown(ts, i) \in Token
  <2>1. Mask \in Token /\ Link("masked") \in Token
    BY CleanTokens DEF InLine
  <2>2. Echoes(ts, i) => IsKey(ts[i])
    BY DEF Echoes
  <2> QED
    BY <1>1, <2>1, <2>2, MaskedKey DEF Shown
<1> QED
  BY <1>1, <1>2 DEF LineRef

\* A run of digits is outside of blocks or inside one.
LEMMA CardsOutside ==
  ASSUME NEW log \in Seq(Token), NEW i \in 1..Len(log), ~InBlock(log, i)
  PROVE  RunCard(BlockRef(log), i) <=> RunCard(log, i)
<1>1. PICK ref \in Seq(Token) :
        /\ ref = BlockRef(log) /\ Len(ref) = Len(log)
        /\ \A k \in 1..Len(log) : ref[k] = IF InBlock(log, k) THEN Mask ELSE log[k]
  BY BlockRefType
<1>2. Len(log) \in Nat /\ DOMAIN log = 1..Len(log)
  OBVIOUS
<1>3. CASE ~IsDigits(log[i])
  <2>1. ~IsDigits(ref[i]) /\ i \in 1..Len(ref)
    BY <1>1, <1>3
  <2> QED
    BY <1>1, <1>3, <2>1, SameCard
<1>4. CASE IsDigits(log[i])
  <2>1. PICK a \in 1..i, b \in i..Len(log) : IsRun(log, a, b)
    BY <1>4, RunIs
  <2>2. ASSUME NEW j \in a..b, InBlock(log, j) PROVE FALSE
    <3>1. PICK x \in 1..Len(log), y \in 1..Len(log) :
            /\ x <= j /\ j <= y /\ x < y
            /\ log[x] = Begin /\ log[y] = End
            /\ \A k \in (x + 1)..(y - 1) : log[k] # End
            /\ \/ \A k \in 1..(x - 1) : log[k] # Begin
               \/ \E e \in 1..(x - 1) : /\ log[e] = End
                                        /\ \A k \in (e + 1)..(x - 1) : log[k] # Begin
      BY <1>2, <2>2 DEF InBlock
    <3>2. x \notin a..b /\ y \notin a..b
      BY <2>1, <3>1 DEF IsRun, IsDigits, Begin, End
    <3>3. x <= i /\ i <= y
      BY <1>2, <3>1, <3>2
    <3>4. InBlock(log, i)
      BY <1>2, <3>1, <3>3 DEF InBlock
    <3> QED
      BY <3>4
  <2>3. \A j \in a..b : j \in 1..Len(log) /\ ref[j] = log[j]
    BY <1>1, <1>2, <2>2
  <2>4. IsRun(ref, a, b)
    <3>1. a # 1 => ~IsDigits(ref[a - 1])
      <4>1. a # 1 => a - 1 \in 1..Len(log)
        BY <1>2
      <4> QED
        BY <1>1, <2>1, <4>1, Apart DEF IsRun, IsDigits, Mask
    <3>2. b # Len(log) => ~IsDigits(ref[b + 1])
      <4>1. Len(log) \in Nat
        BY <1>2
      <4>2. b # Len(log) => b + 1 \in 1..Len(log)
        BY <4>1
      <4> QED
        BY <1>1, <2>1, <4>2, Apart DEF IsRun, IsDigits, Mask
    <3> QED
      BY <1>1, <2>1, <2>3, <3>1, <3>2 DEF IsRun
  <2>5. SameTokens(ref, a, b, log, a, b)
    <3>1. \A j \in 0..(b - a) : a + j \in a..b
      BY <1>2
    <3>2. a \in 1..Len(log) /\ b \in a..Len(log)
      BY <1>2
    <3> QED
      BY <1>1, <2>3, <3>1, <3>2 DEF SameTokens
  <2>6. b \in i..Len(ref) /\ i \in 1..Len(ref)
    BY <1>1
  <2>7. SameRun(ref, i, log, i)
    BY <2>1, <2>4, <2>5, <2>6 DEF SameRun
  <2>8. RunCard(ref, i) <=> RunCard(log, i)
    <3>1. SameRun(ref, i, log, i) \/ (~IsDigits(ref[i]) /\ ~IsDigits(log[i]))
      BY <2>7
    <3> QED
      BY <2>6, <3>1, SameCard
  <2> QED
    BY <1>1, <2>8
<1> QED
  BY <1>3, <1>4

\* The reference of a log before masks are merged.
MaskedLog(log) ==
  [i \in DOMAIN log |->
     IF Secret(log, i) THEN Mask
     ELSE IF log[i] = Link("credentials") THEN Link("masked")
     ELSE log[i]]

\* Where card numbers stand alone, each is a run.
LEMMA CardStandsAlone ==
  ASSUME NEW log \in Seq(Token), Recognisable(log), NEW i \in 1..Len(log)
  PROVE  InCard(log, i) <=> RunCard(log, i)
<1>1. Len(log) \in Nat /\ DOMAIN log = 1..Len(log)
  OBVIOUS
<1>2. \A a \in 1..i, b \in i..Len(log) : a \in DOMAIN log /\ b \in DOMAIN log /\ a <= b
  BY <1>1
<1>3. ASSUME InCard(log, i) PROVE RunCard(log, i)
  <2>1. PICK a \in 1..i, b \in i..Len(log) :
          /\ \A j \in a..b : IsDigits(log[j])
          /\ LuhnReference(NumberOf(SubSeq(log, a, b)))
    BY <1>3 DEF InCard
  <2>2. IsRun(log, a, b)
    BY <1>2, <2>1 DEF Recognisable
  <2> QED
    BY <2>1, <2>2 DEF RunCard
<1>4. ASSUME RunCard(log, i) PROVE InCard(log, i)
  BY <1>4 DEF RunCard, InCard, IsRun
<1> QED
  BY <1>3, <1>4

\* With the blocks masked, what is to be masked besides is what it was before.
LEMMA BlocksFirst ==
  ASSUME NEW log \in Seq(Token), WellFormed(log), Recognisable(log)
  PROVE  MaskedLog(log) = LineRef(BlockRef(log))
<1>1. PICK ref \in Seq(Token) :
        /\ ref = BlockRef(log) /\ Len(ref) = Len(log)
        /\ \A k \in 1..Len(log) : ref[k] = IF InBlock(log, k) THEN Mask ELSE log[k]
  BY BlockRefType
<1> DEFINE full == MaskedLog(log)
<1>2. DOMAIN log = 1..Len(log) /\ Len(log) \in Nat
  OBVIOUS
<1>3. /\ \A p \in 1..Len(log) : ref[p] = Mask \/ (ValueOfKey(ref, p) <=> ValueOfKey(log, p))
      /\ \A k \in 1..Len(log) : ref[k] = log[k] => (Echoes(ref, k) <=> Echoes(log, k))
  BY <1>1, WellAssigned, BlocksCover, Covering
<1>0. \A k \in 1..Len(log) : ~Echoes(log, k)
  BY <1>2 DEF Recognisable, Echoes
<1>4. ASSUME NEW i \in 1..Len(log) PROVE full[i] = Shown(ref, i)
  <2>1. Secret(log, i) <=> \/ InBlock(log, i) \/ RunCard(log, i) \/ InFormat(log, i)
                           \/ ValueOfKey(log, i)
    <3>1. InCard(log, i) <=> RunCard(log, i)
      BY CardStandsAlone
    <3>2. \A k \in 1..(i - 1) : ~Echoes(log, k)
      BY <1>0, <1>2
    <3> QED
      BY <3>1, <3>2 DEF Secret, ValueOfKey
  <2>0. full[i] = IF Secret(log, i) THEN Mask
                  ELSE IF log[i] = Link("credentials") THEN Link("masked")
                  ELSE log[i]
    BY <1>2 DEF MaskedLog
  <2> HIDE DEF full
  <2>2. CASE InBlock(log, i)
    <3>1. full[i] = Mask
      BY <2>0, <2>1, <2>2
    <3>2. ref[i] = Mask
      BY <1>1, <2>2
    <3> QED
      BY <3>1, <3>2, MaskShown
  <2>3. CASE ~InBlock(log, i) /\ log[i] = Mask
    <3>1. log[i] # Link("credentials")
      BY <2>3, Apart DEF Link, Mask
    <3>2. full[i] = Mask
      BY <2>0, <2>3, <3>1
    <3>3. ref[i] = Mask
      BY <1>1, <2>3
    <3> QED
      BY <3>2, <3>3, MaskShown
  <2>4. CASE ~InBlock(log, i) /\ log[i] # Mask
    <3>1. ref[i] = log[i]
      BY <1>1, <2>4
    <3>2. ValueOfKey(ref, i) <=> ValueOfKey(log, i)
      BY <1>3, <2>4, <3>1
    <3>3. ~Echoes(ref, i)
      BY <1>0, <1>3, <3>1
    <3>4. RunCard(ref, i) <=> RunCard(log, i)
      BY <1>1, <2>4, CardsOutside
    <3>5. InFormat(ref, i) <=> InFormat(log, i)
      BY <3>1 DEF InFormat
    <3> QED
      BY <2>0, <2>1, <2>4, <3>1, <3>2, <3>3, <3>4, <3>5 DEF Shown
  <2> QED
    BY <2>2, <2>3, <2>4
<1>5. full = LineRef(ref)
  <2>1. full = [i \in 1..Len(log) |-> full[i]]
    BY <1>2 DEF MaskedLog
  <2> HIDE DEF full
  <2> QED
    BY <1>1, <1>4, <2>1 DEF LineRef
<1> QED
  BY <1>1, <1>5

\* A run of digits is a run in the merged sequence.
LEMMA RunMerged ==
  ASSUME NEW us \in Seq(Token), NEW vs \in Seq(Token), NEW f, IsPlace(us, vs, f),
         NEW a \in 1..Len(vs), NEW b \in a..Len(vs), IsRun(vs, a, b)
  PROVE  /\ IsRun(us, f[a], f[b]) /\ SameTokens(us, f[a], f[b], vs, a, b)
         /\ \A p \in a..b : f[a] <= f[p] /\ f[p] <= f[b]
<1>1. InOrder(us, vs, f)
  BY PlaceIs
<1>2. /\ \A p \in 1..Len(vs) : f[p] \in 1..Len(us) /\ us[f[p]] = vs[p]
      /\ \A q \in 0..Len(vs) : \A p \in 0..q : f[p] <= f[q]
  BY <1>1 DEF InOrder
<1>3. Len(us) \in Nat /\ Len(vs) \in Nat
  OBVIOUS
<1>4. \A j \in a..b : j \in 1..Len(vs) /\ IsDigits(vs[j]) /\ vs[j] # Mask
  BY <1>3, Apart DEF IsRun
<1>5. f[a] \in 1..Len(us) /\ f[b] \in 1..Len(us)
  BY <1>2, <1>3
<1>6. \A j \in 0..(b - a) : f[a + j] = f[a] + j
  <2> DEFINE T == {j \in 0..(b - a) : f[a + j] = f[a] + j}
  <2>1. 0 \in T
    <3>1. a + 0 = a /\ f[a] + 0 = f[a] /\ 0 \in 0..(b - a)
      BY <1>5
    <3> QED
      BY <3>1
  <2>2. ASSUME NEW j \in 1..(b - a), j - 1 \in T PROVE j \in T
    <3>1. a + j \in a..b /\ (a + j) - 1 = a + (j - 1) /\ j \in 0..(b - a)
      BY <1>3
    <3>2. f[a + j] = f[(a + j) - 1] + 1
      BY <1>1, <1>4, <3>1 DEF InOrder
    <3>3. f[a + (j - 1)] = f[a] + (j - 1)
      BY <2>2
    <3>4. (f[a] + (j - 1)) + 1 = f[a] + j
      BY <1>5
    <3> QED
      BY <3>1, <3>2, <3>3, <3>4
  <2> HIDE DEF T
  <2>3. b - a \in Nat
    BY <1>3
  <2>4. \A j \in 0..(b - a) : j \in T
    BY <2>1, <2>2, <2>3, Induction
  <2> QED
    BY <2>4 DEF T
<1>7. f[b] = f[a] + (b - a)
  <2>1. b - a \in 0..(b - a) /\ a + (b - a) = b
    BY <1>3
  <2> QED
    BY <1>6, <2>1
<1>8. SameTokens(us, f[a], f[b], vs, a, b)
  <2>1. f[b] - f[a] = b - a /\ f[b] \in f[a]..Len(us)
    BY <1>3, <1>5, <1>7
  <2>2. \A j \in 0..(b - a) : us[f[a] + j] = vs[a + j]
    <3> TAKE j \in 0..(b - a)
    <3>1. a + j \in 1..Len(vs)
      BY <1>3
    <3>2. us[f[a + j]] = vs[a + j]
      BY <1>2, <3>1
    <3> QED
      BY <1>6, <3>2
  <2> QED
    BY <1>5, <2>1, <2>2 DEF SameTokens
<1>9. \A x \in f[a]..f[b] : IsDigits(us[x])
  <2> TAKE x \in f[a]..f[b]
  <2>1. x - f[a] \in 0..(b - a) /\ f[a] + (x - f[a]) = x
    BY <1>3, <1>5, <1>7
  <2>2. PICK j \in 0..(b - a) : j = x - f[a]
    BY <2>1
  <2>3. us[x] = vs[a + j]
    BY <1>7, <1>8, <2>1, <2>2 DEF SameTokens
  <2>4. a + j \in a..b
    BY <1>3
  <2> QED
    BY <1>4, <2>3, <2>4
<1>10. f[a] = 1 \/ ~IsDigits(us[f[a] - 1])
  <2>1. f[a] = f[a - 1] + 1
    BY <1>1, <1>4 DEF InOrder
  <2>2. CASE a = 1
    <3>1. f[a - 1] = 0
      BY <2>2 DEF IsPlace
    <3> QED
      BY <2>1, <3>1
  <2>3. CASE a # 1
    <3>1. a - 1 \in 1..Len(vs)
      BY <1>3, <2>3
    <3>2. f[a - 1] \in 1..Len(us) /\ us[f[a - 1]] = vs[a - 1]
      BY <1>2, <3>1
    <3>3. f[a] - 1 = f[a - 1]
      BY <1>3, <2>1, <3>2
    <3>4. ~IsDigits(vs[a - 1])
      BY <2>3 DEF IsRun
    <3> QED
      BY <3>2, <3>3, <3>4
  <2> QED
    BY <2>2, <2>3
<1>11. f[b] = Len(us) \/ ~IsDigits(us[f[b] + 1])
  <2>1. CASE b = Len(vs)
    BY <2>1 DEF IsPlace
  <2>2. CASE b # Len(vs)
    <3>1. b < Len(vs) /\ b + 1 \in 1..Len(vs) /\ b \in 1..Len(vs) /\ b \in a..b
      BY <1>3, <2>2
    <3>2. f[b + 1] = f[b] + 1
      BY <1>1, <1>4, <3>1 DEF InOrder
    <3>3. us[f[b + 1]] = vs[b + 1]
      BY <1>2, <3>1
    <3> QED
      BY <2>2, <3>2, <3>3 DEF IsRun
  <2> QED
    BY <2>1, <2>2
<1>12. \A p \in a..b : f[a] <= f[p] /\ f[p] <= f[b]
  <2> TAKE p \in a..b
  <2>1. a \in 0..p /\ p \in 0..b /\ p \in 0..Len(vs) /\ b \in 0..Len(vs)
    BY <1>3
  <2> QED
    BY <1>2, <2>1
<1> QED
  BY <1>8, <1>9, <1>10, <1>11, <1>12 DEF IsRun

\* A token is in a card after merging if it was before.
LEMMA CardsMerged ==
  ASSUME NEW us \in Seq(Token), NEW vs \in Seq(Token), NEW f, IsPlace(us, vs, f),
         NEW p \in 1..Len(vs)
  PROVE  RunCard(us, f[p]) <=> RunCard(vs, p)
<1>1. f[p] \in 1..Len(us) /\ us[f[p]] = vs[p] /\ Len(us) \in Nat /\ Len(vs) \in Nat
  <2>1. InOrder(us, vs, f)
    BY PlaceIs
  <2> QED
    BY <2>1 DEF InOrder
<1>2. CASE ~IsDigits(vs[p])
  BY <1>1, <1>2, SameCard
<1>3. CASE IsDigits(vs[p])
  <2>1. PICK a \in 1..p, b \in p..Len(vs) : IsRun(vs, a, b)
    BY <1>3, RunIs
  <2>2. a \in 1..Len(vs) /\ b \in a..Len(vs) /\ p \in a..b
    BY <1>1
  <2>3. /\ IsRun(us, f[a], f[b]) /\ SameTokens(us, f[a], f[b], vs, a, b)
        /\ f[a] <= f[p] /\ f[p] <= f[b]
    BY <2>1, <2>2, RunMerged
  <2>4. f[a] \in 1..f[p] /\ f[b] \in f[p]..Len(us)
    BY <1>1, <2>3 DEF SameTokens
  <2>5. SameRun(us, f[p], vs, p)
    BY <2>1, <2>3, <2>4 DEF SameRun
  <2> QED
    BY <1>1, <2>5, SameCard
<1> QED
  BY <1>2, <1>3

\* Masks merged before or after the rest is masked.
LEMMA LinesMerged ==
  ASSUME NEW us \in Seq(Token), NEW vs \in Seq(Token), Merged(us, vs), Assigned(vs)
  PROVE  Merged(LineRef(us), LineRef(vs)) /\ Assigned(us)
<1>1. PICK f : IsPlace(us, vs, f)
  BY DEF Merged
<1>2. /\ Assigned(us)
      /\ \A p \in 1..Len(vs) : vs[p] = Mask \/ SameToKeys(us, f[p], vs, p)
  BY <1>1, Merging
<1>3. /\ f \in [0..Len(vs) -> 0..Len(us)] /\ f[0] = 0 /\ f[Len(vs)] = Len(us)
      /\ \A p \in 1..Len(vs) :
           /\ f[p] >= 1 /\ us[f[p]] = vs[p]
           /\ \/ f[p] = f[p - 1] + 1
              \/ f[p] = f[p - 1] /\ vs[p] = Mask
  BY <1>1 DEF IsPlace
<1>4. ASSUME NEW p \in 1..Len(vs) PROVE Shown(us, f[p]) = Shown(vs, p)
  <2>1. us[f[p]] = vs[p]
    BY <1>3
  <2>2. CASE vs[p] = Mask
    BY <2>1, <2>2, MaskShown
  <2>3. CASE vs[p] # Mask
    <3>1. SameToKeys(us, f[p], vs, p)
      BY <1>2, <2>3
    <3>2. RunCard(us, f[p]) <=> RunCard(vs, p)
      BY <1>1, CardsMerged
    <3> QED
      BY <2>1, <3>1, <3>2 DEF Shown, InFormat, SameToKeys
  <2> QED
    BY <2>2, <2>3
<1>5. PICK xs \in Seq(Token) : /\ xs = LineRef(us) /\ Len(xs) = Len(us)
                               /\ \A i \in 1..Len(us) : xs[i] = Shown(us, i)
  BY LineRefType
<1>6. PICK ys \in Seq(Token) : /\ ys = LineRef(vs) /\ Len(ys) = Len(vs)
                               /\ \A i \in 1..Len(vs) : ys[i] = Shown(vs, i)
  BY LineRefType
<1>7. \A p \in 1..Len(vs) : f[p] \in 1..Len(us)
  <2>1. InOrder(us, vs, f)
    BY <1>1, PlaceIs
  <2> QED
    BY <2>1 DEF InOrder
<1>8. \A p \in 1..Len(vs) : vs[p] = Mask => ys[p] = Mask
  BY <1>6, MaskShown
<1>9. IsPlace(xs, ys, f)
  BY <1>3, <1>4, <1>5, <1>6, <1>7, <1>8 DEF IsPlace
<1> QED
  BY <1>2, <1>5, <1>6, <1>9 DEF Merged

-----------------------------------------------------------------------------
(* The reference line by line.                                             *)

\* The tokens from a to b are a line.
IsLine(ts, a, b) ==
  /\ a \in 1..Len(ts) /\ b \in a..Len(ts)
  /\ \A j \in a..b : ts[j] # NewLine
  /\ a = 1 \/ ts[a - 1] = NewLine
  /\ b = Len(ts) \/ ts[b + 1] = NewLine

\* A key of a line has its value in it.
LEMMA KeyOfLine ==
  ASSUME NEW F, NEW ts \in Seq(F), Assigned(ts), NEW a, NEW b, IsLine(ts, a, b),
         NEW us, PieceIs(ts, a, b, us, F), NEW j \in 1..Len(us), IsKey(us[j])
  PROVE  /\ j < Len(us) /\ us[j + 1] = ts[(a + j - 1) + 1]
         /\ a + j - 1 \in 1..Len(ts) /\ a + j - 1 < Len(ts) /\ us[j] = ts[a + j - 1]
         /\ IsQuote(us[j + 1]) =>
              \E e \in (j + 3)..Len(us) :
                /\ Quoted(us, j, e) /\ Quoted(ts, a + j - 1, a + e - 1)
                /\ a + e - 1 \in ((a + j - 1) + 3)..Len(ts)
                /\ us[j + 2] = ts[(a + j - 1) + 2]
<1>1. /\ a \in 1..Len(ts) /\ b \in a..Len(ts) /\ Len(ts) \in Nat
      /\ b = Len(ts) \/ ts[b + 1] = NewLine
  BY DEF IsLine
<1>2. /\ us \in Seq(F) /\ Len(us) = b - a + 1
      /\ \A i \in 1..Len(us) : us[i] = ts[a + i - 1]
  BY DEF PieceIs
<1> DEFINE k == a + j - 1
<1>3. k \in a..b /\ k \in 1..Len(ts) /\ us[j] = ts[k] /\ IsKey(ts[k])
  BY <1>1, <1>2
<1> HIDE DEF k
<1>4. k < Len(ts) /\ ts[k + 1] # NewLine
  BY <1>3 DEF Assigned
<1>5. k # b
  BY <1>1, <1>4
<1>6. j < Len(us) /\ a + (j + 1) - 1 = k + 1 /\ j + 1 \in 1..Len(us)
  BY <1>1, <1>2, <1>3, <1>5 DEF k
<1>7. us[j + 1] = ts[k + 1]
  BY <1>2, <1>6
<1>8. ASSUME IsQuote(us[j + 1])
      PROVE  \E e \in (j + 3)..Len(us) :
                /\ Quoted(us, j, e) /\ Quoted(ts, k, a + e - 1)
                /\ a + e - 1 \in (k + 3)..Len(ts)
                /\ us[j + 2] = ts[k + 2]
  <2>1. PICK d \in (k + 3)..Len(ts) : Quoted(ts, k, d)
    BY <1>3, <1>7, <1>8 DEF Assigned
  <2>2. IsQuote(ts[d]) /\ ts[d] = ts[k + 1]
    BY <2>1 DEF Quoted
  <2>3. ~ (b < d)
    <3>1. SUFFICES ASSUME b < d PROVE FALSE
      OBVIOUS
    <3>2. ts[b + 1] = NewLine
      BY <1>1, <3>1
    <3>3. b + 1 # d
      BY <2>2, <3>2, Apart
    <3>4. b + 1 # k + 1
      BY <1>3, <1>5, <1>1
    <3>5. b + 1 \in (k + 2)..(d - 1)
      BY <1>1, <1>3, <3>1, <3>3, <3>4
    <3> QED
      BY <2>1, <3>2, <3>5 DEF Quoted
  <2> DEFINE e == d - a + 1
  <2>4. e \in (j + 3)..Len(us) /\ a + e - 1 = d /\ e \in 1..Len(us)
    BY <1>1, <1>2, <1>3, <2>3 DEF k
  <2> HIDE DEF e
  <2>5. us[e] = ts[d]
    BY <1>2, <2>4
  <2>6. ASSUME NEW i \in (j + 2)..(e - 1)
        PROVE  ~IsQuote(us[i]) /\ ~IsKey(us[i]) /\ us[i] # NewLine
    <3>1. i \in 1..Len(us) /\ a + i - 1 \in (k + 2)..(d - 1)
      BY <1>1, <1>2, <2>4 DEF k
    <3>2. us[i] = ts[a + i - 1]
      BY <1>2, <3>1
    <3> QED
      BY <2>1, <3>1, <3>2 DEF Quoted
  <2>7. Quoted(us, j, e)
    BY <1>7, <1>8, <2>2, <2>5, <2>6 DEF Quoted
  <2>8. us[j + 2] = ts[k + 2]
    <3>1. j + 2 \in 1..Len(us) /\ a + (j + 2) - 1 = k + 2
      BY <1>1, <1>2, <2>4 DEF k
    <3> QED
      BY <1>2, <3>1
  <2> QED
    BY <2>1, <2>4, <2>7, <2>8
<1> QED
  BY <1>3, <1>4, <1>6, <1>7, <1>8 DEF k

\* The values of a key of a line, there and in the whole.
LEMMA ValuesOfLine ==
  ASSUME NEW F, NEW ts \in Seq(F), Assigned(ts), NEW a, NEW b, IsLine(ts, a, b),
         NEW us, PieceIs(ts, a, b, us, F), NEW j \in 1..Len(us), IsKey(us[j]), Sensitive(us[j])
  PROVE  /\ Echoes(us, j) <=> Echoes(ts, a + j - 1)
         /\ \A i \in 1..Len(us) :
              InValueOf(us, j, i) <=> InValueOf(ts, a + j - 1, a + i - 1)
<1>1. a \in 1..Len(ts) /\ b \in a..Len(ts) /\ Len(ts) \in Nat
  BY DEF IsLine
<1>2. us \in Seq(F) /\ Len(us) = b - a + 1
  BY DEF PieceIs
<1>3. PICK k \in 1..Len(ts) : k = a + j - 1
  BY KeyOfLine
<1>4. /\ j < Len(us) /\ us[j + 1] = ts[k + 1] /\ k < Len(ts) /\ us[j] = ts[k]
  BY <1>3, KeyOfLine
<1>5. \A i \in 1..Len(us) : a + i - 1 \in 1..Len(ts)
  BY <1>1, <1>2
<1>6. CASE ~IsQuote(us[j + 1])
  <2>1. /\ \A i \in 1..Len(us) : InValueOf(us, j, i) <=> i = j + 1
        /\ Echoes(us, j) <=> us[j + 1] = Echo
    BY <1>2, <1>4, <1>6, BareValue
  <2>2. /\ \A p \in 1..Len(ts) : InValueOf(ts, k, p) <=> p = k + 1
        /\ Echoes(ts, k) <=> ts[k + 1] = Echo
    BY <1>4, <1>6, BareValue
  <2>3. \A i \in 1..Len(us) : a + i - 1 = k + 1 <=> i = j + 1
    BY <1>1, <1>3
  <2> QED
    BY <1>3, <1>4, <1>5, <2>1, <2>2, <2>3
<1>7. CASE IsQuote(us[j + 1])
  <2>1. PICK e \in (j + 3)..Len(us) :
           /\ Quoted(us, j, e) /\ Quoted(ts, k, a + e - 1)
           /\ a + e - 1 \in (k + 3)..Len(ts)
           /\ us[j + 2] = ts[k + 2]
    <3>1. \E e \in (j + 3)..Len(us) :
            /\ Quoted(us, j, e) /\ Quoted(ts, a + j - 1, a + e - 1)
            /\ a + e - 1 \in ((a + j - 1) + 3)..Len(ts)
            /\ us[j + 2] = ts[(a + j - 1) + 2]
      BY <1>7, KeyOfLine
    <3> QED
      BY <1>3, <3>1
  <2>2. PICK d \in (k + 3)..Len(ts) : d = a + e - 1 /\ Quoted(ts, k, d)
    BY <2>1
  <2>3. /\ \A i \in 1..Len(us) : InValueOf(us, j, i) <=> j + 2 <= i /\ i < e
        /\ Echoes(us, j) <=> us[j].form = "json" /\ us[j + 2] = Echo /\ e = j + 3
    BY <1>2, <1>4, <2>1, QuotedValue
  <2>4. /\ \A p \in 1..Len(ts) : InValueOf(ts, k, p) <=> k + 2 <= p /\ p < d
        /\ Echoes(ts, k) <=> ts[k].form = "json" /\ ts[k + 2] = Echo /\ d = k + 3
    BY <1>4, <2>2, QuotedValue
  <2>5. \A i \in 1..Len(us) : k + 2 <= a + i - 1 /\ a + i - 1 < d <=> j + 2 <= i /\ i < e
    BY <1>1, <1>3, <2>2
  <2>6. e = j + 3 <=> d = k + 3
    BY <1>1, <1>3, <2>2
  <2> QED
    BY <1>3, <1>4, <1>5, <2>1, <2>3, <2>4, <2>5, <2>6
<1> QED
  BY <1>6, <1>7

\* A value does not go over a line end.
LEMMA ValueInLine ==
  ASSUME NEW F, NEW ts \in Seq(F), Assigned(ts), NEW a, NEW b, IsLine(ts, a, b),
         NEW p \in a..b, NEW k \in 1..(p - 1), InValueOf(ts, k, p)
  PROVE  a <= k
<1>1. /\ a \in 1..Len(ts) /\ b \in a..Len(ts) /\ Len(ts) \in Nat
      /\ a = 1 \/ ts[a - 1] = NewLine
  BY DEF IsLine
<1>2. SUFFICES ASSUME k < a PROVE FALSE
  BY <1>1
<1>3. ts[a - 1] = NewLine /\ k \in 1..Len(ts) /\ p \in 1..Len(ts)
  BY <1>1, <1>2
<1>4. IsKey(ts[k]) /\ Sensitive(ts[k]) /\ k < Len(ts)
  BY <1>1, <1>2 DEF InValueOf
<1>5. k # a - 1
  BY <1>3, <1>4, Apart
<1>6. CASE ~IsQuote(ts[k + 1])
  <2>1. p = k + 1
    BY <1>3, <1>4, <1>6, BareValue
  <2> QED
    BY <1>1, <1>2, <1>5, <2>1
<1>7. CASE IsQuote(ts[k + 1])
  <2>1. PICK e \in (k + 3)..Len(ts) : Quoted(ts, k, e)
    BY <1>3, <1>4, <1>7 DEF Assigned
  <2>2. k + 2 <= p /\ p < e
    BY <1>3, <1>4, <2>1, QuotedValue
  <2>3. a - 1 # k + 1
    BY <1>3, <1>7, Apart
  <2>4. a - 1 \in (k + 2)..(e - 1)
    BY <1>1, <1>2, <1>5, <2>2, <2>3
  <2> QED
    BY <1>3, <2>1, <2>4 DEF Quoted
<1> QED
  BY <1>6, <1>7

\* Neither does a run of digits.
LEMMA CardsOfLine ==
  ASSUME NEW ts \in Seq(Token), NEW a, NEW b, IsLine(ts, a, b),
         NEW us, PieceIs(ts, a, b, us, Token), NEW i \in 1..Len(us)
  PROVE  RunCard(us, i) <=> RunCard(ts, a + i - 1)
<1>1. /\ a \in 1..Len(ts) /\ b \in a..Len(ts) /\ Len(ts) \in Nat
      /\ a = 1 \/ ts[a - 1] = NewLine
      /\ b = Len(ts) \/ ts[b + 1] = NewLine
  BY DEF IsLine
<1>2. /\ us \in Seq(Token) /\ Len(us) = b - a + 1
      /\ \A j \in 1..Len(us) : us[j] = ts[a + j - 1]
  BY DEF PieceIs
<1>3. PICK p \in 1..Len(ts) : p = a + i - 1
  BY <1>1, <1>2
<1>4. us[i] = ts[p]
  BY <1>2, <1>3
<1>5. CASE ~IsDigits(us[i])
  <2>1. RunCard(us, i) <=> RunCard(ts, p)
    BY <1>2, <1>4, <1>5, SameCard
  <2> QED
    BY <1>3, <2>1
<1>6. CASE IsDigits(us[i])
  <2>1. PICK c \in 1..i, d \in i..Len(us) : IsRun(us, c, d)
    BY <1>2, <1>6, RunIs
  <2> DEFINE x == a + c - 1
             y == a + d - 1
  <2>2. x \in 1..p /\ y \in p..Len(ts) /\ y - x = d - c /\ x >= a /\ y <= b
    BY <1>1, <1>2, <1>3
  <2>3. \A j \in 0..(d - c) : c + j \in 1..Len(us) /\ a + (c + j) - 1 = x + j
    BY <1>1, <1>2
  <2>4. \A j \in 0..(d - c) : us[c + j] = ts[x + j]
    <3> TAKE j \in 0..(d - c)
    <3>1. us[c + j] = ts[a + (c + j) - 1]
      BY <1>2, <2>3
    <3> QED
      BY <2>3, <3>1
  <2>5. SameTokens(us, c, d, ts, x, y)
    <3>1. c \in 1..Len(us) /\ d \in c..Len(us) /\ x \in 1..Len(ts) /\ y \in x..Len(ts)
      BY <1>1, <1>2, <2>2
    <3> HIDE DEF x, y
    <3> QED
      BY <2>2, <2>4, <3>1 DEF SameTokens
  <2>6. IsRun(ts, x, y)
    <3> HIDE DEF x, y
    <3>1. ASSUME NEW j \in x..y PROVE IsDigits(ts[j])
      <4>1. PICK l \in 0..(d - c) : l = j - x
        BY <1>1, <2>2
      <4>2. c + l \in c..d /\ x + l = j
        BY <1>2, <2>2, <4>1
      <4> QED
        BY <2>1, <2>4, <4>1, <4>2 DEF IsRun
    <3>2. x = 1 \/ ~IsDigits(ts[x - 1])
      <4>1. CASE c = 1
        <5>1. x = a
          BY <1>1, <4>1 DEF x
        <5> QED
          BY <1>1, <5>1, Apart
      <4>2. CASE c # 1
        <5>1. c - 1 \in 1..Len(us) /\ a + (c - 1) - 1 = x - 1
          BY <1>1, <1>2, <4>2 DEF x
        <5>2. us[c - 1] = ts[x - 1]
          BY <1>2, <5>1
        <5> QED
          BY <2>1, <4>2, <5>2 DEF IsRun
      <4> QED
        BY <4>1, <4>2
    <3>3. y = Len(ts) \/ ~IsDigits(ts[y + 1])
      <4>1. CASE d = Len(us)
        <5>1. y = b
          BY <1>1, <1>2, <4>1 DEF y
        <5> QED
          BY <1>1, <5>1, Apart
      <4>2. CASE d # Len(us)
        <5>1. d + 1 \in 1..Len(us) /\ a + (d + 1) - 1 = y + 1
          BY <1>1, <1>2, <4>2 DEF y
        <5>2. us[d + 1] = ts[y + 1]
          BY <1>2, <5>1
        <5> QED
          BY <2>1, <4>2, <5>2 DEF IsRun
      <4> QED
        BY <4>1, <4>2
    <3> QED
      BY <3>1, <3>2, <3>3 DEF IsRun
  <2> HIDE DEF x, y
  <2>7. SameRun(us, i, ts, p)
    BY <2>1, <2>2, <2>5, <2>6 DEF SameRun
  <2>8. RunCard(us, i) <=> RunCard(ts, p)
    BY <1>2, <2>7, SameCard
  <2> QED
    BY <1>3, <2>8
<1> QED
  BY <1>5, <1>6

\* What is to be masked in a line is what is to be masked there in the whole.
LEMMA LineByItself ==
  ASSUME NEW ts \in Seq(Token), Assigned(ts), NEW a, NEW b, IsLine(ts, a, b)
  PROVE  /\ Assigned(SubSeq(ts, a, b))
         /\ LineRef(SubSeq(ts, a, b)) = SubSeq(LineRef(ts), a, b)
<1>1. a \in 1..Len(ts) /\ b \in a..Len(ts) /\ Len(ts) \in Nat
  BY DEF IsLine
<1>2. PICK us : PieceIs(ts, a, b, us, Token)
  BY <1>1, Piece
<1>3. /\ us = SubSeq(ts, a, b) /\ us \in Seq(Token) /\ Len(us) = b - a + 1
      /\ \A j \in 1..Len(us) : us[j] = ts[a + j - 1]
  BY <1>2 DEF PieceIs
<1>4. Assigned(us)
  <2> SUFFICES ASSUME NEW j \in 1..Len(us), IsKey(us[j])
               PROVE  /\ j < Len(us) /\ ~IsKey(us[j + 1]) /\ us[j + 1] # NewLine
                      /\ IsQuote(us[j + 1]) => \E e \in (j + 3)..Len(us) : Quoted(us, j, e)
    BY DEF Assigned
  <2>1. PICK k \in 1..Len(ts) : k = a + j - 1
    BY <1>2, KeyOfLine
  <2>2. /\ j < Len(us) /\ us[j + 1] = ts[k + 1] /\ us[j] = ts[k]
    BY <1>2, <2>1, KeyOfLine
  <2>3. ~IsKey(ts[k + 1]) /\ ts[k + 1] # NewLine
    BY <2>2 DEF Assigned
  <2>4. IsQuote(us[j + 1]) => \E e \in (j + 3)..Len(us) : Quoted(us, j, e)
    BY <1>2, KeyOfLine
  <2> QED
    BY <2>2, <2>3, <2>4
<1>5. ASSUME NEW i \in 1..Len(us) PROVE Shown(us, i) = Shown(ts, a + i - 1)
  <2>1. PICK p \in a..b : p = a + i - 1
    BY <1>1, <1>3
  <2>2. us[i] = ts[p]
    BY <1>3, <2>1
  <2>3. RunCard(us, i) <=> RunCard(ts, p)
    BY <1>2, <2>1, CardsOfLine
  <2>4. Echoes(us, i) <=> Echoes(ts, p)
    <3>1. CASE IsKey(us[i]) /\ Sensitive(us[i])
      BY <1>2, <2>1, <3>1, ValuesOfLine
    <3>2. CASE ~ (IsKey(us[i]) /\ Sensitive(us[i]))
      BY <2>2, <3>2 DEF Echoes
    <3> QED
      BY <3>1, <3>2
  <2>5. ASSUME ValueOfKey(us, i) PROVE ValueOfKey(ts, p)
    <3>1. PICK j \in 1..(i - 1) : InValueOf(us, j, i) /\ ~Echoes(us, j)
      BY <2>5 DEF ValueOfKey
    <3>2. j \in 1..Len(us) /\ IsKey(us[j]) /\ Sensitive(us[j])
      BY <1>3, <3>1 DEF InValueOf
    <3>3. InValueOf(ts, a + j - 1, p) /\ ~Echoes(ts, a + j - 1)
      BY <1>2, <2>1, <3>1, <3>2, ValuesOfLine
    <3>4. a + j - 1 \in 1..(p - 1)
      BY <1>1, <2>1
    <3> QED
      BY <3>3, <3>4 DEF ValueOfKey
  <2>6. ASSUME ValueOfKey(ts, p) PROVE ValueOfKey(us, i)
    <3>1. PICK k \in 1..(p - 1) : InValueOf(ts, k, p) /\ ~Echoes(ts, k)
      BY <2>6 DEF ValueOfKey
    <3>2. a <= k
      BY <3>1, ValueInLine
    <3>3. PICK j \in 1..(i - 1) : k = a + j - 1
      <4>1. k - a + 1 \in 1..(i - 1) /\ k = a + (k - a + 1) - 1
        BY <1>1, <2>1, <3>2
      <4> QED
        BY <4>1
    <3>4. j \in 1..Len(us) /\ us[j] = ts[k]
      BY <1>3, <3>3
    <3>5. IsKey(us[j]) /\ Sensitive(us[j])
      BY <3>1, <3>4 DEF InValueOf
    <3>6. InValueOf(us, j, i) /\ ~Echoes(us, j)
      BY <1>2, <2>1, <3>1, <3>3, <3>4, <3>5, ValuesOfLine
    <3> QED
      BY <3>6 DEF ValueOfKey
  <2>7. Shown(us, i) = Shown(ts, p)
    BY <2>2, <2>3, <2>4, <2>5, <2>6 DEF Shown, InFormat
  <2> QED
    BY <2>1, <2>7
<1>6. PICK xs \in Seq(Token) : /\ xs = LineRef(us) /\ Len(xs) = Len(us)
                               /\ \A i \in 1..Len(us) : xs[i] = Shown(us, i)
  BY <1>3, LineRefType
<1>7. PICK ys \in Seq(Token) : /\ ys = LineRef(ts) /\ Len(ys) = Len(ts)
                               /\ \A i \in 1..Len(ts) : ys[i] = Shown(ts, i)
  BY LineRefType
<1>8. PICK zs : PieceIs(ys, a, b, zs, Token)
  BY <1>1, <1>7, Piece
<1>9. zs = SubSeq(ys, a, b) /\ zs \in Seq(Token) /\ Len(zs) = Len(xs)
  BY <1>3, <1>6, <1>8 DEF PieceIs
<1>10. ASSUME NEW i \in 1..Len(xs) PROVE xs[i] = zs[i]
  <2>1. i \in 1..Len(us) /\ i \in 1..(b - a + 1) /\ a + i - 1 \in 1..Len(ts)
    BY <1>1, <1>3, <1>6
  <2>2. zs[i] = ys[a + i - 1]
    BY <1>8, <2>1 DEF PieceIs
  <2>3. xs[i] = Shown(us, i) /\ ys[a + i - 1] = Shown(ts, a + i - 1)
    BY <1>6, <1>7, <2>1
  <2> QED
    BY <1>5, <2>1, <2>2, <2>3
<1>11. xs = zs
  BY <1>9, <1>10, SeqEqual
<1> QED
  BY <1>3, <1>4, <1>6, <1>7, <1>9, <1>11

-----------------------------------------------------------------------------
(* Card numbers and values, and the reference.                             *)

\* The line with its card numbers masked, token by token.
CardRef(ts) == [i \in 1..Len(ts) |-> IF RunCard(ts, i) THEN Mask ELSE ts[i]]

\* The line with its card numbers masked is one of tokens.
LEMMA CardRefType ==
  ASSUME NEW F, NEW ts \in Seq(F), Mask \in F
  PROVE  /\ CardRef(ts) \in Seq(F) /\ Len(CardRef(ts)) = Len(ts)
         /\ \A i \in 1..Len(ts) : CardRef(ts)[i] = IF RunCard(ts, i) THEN Mask ELSE ts[i]
<1>1. Len(ts) \in Nat /\ \A i \in 1..Len(ts) : ts[i] \in F
  OBVIOUS
<1> QED
  BY <1>1 DEF CardRef

\* Two pieces with the same tokens.
LEMMA SamePieces ==
  ASSUME NEW F, NEW us \in Seq(F), NEW vs \in Seq(F), Len(us) = Len(vs),
         NEW a \in 1..Len(us), NEW b \in a..Len(us), \A j \in a..b : us[j] = vs[j]
  PROVE  Merged(SubSeq(us, a, b), SubSeq(vs, a, b))
<1>1. PICK xs : PieceIs(us, a, b, xs, F)
  BY Piece
<1>2. PICK ys : PieceIs(vs, a, b, ys, F)
  <2>1. a \in 1..Len(vs) /\ b \in a..Len(vs)
    OBVIOUS
  <2> QED
    BY <2>1, Piece
<1>3. /\ xs = SubSeq(us, a, b) /\ xs \in Seq(F) /\ Len(xs) = b - a + 1
      /\ ys = SubSeq(vs, a, b) /\ ys \in Seq(F) /\ Len(ys) = b - a + 1
  BY <1>1, <1>2 DEF PieceIs
<1>4. ASSUME NEW j \in 1..Len(xs) PROVE xs[j] = ys[j]
  <2>1. j \in 1..(b - a + 1) /\ a + j - 1 \in a..b
    BY <1>3
  <2> QED
    BY <1>1, <1>2, <2>1 DEF PieceIs
<1>5. xs = ys
  BY <1>3, <1>4, SeqEqual
<1> QED
  BY <1>3, <1>5, MergedSame

\* The pass for card numbers masks the groups in them, each number with one mask.
LEMMA CardsAsRef ==
  ASSUME NEW ts \in Seq(InLine(Token))
  PROVE  Merged(maskCards(ts), CardRef(ts))
<1> DEFINE F == InLine(Token)
           length == [i \in DOMAIN ts |-> CardLength(ts, i)]
           by == [i \in DOMAIN ts |-> MaskedCard(SubSeq(ts, i, i + CardLength(ts, i) - 1))]
           at == {i \in 1..(Len(ts) + 1) :
                    \/ i = 1 \/ i = Len(ts) + 1
                    \/ ~IsDigits(ts[i - 1]) \/ ~IsDigits(ts[i])}
<1>1. DOMAIN ts = 1..Len(ts) /\ Len(ts) \in Nat /\ ts \in Seq(Token)
  <2>1. InLine(Token) \subseteq Token
    BY DEF InLine
  <2> QED
    BY <2>1
<1>2. Matches(ts, length, by, F)
  BY CardMatches
<1>3. 1 \in at
  BY <1>1
<1>4. PICK ref \in Seq(F) :
        /\ ref = CardRef(ts) /\ Len(ref) = Len(ts)
        /\ \A i \in 1..Len(ts) : ref[i] = IF RunCard(ts, i) THEN Mask ELSE ts[i]
  <2>1. Mask \in F
    BY CleanTokens DEF InLine
  <2> QED
    BY <2>1, CardRefType
<1>5. ASSUME NEW i \in at \cap (1..Len(ts)), length[i] = 0
      PROVE  i + 1 \in at /\ ref[i] = ts[i]
  <2>1. ~IsDigits(ts[i])
    BY <1>1, <1>5, CardLengthIs
  <2>2. i + 1 \in 1..(Len(ts) + 1) /\ (i + 1) - 1 = i
    BY <1>1
  <2>3. \A a \in 1..i, b \in i..Len(ts) : i \in a..b
    BY <1>1
  <2>4. ~RunCard(ts, i)
    BY <2>1, <2>3 DEF RunCard, IsRun
  <2> QED
    BY <1>4, <2>1, <2>2, <2>4
<1>6. ASSUME NEW i \in at \cap (1..Len(ts)), length[i] # 0
      PROVE  i + length[i] \in at /\ Merged(by[i], SubSeq(ref, i, i + length[i] - 1))
  <2>1. PICK c \in Nat :
          /\ c = CardLength(ts, i) /\ c = length[i] /\ c # 0 /\ i + c <= Len(ts) + 1
          /\ \A j \in i..(i + c - 1) : IsDigits(ts[j])
          /\ i + c <= Len(ts) => ~IsDigits(ts[i + c])
    BY <1>1, <1>6, CardLengthIs
  <2>2. PICK e \in i..Len(ts) : e = i + c - 1 /\ e + 1 = i + c
    BY <1>1, <2>1
  <2>3. i + length[i] \in at
    <3>1. i + c \in 1..(Len(ts) + 1)
      BY <1>1, <2>1
    <3>2. i + c # Len(ts) + 1 => i + c <= Len(ts)
      BY <1>1, <3>1
    <3>3. i + c \in at
      BY <2>1, <3>1, <3>2
    <3> HIDE DEF at, length
    <3> QED
      BY <2>1, <3>3
  <2>4. IsRun(ts, i, e)
    <3>1. i \in i..e
      BY <1>1
    <3>2. IsDigits(ts[i])
      BY <2>1, <2>2, <3>1
    <3>3. i = 1 \/ ~IsDigits(ts[i - 1])
      BY <1>1, <3>2
    <3>4. e = Len(ts) \/ ~IsDigits(ts[e + 1])
      BY <1>1, <2>1, <2>2
    <3> QED
      BY <2>1, <2>2, <3>3, <3>4 DEF IsRun
  <2>5. \A j \in i..e : RunCard(ts, j) <=> IsNumber(ts, i, e)
    <3> TAKE j \in i..e
    <3>1. j \in 1..Len(ts) /\ i \in 1..j /\ e \in j..Len(ts)
      BY <1>1
    <3> QED
      BY <1>1, <2>4, <3>1, CardOfRun
  <2>6. \A j \in i..e : j \in 1..Len(ts)
    BY <1>1
  <2>7. by[i] = MaskedCard(SubSeq(ts, i, e)) /\ i + length[i] - 1 = e
    BY <1>1, <2>1, <2>2
  <2>8. i \in 1..Len(ts) /\ i \in 1..Len(ref) /\ e \in i..Len(ref)
    BY <1>4
  <2> HIDE DEF at, length, by, F
  <2>9. CASE IsNumber(ts, i, e)
    <3>1. by[i] = <<Mask>>
      BY <2>7, <2>9 DEF MaskedCard, IsNumber
    <3>2. \A j \in i..e : ref[j] = Mask
      BY <1>4, <2>5, <2>6, <2>9
    <3>3. Merged(<<Mask>>, SubSeq(ref, i, e))
      BY <2>8, <3>2, AllMasked
    <3> QED
      BY <2>3, <2>7, <3>1, <3>3
  <2>10. CASE ~IsNumber(ts, i, e)
    <3>1. by[i] = SubSeq(ts, i, e)
      BY <2>7, <2>10 DEF MaskedCard, IsNumber
    <3>2. \A j \in i..e : ts[j] = ref[j]
      BY <1>4, <2>5, <2>6, <2>10
    <3>3. ts \in Seq(F)
      BY DEF F
    <3>4. Merged(SubSeq(ts, i, e), SubSeq(ref, i, e))
      BY <1>4, <2>8, <3>2, <3>3, SamePieces
    <3> QED
      BY <2>3, <2>7, <3>1, <3>4
  <2> QED
    BY <2>9, <2>10
<1> HIDE DEF at, length, by
<1>7. Follows(ts, length, by, ref, at)
  BY <1>3, <1>5, <1>6 DEF Follows
<1>8. Merged(Replaced(ts, length, by), ref)
  <2> HIDE DEF F
  <2>1. ts \in Seq(F)
    BY DEF F
  <2> QED
    BY <1>2, <1>4, <1>7, <2>1, MergedScan
<1> QED
  BY <1>4, <1>8 DEF maskCards, length, by

\* What the value patterns make of a token.
Unformatted(t) ==
  IF t.is = "value" THEN Mask
  ELSE IF IsLong(t) THEN [t EXCEPT !.of = "masked"]
  ELSE IF t = Link("credentials") THEN Link("masked")
  ELSE t

\* The line with what the value patterns make of it.
ValueRef(ts) == [i \in 1..Len(ts) |-> Unformatted(ts[i])]

\* The line with its values masked has none.
LEMMA ValueRefType ==
  ASSUME NEW ts \in Seq(InLine(Token))
  PROVE  /\ ValueRef(ts) \in Seq(InLine(Clean)) /\ Len(ValueRef(ts)) = Len(ts)
         /\ \A i \in 1..Len(ts) : ValueRef(ts)[i] = Unformatted(ts[i])
<1>1. Len(ts) \in Nat /\ \A i \in 1..Len(ts) : ts[i] \in InLine(Token)
  OBVIOUS
<1>2. \A t \in InLine(Token) : Unformatted(t) \in InLine(Clean)
  <2> TAKE t \in InLine(Token)
  <2>1. t \in Token /\ t # NewLine
    BY DEF InLine
  <2>2. ASSUME IsLong(t) PROVE [t EXCEPT !.of = "masked"] \in InLine(Clean)
    <3>. PICK d : d = [t EXCEPT !.of = "masked"]
      OBVIOUS
    <3>1. IsKey(t)
      BY <2>2 DEF IsLong
    <3>2. d \in Token /\ ~IsLong(d) /\ d.is = "key"
      BY <2>1, <3>1, MaskedKey
    <3>3. d # NewLine /\ d # Link("credentials")
      BY <3>2 DEF NewLine, Link
    <3> QED
      BY <3>2, <3>3 DEF InLine, Clean
  <2> QED
    BY <2>1, <2>2, CleanTokens DEF Unformatted, InLine, Clean
<1> QED
  BY <1>1, <1>2 DEF ValueRef

\* The value patterns, one after the other, make the same of every token.
LEMMA ValuesAsRef ==
  ASSUME NEW ts \in Seq(InLine(Token))
  PROVE  maskValues(ts) = ValueRef(maskCards(ts))
<1>1. PICK cs \in Seq(InLine(Token)) : cs = maskCards(ts)
  BY CardsType
<1>2. PICK us \in Seq(InLine(Clean)) : us = maskValues(ts) /\ Similar(cs, us)
  BY <1>1, ValuesMasked
<1>3. PICK xs \in Seq(InLine(Clean)) :
        xs = ValueRef(cs) /\ Len(xs) = Len(cs) /\ \A i \in 1..Len(cs) : xs[i] = Unformatted(cs[i])
  BY ValueRefType
<1>4. Len(us) = Len(xs)
  BY <1>2, <1>3 DEF Similar
<1>5. ASSUME NEW i \in 1..Len(us) PROVE us[i] = xs[i]
  <2>1. i \in 1..Len(cs) /\ us[i] \in InLine(Clean)
    BY <1>3, <1>4
  <2>2. Changed(cs[i], us[i])
    BY <1>2, <2>1 DEF Similar
  <2>3. us[i] = Unformatted(cs[i])
    BY <2>1, <2>2 DEF Changed, Unformatted, Clean, InLine, IsLong, IsKey, Link
  <2> QED
    BY <1>3, <2>1, <2>3
<1>6. us = xs
  BY <1>4, <1>5, SeqEqual
<1> QED
  BY <1>1, <1>2, <1>3, <1>6

-----------------------------------------------------------------------------
(* Keys, and the reference.                                                *)

\* What the keys make of the token at i.
KeyShown(ts, i) ==
  IF ValueOfKey(ts, i) THEN Mask
  ELSE IF Echoes(ts, i) THEN [ts[i] EXCEPT !.of = "masked"]
  ELSE ts[i]

KeyRef(ts) == [i \in 1..Len(ts) |-> KeyShown(ts, i)]

\* Masking keys brings no values back.
LEMMA KeyRefType ==
  ASSUME NEW ts \in Seq(InLine(Clean))
  PROVE  /\ KeyRef(ts) \in Seq(InLine(Clean)) /\ Len(KeyRef(ts)) = Len(ts)
         /\ \A i \in 1..Len(ts) : KeyRef(ts)[i] = KeyShown(ts, i)
<1>1. Len(ts) \in Nat /\ \A i \in 1..Len(ts) : ts[i] \in InLine(Clean)
  OBVIOUS
<1>2. \A t \in InLine(Clean) : IsKey(t) => [t EXCEPT !.of = "masked"] \in InLine(Clean)
  BY MaskedKey DEF InLine, Clean, NewLine, Link
<1>3. ASSUME NEW i \in 1..Len(ts) PROVE KeyShown(ts, i) \in InLine(Clean)
  <2>1. Echoes(ts, i) => IsKey(ts[i])
    BY DEF Echoes
  <2> QED
    BY <1>1, <1>2, <2>1, CleanTokens DEF KeyShown
<1> QED
  BY <1>1, <1>3 DEF KeyRef

\* The value of the key at k that is behind it ends at e.
ValueEnds(ts, k, e) ==
  /\ e \in (k + 1)..Len(ts)
  /\ ~IsQuote(ts[k + 1]) => e = k + 1
  /\ IsQuote(ts[k + 1]) => e >= k + 3 /\ Quoted(ts, k, e)

\* The match of a key goes to the end of its value.
LEMMA KeyLengthIsValue ==
  ASSUME NEW F, NEW ts \in Seq(F), Assigned(ts),
         NEW k \in 1..Len(ts), IsKey(ts[k]), Sensitive(ts[k])
  PROVE  \E e \in (k + 1)..Len(ts) :
           ValueEnds(ts, k, e) /\ k + KeyLength(ts, k) = e + 1 /\ KeyLength(ts, k) # 0
<1>1. k < Len(ts) /\ ~IsKey(ts[k + 1]) /\ Len(ts) \in Nat
  BY DEF Assigned
<1>2. CASE ~IsQuote(ts[k + 1])
  <2>1. KeyLength(ts, k) = 2
    BY <1>1, <1>2 DEF KeyLength
  <2>2. k + 1 \in (k + 1)..Len(ts)
    BY <1>1
  <2>3. ValueEnds(ts, k, k + 1)
    BY <1>2, <2>2 DEF ValueEnds
  <2> QED
    BY <2>1, <2>2, <2>3
<1>3. CASE IsQuote(ts[k + 1])
  <2> DEFINE S == {j \in (k + 2)..Len(ts) : ts[j] = ts[k + 1]}
  <2>1. PICK e \in (k + 3)..Len(ts) : Quoted(ts, k, e)
    BY <1>3 DEF Assigned
  <2>2. KeyLength(ts, k) = FirstOf(S, k - 1) - k + 1
    BY <1>1, <1>3 DEF KeyLength
  <2>3. e \in S
    BY <1>1, <2>1 DEF Quoted
  <2>4. S \subseteq Nat
    BY <1>1
  <2>5. FirstOf(S, k - 1) \in S /\ \A j \in S : FirstOf(S, k - 1) <= j
    <3> HIDE DEF S
    <3> QED
      BY <2>3, <2>4, FirstOfIs
  <2>6. PICK d \in S : d = FirstOf(S, k - 1)
    BY <2>5
  <2>7. d <= e
    BY <2>3, <2>5, <2>6
  <2>8. IsQuote(ts[d])
    BY <1>3, <2>6
  <2>9. d = e
    <3>1. d < e => d \in (k + 2)..(e - 1)
      BY <1>1, <2>6
    <3> QED
      BY <1>1, <2>1, <2>6, <2>7, <2>8, <3>1 DEF Quoted
  <2>10. KeyLength(ts, k) = e - k + 1
    BY <2>2, <2>6, <2>9
  <2>11. e \in (k + 1)..Len(ts) /\ e >= k + 3
    BY <1>1
  <2>12. k + KeyLength(ts, k) = e + 1 /\ KeyLength(ts, k) # 0
    BY <1>1, <2>10, <2>11
  <2>13. ValueEnds(ts, k, e)
    BY <1>3, <2>1, <2>11 DEF ValueEnds
  <2> QED
    BY <2>11, <2>12, <2>13
<1> QED
  BY <1>2, <1>3

\* What becomes of a key and its value.
MaskedWell(ts, k, e, m) ==
  \/ /\ Echoes(ts, k) /\ m = <<[ts[k] EXCEPT !.of = "masked"]>> \o SubSeq(ts, k + 1, e)
  \/ /\ ~Echoes(ts, k) /\ IsQuote(ts[k + 1])
     /\ m = <<ts[k], ts[k + 1], Mask, ts[k + 1]>>
  \/ /\ ~Echoes(ts, k) /\ ~IsQuote(ts[k + 1])
     /\ m = <<ts[k], Mask>>

\* The code's replacement is what becomes of the key.
LEMMA MaskedAsRef ==
  ASSUME NEW F, NEW ts \in Seq(F), NEW k \in 1..Len(ts), IsKey(ts[k]), Sensitive(ts[k]),
         NEW e \in (k + 1)..Len(ts), ValueEnds(ts, k, e)
  PROVE  MaskedWell(ts, k, e, Masked(ts[k], SubSeq(ts, k + 1, e)))
<1>1. k \in 1..Len(ts) /\ k < Len(ts) /\ k + 1 \in 1..Len(ts) /\ e \in (k + 1)..Len(ts)
      /\ Len(ts) \in Nat
  OBVIOUS
<1>2. PICK value : PieceIs(ts, k + 1, e, value, F)
  BY <1>1, Piece
<1>3. /\ value = SubSeq(ts, k + 1, e) /\ value \in Seq(F) /\ Len(value) = e - k
      /\ \A j \in 1..(e - k) : value[j] = ts[k + j]
  <2>1. e - (k + 1) + 1 = e - k
    BY <1>1
  <2>2. \A j \in 1..(e - k) : (k + 1) + j - 1 = k + j
    BY <1>1
  <2> QED
    BY <1>2, <2>1, <2>2 DEF PieceIs
<1>4. value[1] = ts[k + 1]
  <2>1. 1 \in 1..(e - k)
    BY <1>1
  <2> QED
    BY <1>3, <2>1
<1> DEFINE v == ts[k + 1]
           inner == IF IsQuote(v) THEN SubSeq(value, 2, Len(value) - 1) ELSE value
           echoes == inner = <<Echo>> /\ (~IsQuote(v) \/ ts[k].form = "json")
<1>5. Masked(ts[k], value) = IF echoes THEN <<[ts[k] EXCEPT !.of = "masked"]>> \o value
                             ELSE IF IsQuote(v) THEN <<ts[k], v, Mask, v>>
                             ELSE <<ts[k], Mask>>
  BY <1>4 DEF Masked
<1>6. echoes <=> Echoes(ts, k)
  <2>1. CASE ~IsQuote(v)
    <3>1. Echoes(ts, k) <=> v = Echo
      BY <1>1, <2>1, BareValue
    <3>2. Len(value) = 1
      BY <1>1, <1>3, <2>1 DEF ValueEnds
    <3>3. value = <<Echo>> <=> v = Echo
      <4>1. value = <<Echo>> => value[1] = Echo
        OBVIOUS
      <4>2. value \in Seq(F)
        BY <1>3
      <4>3. value[1] = Echo => value = <<Echo>>
        BY <3>2, <4>2
      <4> QED
        BY <1>4, <4>1, <4>3
    <3> QED
      BY <2>1, <3>1, <3>3
  <2>2. CASE IsQuote(v)
    <3>1. e \in (k + 3)..Len(ts) /\ Quoted(ts, k, e)
      BY <1>1, <2>2 DEF ValueEnds
    <3>2. Echoes(ts, k) <=> ts[k].form = "json" /\ ts[k + 2] = Echo /\ e = k + 3
      BY <1>1, <3>1, QuotedValue
    <3> DEFINE mid == SubSeq(value, 2, Len(value) - 1)
    <3>3. Len(mid) = e - k - 2 /\ mid \in Seq(F) /\ mid[1] = value[2]
      <4>1. value \in Seq(F)
        BY <1>3
      <4>2. PICK b \in Nat : b = Len(value) - 1 /\ b = e - k - 1
        BY <1>1, <1>3, <3>1
      <4>3. 2 \in 1..Len(value) /\ b \in 2..Len(value)
        BY <1>1, <1>3, <3>1, <4>2
      <4>4. PieceIs(value, 2, b, SubSeq(value, 2, b), F)
        BY <4>1, <4>3, Piece
      <4>5. mid = SubSeq(value, 2, b)
        BY <4>2
      <4> HIDE DEF mid
      <4>6. Len(mid) = b - 2 + 1 /\ mid \in Seq(F) /\ \A j \in 1..(b - 2 + 1) : mid[j] = value[2 + j - 1]
        BY <4>4, <4>5 DEF PieceIs
      <4>7. b - 2 + 1 = e - k - 2 /\ 1 \in 1..(b - 2 + 1) /\ 2 + 1 - 1 = 2
        BY <1>1, <3>1, <4>2
      <4> QED
        BY <4>6, <4>7
    <3> HIDE DEF mid
    <3>4. mid = <<Echo>> <=> ts[k + 2] = Echo /\ e = k + 3
      <4>1. value[2] = ts[k + 2]
        <5>1. 2 \in 1..(e - k)
          BY <1>1, <3>1
        <5> QED
          BY <1>3, <5>1
      <4>2. mid = <<Echo>> => mid[1] = Echo /\ Len(mid) = 1
        OBVIOUS
      <4>3. mid[1] = Echo /\ Len(mid) = 1 => mid = <<Echo>>
        BY <3>3
      <4>4. Len(mid) = 1 <=> e = k + 3
        BY <1>1, <3>1, <3>3
      <4> QED
        BY <3>3, <4>1, <4>2, <4>3, <4>4
    <3> QED
      BY <2>2, <3>2, <3>4 DEF mid
  <2> QED
    BY <2>1, <2>2
<1> HIDE DEF echoes
<1> QED
  BY <1>3, <1>5, <1>6 DEF MaskedWell

\* No value of a key before i goes beyond it.
Clear(ts, i) == \A k \in 1..(i - 1), p \in i..Len(ts) : ~InValueOf(ts, k, p)

\* What the reference has for a key and its value.
LEMMA KeyPiece ==
  ASSUME NEW F, NEW ts \in Seq(F), Assigned(ts),
         NEW k \in 1..Len(ts), IsKey(ts[k]), Sensitive(ts[k]), Clear(ts, k),
         NEW e \in (k + 1)..Len(ts), ValueEnds(ts, k, e)
  PROVE  /\ Clear(ts, e + 1)
         /\ KeyShown(ts, k) = IF Echoes(ts, k) THEN [ts[k] EXCEPT !.of = "masked"] ELSE ts[k]
         /\ \A p \in (k + 1)..e :
              KeyShown(ts, p) = IF ~Echoes(ts, k) /\ InValueOf(ts, k, p) THEN Mask ELSE ts[p]
         /\ ~IsQuote(ts[k + 1]) => e = k + 1 /\ InValueOf(ts, k, k + 1)
         /\ IsQuote(ts[k + 1]) => /\ e >= k + 3 /\ ts[e] = ts[k + 1]
                                  /\ \A p \in (k + 1)..e : InValueOf(ts, k, p) <=> k + 2 <= p /\ p < e
<1>1. Len(ts) \in Nat /\ k < Len(ts) /\ k + 1 \in 1..Len(ts)
  OBVIOUS
<1>2. \A p \in (k + 1)..e : ~IsKey(ts[p])
  <2> TAKE p \in (k + 1)..e
  <2>1. ~IsKey(ts[k + 1])
    BY DEF Assigned
  <2>2. CASE ~IsQuote(ts[k + 1])
    <3>1. p = k + 1
      BY <1>1, <2>2 DEF ValueEnds
    <3> QED
      BY <2>1, <3>1
  <2>3. CASE IsQuote(ts[k + 1])
    <3>1. p = k + 1 \/ p = e \/ p \in (k + 2)..(e - 1)
      BY <1>1
    <3>2. Quoted(ts, k, e)
      BY <2>3 DEF ValueEnds
    <3> QED
      BY <2>1, <2>3, <3>1, <3>2, Apart DEF Quoted
  <2> QED
    BY <2>2, <2>3
<1>3. /\ ~IsQuote(ts[k + 1]) => /\ e = k + 1
                                 /\ \A p \in 1..Len(ts) : InValueOf(ts, k, p) <=> p = k + 1
      /\ IsQuote(ts[k + 1]) =>
           /\ e >= k + 3 /\ ts[e] = ts[k + 1]
           /\ \A p \in 1..Len(ts) : InValueOf(ts, k, p) <=> k + 2 <= p /\ p < e
  <2>1. ASSUME ~IsQuote(ts[k + 1])
        PROVE  e = k + 1 /\ \A p \in 1..Len(ts) : InValueOf(ts, k, p) <=> p = k + 1
    BY <1>1, <2>1, BareValue DEF ValueEnds
  <2>2. ASSUME IsQuote(ts[k + 1])
        PROVE  /\ e >= k + 3 /\ ts[e] = ts[k + 1]
               /\ \A p \in 1..Len(ts) : InValueOf(ts, k, p) <=> k + 2 <= p /\ p < e
    <3>1. e \in (k + 3)..Len(ts) /\ Quoted(ts, k, e)
      BY <1>1, <2>2 DEF ValueEnds
    <3>2. \A p \in 1..Len(ts) : InValueOf(ts, k, p) <=> k + 2 <= p /\ p < e
      BY <1>1, <3>1, QuotedValue
    <3> QED
      BY <3>1, <3>2 DEF Quoted
  <2> QED
    BY <2>1, <2>2
<1>4. \A p \in (e + 1)..Len(ts) : ~InValueOf(ts, k, p)
  <2> TAKE p \in (e + 1)..Len(ts)
  <2>1. p \in 1..Len(ts) /\ p > e /\ p # k + 1
    BY <1>1
  <2> QED
    BY <1>1, <1>3, <2>1
<1>5. ASSUME NEW j \in 1..e, NEW p \in k..Len(ts), InValueOf(ts, j, p)
      PROVE  j = k
  <2>1. IsKey(ts[j])
    BY <1>5 DEF InValueOf
  <2>2. ~ (j \in (k + 1)..e)
    BY <1>2, <2>1
  <2>3. ~ (j \in 1..(k - 1))
    BY <1>5 DEF Clear
  <2> QED
    BY <1>1, <2>2, <2>3
<1>6. Clear(ts, e + 1)
  <2> SUFFICES ASSUME NEW j \in 1..((e + 1) - 1), NEW p \in (e + 1)..Len(ts), InValueOf(ts, j, p)
               PROVE  FALSE
    BY DEF Clear
  <2>1. j \in 1..e /\ p \in k..Len(ts)
    BY <1>1
  <2> QED
    BY <1>4, <1>5, <2>1
<1>7. ASSUME NEW p \in k..e
      PROVE  ValueOfKey(ts, p) <=> k < p /\ ~Echoes(ts, k) /\ InValueOf(ts, k, p)
  <2>1. p \in k..Len(ts) /\ \A j \in 1..(p - 1) : j \in 1..e
    BY <1>1
  <2>2. k < p => k \in 1..(p - 1)
    BY <1>1
  <2>3. k \in 1..(p - 1) => k < p
    BY <1>1
  <2> QED
    BY <1>5, <2>1, <2>2, <2>3 DEF ValueOfKey
<1>8. KeyShown(ts, k) = IF Echoes(ts, k) THEN [ts[k] EXCEPT !.of = "masked"] ELSE ts[k]
  <2>1. k \in k..e /\ ~ (k < k)
    BY <1>1
  <2>2. ~ValueOfKey(ts, k)
    BY <1>7, <2>1
  <2> QED
    BY <2>2 DEF KeyShown
<1>9. \A p \in (k + 1)..e :
        KeyShown(ts, p) = IF ~Echoes(ts, k) /\ InValueOf(ts, k, p) THEN Mask ELSE ts[p]
  <2> TAKE p \in (k + 1)..e
  <2>1. p \in k..e /\ k < p
    BY <1>1
  <2>2. ~Echoes(ts, p)
    BY <1>2 DEF Echoes
  <2>3. ValueOfKey(ts, p) <=> ~Echoes(ts, k) /\ InValueOf(ts, k, p)
    BY <1>7, <2>1
  <2> QED
    BY <2>2, <2>3 DEF KeyShown
<1>10. \A p \in (k + 1)..e : p \in 1..Len(ts)
  BY <1>1
<1> QED
  BY <1>1, <1>3, <1>6, <1>8, <1>9, <1>10

\* All between the quotes is one mask or more.
LEMMA QuotedMerged ==
  ASSUME NEW k, NEW v, NEW F, NEW vs \in Seq(F), Len(vs) >= 4,
         vs[1] = k, vs[2] = v, vs[Len(vs)] = v, \A j \in 3..(Len(vs) - 1) : vs[j] = Mask
  PROVE  Merged(<<k, v, Mask, v>>, vs)
<1> DEFINE n == Len(vs)
           us == <<k, v, Mask, v>>
           place == [p \in 0..n |-> IF p <= 2 THEN p ELSE IF p = n THEN 4 ELSE 3]
<1>1. n \in Nat /\ n >= 4
  OBVIOUS
<1>2. Len(us) = 4 /\ us[1] = k /\ us[2] = v /\ us[3] = Mask /\ us[4] = v
  OBVIOUS
<1> HIDE DEF us
<1>3. place \in [0..n -> 0..4] /\ place[0] = 0 /\ place[n] = 4
  BY <1>1
<1>4. ASSUME NEW p \in 1..n
      PROVE  /\ place[p] >= 1 /\ us[place[p]] = vs[p]
             /\ \/ place[p] = place[p - 1] + 1
                \/ place[p] = place[p - 1] /\ vs[p] = Mask
  <2>1. p \in 0..n /\ p - 1 \in 0..n
    BY <1>1
  <2>2. CASE p = 1
    <3>1. place[1] = 1 /\ place[0] = 0
      BY <1>1
    <3> QED
      BY <1>2, <2>2, <3>1
  <2>3. CASE p = 2
    <3>1. place[2] = 2 /\ place[1] = 1
      BY <1>1
    <3> QED
      BY <1>2, <2>3, <3>1
  <2>4. CASE p = n
    <3>1. place[n] = 4 /\ place[n - 1] = 3
      BY <1>1
    <3> QED
      BY <1>2, <2>4, <3>1
  <2>5. CASE p \in 3..(n - 1)
    <3>1. place[p] = 3 /\ vs[p] = Mask
      BY <1>1, <2>5
    <3>2. p = 3 => place[p - 1] = 2
      BY <1>1, <2>5
    <3>3. p # 3 => place[p - 1] = 3
      BY <1>1, <2>5
    <3> QED
      BY <1>2, <3>1, <3>2, <3>3
  <2> QED
    BY <1>1, <2>2, <2>3, <2>4, <2>5
<1> HIDE DEF place
<1>5. IsPlace(us, vs, place)
  BY <1>2, <1>3, <1>4 DEF IsPlace
<1> QED
  BY <1>5 DEF Merged, us

\* It is the reference of the key and its value, but for masks.
LEMMA KeyAsRef ==
  ASSUME NEW ts \in Seq(InLine(Clean)), Assigned(ts),
         NEW k \in 1..Len(ts), IsKey(ts[k]), Sensitive(ts[k]), Clear(ts, k),
         NEW e \in (k + 1)..Len(ts), ValueEnds(ts, k, e)
  PROVE  Merged(Masked(ts[k], SubSeq(ts, k + 1, e)), SubSeq(KeyRef(ts), k, e))
<1> DEFINE F == InLine(Clean)
           mk == [ts[k] EXCEPT !.of = "masked"]
<1> HIDE DEF F, mk
<1>1. PICK m : m = Masked(ts[k], SubSeq(ts, k + 1, e)) /\ MaskedWell(ts, k, e, m)
  BY MaskedAsRef
<1>2. PICK ref \in Seq(F) : /\ ref = KeyRef(ts) /\ Len(ref) = Len(ts)
                            /\ \A i \in 1..Len(ts) : ref[i] = KeyShown(ts, i)
  BY KeyRefType DEF F
<1>3. Len(ts) \in Nat /\ e \in k..Len(ts) /\ k \in 1..Len(ref) /\ e \in k..Len(ref)
  BY <1>2
<1>4. PICK vs : PieceIs(ref, k, e, vs, F)
  BY <1>3, Piece
<1>5. /\ vs = SubSeq(ref, k, e) /\ vs \in Seq(F) /\ Len(vs) = e - k + 1
      /\ \A j \in 1..(e - k + 1) : vs[j] = ref[k + j - 1]
  BY <1>4 DEF PieceIs
<1>6. /\ KeyShown(ts, k) = IF Echoes(ts, k) THEN mk ELSE ts[k]
      /\ \A p \in (k + 1)..e :
           KeyShown(ts, p) = IF ~Echoes(ts, k) /\ InValueOf(ts, k, p) THEN Mask ELSE ts[p]
      /\ ~IsQuote(ts[k + 1]) => e = k + 1 /\ InValueOf(ts, k, k + 1)
      /\ IsQuote(ts[k + 1]) =>
           /\ e >= k + 3 /\ ts[e] = ts[k + 1]
           /\ \A p \in (k + 1)..e : InValueOf(ts, k, p) <=> k + 2 <= p /\ p < e
  BY KeyPiece DEF mk
<1>7. vs[1] = IF Echoes(ts, k) THEN mk ELSE ts[k]
  <2>1. 1 \in 1..(e - k + 1) /\ k + 1 - 1 = k
    BY <1>3
  <2> QED
    BY <1>2, <1>5, <1>6, <2>1
<1>8. ASSUME NEW j \in 2..(e - k + 1)
      PROVE  vs[j] = IF ~Echoes(ts, k) /\ InValueOf(ts, k, k + j - 1) THEN Mask
                     ELSE ts[k + j - 1]
  <2>1. j \in 1..(e - k + 1) /\ k + j - 1 \in (k + 1)..e /\ k + j - 1 \in 1..Len(ts)
    BY <1>3
  <2> QED
    BY <1>2, <1>5, <1>6, <2>1
<1>9. CASE Echoes(ts, k)
  <2>1. m = <<mk>> \o SubSeq(ts, k + 1, e)
    BY <1>1, <1>9 DEF MaskedWell, mk
  <2>2. PICK value : PieceIs(ts, k + 1, e, value, F)
    <3>1. k + 1 \in 1..Len(ts) /\ e \in (k + 1)..Len(ts) /\ ts \in Seq(F)
      BY <1>3 DEF F
    <3> QED
      BY <3>1, Piece
  <2>3. /\ value = SubSeq(ts, k + 1, e) /\ value \in Seq(F) /\ Len(value) = e - k
        /\ \A j \in 1..(e - k) : value[j] = ts[k + j]
    <3>1. e - (k + 1) + 1 = e - k
      BY <1>3
    <3>2. \A j \in 1..(e - k) : (k + 1) + j - 1 = k + j
      BY <1>3
    <3> QED
      BY <2>2, <3>1, <3>2 DEF PieceIs
  <2>4. mk \in F
    <3>1. k \in 1..Len(ref) /\ ref[k] = mk
      BY <1>2, <1>6, <1>9
    <3> QED
      BY <3>1
  <2>5. <<mk>> \in Seq(F) /\ Len(<<mk>>) = 1 /\ <<mk>>[1] = mk
    BY <2>4
  <2>6. PICK w \in Seq(F) : w = <<mk>>
    BY <2>5
  <2>7. /\ w \o value \in Seq(F) /\ Len(w \o value) = 1 + (e - k)
        /\ (w \o value)[1] = mk
        /\ \A j \in 1..(e - k) : (w \o value)[1 + j] = ts[k + j]
    <3>1. /\ w \o value \in Seq(F) /\ Len(w \o value) = Len(w) + Len(value)
          /\ \A j \in 1..Len(w) : (w \o value)[j] = w[j]
          /\ \A j \in 1..Len(value) : (w \o value)[Len(w) + j] = value[j]
      BY <2>3, Joined
    <3>2. Len(w) = 1 /\ 1 \in 1..Len(w) /\ w[1] = mk
      BY <2>5, <2>6
    <3> QED
      BY <2>3, <3>1, <3>2
  <2>8. PICK us \in Seq(F) : us = w \o value
    BY <2>7
  <2>9. Len(us) = Len(vs)
    BY <1>3, <1>5, <2>7, <2>8
  <2>10. ASSUME NEW j \in 1..Len(us) PROVE us[j] = vs[j]
    <3>1. CASE j = 1
      BY <1>7, <1>9, <2>7, <2>8, <3>1
    <3>2. CASE j # 1
      <4>1. j - 1 \in 1..(e - k) /\ 1 + (j - 1) = j /\ k + (j - 1) = k + j - 1
            /\ j \in 2..(e - k + 1)
        BY <1>3, <1>5, <2>9, <3>2
      <4>2. us[j] = ts[k + j - 1]
        BY <2>7, <2>8, <4>1
      <4> QED
        BY <1>8, <1>9, <4>1, <4>2
    <3> QED
      BY <3>1, <3>2
  <2>11. us = vs
    BY <1>5, <2>9, <2>10, SeqEqual
  <2>12. m = us
    BY <2>1, <2>3, <2>6, <2>8
  <2>13. Merged(vs, vs)
    BY <1>5, MergedSame
  <2> QED
    BY <1>1, <1>2, <1>5, <2>11, <2>12, <2>13
<1>10. CASE ~Echoes(ts, k) /\ ~IsQuote(ts[k + 1])
  <2>1. m = <<ts[k], Mask>>
    BY <1>1, <1>10 DEF MaskedWell
  <2>2. e = k + 1 /\ InValueOf(ts, k, k + 1)
    BY <1>6, <1>10
  <2>3. 2 \in 2..(e - k + 1) /\ k + 2 - 1 = k + 1
    BY <1>3, <2>2
  <2>4. vs[2] = Mask /\ vs[1] = ts[k] /\ Len(vs) = 2
    <3>1. Len(vs) = 2
      BY <1>3, <1>5, <2>2
    <3>2. vs[2] = Mask
      BY <1>8, <1>10, <2>2, <2>3
    <3> QED
      BY <1>7, <1>10, <3>1, <3>2
  <2>5. vs \in Seq(F)
    BY <1>5
  <2>6. vs = <<ts[k], Mask>>
    BY <2>4, <2>5
  <2>7. Merged(vs, vs)
    BY <2>5, MergedSame
  <2> QED
    BY <1>1, <1>2, <1>5, <2>1, <2>6, <2>7
<1>11. CASE ~Echoes(ts, k) /\ IsQuote(ts[k + 1])
  <2>1. m = <<ts[k], ts[k + 1], Mask, ts[k + 1]>>
    BY <1>1, <1>11 DEF MaskedWell
  <2>2. e >= k + 3 /\ ts[e] = ts[k + 1]
    BY <1>6, <1>11
  <2>3. ASSUME NEW j \in 2..(e - k + 1)
        PROVE  vs[j] = IF 3 <= j /\ j < e - k + 1 THEN Mask ELSE ts[k + j - 1]
    <3>1. k + j - 1 \in (k + 1)..e
      BY <1>3
    <3>2. k + 2 <= k + j - 1 /\ k + j - 1 < e <=> 3 <= j /\ j < e - k + 1
      BY <1>3
    <3>3. InValueOf(ts, k, k + j - 1) <=> k + 2 <= k + j - 1 /\ k + j - 1 < e
      BY <1>6, <1>11, <3>1
    <3> QED
      BY <1>8, <1>11, <3>2, <3>3
  <2>4. vs[1] = ts[k]
    BY <1>7, <1>11
  <2>5. vs[2] = ts[k + 1]
    <3>1. 2 \in 2..(e - k + 1) /\ ~ (3 <= 2) /\ k + 2 - 1 = k + 1
      BY <1>3, <2>2
    <3> QED
      BY <2>3, <3>1
  <2>6. Len(vs) >= 4 /\ vs[Len(vs)] = ts[k + 1]
    <3>1. PICK n \in Nat : n = e - k + 1
      BY <1>3
    <3>2. n >= 4 /\ n \in 2..(e - k + 1) /\ ~ (n < e - k + 1) /\ k + n - 1 = e
      BY <1>3, <2>2, <3>1
    <3>3. vs[n] = ts[k + n - 1]
      BY <2>3, <3>2
    <3> QED
      BY <1>5, <2>2, <3>1, <3>2, <3>3
  <2>7. ASSUME NEW j \in 3..(Len(vs) - 1) PROVE vs[j] = Mask
    <3>1. j \in 2..(e - k + 1) /\ 3 <= j /\ j < e - k + 1
      BY <1>3, <1>5
    <3> QED
      BY <2>3, <3>1
  <2>8. vs \in Seq(F)
    BY <1>5
  <2>9. Merged(<<ts[k], ts[k + 1], Mask, ts[k + 1]>>, vs)
    BY <2>4, <2>5, <2>6, <2>7, <2>8, QuotedMerged
  <2> QED
    BY <1>1, <1>2, <1>5, <2>1, <2>9
<1> QED
  BY <1>9, <1>10, <1>11

\* The pass for keys masks their values, each with one mask.
LEMMA KeysAsRef ==
  ASSUME NEW ts \in Seq(InLine(Clean)), Assigned(ts)
  PROVE  Merged(maskKeys(ts), KeyRef(ts))
<1> DEFINE F == InLine(Clean)
           length == [i \in DOMAIN ts |-> KeyLength(ts, i)]
           by == [i \in DOMAIN ts |->
                    Masked(ts[i], SubSeq(ts, i + 1, i + KeyLength(ts, i) - 1))]
           at == {i \in 1..(Len(ts) + 1) : Clear(ts, i)}
<1>1. DOMAIN ts = 1..Len(ts) /\ Len(ts) \in Nat
  OBVIOUS
<1>2. Matches(ts, length, by, F)
  BY KeyMatches
<1>3. 1 \in at
  BY <1>1 DEF Clear
<1>4. PICK ref \in Seq(F) : /\ ref = KeyRef(ts) /\ Len(ref) = Len(ts)
                            /\ \A i \in 1..Len(ts) : ref[i] = KeyShown(ts, i)
  BY KeyRefType
<1>5. ASSUME NEW i \in 1..Len(ts), Clear(ts, i), length[i] = 0
      PROVE  i + 1 \in at /\ ref[i] = ts[i]
  <2>1. ~ (IsKey(ts[i]) /\ Sensitive(ts[i]))
    BY <1>1, <1>5, KeyLengthIsValue
  <2>2. ~Echoes(ts, i) /\ \A p : ~InValueOf(ts, i, p)
    BY <2>1 DEF Echoes, InValueOf
  <2>3. ~ValueOfKey(ts, i)
    <3>1. i \in i..Len(ts)
      BY <1>1
    <3> QED
      BY <1>5, <3>1 DEF ValueOfKey, Clear
  <2>4. ref[i] = ts[i]
    BY <1>4, <2>2, <2>3 DEF KeyShown
  <2>5. Clear(ts, i + 1)
    <3> SUFFICES ASSUME NEW k \in 1..((i + 1) - 1), NEW p \in (i + 1)..Len(ts), InValueOf(ts, k, p)
                 PROVE  FALSE
      BY DEF Clear
    <3>1. k = i \/ k \in 1..(i - 1)
      OBVIOUS
    <3>2. p \in i..Len(ts)
      BY <1>1
    <3> QED
      BY <1>5, <2>2, <3>1, <3>2 DEF Clear
  <2> QED
    BY <1>1, <2>4, <2>5
<1>6. ASSUME NEW i \in 1..Len(ts), Clear(ts, i), length[i] # 0
      PROVE  i + length[i] \in at /\ Merged(by[i], SubSeq(ref, i, i + length[i] - 1))
  <2>1. IsKey(ts[i]) /\ Sensitive(ts[i])
    BY <1>1, <1>6, KeyLengthIs
  <2>2. PICK e \in (i + 1)..Len(ts) :
           ValueEnds(ts, i, e) /\ i + KeyLength(ts, i) = e + 1
    BY <2>1, KeyLengthIsValue
  <2>3. Clear(ts, e + 1)
    BY <1>6, <2>1, <2>2, KeyPiece
  <2>4. Merged(Masked(ts[i], SubSeq(ts, i + 1, e)), SubSeq(ref, i, e))
    BY <1>4, <1>6, <2>1, <2>2, KeyAsRef
  <2>5. PICK c \in Nat : c = KeyLength(ts, i) /\ c = length[i]
    BY <1>1, KeyLengthIs
  <2>6. i + c = e + 1 /\ i + c - 1 = e
    BY <1>1, <2>2, <2>5
  <2>7. by[i] = Masked(ts[i], SubSeq(ts, i + 1, e))
    BY <1>1, <2>5, <2>6
  <2>8. e + 1 \in at
    BY <1>1, <2>3
  <2> HIDE DEF at, length, by
  <2>9. i + length[i] \in at
    BY <2>5, <2>6, <2>8
  <2>10. SubSeq(ref, i, i + length[i] - 1) = SubSeq(ref, i, e)
    BY <2>5, <2>6
  <2> QED
    BY <2>4, <2>7, <2>9, <2>10
<1>7. Follows(ts, length, by, ref, at)
  <2>1. \A i \in at \cap (1..Len(ts)) : Clear(ts, i)
    OBVIOUS
  <2> HIDE DEF at, length, by
  <2> QED
    BY <1>3, <1>5, <1>6, <2>1 DEF Follows
<1> HIDE DEF at, length, by
<1>8. Merged(Replaced(ts, length, by), ref)
  <2> HIDE DEF F
  <2>1. ts \in Seq(F)
    BY DEF F
  <2> QED
    BY <1>2, <1>4, <1>7, <2>1, MergedScan
<1> QED
  BY <1>4, <1>8 DEF maskKeys, length, by

-----------------------------------------------------------------------------
(* The passes over a line.                                                 *)

\* What the card and value patterns make of a line, but for masks.
LineValues(ts) == ValueRef(CardRef(ts))

\* That is a line without values.
LEMMA LineValuesType ==
  ASSUME NEW ts \in Seq(InLine(Token))
  PROVE  /\ LineValues(ts) \in Seq(InLine(Clean)) /\ Len(LineValues(ts)) = Len(ts)
         /\ \A i \in 1..Len(ts) :
              LineValues(ts)[i] = IF RunCard(ts, i) THEN Mask ELSE Unformatted(ts[i])
<1>1. Mask \in InLine(Token)
  BY CleanTokens DEF InLine
<1>2. PICK us \in Seq(InLine(Token)) :
        /\ us = CardRef(ts) /\ Len(us) = Len(ts)
        /\ \A i \in 1..Len(ts) : us[i] = IF RunCard(ts, i) THEN Mask ELSE ts[i]
  BY <1>1, CardRefType
<1>3. /\ ValueRef(us) \in Seq(InLine(Clean)) /\ Len(ValueRef(us)) = Len(us)
      /\ \A i \in 1..Len(us) : ValueRef(us)[i] = Unformatted(us[i])
  BY ValueRefType
<1>4. Unformatted(Mask) = Mask
  BY DEF Unformatted, IsLong, IsKey, Mask, Link
<1> QED
  BY <1>2, <1>3, <1>4 DEF LineValues

\* No key is long.
NoLong(ts) == \A i \in 1..Len(ts) : ~IsLong(ts[i])

\* They leave alone what makes up an assignment, if no key is long.
LEMMA ValuesCover ==
  ASSUME NEW ts \in Seq(InLine(Token)), Assigned(ts), NoLong(ts)
  PROVE  Covers(ts, LineValues(ts))
<1>1. PICK vs \in Seq(InLine(Clean)) :
        /\ vs = LineValues(ts) /\ Len(vs) = Len(ts)
        /\ \A i \in 1..Len(ts) :
             vs[i] = IF RunCard(ts, i) THEN Mask ELSE Unformatted(ts[i])
  BY LineValuesType
<1>2. \A p \in 1..Len(ts) : vs[p] \in {ts[p], Mask, Link("masked")}
  BY <1>1 DEF Unformatted, NoLong
<1>3. ASSUME NEW p \in 1..Len(ts), IsKey(ts[p]) \/ IsQuote(ts[p]) \/ ts[p] = Echo
      PROVE  vs[p] = ts[p]
  <2>1. ~IsDigits(ts[p])
    BY <1>3, Apart
  <2>2. ~RunCard(ts, p)
    BY <2>1 DEF RunCard, IsRun
  <2>3. Unformatted(ts[p]) = ts[p]
    BY <1>3 DEF Unformatted, NoLong, IsKey, IsQuote, Echo, Word, Link
  <2> QED
    BY <1>1, <2>2, <2>3
<1>4. ASSUME NEW k \in 1..Len(ts), IsKey(ts[k]) PROVE KeyStands(ts, vs, k)
  <2>1. k < Len(ts) /\ k + 1 \in 1..Len(ts)
    BY <1>4 DEF Assigned
  <2>2. ASSUME NEW e \in (k + 3)..Len(ts), Quoted(ts, k, e)
        PROVE  vs[e] = ts[e] /\ (ts[k + 2] = Echo => vs[k + 2] = Echo)
    <3>1. e \in 1..Len(ts) /\ k + 2 \in 1..Len(ts)
      OBVIOUS
    <3>2. IsQuote(ts[e])
      BY <2>2 DEF Quoted
    <3> QED
      BY <1>3, <3>1, <3>2
  <2> QED
    BY <1>3, <1>4, <2>1, <2>2 DEF KeyStands
<1> QED
  BY <1>1, <1>2, <1>4 DEF Covers

\* With the values masked, what the keys leave is the reference.
LEMMA KeysOfValues ==
  ASSUME NEW ts \in Seq(InLine(Token)), Assigned(ts), NoLong(ts)
  PROVE  Assigned(LineValues(ts)) /\ KeyRef(LineValues(ts)) = LineRef(ts)
<1>0. InLine(Clean) \subseteq Token /\ InLine(Clean) \subseteq InLine(Token)
  BY CleanTokens DEF InLine
<1>1. PICK vs \in Seq(InLine(Clean)) :
        /\ vs = LineValues(ts) /\ Len(vs) = Len(ts)
        /\ \A i \in 1..Len(ts) :
             vs[i] = IF RunCard(ts, i) THEN Mask ELSE Unformatted(ts[i])
  BY LineValuesType
<1>2. Covers(ts, vs)
  BY <1>1, ValuesCover
<1>3. vs \in Seq(InLine(Token))
  BY <1>0
<1>4. /\ Assigned(vs)
      /\ \A p \in 1..Len(ts) : vs[p] = Mask \/ (ValueOfKey(vs, p) <=> ValueOfKey(ts, p))
      /\ \A k \in 1..Len(ts) : vs[k] = ts[k] => (Echoes(vs, k) <=> Echoes(ts, k))
  BY <1>2, <1>3, Covering
<1>5. ts \in Seq(Token)
  BY DEF InLine
<1>6. PICK xs \in Seq(Token) : /\ xs = LineRef(ts) /\ Len(xs) = Len(ts)
                               /\ \A i \in 1..Len(ts) : xs[i] = Shown(ts, i)
  BY <1>5, LineRefType
<1>7. PICK ys \in Seq(InLine(Clean)) : /\ ys = KeyRef(vs) /\ Len(ys) = Len(vs)
                                       /\ \A i \in 1..Len(vs) : ys[i] = KeyShown(vs, i)
  BY KeyRefType
<1>8. ASSUME NEW i \in 1..Len(ts) PROVE KeyShown(vs, i) = Shown(ts, i)
  <2>1. CASE vs[i] = Mask
    <3>1. KeyShown(vs, i) = Mask
      BY <2>1, Apart DEF KeyShown, Echoes
    <3>2. RunCard(ts, i) \/ InFormat(ts, i) \/ ts[i] = Mask
      BY <1>1, <2>1, Apart DEF Unformatted, NoLong, InFormat
    <3> QED
      BY <3>1, <3>2, MaskShown DEF Shown
  <2>2. CASE vs[i] # Mask
    <3>1. ~RunCard(ts, i) /\ ~InFormat(ts, i) /\ vs[i] = Unformatted(ts[i])
      BY <1>1, <2>2 DEF Unformatted, NoLong, InFormat
    <3>2. ValueOfKey(vs, i) <=> ValueOfKey(ts, i)
      BY <1>4, <2>2
    <3>3. CASE ts[i] = Link("credentials")
      <4>1. vs[i] = Link("masked")
        BY <3>1, <3>3 DEF Unformatted, NoLong, InFormat
      <4>2. ~Echoes(vs, i)
        BY <4>1, Apart DEF Echoes
      <4> QED
        BY <3>1, <3>2, <3>3, <4>1, <4>2 DEF KeyShown, Shown
    <3>4. CASE ts[i] # Link("credentials")
      <4>1. vs[i] = ts[i]
        BY <3>1, <3>4 DEF Unformatted, NoLong, InFormat
      <4>2. Echoes(vs, i) <=> Echoes(ts, i)
        BY <1>4, <4>1
      <4> QED
        BY <3>1, <3>2, <3>4, <4>1, <4>2 DEF KeyShown, Shown
    <3> QED
      BY <3>3, <3>4
  <2> QED
    BY <2>1, <2>2
<1>9. xs = ys
  <2>1. ys \in Seq(Token)
    BY <1>0
  <2>2. \A i \in 1..Len(xs) : xs[i] = ys[i]
    BY <1>1, <1>6, <1>7, <1>8
  <2> QED
    BY <1>1, <1>6, <1>7, <2>1, <2>2, SeqEqual
<1> QED
  BY <1>1, <1>4, <1>6, <1>7, <1>9

\* Masks merged before the keys are masked, or after.
LEMMA KeysMerged ==
  ASSUME NEW us \in Seq(InLine(Clean)), NEW vs \in Seq(InLine(Clean)), Merged(us, vs),
         Assigned(vs)
  PROVE  Merged(KeyRef(us), KeyRef(vs)) /\ Assigned(us)
<1>1. PICK f : IsPlace(us, vs, f)
  BY DEF Merged
<1>2. /\ Assigned(us)
      /\ \A p \in 1..Len(vs) : vs[p] = Mask \/ SameToKeys(us, f[p], vs, p)
  BY <1>1, Merging
<1>3. /\ f \in [0..Len(vs) -> 0..Len(us)] /\ f[0] = 0 /\ f[Len(vs)] = Len(us)
      /\ \A p \in 1..Len(vs) :
           /\ f[p] >= 1 /\ us[f[p]] = vs[p]
           /\ \/ f[p] = f[p - 1] + 1
              \/ f[p] = f[p - 1] /\ vs[p] = Mask
  BY <1>1 DEF IsPlace
<1>4. \A i, ts : ts[i] = Mask => KeyShown(ts, i) = Mask
  BY Apart DEF KeyShown, Echoes
<1>5. ASSUME NEW p \in 1..Len(vs) PROVE KeyShown(us, f[p]) = KeyShown(vs, p)
  <2>1. us[f[p]] = vs[p]
    BY <1>3
  <2>2. CASE vs[p] = Mask
    BY <1>4, <2>1, <2>2
  <2>3. CASE vs[p] # Mask
    <3>1. SameToKeys(us, f[p], vs, p)
      BY <1>2, <2>3
    <3> QED
      BY <2>1, <3>1 DEF KeyShown, SameToKeys
  <2> QED
    BY <2>2, <2>3
<1>6. PICK xs \in Seq(InLine(Clean)) : /\ xs = KeyRef(us) /\ Len(xs) = Len(us)
                                       /\ \A i \in 1..Len(us) : xs[i] = KeyShown(us, i)
  BY KeyRefType
<1>7. PICK ys \in Seq(InLine(Clean)) : /\ ys = KeyRef(vs) /\ Len(ys) = Len(vs)
                                       /\ \A i \in 1..Len(vs) : ys[i] = KeyShown(vs, i)
  BY KeyRefType
<1>8. \A p \in 1..Len(vs) : f[p] \in 1..Len(us)
  <2>1. InOrder(us, vs, f)
    BY <1>1, PlaceIs
  <2> QED
    BY <2>1 DEF InOrder
<1>9. \A p \in 1..Len(vs) : vs[p] = Mask => ys[p] = Mask
  BY <1>4, <1>7
<1>10. IsPlace(xs, ys, f)
  BY <1>3, <1>5, <1>6, <1>7, <1>8, <1>9 DEF IsPlace
<1> QED
  BY <1>2, <1>6, <1>7, <1>10 DEF Merged

\* The value patterns work token by token, also where masks are merged.
LEMMA ValuesOfMerged ==
  ASSUME NEW us \in Seq(InLine(Token)), NEW vs \in Seq(InLine(Token)), Merged(us, vs)
  PROVE  Merged(ValueRef(us), ValueRef(vs))
<1>1. PICK f : IsPlace(us, vs, f)
  BY DEF Merged
<1>2. PICK xs \in Seq(InLine(Clean)) : /\ xs = ValueRef(us) /\ Len(xs) = Len(us)
                                       /\ \A i \in 1..Len(us) : xs[i] = Unformatted(us[i])
  BY ValueRefType
<1>3. PICK ys \in Seq(InLine(Clean)) : /\ ys = ValueRef(vs) /\ Len(ys) = Len(vs)
                                       /\ \A i \in 1..Len(vs) : ys[i] = Unformatted(vs[i])
  BY ValueRefType
<1>4. Unformatted(Mask) = Mask
  BY DEF Unformatted, IsLong, IsKey, Mask, Link
<1>5. \A p \in 1..Len(vs) : f[p] \in 1..Len(us)
  <2>1. InOrder(us, vs, f)
    BY <1>1, PlaceIs
  <2> QED
    BY <2>1 DEF InOrder
<1>6. \A p \in 1..Len(vs) :
        us[f[p]] = vs[p] /\ xs[f[p]] = ys[p] /\ (vs[p] = Mask => ys[p] = Mask)
  BY <1>1, <1>2, <1>3, <1>4, <1>5 DEF IsPlace
<1>7. IsPlace(xs, ys, f)
  BY <1>1, <1>2, <1>3, <1>6 DEF IsPlace
<1> QED
  BY <1>2, <1>3, <1>7 DEF Merged

\* All passes over a line make the reference of it, but for masks.
LEMMA LineAsRef ==
  ASSUME NEW ts \in Seq(InLine(Token)), Assigned(ts), NoLong(ts)
  PROVE  Merged(maskLine(ts), LineRef(ts))
<1>0. InLine(Clean) \subseteq Token /\ Mask \in InLine(Token) /\ InLine(Token) \subseteq Token
  BY CleanTokens DEF InLine
<1>1. PICK cs \in Seq(InLine(Token)) : cs = maskCards(ts)
  BY CardsType
<1>2. PICK ds \in Seq(InLine(Token)) : ds = CardRef(ts)
  BY <1>0, CardRefType
<1>3. Merged(cs, ds)
  BY <1>1, <1>2, CardsAsRef
<1>4. PICK us \in Seq(InLine(Clean)) : us = maskValues(ts)
  BY ValuesMasked
<1>5. us = ValueRef(cs)
  BY <1>1, <1>4, ValuesAsRef
<1>6. PICK vs \in Seq(InLine(Clean)) : vs = LineValues(ts)
  BY LineValuesType
<1>7. Merged(us, vs)
  <2>1. Merged(ValueRef(cs), ValueRef(ds))
    BY <1>3, ValuesOfMerged
  <2> QED
    BY <1>2, <1>5, <1>6, <2>1 DEF LineValues
<1>8. Assigned(vs) /\ KeyRef(vs) = LineRef(ts)
  BY <1>6, KeysOfValues
<1>9. Merged(KeyRef(us), KeyRef(vs)) /\ Assigned(us)
  BY <1>7, <1>8, KeysMerged
<1>10. Merged(maskKeys(us), KeyRef(us))
  BY <1>9, KeysAsRef
<1>11. /\ maskKeys(us) \in Seq(InLine(Clean)) /\ KeyRef(us) \in Seq(InLine(Clean))
       /\ KeyRef(vs) \in Seq(InLine(Clean))
  BY KeysType, KeyRefType
<1>12. Merged(maskKeys(us), KeyRef(vs))
  <2>1. PICK ks \in Seq(InLine(Clean)) : ks = maskKeys(us)
    BY <1>11
  <2>2. PICK xs \in Seq(InLine(Clean)) : xs = KeyRef(us)
    BY <1>11
  <2>3. PICK ys \in Seq(InLine(Clean)) : ys = KeyRef(vs)
    BY <1>11
  <2>4. Merged(ks, ys)
    BY <1>9, <1>10, <2>1, <2>2, <2>3, MergedTwice
  <2> QED
    BY <2>1, <2>3, <2>4
<1> QED
  BY <1>4, <1>8, <1>12 DEF maskLine

-----------------------------------------------------------------------------
(* The whole log.                                                          *)

\* Where a line begins or ends.
LineEnds(ts) ==
  {i \in 1..(Len(ts) + 1) :
     i = 1 \/ i = Len(ts) + 1 \/ ts[i] = NewLine \/ ts[i - 1] = NewLine}

\* The end of a line is nothing to mask.
LEMMA NewLineShown ==
  ASSUME NEW ts \in Seq(Token), Assigned(ts), NEW i \in 1..Len(ts), ts[i] = NewLine
  PROVE  Shown(ts, i) = NewLine
<1>1. ~RunCard(ts, i)
  <2>1. ~IsDigits(ts[i])
    BY DEF NewLine, IsDigits
  <2> QED
    BY <2>1 DEF RunCard, IsRun
<1>2. ~InFormat(ts, i) /\ ts[i] # Link("credentials") /\ ~Echoes(ts, i)
  BY Apart DEF InFormat, NewLine, Link, Echoes
<1>3. ASSUME NEW k \in 1..(i - 1), InValueOf(ts, k, i) PROVE FALSE
  <2>1. k \in 1..Len(ts) /\ k < Len(ts) /\ IsKey(ts[k]) /\ Sensitive(ts[k])
    BY <1>3 DEF InValueOf
  <2>2. CASE ~IsQuote(ts[k + 1])
    <3>1. i = k + 1
      BY <1>3, <2>1, <2>2, BareValue
    <3> QED
      BY <2>1, <3>1 DEF Assigned
  <2>3. CASE IsQuote(ts[k + 1])
    <3>1. PICK e \in (k + 3)..Len(ts) : Quoted(ts, k, e)
      BY <2>1, <2>3 DEF Assigned
    <3>2. k + 2 <= i /\ i < e
      BY <1>3, <2>1, <3>1, QuotedValue
    <3>3. i \in (k + 2)..(e - 1)
      BY <3>2
    <3> QED
      BY <3>1, <3>3 DEF Quoted
  <2> QED
    BY <2>2, <2>3
<1> QED
  BY <1>1, <1>2, <1>3 DEF Shown, ValueOfKey

\* So they do of all lines.
LEMMA LinesAsRef ==
  ASSUME NEW ts \in Seq(Token), Assigned(ts), NoLong(ts)
  PROVE  Merged(maskLines(ts), LineRef(ts))
<1> DEFINE length == [i \in DOMAIN ts |-> LineLength(ts, i)]
           by == [i \in DOMAIN ts |->
                    maskLine(SubSeq(ts, i, i + LineLength(ts, i) - 1))]
           at == LineEnds(ts)
<1>1. Matches(ts, length, by, Token)
  <2>1. Matches(ts, length, by, Clean) /\ Clean \subseteq Token
    BY LineMatches, CleanTokens
  <2> HIDE DEF length, by
  <2>2. \A x : x \in Seq(Clean) => x \in Seq(Token)
    BY <2>1
  <2> QED
    BY <2>1, <2>2 DEF Matches
<1>2. PICK ref \in Seq(Token) : /\ ref = LineRef(ts) /\ Len(ref) = Len(ts)
                                /\ \A i \in 1..Len(ts) : ref[i] = Shown(ts, i)
  BY LineRefType
<1>3. DOMAIN ts = 1..Len(ts) /\ Len(ts) \in Nat
  OBVIOUS
<1>4. ASSUME NEW i \in 1..Len(ts), LineLength(ts, i) = 0
      PROVE  i + 1 \in at /\ ref[i] = ts[i]
  <2>1. ts[i] = NewLine
    BY <1>4, LineLengthIs
  <2>2. i + 1 \in 1..(Len(ts) + 1) /\ (i + 1) - 1 = i
    BY <1>3
  <2> QED
    BY <1>2, <2>1, <2>2, NewLineShown DEF LineEnds
<1>5. ASSUME NEW i \in at, i \in 1..Len(ts), LineLength(ts, i) # 0
      PROVE  /\ i + LineLength(ts, i) \in at
             /\ Merged(maskLine(SubSeq(ts, i, i + LineLength(ts, i) - 1)),
                       SubSeq(ref, i, i + LineLength(ts, i) - 1))
  <2>1. PICK c \in Nat : c = LineLength(ts, i)
    BY <1>5, LineLengthIs
  <2>2. /\ c # 0 /\ i + c <= Len(ts) + 1
        /\ \A j \in i..(i + c - 1) : ts[j] # NewLine
        /\ i + c <= Len(ts) => ts[i + c] = NewLine
    BY <1>5, <2>1, LineLengthIs
  <2>3. PICK e \in i..Len(ts) : e = i + c - 1 /\ i + c = e + 1
    <3>1. i + c - 1 \in i..Len(ts) /\ i + c = (i + c - 1) + 1
      BY <1>3, <1>5, <2>2
    <3> QED
      BY <3>1
  <2>4. IsLine(ts, i, e)
    <3>1. i = 1 \/ ts[i - 1] = NewLine
      <4>1. ts[i] # NewLine
        <5>1. i \in i..(i + c - 1)
          BY <1>5, <2>2
        <5> QED
          BY <2>2, <5>1
      <4>2. i # Len(ts) + 1
        BY <1>5, <1>3
      <4> QED
        BY <4>1, <4>2 DEF LineEnds
    <3>2. e = Len(ts) \/ ts[e + 1] = NewLine
      BY <1>3, <2>2, <2>3
    <3> QED
      BY <1>5, <2>2, <2>3, <3>1, <3>2 DEF IsLine
  <2>5. PICK line \in Seq(InLine(Token)) : line = SubSeq(ts, i, e)
    BY <1>5, <2>1, <2>3, LineIs
  <2>6. Assigned(line) /\ LineRef(line) = SubSeq(ref, i, e)
    BY <1>2, <2>4, <2>5, LineByItself
  <2>9. NoLong(line)
    <3>1. PICK us : PieceIs(ts, i, e, us, Token)
      BY <1>5, Piece
    <3>2. line = us /\ Len(us) = e - i + 1
      BY <2>5, <3>1 DEF PieceIs
    <3>3. \A j \in 1..Len(us) : us[j] = ts[i + j - 1] /\ i + j - 1 \in 1..Len(ts)
      BY <1>3, <1>5, <3>1, <3>2 DEF PieceIs
    <3> QED
      BY <3>2, <3>3 DEF NoLong
  <2>7. Merged(maskLine(line), SubSeq(ref, i, e))
    BY <2>6, <2>9, LineAsRef
  <2>8. i + c \in at
    <3>1. i + c \in 1..(Len(ts) + 1)
      BY <1>5, <2>2
    <3>2. i + c = Len(ts) + 1 \/ ts[i + c] = NewLine
      BY <1>3, <2>2, <3>1
    <3> QED
      BY <3>1, <3>2 DEF LineEnds
  <2> QED
    BY <2>1, <2>3, <2>5, <2>7, <2>8
<1>6. 1 \in at
  BY <1>3 DEF LineEnds
<1>7. Follows(ts, length, by, ref, at)
  BY <1>3, <1>4, <1>5, <1>6 DEF Follows
<1>8. maskLines(ts) = Replaced(ts, length, by)
  BY DEF maskLines
<1> HIDE DEF length, by, at
<1> QED
  BY <1>1, <1>2, <1>7, <1>8, MergedScan

\* Of a Recognisable log, what is masked is what the reference masks, but for masks
\* next to each other.
LEMMA SanitizedAsRef ==
  ASSUME NEW log \in Seq(Token), WellFormed(log), Recognisable(log)
  PROVE  Merged(Sanitize(log), MaskedLog(log))
<1>1. PICK us \in Seq(Token) : us = maskBlocks(log)
  BY BlocksType
<1>2. PICK vs \in Seq(Token) :
        /\ vs = BlockRef(log) /\ Len(vs) = Len(log)
        /\ \A k \in 1..Len(log) : vs[k] = IF InBlock(log, k) THEN Mask ELSE log[k]
  BY BlockRefType
<1>3. Merged(us, vs)
  BY <1>1, <1>2, BlocksMerged
<1>4. Assigned(vs)
  BY <1>2, WellAssigned, BlocksCover, Covering
<1>5. Merged(LineRef(us), LineRef(vs)) /\ Assigned(us)
  BY <1>3, <1>4, LinesMerged
<1>6. PICK xs \in Seq(Token) : xs = LineRef(us)
  BY LineRefType
<1>7. PICK ys \in Seq(Token) : ys = LineRef(vs)
  BY LineRefType
<1>8. PICK out \in Seq(Token) : out = Sanitize(log)
  <2>1. Sanitize(log) \in Seq(Clean)
    BY SanitizedType
  <2> QED
    BY <2>1, CleanTokens
<1>9. NoLong(us)
  <2>1. PICK f : IsPlace(us, vs, f)
    BY <1>3 DEF Merged
  <2>2. InOrder(us, vs, f)
    BY <2>1, PlaceIs
  <2>3. ASSUME NEW x \in 1..Len(us) PROVE ~IsLong(us[x])
    <3>1. PICK p \in 1..Len(vs) : us[x] = vs[p]
      BY <2>2 DEF InOrder
    <3>2. ~IsLong(Mask)
      BY Apart DEF IsLong
    <3>3. ~IsLong(log[p])
      <4>1. p \in DOMAIN log
        BY <1>2
      <4> QED
        BY <4>1 DEF Recognisable, IsLong
    <3> QED
      BY <1>2, <3>1, <3>2, <3>3
  <2> QED
    BY <2>3 DEF NoLong
<1>10. Merged(out, xs)
  BY <1>1, <1>5, <1>6, <1>8, <1>9, LinesAsRef DEF Sanitize
<1>11. Merged(out, ys)
  BY <1>5, <1>6, <1>7, <1>10, MergedTwice
<1> QED
  BY <1>2, <1>7, <1>8, <1>11, BlocksFirst

-----------------------------------------------------------------------------
(* What is left in a log that has been sanitized.                          *)

\* The reference is a sequence of tokens.
LEMMA MaskedLogType ==
  ASSUME NEW log \in Seq(Token)
  PROVE  /\ MaskedLog(log) \in Seq(Token) /\ Len(MaskedLog(log)) = Len(log)
         /\ \A i \in 1..Len(log) :
              MaskedLog(log)[i] = IF Secret(log, i) THEN Mask
                                  ELSE IF log[i] = Link("credentials") THEN Link("masked")
                                  ELSE log[i]
<1>1. DOMAIN log = 1..Len(log) /\ Len(log) \in Nat /\ \A i \in 1..Len(log) : log[i] \in Token
  OBVIOUS
<1>2. Mask \in Token /\ Link("masked") \in Token
  BY CleanTokens DEF InLine
<1> QED
  BY <1>1, <1>2 DEF MaskedLog

\* A key or a quote is not part of a value.
LEMMA NoValues ==
  ASSUME NEW F, NEW ts \in Seq(F), Assigned(ts), NEW i \in 1..Len(ts),
         IsKey(ts[i]) \/ IsQuote(ts[i]), NEW k \in 1..(i - 1)
  PROVE  ~InValueOf(ts, k, i)
<1>1. SUFFICES ASSUME InValueOf(ts, k, i) PROVE FALSE
  OBVIOUS
<1>2. k \in 1..Len(ts) /\ k < Len(ts) /\ IsKey(ts[k]) /\ Sensitive(ts[k])
  BY <1>1 DEF InValueOf
<1>3. CASE ~IsQuote(ts[k + 1])
  <2>1. i = k + 1
    BY <1>1, <1>2, <1>3, BareValue
  <2> QED
    BY <1>2, <1>3, <2>1 DEF Assigned
<1>4. CASE IsQuote(ts[k + 1])
  <2>1. PICK e \in (k + 3)..Len(ts) : Quoted(ts, k, e)
    BY <1>2, <1>4 DEF Assigned
  <2>2. k + 2 <= i /\ i < e
    BY <1>1, <1>2, <2>1, QuotedValue
  <2>3. i \in (k + 2)..(e - 1)
    BY <2>2
  <2> QED
    BY <2>1, <2>3 DEF Quoted
<1> QED
  BY <1>3, <1>4

\* In the reference every key has its value behind it as before, masked.
AllHidden(xs) ==
  /\ Assigned(xs)
  /\ \A k \in 1..Len(xs) : IsKey(xs[k]) => xs[k].of # "masked" /\ ~Echoes(xs, k)
  /\ \A p \in 1..Len(xs) : ValueOfKey(xs, p) => xs[p] = Mask

\* So it is: no key and no quote is masked, and all of a value is.
LEMMA ValuesHidden ==
  ASSUME NEW log \in Seq(Token), WellFormed(log), Recognisable(log)
  PROVE  AllHidden(MaskedLog(log))
<1>1. PICK vs \in Seq(Token) :
        /\ vs = BlockRef(log) /\ Len(vs) = Len(log)
        /\ \A k \in 1..Len(log) : vs[k] = IF InBlock(log, k) THEN Mask ELSE log[k]
  BY BlockRefType
<1>2. /\ Assigned(vs)
      /\ \A k \in 1..Len(log) : vs[k] = log[k] => (Echoes(vs, k) <=> Echoes(log, k))
  BY <1>1, WellAssigned, BlocksCover, Covering
<1>3. \A k \in 1..Len(vs) : IsKey(vs[k]) =>
        /\ vs[k].of \in {"exact", "variant", "plain"} /\ ~Echoes(vs, k)
  <2> TAKE k \in 1..Len(vs)
  <2>1. IsKey(vs[k]) => vs[k] = log[k]
    BY <1>1, Apart
  <2>2. k \in DOMAIN log
    BY <1>1
  <2> QED
    BY <1>1, <1>2, <2>1, <2>2 DEF Recognisable
<1>4. PICK xs \in Seq(Token) : /\ xs = MaskedLog(log) /\ Len(xs) = Len(vs)
                               /\ \A i \in 1..Len(vs) : xs[i] = Shown(vs, i)
  BY <1>1, BlocksFirst, LineRefType
<1>5. \A i \in 1..Len(vs) : ~Echoes(vs, i)
  BY <1>3 DEF Echoes
<1>6. \A i \in 1..Len(vs) : xs[i] \in {vs[i], Mask, Link("masked")}
  BY <1>4, <1>5 DEF Shown
<1>7. ASSUME NEW i \in 1..Len(vs), IsKey(vs[i]) \/ IsQuote(vs[i])
      PROVE  xs[i] = vs[i]
  <2>1. ~RunCard(vs, i)
    <3>1. ~IsDigits(vs[i])
      BY <1>7, Apart
    <3>2. \A a \in 1..i, b \in i..Len(vs) : i \in a..b
      OBVIOUS
    <3> QED
      BY <3>1, <3>2 DEF RunCard, IsRun
  <2>2. ~InFormat(vs, i) /\ vs[i] # Link("credentials")
    BY <1>7 DEF InFormat, IsKey, IsQuote, Link
  <2>3. ~ValueOfKey(vs, i)
    BY <1>2, <1>7, NoValues DEF ValueOfKey
  <2> QED
    BY <1>4, <1>5, <2>1, <2>2, <2>3 DEF Shown
<1>8. ASSUME NEW p \in 1..Len(vs), NEW k \in 1..(p - 1), InValueOf(vs, k, p)
      PROVE  xs[p] = Mask
  <2>1. k \in 1..Len(vs)
    OBVIOUS
  <2>2. ValueOfKey(vs, p)
    BY <1>5, <1>8, <2>1 DEF ValueOfKey
  <2> QED
    BY <1>4, <2>2 DEF Shown
<1>9. ASSUME NEW k \in 1..Len(xs), IsKey(xs[k])
      PROVE  /\ xs[k] = vs[k] /\ k \in 1..Len(vs) /\ k < Len(vs)
             /\ ~IsKey(xs[k + 1]) /\ xs[k + 1] # NewLine
             /\ IsQuote(xs[k + 1]) <=> IsQuote(vs[k + 1])
             /\ IsQuote(xs[k + 1]) =>
                  \E e \in (k + 3)..Len(xs) : Quoted(vs, k, e) /\ Quoted(xs, k, e)
  <2>1. k \in 1..Len(vs) /\ xs[k] = vs[k]
    BY <1>4, <1>6, <1>9, Apart
  <2>2. k < Len(vs) /\ ~IsKey(vs[k + 1]) /\ vs[k + 1] # NewLine
    BY <1>2, <1>9, <2>1 DEF Assigned
  <2>3. k + 1 \in 1..Len(vs)
    BY <2>1, <2>2
  <2>4. /\ ~IsKey(xs[k + 1]) /\ xs[k + 1] # NewLine
        /\ IsQuote(xs[k + 1]) <=> IsQuote(vs[k + 1])
    BY <1>6, <1>7, <2>2, <2>3, Apart
  <2>5. ASSUME IsQuote(xs[k + 1])
        PROVE  \E e \in (k + 3)..Len(xs) : Quoted(vs, k, e) /\ Quoted(xs, k, e)
    <3>1. PICK e \in (k + 3)..Len(vs) : Quoted(vs, k, e)
      BY <1>2, <1>9, <2>1, <2>4, <2>5 DEF Assigned
    <3>2. IsQuote(vs[e]) /\ e \in 1..Len(vs)
      BY <3>1 DEF Quoted
    <3>3. xs[e] = vs[e] /\ xs[k + 1] = vs[k + 1]
      BY <1>7, <2>3, <2>4, <2>5, <3>2
    <3>4. \A j \in (k + 2)..(e - 1) : ~IsQuote(xs[j]) /\ ~IsKey(xs[j]) /\ xs[j] # NewLine
      <4> TAKE j \in (k + 2)..(e - 1)
      <4>1. j \in 1..Len(vs)
        OBVIOUS
      <4> QED
        BY <1>6, <3>1, <4>1, Apart DEF Quoted
    <3>5. Quoted(xs, k, e)
      BY <2>5, <3>1, <3>3, <3>4 DEF Quoted
    <3> QED
      BY <1>4, <3>1, <3>5
  <2> QED
    BY <2>1, <2>2, <2>4, <2>5
<1>10. Assigned(xs)
  BY <1>4, <1>9 DEF Assigned
<1>11. ASSUME NEW k \in 1..Len(xs), IsKey(xs[k]), Sensitive(xs[k])
       PROVE  /\ ~Echoes(xs, k)
              /\ \A p \in 1..Len(xs) : k < p /\ InValueOf(xs, k, p) => xs[p] = Mask
  <2>1. xs[k] = vs[k] /\ k \in 1..Len(vs) /\ k < Len(vs) /\ k < Len(xs)
    BY <1>4, <1>9, <1>11
  <2>2. CASE ~IsQuote(xs[k + 1])
    <3>1. ~IsQuote(vs[k + 1])
      BY <1>9, <1>11, <2>2
    <3>2. k + 1 \in 1..Len(vs) /\ k \in 1..((k + 1) - 1)
      BY <2>1
    <3>3. InValueOf(vs, k, k + 1)
      BY <1>11, <2>1, <3>1, <3>2, BareValue
    <3>4. xs[k + 1] = Mask
      BY <1>8, <3>2, <3>3
    <3>5. /\ \A p \in 1..Len(xs) : InValueOf(xs, k, p) <=> p = k + 1
          /\ Echoes(xs, k) <=> xs[k + 1] = Echo
      BY <1>11, <2>1, <2>2, BareValue
    <3> QED
      BY <3>4, <3>5, Apart
  <2>3. CASE IsQuote(xs[k + 1])
    <3>1. PICK e \in (k + 3)..Len(xs) : Quoted(vs, k, e) /\ Quoted(xs, k, e)
      BY <1>9, <1>11, <2>3
    <3>2. e \in (k + 3)..Len(vs)
      BY <1>4
    <3>3. \A p \in 1..Len(vs) : InValueOf(vs, k, p) <=> k + 2 <= p /\ p < e
      BY <1>11, <2>1, <3>1, <3>2, QuotedValue
    <3>4. /\ \A p \in 1..Len(xs) : InValueOf(xs, k, p) <=> k + 2 <= p /\ p < e
          /\ Echoes(xs, k) <=> xs[k].form = "json" /\ xs[k + 2] = Echo /\ e = k + 3
      BY <1>11, <2>1, <3>1, QuotedValue
    <3>5. ASSUME NEW p \in 1..Len(xs), k + 2 <= p, p < e PROVE xs[p] = Mask
      <4>1. p \in 1..Len(vs) /\ k \in 1..(p - 1)
        BY <1>4, <3>5
      <4> QED
        BY <1>8, <3>3, <3>5, <4>1
    <3>6. xs[k + 2] = Mask
      <4>1. k + 2 \in 1..Len(xs) /\ k + 2 <= k + 2 /\ k + 2 < e
        BY <1>4
      <4> QED
        BY <3>5, <4>1
    <3> QED
      BY <3>4, <3>5, <3>6, Apart
  <2> QED
    BY <2>2, <2>3
<1>12. ASSUME NEW k \in 1..Len(xs), IsKey(xs[k]) PROVE xs[k].of # "masked" /\ ~Echoes(xs, k)
  <2>1. xs[k] = vs[k] /\ k \in 1..Len(vs)
    BY <1>9, <1>12
  <2>2. vs[k].of # "masked"
    BY <1>3, <1>12, <2>1
  <2>3. ~Echoes(xs, k)
    BY <1>11 DEF Echoes
  <2> QED
    BY <2>1, <2>2, <2>3
<1>13. ASSUME NEW p \in 1..Len(xs), ValueOfKey(xs, p) PROVE xs[p] = Mask
  <2>1. PICK k \in 1..(p - 1) : InValueOf(xs, k, p)
    BY <1>13 DEF ValueOfKey
  <2>2. k \in 1..Len(xs) /\ k < p /\ IsKey(xs[k]) /\ Sensitive(xs[k])
    BY <2>1 DEF InValueOf
  <2> QED
    BY <1>11, <2>1, <2>2
<1> QED
  BY <1>4, <1>10, <1>12, <1>13 DEF AllHidden

\* Merging masks uncovers no value.
LEMMA AssignmentsGone ==
  ASSUME NEW log \in Seq(Token), WellFormed(log), Recognisable(log)
  PROVE  NoAssignment(Sanitize(log))
<1>1. PICK xs \in Seq(Token) : xs = MaskedLog(log) /\ AllHidden(xs)
  BY MaskedLogType, ValuesHidden
<1>2. PICK out \in Seq(Token) : out = Sanitize(log)
  <2>1. Sanitize(log) \in Seq(Clean)
    BY SanitizedType
  <2> QED
    BY <2>1, CleanTokens
<1>3. PICK f : IsPlace(out, xs, f)
  BY <1>1, <1>2, SanitizedAsRef DEF Merged
<1>4. InOrder(out, xs, f)
  BY <1>3, PlaceIs
<1>5. Assigned(out) /\ \A p \in 1..Len(xs) : xs[p] = Mask \/ SameToKeys(out, f[p], xs, p)
  BY <1>1, <1>3, Merging DEF AllHidden
<1>6. ASSUME NEW x \in 1..Len(out), ValueOfKey(out, x) PROVE out[x] = Mask
  <2>1. PICK p \in 1..Len(xs) : f[p] = x /\ out[x] = xs[p]
    BY <1>4 DEF InOrder
  <2> QED
    BY <1>1, <1>5, <1>6, <2>1 DEF SameToKeys, AllHidden
<1>7. ASSUME NEW k \in 1..Len(out), IsKey(out[k]), Sensitive(out[k]) \/ out[k].of = "masked"
      PROVE  Hidden(out, k)
  <2>1. PICK p \in 1..Len(xs) : f[p] = k /\ out[k] = xs[p]
    <3>1. PICK p \in 1..Len(xs) : f[p] = k
      BY <1>4 DEF InOrder
    <3>2. out[f[p]] = xs[p]
      BY <1>4 DEF InOrder
    <3> QED
      BY <3>1, <3>2
  <2>2. out[k].of # "masked" /\ ~Echoes(xs, p)
    BY <1>1, <1>7, <2>1 DEF AllHidden
  <2>3. Sensitive(out[k]) /\ ~Echoes(out, k)
    BY <1>5, <1>7, <2>1, <2>2, Apart DEF SameToKeys
  <2>4. k < Len(out)
    BY <1>5, <1>7 DEF Assigned
  <2>5. ASSUME NEW i \in 1..Len(out), k < i, InValueOf(out, k, i) PROVE out[i] = Mask
    <3>1. k \in 1..(i - 1)
      BY <2>5
    <3> QED
      BY <1>6, <2>3, <2>5, <3>1 DEF ValueOfKey
  <2>6. CASE ~IsQuote(out[k + 1])
    <3>1. InValueOf(out, k, k + 1) /\ k + 1 \in 1..Len(out) /\ k < k + 1
      BY <1>7, <2>3, <2>4, <2>6, BareValue
    <3>2. out[k + 1] = Mask
      BY <2>5, <3>1
    <3> QED
      BY <2>4, <3>2 DEF Hidden
  <2>7. CASE IsQuote(out[k + 1])
    <3>1. PICK e \in (k + 3)..Len(out) : Quoted(out, k, e)
      BY <1>5, <1>7, <2>7 DEF Assigned
    <3>2. \A i \in 1..Len(out) : InValueOf(out, k, i) <=> k + 2 <= i /\ i < e
      BY <1>7, <2>3, <2>4, <3>1, QuotedValue
    <3>3. \A j \in (k + 2)..(e - 1) : out[j] = Mask
      <4> TAKE j \in (k + 2)..(e - 1)
      <4>1. j \in 1..Len(out) /\ k < j /\ k + 2 <= j /\ j < e
        OBVIOUS
      <4> QED
        BY <2>5, <3>2, <4>1
    <3>4. out[e] = out[k + 1]
      BY <3>1 DEF Quoted
    <3> QED
      BY <2>4, <2>7, <3>3, <3>4 DEF Hidden
  <2> QED
    BY <2>6, <2>7
<1>8. DOMAIN out = 1..Len(out)
  OBVIOUS
<1> QED
  BY <1>2, <1>7, <1>8 DEF NoAssignment

\* Groups of digits next to each other were so in the log: no card number is
\* put together, and those of the log are masked.
LEMMA NumbersGone ==
  ASSUME NEW log \in Seq(Token), WellFormed(log), Recognisable(log)
  PROVE  NoCard(Sanitize(log))
<1>1. PICK xs \in Seq(Token) :
        /\ xs = MaskedLog(log) /\ Len(xs) = Len(log)
        /\ \A i \in 1..Len(log) :
             xs[i] = IF Secret(log, i) THEN Mask
                     ELSE IF log[i] = Link("credentials") THEN Link("masked")
                     ELSE log[i]
  BY MaskedLogType
<1>2. PICK out \in Seq(Token) : out = Sanitize(log)
  <2>1. Sanitize(log) \in Seq(Clean)
    BY SanitizedType
  <2> QED
    BY <2>1, CleanTokens
<1>3. PICK f : IsPlace(out, xs, f)
  BY <1>1, <1>2, SanitizedAsRef DEF Merged
<1>4. InOrder(out, xs, f) /\ f[Len(xs)] = Len(out)
  BY <1>3, PlaceIs DEF IsPlace
<1>5. Len(out) \in Nat /\ Len(log) \in Nat
  OBVIOUS
<1>6. ~IsDigits(Mask) /\ ~IsDigits(Link("masked"))
  BY DEF IsDigits, Mask, Link
<1>7. SUFFICES ASSUME NEW a \in 1..Len(out), NEW b \in a..Len(out),
                      \A j \in a..b : IsDigits(out[j]),
                      IsNumber(out, a, b)
               PROVE  FALSE
  <2>1. DOMAIN out = 1..Len(out)
    OBVIOUS
  <2>2. \A a, b \in 1..Len(out) : a <= b => b \in a..Len(out)
    OBVIOUS
  <2> QED
    BY <1>2, <2>1, <2>2 DEF NoCard, IsNumber
<1>8. PICK p \in 1..Len(xs) : f[p] = a
  BY <1>4 DEF InOrder
<1>9. \A j \in 0..(b - a) : p + j \in 1..Len(xs) /\ f[p + j] = a + j
  <2> DEFINE T == {j \in 0..(b - a) : p + j \in 1..Len(xs) /\ f[p + j] = a + j}
  <2>1. 0 \in T
    <3>1. p + 0 = p /\ a + 0 = a /\ 0 \in 0..(b - a)
      BY <1>5
    <3> QED
      BY <1>8, <3>1
  <2>2. ASSUME NEW j \in 1..(b - a), j - 1 \in T PROVE j \in T
    <3>1. PICK q \in 1..Len(xs) : q = p + (j - 1) /\ f[q] = a + (j - 1)
      BY <2>2
    <3>2. a + (j - 1) \in a..b /\ (a + (j - 1)) + 1 = a + j /\ q + 1 = p + j /\ a + (j - 1) < b
      BY <1>5, <3>1
    <3>3. xs[q] # Mask
      <4>1. out[f[q]] = xs[q]
        BY <1>4, <3>1 DEF InOrder
      <4> QED
        BY <1>6, <1>7, <3>1, <3>2, <4>1
    <3>4. q < Len(xs)
      <4>1. f[q] < b /\ b <= Len(out) /\ f[q] # Len(out)
        <5>1. f[q] = a + (j - 1) /\ f[q] \in Int /\ f[q] < b
          BY <1>5, <3>1, <3>2
        <5>2. b \in Int /\ b <= Len(out)
          BY <1>5
        <5> QED
          BY <1>5, <5>1, <5>2
      <4>2. q # Len(xs)
        BY <1>4, <4>1
      <4> QED
        BY <1>1, <1>5, <4>2
    <3>5. f[q + 1] = f[q] + 1
      BY <1>4, <3>1, <3>3, <3>4 DEF InOrder
    <3>6. q + 1 \in 1..Len(xs) /\ j \in 0..(b - a)
      BY <1>1, <1>5, <3>4
    <3>7. f[p + j] = a + j
      BY <3>1, <3>2, <3>5
    <3> QED
      BY <3>2, <3>6, <3>7
  <2> HIDE DEF T
  <2>3. b - a \in Nat
    BY <1>5
  <2>4. \A j \in 0..(b - a) : j \in T
    BY <2>1, <2>2, <2>3, Induction
  <2> QED
    BY <2>4 DEF T
<1>10. ASSUME NEW j \in 0..(b - a)
       PROVE  out[a + j] = log[p + j] /\ IsDigits(log[p + j]) /\ ~Secret(log, p + j)
  <2>1. p + j \in 1..Len(xs) /\ p + j \in 1..Len(log) /\ f[p + j] = a + j /\ a + j \in a..b
    BY <1>1, <1>5, <1>9
  <2>2. out[f[p + j]] = xs[p + j]
    BY <1>4, <2>1 DEF InOrder
  <2>3. IsDigits(xs[p + j])
    BY <1>7, <2>1, <2>2
  <2>4. ~Secret(log, p + j) /\ xs[p + j] = log[p + j]
    BY <1>1, <1>6, <2>1, <2>3
  <2> QED
    BY <2>1, <2>2, <2>3, <2>4
<1>11. PICK d \in p..Len(log) : d = p + (b - a) /\ d - p = b - a
  <2>1. b - a \in 0..(b - a)
    BY <1>5
  <2>2. p + (b - a) \in 1..Len(log)
    BY <1>1, <1>9, <2>1
  <2>3. p + (b - a) \in p..Len(log) /\ (p + (b - a)) - p = b - a
    BY <1>1, <1>5, <2>2
  <2> QED
    BY <2>3
<1>12. SameTokens(out, a, b, log, p, d)
  BY <1>1, <1>10, <1>11 DEF SameTokens
<1>13. IsNumber(log, p, d)
  BY <1>7, <1>12, SamePiece
<1>14. \A j \in p..d : IsDigits(log[j])
  <2> TAKE j \in p..d
  <2>1. PICK l \in 0..(b - a) : j = p + l
    <3>1. j - p \in 0..(b - a) /\ j = p + (j - p)
      BY <1>1, <1>5, <1>11
    <3> QED
      BY <3>1
  <2> QED
    BY <1>10, <2>1
<1>15. LuhnReference(NumberOf(SubSeq(log, p, d)))
  <2>1. PICK us : PieceIs(log, p, d, us, Token)
    BY <1>1, <1>11, Piece
  <2>2. us = SubSeq(log, p, d) /\ us \in Seq(Token) /\ Len(us) = d - p + 1
    BY <2>1 DEF PieceIs
  <2>3. ASSUME NEW j \in 1..Len(us) PROVE IsDigits(us[j])
    <3>1. j \in 1..(d - p + 1) /\ p + j - 1 \in p..d
      BY <1>1, <1>11, <2>2
    <3> QED
      BY <1>14, <2>1, <3>1 DEF PieceIs
  <2>4. NumberOf(us) \in Seq(0..9)
    BY <2>2, <2>3, NumberType
  <2> QED
    BY <1>13, <2>2, <2>4, LuhnValidReference DEF IsNumber
<1>16. InCard(log, p)
  <2>1. p \in 1..p /\ d \in p..Len(log)
    BY <1>1
  <2> QED
    BY <1>14, <1>15, <2>1 DEF InCard
<1>17. ~Secret(log, p)
  <2>1. 0 \in 0..(b - a) /\ p + 0 = p
    BY <1>1, <1>5
  <2> QED
    BY <1>10, <2>1
<1> QED
  BY <1>16, <1>17 DEF Secret

-----------------------------------------------------------------------------
(* What is answered.                                                       *)

\* A task keeps to its input, and its answer to what becomes of that.
Answered ==
  \/ \E log \in Logs : /\ task = [for |-> "log", log |-> log]
                       /\ answer \in {Unanswered, [is |-> "log", log |-> Sanitize(log)]}
  \/ \E ds \in Numbers :
       /\ task = [for |-> "number", digits |-> ds]
       /\ answer \in {Unanswered, [is |-> "verdict", valid |-> luhnValid(ds)]}

\* Every answer is that of the sanitizer to the input of its task.
LEMMA AnswersAreComputed == Spec => []Answered
<1>1. Init => Answered
  BY DEF Init, Answered
<1>2. Answered /\ [Next]_vars => Answered'
  <2> SUFFICES ASSUME Answered, [Next]_vars PROVE Answered'
    OBVIOUS
  <2>1. CASE SanitizeLog
    BY <2>1 DEF Answered, SanitizeLog, Unanswered
  <2>2. CASE TestCandidate
    BY <2>2 DEF Answered, TestCandidate, Unanswered
  <2>3. CASE UNCHANGED vars
    BY <2>3 DEF Answered, vars
  <2> QED
    BY <2>1, <2>2, <2>3 DEF Next
<1> QED
  BY <1>1, <1>2, PTL DEF Spec

\* The check digit decides, whatever the numbers: a valid number is one by
\* Luhn's rule, has the only digit in its last place that makes it valid, and
\* a mistake in one digit is found.
THEOREM CheckDigit == Spec => []CheckDigitDecides
<1>1. Answered => CheckDigitDecides
  <2> SUFFICES ASSUME NEW ds \in Numbers,
                      task = [for |-> "number", digits |-> ds],
                      answer = [is |-> "verdict", valid |-> luhnValid(ds)]
               PROVE  CheckDigitDecides
    BY DEF Answered, CheckDigitDecides, Unanswered
  <2>1. ds \in Seq(0..9)
    BY NumbersAssumption
  <2>2. luhnValid(ds) = LuhnReference(ds)
    BY <2>1, LuhnValidReference
  <2>3. Len(ds) \in 13..19 =>
          Cardinality({d \in 0..9 : luhnValid([ds EXCEPT ![Len(ds)] = d])}) = 1
    BY <2>1, OneCheckDigit, FS_Singleton
  <2>4. luhnValid(ds) => \A i \in DOMAIN ds : \A d \in (0..9) \ {ds[i]} :
                           ~luhnValid([ds EXCEPT ![i] = d])
    <3>1. ASSUME luhnValid(ds), NEW i \in DOMAIN ds, NEW d \in (0..9) \ {ds[i]}
          PROVE  ~luhnValid([ds EXCEPT ![i] = d])
      <4>1. i \in 1..Len(ds) /\ d \in 0..9 /\ d # ds[i]
        BY <2>1
      <4> QED
        BY <2>1, <3>1, <4>1, ChangeDetected
    <3> QED
      BY <3>1
  <2> QED
    BY <2>2, <2>3, <2>4 DEF CheckDigitDecides
<1> QED
  BY <1>1, AnswersAreComputed, PTL

\* The passes leave nothing behind that they look for.  In the answer to any log
\* of well-formed tokens there is no value of a format, no long key and no block;
\* in the answer to a Recognisable one neither is a value of a sensitive or masked
\* key, or a card number, also within other groups of digits.
THEOREM SecretsGone == Spec => []NothingSecretIsLeft
<1>1. Answered => NothingSecretIsLeft
  <2> SUFFICES ASSUME NEW log \in Logs,
                      task = [for |-> "log", log |-> log],
                      answer = [is |-> "log", log |-> Sanitize(log)]
               PROVE  NothingSecretIsLeft
    BY DEF Answered, NothingSecretIsLeft, Unanswered
  <2>1. log \in Seq(Token) /\ WellFormed(log)
    BY LogsAssumption
  <2>2. NoFormat(Sanitize(log)) /\ NoBlock(Sanitize(log))
    BY <2>1, FormatsGone, BlocksGone
  <2>3. Recognisable(log) => NoAssignment(Sanitize(log)) /\ NoCard(Sanitize(log))
    BY <2>1, AssignmentsGone, NumbersGone
  <2> QED
    BY <2>2, <2>3 DEF NothingSecretIsLeft
<1> QED
  BY <1>1, AnswersAreComputed, PTL

\* The log in the answer to a well-formed, Recognisable one has every secret
\* masked, with its whole value, and everything else as it was, in whatever order
\* the patterns are tried.
THEOREM ExactlySecrets == Spec => []MasksExactlySecrets
<1>1. Answered => MasksExactlySecrets
  <2> SUFFICES ASSUME NEW log \in Logs, Recognisable(log),
                      task = [for |-> "log", log |-> log],
                      answer = [is |-> "log", log |-> Sanitize(log)]
               PROVE  MasksExactlySecrets
    BY DEF Answered, MasksExactlySecrets, Unanswered
  <2>1. log \in Seq(Token) /\ WellFormed(log)
    BY LogsAssumption
  <2>2. PICK out \in Seq(Token) : out = Sanitize(log)
    <3>1. Sanitize(log) \in Seq(Clean)
      BY <2>1, SanitizedType
    <3> QED
      BY <3>1, CleanTokens
  <2>3. PICK xs \in Seq(Token) : xs = MaskedLog(log)
    BY <2>1, MaskedLogType
  <2>4. OneMask(out) = OneMask(xs)
    BY <2>1, <2>2, <2>3, SanitizedAsRef, MergedOneMask
  <2>5. OneMask(xs) = Reference(log)
    BY <2>3 DEF Reference, MaskedLog
  <2> QED
    BY <2>2, <2>4, <2>5 DEF MasksExactlySecrets
<1> QED
  BY <1>1, AnswersAreComputed, PTL

=============================================================================
