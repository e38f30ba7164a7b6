------------------------------ MODULE Sanitizer -------------------------------
(***************************************************************************)
(* The log sanitizer of internal/utils/sanitize.go, which                  *)
(* fetchPodLogStream (tools/pods.go) applies to the tail of every log.     *)
(*                                                                         *)
(* A log is a sequence of tokens, in the classes its regular expressions   *)
(* tell apart: words, groups of digits, values of a recognisable format,   *)
(* URLs, keys with their assignment (key= or "key":), quotes, the two ends *)
(* of a PEM block, line ends, and the mask.  Tokens are separated by one   *)
(* blank, except behind a key and inside a quote, where none is; groups of *)
(* digits next to each other are what a card number looks like.  A word    *)
(* has no comma, brace or quote in it, at which an unquoted value ends.    *)
(***************************************************************************)
EXTENDS Integers, Sequences, SequencesExt

-----------------------------------------------------------------------------
(* Tokens.                                                                 *)

Word(w)        == [is |-> "word", of |-> w]
Digits(ds)     == [is |-> "digits", digits |-> ds]
Value(format)  == [is |-> "value", of |-> format]
Link(userinfo) == [is |-> "url", of |-> userinfo]   \* scheme and host are kept
Key(name, form) == [is |-> "key", of |-> name, form |-> form]
Quote(q)       == [is |-> "quote", of |-> q]
Begin   == [is |-> "begin"]
End     == [is |-> "end"]
NewLine == [is |-> "newline"]
Mask    == [is |-> "mask"]

\* A word that occurs in the key before it ("token=token").
Echo == Word("echo")

\* The patterns in their order, after that of cards; all but "url" are the
\* formats of values.
valuePatterns == <<"jwt", "prefixed", "url", "generic", "email", "phone">>

Token ==
  [is : {"word"}, of : STRING]
    \cup [is : {"digits"}, digits : Seq(0..9)]
    \cup [is : {"value"}, of : {"jwt", "prefixed", "generic", "email", "phone"}]
    \cup [is : {"url"}, of : {"credentials", "masked", "none"}]
    \cup [is : {"key"}, form : {"logfmt", "json"},
         of : {"exact", "variant", "plain", "longVariant", "longPlain", "masked"}]
    \cup [is : {"quote"}, of : {"double", "single"}]
    \cup {Begin, End, NewLine, Mask}

IsDigits(t) == t.is = "digits"
IsKey(t) == t.is = "key"
IsQuote(t) == t.is = "quote"

\* A key whose name has 32 characters or more is a long secret to the generic
\* pattern, [A-Za-z0-9_-]{32,}.
IsLong(t) == IsKey(t) /\ t.of \in {"longVariant", "longPlain"}

-----------------------------------------------------------------------------
(* Replacing matches.                                                      *)

\* The least of some positions, or the position given for none.
FirstOf(positions, default) ==
  IF positions = {} THEN default ELSE Min(positions)

\* regexp's ReplaceAllStringFunc: from left to right, a match that begins at
\* token i (length[i] tokens, 0 for no match) gives way to by[i], and the
\* search goes on behind it; any other token is copied.
Replaced(ts, length, by) ==
  LET scanned[i \in 0..Len(ts)] ==
        IF i = 0 THEN [out |-> <<>>, next |-> 1]
        ELSE LET s == scanned[i - 1]
             IN  IF i < s.next THEN s
                 ELSE IF length[i] = 0
                   THEN [out |-> Append(s.out, ts[i]), next |-> i + 1]
                 ELSE [out |-> s.out \o by[i], next |-> i + length[i]]
  IN  scanned[Len(ts)].out

-----------------------------------------------------------------------------
(* Card numbers.                                                           *)

\* The loop of luhnValid over the digits from the right.
luhnSum(ds, double) ==
  LET loop[k \in 0..Len(ds)] ==
        IF k = 0 THEN [sum |-> 0, double |-> double]
        ELSE LET s == loop[k - 1]
                 d == IF s.double THEN 2 * ds[Len(ds) - k + 1]
                                  ELSE ds[Len(ds) - k + 1]
             IN  [sum |-> s.sum + (IF d > 9 THEN d - 9 ELSE d),
                  double |-> ~s.double]
  IN  loop[Len(ds)].sum

\* Mutant of luhnValid: the last digit is doubled.
luhnFromLast(ds) ==
  Len(ds) \in 13..19 /\ luhnSum(ds, TRUE) % 10 = 0

luhnValid(ds) ==
  Len(ds) \in 13..19 /\ luhnSum(ds, FALSE) % 10 = 0

NumberOf(ts) == FlattenSeq([i \in DOMAIN ts |-> ts[i].digits])

\* A candidate is a run of groups with single blanks between, masked whole.
\* (Of a run of more than 19 digits the pattern takes the first 19; WellFormed
\* leaves such runs out.)
CardLength(ts, i) ==
  FirstOf({j \in i..Len(ts) : ~IsDigits(ts[j])}, Len(ts) + 1) - i

MaskedCard(run) == IF luhnValid(NumberOf(run)) THEN <<Mask>> ELSE run

maskCards(ts) ==
  Replaced(ts, [i \in DOMAIN ts |-> CardLength(ts, i)],
           [i \in DOMAIN ts |->
              MaskedCard(SubSeq(ts, i, i + CardLength(ts, i) - 1))])

-----------------------------------------------------------------------------
(* The other value patterns, one after the other.                          *)

\* maskURLCredential keeps scheme and host.  To the email pattern, user
\* information that is not masked yet and the host look like an address.  Of a
\* long key only the assignment remains, with a mask for its name.
maskPattern(p, ts) ==
  [i \in DOMAIN ts |->
     CASE p = "url" /\ ts[i].is = "url" /\ ts[i].of = "credentials"
            -> Link("masked")
       [] p = "email" /\ ts[i].is = "url" /\ ts[i].of = "credentials" -> Mask
       [] p = "generic" /\ IsLong(ts[i]) -> [ts[i] EXCEPT !.of = "masked"]
       [] ts[i].is = "value" /\ ts[i].of = p -> Mask
       [] OTHER -> ts[i]]

maskValues(line) ==
  LET masked[n \in 0..Len(valuePatterns)] ==
        IF n = 0 THEN maskCards(line)
        ELSE maskPattern(valuePatterns[n], masked[n - 1])
  IN  masked[Len(valuePatterns)]

-----------------------------------------------------------------------------
(* Keys.                                                                   *)

\* An assignment matches wherever a sensitive name ends before it, so
\* db_password= counts; a JSON name has to begin at its quote.  Every name that
\* is sensitive as a whole is short.
Sensitive(key) ==
  \/ key.of = "exact"
  \/ key.of \in {"variant", "longVariant"} /\ key.form = "logfmt"

\* What maskKeys makes of a sensitive key and the tokens of its value.  The
\* first occurrence of the value in the match is replaced: in the key, when
\* the value repeats it and no quote tells them apart.
Masked(key, value) ==
  LET quoted == IsQuote(value[1])
      inner == IF quoted THEN SubSeq(value, 2, Len(value) - 1) ELSE value
      echoes == inner = <<Echo>> /\ (~quoted \/ key.form = "json")
  IN  IF echoes THEN <<[key EXCEPT !.of = "masked"]>> \o value
      ELSE IF quoted THEN <<key, value[1], Mask, value[1]>>
      ELSE <<key, Mask>>

\* A quoted value runs to its closing quote, another to the next blank.  A
\* quote that does not close, or another key, counts as no value here; what the
\* code does with these (and with a single quote in JSON) WellFormed leaves out.
KeyLength(ts, i) ==
  IF ~ (IsKey(ts[i]) /\ Sensitive(ts[i]) /\ i < Len(ts)) THEN 0
  ELSE IF IsQuote(ts[i + 1])
    THEN FirstOf({j \in (i + 2)..Len(ts) : ts[j] = ts[i + 1]}, i - 1) - i + 1
  ELSE IF IsKey(ts[i + 1]) THEN 0 ELSE 2

maskKeys(ts) ==
  Replaced(ts, [i \in DOMAIN ts |-> KeyLength(ts, i)],
           [i \in DOMAIN ts |->
              Masked(ts[i], SubSeq(ts, i + 1, i + KeyLength(ts, i) - 1))])

-----------------------------------------------------------------------------
(* The whole log.                                                          *)

\* Mutant of BlockLength: without (?s) in the pattern, a block ends in its line.
BlockLengthInLine(ts, i) ==
  IF ts[i] # Begin THEN 0
  ELSE FirstOf({j \in i..Len(ts) :
                  ts[j] = End /\ \A k \in i..j : ts[k] # NewLine}, i - 1) - i + 1

\* A PEM block goes from its beginning to the next end, over line ends.
BlockLength(ts, i) ==
  IF ts[i] # Begin THEN 0
  ELSE FirstOf({j \in i..Len(ts) : ts[j] = End}, i - 1) - i + 1

maskBlocks(ts) ==
  Replaced(ts, [i \in DOMAIN ts |-> BlockLength(ts, i)],
           [i \in DOMAIN ts |-> <<Mask>>])

\* Mutant of maskLine: the order of docs/logs.md, keys before values.
maskLineByKeysFirst(line) == maskValues(maskKeys(line))

maskLine(line) == maskKeys(maskValues(line))

\* The tokens from i to the end of the line.
LineLength(ts, i) ==
  FirstOf({j \in i..Len(ts) : ts[j] = NewLine}, Len(ts) + 1) - i

maskLines(ts) ==
  Replaced(ts, [i \in DOMAIN ts |-> LineLength(ts, i)],
           [i \in DOMAIN ts |->
              maskLine(SubSeq(ts, i, i + LineLength(ts, i) - 1))])

Sanitize(log) == maskLines(maskBlocks(log))

-----------------------------------------------------------------------------
(* Reference: which positions of a log are secret, whatever the order in   *)
(* which the patterns are tried.                                           *)

\* Luhn's sum by positions: every second digit from the right counts the
\* digits of its double.
LuhnReference(ds) ==
  LET n == Len(ds)
      counts(i) == IF (n - i) % 2 = 0 THEN ds[i]
                   ELSE ((2 * ds[i]) \div 10) + ((2 * ds[i]) % 10)
      sum[i \in 0..n] == IF i = 0 THEN 0 ELSE counts(i) + sum[i - 1]
  IN  n >= 13 /\ n <= 19 /\ sum[n] % 10 = 0

\* The positions of a complete PEM block.
InBlock(log, i) ==
  \E a, b \in DOMAIN log :
    /\ a <= i /\ i <= b /\ a < b
    /\ log[a] = Begin /\ log[b] = End
    /\ \A j \in (a + 1)..(b - 1) : log[j] # End
    /\ \/ \A j \in 1..(a - 1) : log[j] # Begin
       \/ \E e \in 1..(a - 1) : /\ log[e] = End
                                /\ \A j \in (e + 1)..(a - 1) : log[j] # Begin

\* The group at i belongs to a card number, alone or among other groups.
InCard(log, i) ==
  \E a \in 1..i, b \in i..Len(log) :
    /\ \A j \in a..b : IsDigits(log[j])
    /\ LuhnReference(NumberOf(SubSeq(log, a, b)))

\* What has the format of a secret; a UUID has that of a generic one.
InFormat(log, i) == log[i].is = "value"

\* The value of a sensitive key: the next token, or what is in quotes.
InValueOf(log, k, i) ==
  /\ IsKey(log[k]) /\ Sensitive(log[k])
  /\ \/ i = k + 1 /\ ~IsQuote(log[i])
     \/ /\ i > k + 1 /\ IsQuote(log[k + 1])
        /\ \A j \in (k + 2)..i : log[j] # log[k + 1]

Secret(log, i) ==
  \/ InBlock(log, i) \/ InCard(log, i) \/ InFormat(log, i)
  \/ \E k \in 1..(i - 1) : InValueOf(log, k, i)

\* Adjacent masks count as one: a mask behind another is left out.
OneMask(ts) ==
  Replaced(ts,
    [i \in DOMAIN ts |-> IF i > 1 /\ ts[i] = Mask /\ ts[i - 1] = Mask THEN 1 ELSE 0],
    [i \in DOMAIN ts |-> <<>>])

\* The log with its secrets masked and everything else as it was, but for
\* the user information of URLs.
Reference(log) ==
  OneMask([i \in DOMAIN log |->
    IF Secret(log, i) THEN Mask
    ELSE IF log[i] = Link("credentials") THEN Link("masked")
    ELSE log[i]])

\* The tokens from a to b are all the groups of digits there are in one place.
IsRun(log, a, b) ==
  /\ \A j \in a..b : IsDigits(log[j])
  /\ a = 1 \/ ~IsDigits(log[a - 1])
  /\ b = Len(log) \/ ~IsDigits(log[b + 1])

\* Logs for which the tokens are fine enough: a key has its value behind it,
\* not part of another assignment; a quote has something in it and ends in its
\* line (a JSON value has double quotes); a block and an assignment lie apart
\* or one in the other, and the beginning of a block stands behind a key only
\* with its end; no run of digits exceeds a card number, and no group in it is
\* a piece of a phone number.
WellFormed(log) ==
  /\ \A i \in DOMAIN log : IsKey(log[i]) =>
       /\ i < Len(log)
       /\ log[i + 1].is \notin {"key", "newline", "end"}
       /\ log[i + 1] = Begin => InBlock(log, i + 1)
       /\ IsQuote(log[i + 1]) =>
            /\ log[i].form = "json" => log[i + 1] = Quote("double")
            /\ \E e \in (i + 3)..Len(log) :
                 /\ log[e] = log[i + 1]
                 /\ InBlock(log, e) => InBlock(log, i)
                 /\ InBlock(log, i) => \A j \in i..e : InBlock(log, j)
                 /\ \A j \in (i + 2)..(e - 1) :
                      log[j].is \notin {"quote", "newline", "key"}
  /\ \A a, b \in DOMAIN log :
       a <= b /\ IsRun(log, a, b) => Len(NumberOf(SubSeq(log, a, b))) <= 19
  /\ \A i \in DOMAIN log : IsDigits(log[i]) => Len(log[i].digits) # 3

\* The value repeats its key and nothing tells the two apart (see Masked).
Echoes(log, k) ==
  /\ IsKey(log[k]) /\ Sensitive(log[k])
  /\ k < Len(log)
  /\ \/ log[k + 1] = Echo
     \/ /\ log[k].form = "json" /\ IsQuote(log[k + 1])
        /\ log[k + 2] = Echo /\ log[k + 3] = log[k + 1]

\* The code does not keep every log free of its secrets.  It does where
\* no key has a name that is itself taken for a secret (the value of a long one
\* stays), no value is a piece of the name of its key (the name is masked for
\* it), and a card number stands by itself (among other groups of digits it is
\* no candidate).
Recognisable(log) ==
  /\ \A k \in DOMAIN log : IsKey(log[k]) =>
       log[k].of \in {"exact", "variant", "plain"} /\ ~Echoes(log, k)
  /\ \A a, b \in DOMAIN log :
       /\ a <= b /\ \A j \in a..b : IsDigits(log[j])
       /\ LuhnReference(NumberOf(SubSeq(log, a, b)))
       => IsRun(log, a, b)

-----------------------------------------------------------------------------
(* What must not be found in a log that has been sanitized.                *)

\* No value of a recognisable format, no long key, and no user information in
\* a URL.
NoFormat(log) ==
  \A i \in DOMAIN log :
    log[i].is # "value" /\ ~IsLong(log[i]) /\ log[i] # Link("credentials")

\* No PEM block, not even over lines or around other masks.
NoBlock(log) ==
  \A a, b \in DOMAIN log : a < b => ~ (log[a] = Begin /\ log[b] = End)

\* Behind the key at k there is the mask, bare or alone in quotes.
Hidden(log, k) ==
  /\ k < Len(log)
  /\ \/ log[k + 1] = Mask
     \/ /\ IsQuote(log[k + 1])
        /\ \E e \in (k + 3)..Len(log) :
             log[e] = log[k + 1] /\ \A j \in (k + 2)..(e - 1) : log[j] = Mask

\* Whatever a key is assigned that is sensitive, or whose name is masked so that
\* nobody knows, is hidden.
NoAssignment(log) ==
  \A k \in DOMAIN log :
    IsKey(log[k]) /\ (Sensitive(log[k]) \/ log[k].of = "masked") => Hidden(log, k)

\* No card number, alone or among other groups of digits.
NoCard(log) ==
  \A a, b \in DOMAIN log :
    a <= b /\ (\A j \in a..b : IsDigits(log[j])) =>
      ~luhnValid(NumberOf(SubSeq(log, a, b)))

=============================================================================
