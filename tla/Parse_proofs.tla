---------------------------- MODULE Parse_proofs ----------------------------
(***************************************************************************)
(* What the parser of Parse makes of a text, for every text: the command   *)
(* that a hotkey or an action stores runs the commands that were typed,    *)
(* and a sourced file runs its lines. Induction is over the characters of  *)
(* the text, one state of the parser following another: the cursor of the  *)
(* second parse runs along with that of the first.                         *)
(***************************************************************************)
EXTENDS Parse, Filters_proofs

(* What the cursor is in: in a string, the quote that began it.            *)
At(mode, quote, word, args, commands) ==
    [mode |-> mode, quote |-> quote, word |-> word, args |-> args, commands |-> commands]

(* The parts of it.                                                        *)
LEMMA PartsAt ==
    ASSUME NEW m, NEW q, NEW w, NEW a, NEW cs
    PROVE  /\ At(m, q, w, a, cs).mode = m /\ At(m, q, w, a, cs).quote = q
           /\ At(m, q, w, a, cs).word = w /\ At(m, q, w, a, cs).args = a
           /\ At(m, q, w, a, cs).commands = cs
  BY DEF At

(* Its type, for changing one part of it.                                  *)
LEMMA TypeAt ==
    ASSUME NEW m, NEW q, NEW w, NEW a, NEW cs
    PROVE  At(m, q, w, a, cs)
             \in [mode : {m}, quote : {q}, word : {w}, args : {a}, commands : {cs}]
  BY DEF At

(* The helpers of the parser on it.                                        *)
LEMMA InAt ==
    ASSUME NEW m, NEW q, NEW w, NEW a, NEW cs, NEW n
    PROVE  In(At(m, q, w, a, cs), n) = At(n, q, w, a, cs)
  <1>. DEFINE x == At(m, q, w, a, cs)
  <1>1. /\ x \in [mode : {m}, quote : {q}, word : {w}, args : {a}, commands : {cs}]
        /\ x.quote = q /\ x.word = w /\ x.args = a /\ x.commands = cs
    BY PartsAt, TypeAt
  <1>. HIDE DEF x
  <1>2. In(x, n) = At(n, q, w, a, cs)
    BY <1>1 DEF In, At
  <1>. QED BY <1>2 DEF x

(* Opening a quote.                                                        *)
LEMMA OpenedAt ==
    ASSUME NEW m, NEW q, NEW w, NEW a, NEW cs, NEW n
    PROVE  Opened(At(m, q, w, a, cs), n) = At(m, n, w, a, cs)
  <1>. DEFINE x == At(m, q, w, a, cs)
  <1>1. /\ x \in [mode : {m}, quote : {q}, word : {w}, args : {a}, commands : {cs}]
        /\ x.mode = m /\ x.word = w /\ x.args = a /\ x.commands = cs
    BY PartsAt, TypeAt
  <1>. HIDE DEF x
  <1>2. Opened(x, n) = At(m, n, w, a, cs)
    BY <1>1 DEF Opened, At
  <1>. QED BY <1>2 DEF x

(* One more character in the word.                                         *)
LEMMA MoreAt ==
    ASSUME NEW m, NEW q, NEW w, NEW a, NEW cs, NEW y
    PROVE  More(At(m, q, w, a, cs), y) = At(m, q, w \o y, a, cs)
  <1>. DEFINE x == At(m, q, w, a, cs)
              z == w \o y
  <1>1. /\ x \in [mode : {m}, quote : {q}, word : {w}, args : {a}, commands : {cs}]
        /\ x.mode = m /\ x.quote = q /\ x.word = w /\ x.args = a /\ x.commands = cs
    BY PartsAt, TypeAt
  <1>. HIDE DEF x
  <1>2. More(x, y) = [x EXCEPT !.word = z]
    BY <1>1, Zenon DEF More
  <1>. HIDE DEF z
  <1>3. [x EXCEPT !.word = z] = At(m, q, z, a, cs)
    BY <1>1 DEF At
  <1>. QED BY <1>2, <1>3 DEF x, z

(* The word is complete.                                                   *)
LEMMA WordDoneAt ==
    ASSUME NEW m, NEW q, NEW w, NEW a, NEW cs
    PROVE  WordDone(At(m, q, w, a, cs)) = At("between", "none", <<>>, Append(a, w), cs)
  BY PartsAt, Zenon DEF WordDone, At

(* With words, they are the next command.                                  *)
LEMMA CommandAt ==
    ASSUME NEW m, NEW q, NEW w, NEW a, NEW cs, a # <<>>
    PROVE  CommandDone(At(m, q, w, a, cs)) = At(m, q, w, <<>>, Append(cs, a))
  BY PartsAt, Zenon DEF CommandDone, At

(* The kinds of characters.                                                *)
LEMMA CharacterKinds ==
    /\ Blank \in White /\ NL \in White
    /\ \A c \in {"a", "n", "k", Hash, Semicolon, Backslash, DoubleQuote, SingleQuote} : c \notin White
    /\ \A c \in {"a", "n", "k", Hash, Semicolon, Backslash, Blank, NL, "none"} : c \notin Quotes
    /\ DoubleQuote \in Quotes /\ SingleQuote \in Quotes
    /\ \A q \in Quotes : q = DoubleQuote \/ q = SingleQuote
    /\ \A c \in {"a", "n", "k", Hash, Blank, DoubleQuote, SingleQuote} : c # Semicolon /\ c # Backslash
    /\ Semicolon # Backslash
  BY DEF White, Quotes, Blank, NL, Semicolon, Hash, Backslash, DoubleQuote, SingleQuote

(* A quote is no other character.                                          *)
LEMMA QuoteKinds ==
    \A q \in Quotes : q \notin White /\ q # Semicolon /\ q # Backslash /\ q # Blank
  BY CharacterKinds

(* Letters and the hash mean nothing to the parser.                        *)
Plain(c) == c \notin White /\ c \notin Quotes /\ c # Semicolon /\ c # Backslash
LEMMA PlainLetters == \A c \in {"a", "n", "k", Hash} : Plain(c)
  BY CharacterKinds DEF Plain

(* A backslash names no control character.                                 *)
LEMMA BackslashIsNoControl == Backslash \notin DOMAIN Control
  <1>1. DOMAIN Control = {"t", "r", "n", "f", "v", "b", "0"}
    BY DEF Control
  <1>2. Backslash \notin {"t", "r", "n", "f", "v", "b", "0"}
    BY DEF Backslash
  <1>. QED BY <1>1, <1>2

(* Between words.                                                          *)
LEMMA BetweenAt ==
    ASSUME NEW q, NEW w, NEW a, NEW cs, NEW c
    PROVE  Character(At("between", q, w, a, cs), c) = Starts(At("between", q, w, a, cs), c)
  <1>1. At("between", q, w, a, cs).mode = "between"
    BY PartsAt
  <1>. QED BY <1>1 DEF Character

(* Blanks between words are nothing.                                       *)
LEMMA BlankBetween ==
    ASSUME NEW q, NEW w, NEW a, NEW cs
    PROVE  Character(At("between", q, w, a, cs), Blank) = At("between", q, w, a, cs)
  <1>. DEFINE x == At("between", q, w, a, cs)
  <1>1. Starts(x, Blank) = x
    BY CharacterKinds DEF Starts
  <1>. QED BY <1>1, BetweenAt, ZenonT(40)

(* A backslash between words.                                              *)
LEMMA EscapeBetween ==
    ASSUME NEW q, NEW w, NEW a, NEW cs
    PROVE  Character(At("between", q, w, a, cs), Backslash) = At("escape", q, w, a, cs)
  <1>. DEFINE x == At("between", q, w, a, cs)
  <1>1. Starts(x, Backslash) = In(x, "escape")
    BY CharacterKinds DEF Starts
  <1>2. In(x, "escape") = At("escape", q, w, a, cs)
    BY InAt
  <1>. QED BY <1>1, <1>2, BetweenAt, ZenonT(40)

(* A quote between words.                                                  *)
LEMMA QuoteBetween ==
    ASSUME NEW q, NEW w, NEW a, NEW cs, NEW c \in Quotes
    PROVE  Character(At("between", q, w, a, cs), c) = At("string", c, w, a, cs)
  <1>. DEFINE x == At("between", q, w, a, cs)
  <1>1. Starts(x, c) = Opened(In(x, "string"), c)
    <2>1. c \notin White /\ c # Backslash /\ c # Semicolon
      BY QuoteKinds
    <2>. QED BY <2>1 DEF Starts
  <1>2. In(x, "string") = At("string", q, w, a, cs)
    BY InAt
  <1>3. Opened(At("string", q, w, a, cs), c) = At("string", c, w, a, cs)
    BY OpenedAt
  <1>. QED BY <1>1, <1>2, <1>3, BetweenAt, ZenonT(40)

(* A plain character begins a word.                                        *)
LEMMA PlainFirst ==
    ASSUME NEW q, NEW a, NEW cs, NEW c, Plain(c)
    PROVE  Character(At("between", q, <<>>, a, cs), c) = At("word", q, <<c>>, a, cs)
  <1>. DEFINE x == At("between", q, <<>>, a, cs)
  <1>1. Starts(x, c) = In(More(x, <<c>>), "word")
    BY DEF Starts, Plain
  <1>2. \A w : More(At("between", q, w, a, cs), <<c>>) = At("between", q, w \o <<c>>, a, cs)
    BY MoreAt
  <1>3. \A w : In(At("between", q, w, a, cs), "word") = At("word", q, w, a, cs)
    BY InAt
  <1>4. <<>> \o <<c>> = <<c>>
    OBVIOUS
  <1>5. Character(x, c) = Starts(x, c)
    BY BetweenAt
  <1>. QED BY <1>1, <1>2, <1>3, <1>4, <1>5, Zenon

(* After an escape a word begins with what was escaped.                    *)
LEMMA EscapedFirst ==
    ASSUME NEW q, NEW a, NEW cs, NEW c, c \notin White, c # Backslash
    PROVE  Character(At("escape", q, <<>>, a, cs), c) = At("word", q, <<c>>, a, cs)
  <1>. DEFINE x == At("escape", q, <<>>, a, cs)
  <1>1. Character(x, c) = StartsEscaped(x, c)
    <2>1. x.mode = "escape"
      BY PartsAt
    <2>. QED BY <2>1 DEF Character
  <1>2. StartsEscaped(x, c) = In(More(x, <<c>>), "word")
    BY DEF StartsEscaped
  <1>3. \A w : More(At("escape", q, w, a, cs), <<c>>) = At("escape", q, w \o <<c>>, a, cs)
    BY MoreAt
  <1>4. \A w : In(At("escape", q, w, a, cs), "word") = At("word", q, w, a, cs)
    BY InAt
  <1>5. <<>> \o <<c>> = <<c>>
    OBVIOUS
  <1>. QED BY <1>1, <1>2, <1>3, <1>4, <1>5, Zenon

(* But a second backslash is only the escape of a word.                    *)
LEMMA EscapedTwice ==
    ASSUME NEW q, NEW w, NEW a, NEW cs
    PROVE  Character(At("escape", q, w, a, cs), Backslash) = At("wordEscape", q, w, a, cs)
  <1>. DEFINE x == At("escape", q, w, a, cs)
  <1>1. Character(x, Backslash) = StartsEscaped(x, Backslash)
    <2>1. x.mode = "escape"
      BY PartsAt
    <2>. QED BY <2>1 DEF Character
  <1>2. StartsEscaped(x, Backslash) = In(x, "wordEscape")
    BY CharacterKinds DEF StartsEscaped
  <1>3. In(x, "wordEscape") = At("wordEscape", q, w, a, cs)
    BY InAt
  <1>. QED BY <1>1, <1>2, <1>3, Zenon

(* In a word.                                                              *)
LEMMA WordAt ==
    ASSUME NEW q, NEW w, NEW a, NEW cs, NEW c
    PROVE  Character(At("word", q, w, a, cs), c) = Continues(At("word", q, w, a, cs), c)
  <1>1. At("word", q, w, a, cs).mode = "word"
    BY PartsAt
  <1>. QED BY <1>1 DEF Character

(* A blank ends it.                                                        *)
LEMMA BlankInWord ==
    ASSUME NEW q, NEW w, NEW a, NEW cs
    PROVE  Character(At("word", q, w, a, cs), Blank) = At("between", "none", <<>>, Append(a, w), cs)
  <1>. DEFINE x == At("word", q, w, a, cs)
  <1>1. Continues(x, Blank) = WordDone(x)
    BY CharacterKinds DEF Continues
  <1>2. WordDone(x) = At("between", "none", <<>>, Append(a, w), cs)
    BY WordDoneAt
  <1>. QED BY <1>1, <1>2, WordAt, ZenonT(40)

(* A backslash in it.                                                      *)
LEMMA EscapeInWord ==
    ASSUME NEW q, NEW w, NEW a, NEW cs
    PROVE  Character(At("word", q, w, a, cs), Backslash) = At("wordEscape", q, w, a, cs)
  <1>. DEFINE x == At("word", q, w, a, cs)
  <1>1. Continues(x, Backslash) = In(x, "wordEscape")
    BY CharacterKinds DEF Continues
  <1>2. In(x, "wordEscape") = At("wordEscape", q, w, a, cs)
    BY InAt
  <1>. QED BY <1>1, <1>2, WordAt, ZenonT(40)

(* A plain character goes on with it.                                      *)
LEMMA PlainInWord ==
    ASSUME NEW q, NEW w, NEW a, NEW cs, NEW c, Plain(c)
    PROVE  Character(At("word", q, w, a, cs), c) = At("word", q, w \o <<c>>, a, cs)
  <1>. DEFINE x == At("word", q, w, a, cs)
  <1>1. Continues(x, c) = More(x, <<c>>)
    BY DEF Continues, Plain
  <1>2. More(x, <<c>>) = At("word", q, w \o <<c>>, a, cs)
    BY MoreAt
  <1>3. Character(x, c) = Continues(x, c)
    BY WordAt
  <1>. QED BY <1>1, <1>2, <1>3, Zenon

(* And so does what is escaped in it.                                      *)
LEMMA EscapedInWord ==
    ASSUME NEW q, NEW w, NEW a, NEW cs, NEW c, c \notin White
    PROVE  Character(At("wordEscape", q, w, a, cs), c) = At("word", q, w \o <<c>>, a, cs)
  <1>. DEFINE x == At("wordEscape", q, w, a, cs)
  <1>1. Character(x, c) = ContinuesEscaped(x, c)
    <2>1. x.mode = "wordEscape"
      BY PartsAt
    <2>. QED BY <2>1 DEF Character
  <1>2. ContinuesEscaped(x, c) = In(More(x, <<c>>), "word")
    BY DEF ContinuesEscaped
  <1>3. More(x, <<c>>) = At("wordEscape", q, w \o <<c>>, a, cs)
    BY MoreAt
  <1>4. In(At("wordEscape", q, w \o <<c>>, a, cs), "word") = At("word", q, w \o <<c>>, a, cs)
    BY InAt
  <1>. QED BY <1>1, <1>2, <1>3, <1>4, Zenon

(* In a string.                                                            *)
LEMMA StringAt ==
    ASSUME NEW q, NEW w, NEW a, NEW cs, NEW c
    PROVE  /\ Character(At("string", q, w, a, cs), c) = InString(At("string", q, w, a, cs), c)
           /\ At("string", q, w, a, cs).quote = q
  <1>1. At("string", q, w, a, cs).mode = "string"
    BY PartsAt
  <1>2. At("string", q, w, a, cs).quote = q
    BY PartsAt
  <1>3. Character(At("string", q, w, a, cs), c) = InString(At("string", q, w, a, cs), c)
    BY <1>1 DEF Character
  <1>. QED BY <1>2, <1>3, Zenon

(* A character is itself.                                                  *)
LEMMA OtherInString ==
    ASSUME NEW q, NEW w, NEW a, NEW cs, NEW c, c # Backslash, c # q
    PROVE  Character(At("string", q, w, a, cs), c) = At("string", q, w \o <<c>>, a, cs)
  <1>. DEFINE x == At("string", q, w, a, cs)
  <1>1. x.quote = q
    BY StringAt
  <1>2. InString(x, c) = More(x, <<c>>)
    <2>. HIDE DEF x
    <2>. QED BY <1>1 DEF InString
  <1>3. More(x, <<c>>) = At("string", q, w \o <<c>>, a, cs)
    BY MoreAt
  <1>4. Character(x, c) = InString(x, c)
    BY StringAt
  <1>. QED BY <1>2, <1>3, <1>4, Zenon

(* Two backslashes are one.                                                *)
LEMMA BackslashesInString ==
    ASSUME NEW q \in Quotes, NEW w, NEW a, NEW cs
    PROVE  Character(Character(At("string", q, w, a, cs), Backslash), Backslash)
             = At("string", q, w \o <<Backslash>>, a, cs)
  <1>. DEFINE x == At("string", q, w, a, cs)
              y == At("stringEscape", q, w, a, cs)
  <1>0. q # Backslash
    BY QuoteKinds
  <1>1. x.quote = q /\ y.quote = q /\ y.mode = "stringEscape"
    BY PartsAt
  <1>2. InString(x, Backslash) = In(x, "stringEscape")
    <2>. HIDE DEF x
    <2>. QED BY <1>0, <1>1 DEF InString
  <1>3. In(x, "stringEscape") = y
    BY InAt
  <1>4. Character(x, Backslash) = y
    <2>1. Character(x, Backslash) = InString(x, Backslash)
      BY StringAt
    <2>. QED BY <1>2, <1>3, <2>1, Zenon
  <1>5. Character(y, Backslash) = In(More(y, EscapeOf(Backslash)), "string")
    <2>. HIDE DEF y
    <2>1. Character(y, Backslash) = InStringEscaped(y, Backslash)
      BY <1>1 DEF Character
    <2>. QED BY <1>0, <1>1, <2>1 DEF InStringEscaped
  <1>6. EscapeOf(Backslash) = <<Backslash>>
    BY BackslashIsNoControl DEF EscapeOf
  <1>7. \A z : More(y, z) = At("stringEscape", q, w \o z, a, cs)
    BY MoreAt
  <1>8. \A z : In(At("stringEscape", q, w \o z, a, cs), "string") = At("string", q, w \o z, a, cs)
    BY InAt
  <1>9. Character(y, Backslash) = At("string", q, w \o <<Backslash>>, a, cs)
    BY <1>5, <1>6, <1>7, <1>8, Zenon
  <1>. QED BY <1>4, <1>9, Zenon

(* The second quote ends the word.                                         *)
LEMMA Unquotes ==
    ASSUME NEW q \in Quotes, NEW w, NEW a, NEW cs
    PROVE  Character(At("string", q, w, a, cs), q) = At("between", "none", <<>>, Append(a, w), cs)
  <1>. DEFINE x == At("string", q, w, a, cs)
  <1>1. x.quote = q
    BY StringAt
  <1>2. InString(x, q) = WordDone(x)
    <2>1. q # Backslash
      BY QuoteKinds
    <2>. HIDE DEF x
    <2>. QED BY <1>1, <2>1 DEF InString
  <1>3. WordDone(x) = At("between", "none", <<>>, Append(a, w), cs)
    BY WordDoneAt
  <1>4. Character(x, q) = InString(x, q)
    BY StringAt
  <1>. QED BY <1>2, <1>3, <1>4, Zenon

-----------------------------------------------------------------------------
(* The recursive functions are defined.                                    *)

(* The state after each prefix of a text.                                  *)
LEMMA ReadsDef ==
    ASSUME NEW S, NEW s \in Seq(S)
    PROVE  /\ Reads(s)[0] = Between
           /\ \A n \in 1..Len(s) : Reads(s)[n] = Character(Reads(s)[n - 1], s[n])
  <1>. DEFINE Def(g, m) == [n \in 0..m |-> IF n = 0 THEN Between ELSE Character(g[n - 1], s[n])]
              E == {m \in 0..Len(s) : \E g : g = Def(g, m)}
  <1>1. Len(s) \in Nat
    OBVIOUS
  <1>2. 0 \in E
    <2>. DEFINE g == [n \in 0..0 |-> Between]
    <2>1. g = Def(g, 0)
      OBVIOUS
    <2>2. 0 \in 0..Len(s)
      BY <1>1
    <2>. HIDE DEF g, Def
    <2>. QED BY <2>1, <2>2
  <1>3. ASSUME NEW m \in 1..Len(s), m - 1 \in E PROVE m \in E
    <2>1. PICK g : g = Def(g, m - 1)
      BY <1>3
    <2>. DEFINE last == Character(g[m - 1], s[m])
                h == [n \in 0..m |-> IF n < m THEN g[n] ELSE last]
    <2>2. \A n \in 0..(m - 1) : h[n] = g[n]
      <3>. HIDE DEF last
      <3>. QED BY <1>1
    <2>3. h[m] = last
      <3>. HIDE DEF last
      <3>. QED BY <1>1
    <2>4. m - 1 \in 0..(m - 1) /\ m # 0
      BY <1>1
    <2>5. h[m] = Character(h[m - 1], s[m])
      <3>. HIDE DEF h
      <3>. QED BY <2>2, <2>3, <2>4
    <2>6. ASSUME NEW n \in 0..m PROVE h[n] = IF n = 0 THEN Between ELSE Character(h[n - 1], s[n])
      <3>1. CASE n = m
        <4>. HIDE DEF h
        <4>. QED BY <2>4, <2>5, <3>1
      <3>2. CASE n # m
        <4>1. n \in 0..(m - 1) /\ (n # 0 => n - 1 \in 0..(m - 1))
          BY <3>2
        <4>2. g[n] = IF n = 0 THEN Between ELSE Character(g[n - 1], s[n])
          BY <2>1, <4>1
        <4>. HIDE DEF h
        <4>3. CASE n = 0
          BY <2>2, <4>1, <4>2, <4>3
        <4>4. CASE n # 0
          <5>1. h[n] = g[n] /\ h[n - 1] = g[n - 1]
            BY <2>2, <4>1, <4>4
          <5>. QED BY <4>2, <4>4, <5>1
        <4>. QED BY <4>3, <4>4
      <3>. QED BY <3>1, <3>2
    <2>7. h = Def(h, m)
      <3>1. h = [n \in 0..m |-> h[n]]
        <4>. HIDE DEF last
        <4>. QED OBVIOUS
      <3>. HIDE DEF h
      <3>. QED BY <2>6, <3>1
    <2>8. m \in 0..Len(s)
      BY <1>1
    <2>. HIDE DEF h, Def
    <2>. QED BY <2>7, <2>8
  <1>4. Len(s) \in E
    <2>. HIDE DEF E
    <2>1. \A n \in 0..Len(s) : n \in E
      BY <1>1, <1>2, <1>3, UptoInduction, Zenon
    <2>. QED BY <1>1, <2>1
  <1>5. Reads(s) = CHOOSE g : g = Def(g, Len(s))
    BY DEF Reads
  <1>6. Reads(s) = Def(Reads(s), Len(s))
    <2>1. \E g : g = Def(g, Len(s))
      BY <1>4
    <2>. HIDE DEF Def
    <2>. QED BY <1>5, <2>1
  <1>7. \A n \in 0..Len(s) : Reads(s)[n] = Def(Reads(s), Len(s))[n]
    <2>. HIDE DEF Def
    <2>. QED BY <1>6
  <1>8. 0 \in 0..Len(s) /\ \A n \in 1..Len(s) : n \in 0..Len(s) /\ n # 0
    BY <1>1
  <1>9. Reads(s)[0] = Between
    BY <1>7, <1>8
  <1>10. ASSUME NEW n \in 1..Len(s) PROVE Reads(s)[n] = Character(Reads(s)[n - 1], s[n])
    <2>1. Reads(s)[n] = IF n = 0 THEN Between ELSE Character(Reads(s)[n - 1], s[n])
      BY <1>7, <1>8
    <2>. QED BY <1>8, <2>1, Zenon
  <1>. QED BY <1>9, <1>10

(* One character more.                                                     *)
LEMMA ReadsNext ==
    ASSUME NEW S, NEW s \in Seq(S), NEW c \in S, NEW t, t = Append(s, c)
    PROVE  /\ \A n \in 0..Len(s) : Reads(t)[n] = Reads(s)[n]
           /\ Reads(t)[Len(t)] = Character(Reads(s)[Len(s)], c)
  <1>. DEFINE E == {n \in 0..Len(s) : Reads(t)[n] = Reads(s)[n]}
  <1>1. /\ t \in Seq(S) /\ Len(s) \in Nat /\ Len(t) = Len(s) + 1 /\ t[Len(t)] = c
        /\ \A n \in 1..Len(s) : t[n] = s[n]
    OBVIOUS
  <1>2. 0 \in E
    <2>1. Reads(t)[0] = Between
      BY <1>1, ReadsDef, Zenon
    <2>2. Reads(s)[0] = Between
      BY ReadsDef, Zenon
    <2>. QED BY <1>1, <2>1, <2>2
  <1>3. ASSUME NEW n \in 1..Len(s), n - 1 \in E PROVE n \in E
    <2>1. n \in 1..Len(t) /\ n \in 0..Len(s) /\ t[n] = s[n]
      BY <1>1
    <2>2. Reads(t)[n] = Character(Reads(t)[n - 1], t[n])
      BY <1>1, <2>1, ReadsDef, Zenon
    <2>3. Reads(s)[n] = Character(Reads(s)[n - 1], s[n])
      BY ReadsDef, Zenon
    <2>4. Reads(t)[n - 1] = Reads(s)[n - 1]
      BY <1>3
    <2>5. Reads(t)[n] = Reads(s)[n]
      BY <2>1, <2>2, <2>3, <2>4, Zenon
    <2>. QED BY <2>1, <2>5
  <1>4. \A n \in 0..Len(s) : n \in E
    <2>. HIDE DEF E
    <2>. QED BY <1>1, <1>2, <1>3, UptoInduction, Zenon
  <1>5. \A n \in 0..Len(s) : Reads(t)[n] = Reads(s)[n]
    BY <1>4
  <1>6. Len(t) \in 1..Len(t) /\ Len(t) - 1 = Len(s) /\ Len(s) \in 0..Len(s)
    BY <1>1
  <1>7. Reads(t)[Len(t)] = Character(Reads(t)[Len(t) - 1], t[Len(t)])
    BY <1>1, <1>6, ReadsDef, Zenon
  <1>. QED BY <1>1, <1>5, <1>6, <1>7

(* The words of a command, joined.                                         *)
LEMMA JoinsDef ==
    ASSUME NEW S, NEW s \in Seq(S)
    PROVE  /\ Joins(s)[0] = <<>>
           /\ \A n \in 1..Len(s) : Joins(s)[n] = WithWord(Joins(s)[n - 1], s[n])
  <1>. DEFINE Def(g, m) == [n \in 0..m |-> IF n = 0 THEN <<>> ELSE WithWord(g[n - 1], s[n])]
              E == {m \in 0..Len(s) : \E g : g = Def(g, m)}
  <1>1. Len(s) \in Nat
    OBVIOUS
  <1>2. 0 \in E
    <2>. DEFINE g == [n \in 0..0 |-> <<>>]
    <2>1. g = Def(g, 0)
      OBVIOUS
    <2>2. 0 \in 0..Len(s)
      BY <1>1
    <2>. HIDE DEF g, Def
    <2>. QED BY <2>1, <2>2
  <1>3. ASSUME NEW m \in 1..Len(s), m - 1 \in E PROVE m \in E
    <2>1. PICK g : g = Def(g, m - 1)
      BY <1>3
    <2>. DEFINE last == WithWord(g[m - 1], s[m])
                h == [n \in 0..m |-> IF n < m THEN g[n] ELSE last]
    <2>2. \A n \in 0..(m - 1) : h[n] = g[n]
      <3>. HIDE DEF last
      <3>. QED BY <1>1
    <2>3. h[m] = last
      <3>. HIDE DEF last
      <3>. QED BY <1>1
    <2>4. m - 1 \in 0..(m - 1) /\ m # 0
      BY <1>1
    <2>5. h[m] = WithWord(h[m - 1], s[m])
      <3>. HIDE DEF h
      <3>. QED BY <2>2, <2>3, <2>4
    <2>6. ASSUME NEW n \in 0..m PROVE h[n] = IF n = 0 THEN <<>> ELSE WithWord(h[n - 1], s[n])
      <3>1. CASE n = m
        <4>. HIDE DEF h
        <4>. QED BY <2>4, <2>5, <3>1
      <3>2. CASE n # m
        <4>1. n \in 0..(m - 1) /\ (n # 0 => n - 1 \in 0..(m - 1))
          BY <3>2
        <4>2. g[n] = IF n = 0 THEN <<>> ELSE WithWord(g[n - 1], s[n])
          BY <2>1, <4>1
        <4>. HIDE DEF h
        <4>3. CASE n = 0
          BY <2>2, <4>1, <4>2, <4>3
        <4>4. CASE n # 0
          <5>1. h[n] = g[n] /\ h[n - 1] = g[n - 1]
            BY <2>2, <4>1, <4>4
          <5>. QED BY <4>2, <4>4, <5>1
        <4>. QED BY <4>3, <4>4
      <3>. QED BY <3>1, <3>2
    <2>7. h = Def(h, m)
      <3>1. h = [n \in 0..m |-> h[n]]
        <4>. HIDE DEF last
        <4>. QED OBVIOUS
      <3>. HIDE DEF h
      <3>. QED BY <2>6, <3>1
    <2>8. m \in 0..Len(s)
      BY <1>1
    <2>. HIDE DEF h, Def
    <2>. QED BY <2>7, <2>8
  <1>4. Len(s) \in E
    <2>. HIDE DEF E
    <2>1. \A n \in 0..Len(s) : n \in E
      BY <1>1, <1>2, <1>3, UptoInduction, Zenon
    <2>. QED BY <1>1, <2>1
  <1>5. Joins(s) = CHOOSE g : g = Def(g, Len(s))
    BY DEF Joins
  <1>6. Joins(s) = Def(Joins(s), Len(s))
    <2>1. \E g : g = Def(g, Len(s))
      BY <1>4
    <2>. HIDE DEF Def
    <2>. QED BY <1>5, <2>1
  <1>7. \A n \in 0..Len(s) : Joins(s)[n] = Def(Joins(s), Len(s))[n]
    <2>. HIDE DEF Def
    <2>. QED BY <1>6
  <1>8. 0 \in 0..Len(s) /\ \A n \in 1..Len(s) : n \in 0..Len(s) /\ n # 0
    BY <1>1
  <1>9. Joins(s)[0] = <<>>
    BY <1>7, <1>8
  <1>10. ASSUME NEW n \in 1..Len(s) PROVE Joins(s)[n] = WithWord(Joins(s)[n - 1], s[n])
    <2>1. Joins(s)[n] = IF n = 0 THEN <<>> ELSE WithWord(Joins(s)[n - 1], s[n])
      BY <1>7, <1>8
    <2>. QED BY <1>8, <2>1, Zenon
  <1>. QED BY <1>9, <1>10

(* One word more.                                                          *)
LEMMA JoinsNext ==
    ASSUME NEW S, NEW s \in Seq(S), NEW c \in S, NEW t, t = Append(s, c)
    PROVE  Joins(t)[Len(t)] = WithWord(Joins(s)[Len(s)], c)
  <1>. DEFINE E == {n \in 0..Len(s) : Joins(t)[n] = Joins(s)[n]}
  <1>1. /\ t \in Seq(S) /\ Len(s) \in Nat /\ Len(t) = Len(s) + 1 /\ t[Len(t)] = c
        /\ \A n \in 1..Len(s) : t[n] = s[n]
    OBVIOUS
  <1>2. 0 \in E
    <2>1. Joins(t)[0] = <<>>
      BY <1>1, JoinsDef, Zenon
    <2>2. Joins(s)[0] = <<>>
      BY JoinsDef, Zenon
    <2>. QED BY <1>1, <2>1, <2>2
  <1>3. ASSUME NEW n \in 1..Len(s), n - 1 \in E PROVE n \in E
    <2>1. n \in 1..Len(t) /\ n \in 0..Len(s) /\ t[n] = s[n]
      BY <1>1
    <2>2. Joins(t)[n] = WithWord(Joins(t)[n - 1], t[n])
      BY <1>1, <2>1, JoinsDef, Zenon
    <2>3. Joins(s)[n] = WithWord(Joins(s)[n - 1], s[n])
      BY JoinsDef, Zenon
    <2>4. Joins(t)[n - 1] = Joins(s)[n - 1]
      BY <1>3
    <2>5. Joins(t)[n] = Joins(s)[n]
      BY <2>1, <2>2, <2>3, <2>4, Zenon
    <2>. QED BY <2>1, <2>5
  <1>4. \A n \in 0..Len(s) : n \in E
    <2>. HIDE DEF E
    <2>. QED BY <1>1, <1>2, <1>3, UptoInduction, Zenon
  <1>5. Joins(t)[Len(s)] = Joins(s)[Len(s)]
    BY <1>1, <1>4
  <1>6. Len(t) \in 1..Len(t) /\ Len(t) - 1 = Len(s)
    BY <1>1
  <1>7. Joins(t)[Len(t)] = WithWord(Joins(t)[Len(t) - 1], t[Len(t)])
    BY <1>1, <1>6, JoinsDef, Zenon
  <1>. QED BY <1>1, <1>5, <1>6, <1>7

(* What sourceCommandFile has after each character.                        *)
LEMMA SourcesDef ==
    ASSUME NEW S, NEW s \in Seq(S)
    PROVE  /\ Sources(s)[0] = NoLine
           /\ \A n \in 1..Len(s) : Sources(s)[n] = Gets(Sources(s)[n - 1], s[n])
  <1>. DEFINE Def(g, m) == [n \in 0..m |-> IF n = 0 THEN NoLine ELSE Gets(g[n - 1], s[n])]
              E == {m \in 0..Len(s) : \E g : g = Def(g, m)}
  <1>1. Len(s) \in Nat
    OBVIOUS
  <1>2. 0 \in E
    <2>. DEFINE g == [n \in 0..0 |-> NoLine]
    <2>1. g = Def(g, 0)
      OBVIOUS
    <2>2. 0 \in 0..Len(s)
      BY <1>1
    <2>. HIDE DEF g, Def
    <2>. QED BY <2>1, <2>2
  <1>3. ASSUME NEW m \in 1..Len(s), m - 1 \in E PROVE m \in E
    <2>1. PICK g : g = Def(g, m - 1)
      BY <1>3
    <2>. DEFINE last == Gets(g[m - 1], s[m])
                h == [n \in 0..m |-> IF n < m THEN g[n] ELSE last]
    <2>2. \A n \in 0..(m - 1) : h[n] = g[n]
      <3>. HIDE DEF last
      <3>. QED BY <1>1
    <2>3. h[m] = last
      <3>. HIDE DEF last
      <3>. QED BY <1>1
    <2>4. m - 1 \in 0..(m - 1) /\ m # 0
      BY <1>1
    <2>5. h[m] = Gets(h[m - 1], s[m])
      <3>. HIDE DEF h
      <3>. QED BY <2>2, <2>3, <2>4
    <2>6. ASSUME NEW n \in 0..m PROVE h[n] = IF n = 0 THEN NoLine ELSE Gets(h[n - 1], s[n])
      <3>1. CASE n = m
        <4>. HIDE DEF h
        <4>. QED BY <2>4, <2>5, <3>1
      <3>2. CASE n # m
        <4>1. n \in 0..(m - 1) /\ (n # 0 => n - 1 \in 0..(m - 1))
          BY <3>2
        <4>2. g[n] = IF n = 0 THEN NoLine ELSE Gets(g[n - 1], s[n])
          BY <2>1, <4>1
        <4>. HIDE DEF h
        <4>3. CASE n = 0
          BY <2>2, <4>1, <4>2, <4>3
        <4>4. CASE n # 0
          <5>1. h[n] = g[n] /\ h[n - 1] = g[n - 1]
            BY <2>2, <4>1, <4>4
          <5>. QED BY <4>2, <4>4, <5>1
        <4>. QED BY <4>3, <4>4
      <3>. QED BY <3>1, <3>2
    <2>7. h = Def(h, m)
      <3>1. h = [n \in 0..m |-> h[n]]
        <4>. HIDE DEF last
        <4>. QED OBVIOUS
      <3>. HIDE DEF h
      <3>. QED BY <2>6, <3>1
    <2>8. m \in 0..Len(s)
      BY <1>1
    <2>. HIDE DEF h, Def
    <2>. QED BY <2>7, <2>8
  <1>4. Len(s) \in E
    <2>. HIDE DEF E
    <2>1. \A n \in 0..Len(s) : n \in E
      BY <1>1, <1>2, <1>3, UptoInduction, Zenon
    <2>. QED BY <1>1, <2>1
  <1>5. Sources(s) = CHOOSE g : g = Def(g, Len(s))
    BY DEF Sources
  <1>6. Sources(s) = Def(Sources(s), Len(s))
    <2>1. \E g : g = Def(g, Len(s))
      BY <1>4
    <2>. HIDE DEF Def
    <2>. QED BY <1>5, <2>1
  <1>7. \A n \in 0..Len(s) : Sources(s)[n] = Def(Sources(s), Len(s))[n]
    <2>. HIDE DEF Def
    <2>. QED BY <1>6
  <1>8. 0 \in 0..Len(s) /\ \A n \in 1..Len(s) : n \in 0..Len(s) /\ n # 0
    BY <1>1
  <1>9. Sources(s)[0] = NoLine
    BY <1>7, <1>8
  <1>10. ASSUME NEW n \in 1..Len(s) PROVE Sources(s)[n] = Gets(Sources(s)[n - 1], s[n])
    <2>1. Sources(s)[n] = IF n = 0 THEN NoLine ELSE Gets(Sources(s)[n - 1], s[n])
      BY <1>7, <1>8
    <2>. QED BY <1>8, <2>1, Zenon
  <1>. QED BY <1>9, <1>10

(* One character more.                                                     *)
LEMMA SourcesNext ==
    ASSUME NEW S, NEW s \in Seq(S), NEW c \in S, NEW t, t = Append(s, c)
    PROVE  Sources(t)[Len(t)] = Gets(Sources(s)[Len(s)], c)
  <1>. DEFINE E == {n \in 0..Len(s) : Sources(t)[n] = Sources(s)[n]}
  <1>1. /\ t \in Seq(S) /\ Len(s) \in Nat /\ Len(t) = Len(s) + 1 /\ t[Len(t)] = c
        /\ \A n \in 1..Len(s) : t[n] = s[n]
    OBVIOUS
  <1>2. 0 \in E
    <2>1. Sources(t)[0] = NoLine
      BY <1>1, SourcesDef, Zenon
    <2>2. Sources(s)[0] = NoLine
      BY SourcesDef, Zenon
    <2>. QED BY <1>1, <2>1, <2>2
  <1>3. ASSUME NEW n \in 1..Len(s), n - 1 \in E PROVE n \in E
    <2>1. n \in 1..Len(t) /\ n \in 0..Len(s) /\ t[n] = s[n]
      BY <1>1
    <2>2. Sources(t)[n] = Gets(Sources(t)[n - 1], t[n])
      BY <1>1, <2>1, SourcesDef, Zenon
    <2>3. Sources(s)[n] = Gets(Sources(s)[n - 1], s[n])
      BY SourcesDef, Zenon
    <2>4. Sources(t)[n - 1] = Sources(s)[n - 1]
      BY <1>3
    <2>5. Sources(t)[n] = Sources(s)[n]
      BY <2>1, <2>2, <2>3, <2>4, Zenon
    <2>. QED BY <2>1, <2>5
  <1>4. \A n \in 0..Len(s) : n \in E
    <2>. HIDE DEF E
    <2>. QED BY <1>1, <1>2, <1>3, UptoInduction, Zenon
  <1>5. Sources(t)[Len(s)] = Sources(s)[Len(s)]
    BY <1>1, <1>4
  <1>6. Len(t) \in 1..Len(t) /\ Len(t) - 1 = Len(s)
    BY <1>1
  <1>7. Sources(t)[Len(t)] = Gets(Sources(t)[Len(t) - 1], t[Len(t)])
    BY <1>1, <1>6, SourcesDef, Zenon
  <1>. QED BY <1>1, <1>5, <1>6, <1>7

(* What is a comment remains one.                                          *)
LEMMA InCommentStays ==
    ASSUME NEW S, NEW s \in Seq(S), NEW c \in S, NEW t, t = Append(s, c), NEW i \in 1..Len(s)
    PROVE  InComment(t, i) <=> InComment(s, i)
  <1>1. Len(s) \in Nat /\ \A k \in 1..Len(s) : t[k] = s[k]
    OBVIOUS
  <1>2. \A j \in 1..i : t[j] = s[j] /\ \A k \in j..i : t[k] = s[k]
    BY <1>1
  <1>3. \A j \in 1..i : \A b \in 1..j : /\ b # 1 => t[b - 1] = s[b - 1]
                                        /\ \A k \in b..(j - 1) : t[k] = s[k]
    BY <1>1
  <1>4. \A j \in 1..i : (\A k \in j..i : t[k] # NL) <=> (\A k \in j..i : s[k] # NL)
    BY <1>2
  <1>5. \A j \in 1..i : \A b \in 1..j :
            (\A k \in b..(j - 1) : t[k] = Blank) <=> (\A k \in b..(j - 1) : s[k] = Blank)
    BY <1>3
  <1>6. \A j \in 1..i : \A b \in 1..j : (b = 1 \/ t[b - 1] = NL) <=> (b = 1 \/ s[b - 1] = NL)
    BY <1>3
  <1>7. ASSUME NEW j \in 1..i
        PROVE  (\E b \in 1..j : /\ b = 1 \/ t[b - 1] = NL
                                /\ \A k \in b..(j - 1) : t[k] = Blank)
               <=> (\E b \in 1..j : /\ b = 1 \/ s[b - 1] = NL
                                    /\ \A k \in b..(j - 1) : s[k] = Blank)
    BY <1>5, <1>6
  <1>. QED BY <1>2, <1>4, <1>7, Zenon DEF InComment

(* What a character of a file is in the one line, after what is there.     *)
Piece(s, n, one) ==
    IF s[n] = NL THEN Closed(End(one)) ELSE IF InComment(s, n) THEN <<Blank>> ELSE <<s[n]>>

(* The one line, prefix by prefix.                                         *)
LEMMA OneLineDef ==
    ASSUME NEW S, NEW s \in Seq(S)
    PROVE  /\ OneLine(s)[0] = <<>>
           /\ \A n \in 1..Len(s) : OneLine(s)[n] = OneLine(s)[n - 1] \o Piece(s, n, OneLine(s)[n - 1])
  <1>. DEFINE Def(g, m) == [n \in 0..m |-> IF n = 0 THEN <<>> ELSE g[n - 1] \o Piece(s, n, g[n - 1])]
              E == {m \in 0..Len(s) : \E g : g = Def(g, m)}
  <1>1. Len(s) \in Nat
    OBVIOUS
  <1>2. 0 \in E
    <2>. DEFINE g == [n \in 0..0 |-> <<>>]
    <2>1. g = Def(g, 0)
      OBVIOUS
    <2>2. 0 \in 0..Len(s)
      BY <1>1
    <2>. HIDE DEF g, Def
    <2>. QED BY <2>1, <2>2
  <1>3. ASSUME NEW m \in 1..Len(s), m - 1 \in E PROVE m \in E
    <2>1. PICK g : g = Def(g, m - 1)
      BY <1>3
    <2>. DEFINE last == g[m - 1] \o Piece(s, m, g[m - 1])
                h == [n \in 0..m |-> IF n < m THEN g[n] ELSE last]
    <2>2. \A n \in 0..(m - 1) : h[n] = g[n]
      <3>. HIDE DEF last
      <3>. QED BY <1>1
    <2>3. h[m] = last
      <3>. HIDE DEF last
      <3>. QED BY <1>1
    <2>4. m - 1 \in 0..(m - 1) /\ m # 0
      BY <1>1
    <2>5. h[m] = h[m - 1] \o Piece(s, m, h[m - 1])
      <3>. HIDE DEF h
      <3>. QED BY <2>2, <2>3, <2>4
    <2>6. ASSUME NEW n \in 0..m PROVE h[n] = IF n = 0 THEN <<>> ELSE h[n - 1] \o Piece(s, n, h[n - 1])
      <3>1. CASE n = m
        <4>. HIDE DEF h
        <4>. QED BY <2>4, <2>5, <3>1
      <3>2. CASE n # m
        <4>1. n \in 0..(m - 1) /\ (n # 0 => n - 1 \in 0..(m - 1))
          BY <3>2
        <4>2. g[n] = IF n = 0 THEN <<>> ELSE g[n - 1] \o Piece(s, n, g[n - 1])
          BY <2>1, <4>1
        <4>. HIDE DEF h
        <4>3. CASE n = 0
          BY <2>2, <4>1, <4>2, <4>3
        <4>4. CASE n # 0
          <5>1. h[n] = g[n] /\ h[n - 1] = g[n - 1]
            BY <2>2, <4>1, <4>4
          <5>. QED BY <4>2, <4>4, <5>1
        <4>. QED BY <4>3, <4>4
      <3>. QED BY <3>1, <3>2
    <2>7. h = Def(h, m)
      <3>1. h = [n \in 0..m |-> h[n]]
        <4>. HIDE DEF last
        <4>. QED OBVIOUS
      <3>. HIDE DEF h
      <3>. QED BY <2>6, <3>1
    <2>8. m \in 0..Len(s)
      BY <1>1
    <2>. HIDE DEF h, Def
    <2>. QED BY <2>7, <2>8
  <1>4. Len(s) \in E
    <2>. HIDE DEF E
    <2>1. \A n \in 0..Len(s) : n \in E
      BY <1>1, <1>2, <1>3, UptoInduction, Zenon
    <2>. QED BY <1>1, <2>1
  <1>5. OneLine(s) = CHOOSE g : g = Def(g, Len(s))
    BY DEF OneLine, Piece
  <1>6. OneLine(s) = Def(OneLine(s), Len(s))
    <2>1. \E g : g = Def(g, Len(s))
      BY <1>4
    <2>. HIDE DEF Def
    <2>. QED BY <1>5, <2>1
  <1>7. \A n \in 0..Len(s) : OneLine(s)[n] = Def(OneLine(s), Len(s))[n]
    <2>. HIDE DEF Def
    <2>. QED BY <1>6
  <1>8. 0 \in 0..Len(s) /\ \A n \in 1..Len(s) : n \in 0..Len(s) /\ n # 0
    BY <1>1
  <1>9. OneLine(s)[0] = <<>>
    BY <1>7, <1>8
  <1>10. ASSUME NEW n \in 1..Len(s) PROVE OneLine(s)[n] = OneLine(s)[n - 1] \o Piece(s, n, OneLine(s)[n - 1])
    <2>1. OneLine(s)[n] = IF n = 0 THEN <<>> ELSE OneLine(s)[n - 1] \o Piece(s, n, OneLine(s)[n - 1])
      BY <1>7, <1>8
    <2>. QED BY <1>8, <2>1, Zenon
  <1>. QED BY <1>9, <1>10

(* One character more, and what was before it.                             *)
LEMMA OneLineNext ==
    ASSUME NEW S, NEW s \in Seq(S), NEW c \in S, NEW t, t = Append(s, c)
    PROVE  /\ \A n \in 0..Len(s) : OneLine(t)[n] = OneLine(s)[n]
           /\ OneLine(t)[Len(t)] = OneLine(s)[Len(s)] \o Piece(t, Len(t), OneLine(s)[Len(s)])
  <1>. DEFINE E == {n \in 0..Len(s) : OneLine(t)[n] = OneLine(s)[n]}
  <1>1. /\ t \in Seq(S) /\ Len(s) \in Nat /\ Len(t) = Len(s) + 1 /\ t[Len(t)] = c
        /\ \A n \in 1..Len(s) : t[n] = s[n]
    OBVIOUS
  <1>2. 0 \in E
    <2>1. OneLine(t)[0] = <<>>
      BY <1>1, OneLineDef, Zenon
    <2>2. OneLine(s)[0] = <<>>
      BY OneLineDef, Zenon
    <2>. QED BY <1>1, <2>1, <2>2
  <1>3. ASSUME NEW n \in 1..Len(s), n - 1 \in E PROVE n \in E
    <2>1. n \in 1..Len(t) /\ n \in 0..Len(s) /\ t[n] = s[n]
      BY <1>1
    <2>2. OneLine(t)[n] = OneLine(t)[n - 1] \o Piece(t, n, OneLine(t)[n - 1])
      BY <1>1, <2>1, OneLineDef, Zenon
    <2>3. OneLine(s)[n] = OneLine(s)[n - 1] \o Piece(s, n, OneLine(s)[n - 1])
      BY OneLineDef, Zenon
    <2>4. OneLine(t)[n - 1] = OneLine(s)[n - 1]
      BY <1>3
    <2>5. \A one : Piece(t, n, one) = Piece(s, n, one)
      <3>1. InComment(t, n) <=> InComment(s, n)
        BY InCommentStays
      <3>. QED BY <2>1, <3>1, Zenon DEF Piece
    <2>6. OneLine(t)[n] = OneLine(s)[n]
      BY <2>2, <2>3, <2>4, <2>5, Zenon
    <2>. QED BY <2>1, <2>6
  <1>4. \A n \in 0..Len(s) : n \in E
    <2>. HIDE DEF E
    <2>. QED BY <1>1, <1>2, <1>3, UptoInduction, Zenon
  <1>5. \A n \in 0..Len(s) : OneLine(t)[n] = OneLine(s)[n]
    BY <1>4
  <1>6. Len(t) \in 1..Len(t) /\ Len(t) - 1 = Len(s) /\ Len(s) \in 0..Len(s)
    BY <1>1
  <1>7. OneLine(t)[Len(t)] = OneLine(t)[Len(t) - 1] \o Piece(t, Len(t), OneLine(t)[Len(t) - 1])
    BY <1>1, <1>6, OneLineDef, Zenon
  <1>. QED BY <1>5, <1>6, <1>7, Zenon

(* Texts one after another.                                                *)
LEMMA FlattenDef ==
    ASSUME NEW S, NEW ss \in Seq(S), NEW F,
           F = CHOOSE f : f = [n \in 1..Len(ss) |-> IF n = 1 THEN ss[n] ELSE f[n - 1] \o ss[n]]
    PROVE  F = [n \in 1..Len(ss) |-> IF n = 1 THEN ss[n] ELSE F[n - 1] \o ss[n]]
  <1>. DEFINE Def(g, m) == [n \in 1..m |-> IF n = 1 THEN ss[n] ELSE g[n - 1] \o ss[n]]
              E == {m \in 0..Len(ss) : \E g : g = Def(g, m)}
  <1>1. Len(ss) \in Nat
    OBVIOUS
  <1>2. 0 \in E
    <2>. DEFINE g == <<>>
    <2>1. g = Def(g, 0)
      OBVIOUS
    <2>2. 0 \in 0..Len(ss)
      BY <1>1
    <2>. HIDE DEF g, Def
    <2>. QED BY <2>1, <2>2
  <1>3. ASSUME NEW m \in 1..Len(ss), m - 1 \in E PROVE m \in E
    <2>1. PICK g : g = Def(g, m - 1)
      BY <1>3
    <2>. DEFINE last == IF m = 1 THEN ss[m] ELSE g[m - 1] \o ss[m]
                h == [n \in 1..m |-> IF n < m THEN g[n] ELSE last]
    <2>2. \A n \in 1..(m - 1) : h[n] = g[n]
      <3>. HIDE DEF last
      <3>. QED BY <1>1
    <2>3. h[m] = last
      <3>. HIDE DEF last
      <3>. QED BY <1>1
    <2>4. h[m] = IF m = 1 THEN ss[m] ELSE h[m - 1] \o ss[m]
      <3>1. CASE m = 1
        <4>. HIDE DEF h
        <4>. QED BY <2>3, <3>1
      <3>2. CASE m # 1
        <4>1. m - 1 \in 1..(m - 1)
          BY <1>1, <3>2
        <4>. HIDE DEF h
        <4>. QED BY <2>2, <2>3, <3>2, <4>1
      <3>. QED BY <3>1, <3>2
    <2>5. ASSUME NEW n \in 1..m PROVE h[n] = IF n = 1 THEN ss[n] ELSE h[n - 1] \o ss[n]
      <3>1. CASE n = m
        <4>. HIDE DEF h
        <4>. QED BY <2>4, <3>1
      <3>2. CASE n # m
        <4>1. n \in 1..(m - 1) /\ (n # 1 => n - 1 \in 1..(m - 1))
          BY <3>2
        <4>2. g[n] = IF n = 1 THEN ss[n] ELSE g[n - 1] \o ss[n]
          BY <2>1, <4>1
        <4>. HIDE DEF h
        <4>3. CASE n = 1
          BY <2>2, <4>1, <4>2, <4>3
        <4>4. CASE n # 1
          <5>1. h[n] = g[n] /\ h[n - 1] = g[n - 1]
            BY <2>2, <4>1, <4>4
          <5>. QED BY <4>2, <4>4, <5>1
        <4>. QED BY <4>3, <4>4
      <3>. QED BY <3>1, <3>2
    <2>6. h = Def(h, m)
      <3>1. h = [n \in 1..m |-> h[n]]
        <4>. HIDE DEF last
        <4>. QED OBVIOUS
      <3>. HIDE DEF h
      <3>. QED BY <2>5, <3>1
    <2>7. m \in 0..Len(ss)
      BY <1>1
    <2>. HIDE DEF h, Def
    <2>. QED BY <2>6, <2>7
  <1>4. Len(ss) \in E
    <2>. HIDE DEF E
    <2>1. \A n \in 0..Len(ss) : n \in E
      BY <1>1, <1>2, <1>3, UptoInduction, Zenon
    <2>. QED BY <1>1, <2>1
  <1>5. \E g : g = Def(g, Len(ss))
    BY <1>4
  <1>6. F = CHOOSE g : g = Def(g, Len(ss))
    OBVIOUS
  <1>. HIDE DEF Def
  <1>7. F = Def(F, Len(ss))
    BY <1>5, <1>6
  <1>. QED BY <1>7 DEF Def

(* One text more.                                                          *)
LEMMA FlattenNext ==
    ASSUME NEW S, NEW ss \in Seq(Seq(S)), NEW x \in Seq(S)
    PROVE  FlattenSeq(Append(ss, x)) = FlattenSeq(ss) \o x
  <1>. DEFINE F(r) == CHOOSE f : f = [n \in 1..Len(r) |-> IF n = 1 THEN r[n] ELSE f[n - 1] \o r[n]]
  <1>1. \A r : FlattenSeq(r) = IF Len(r) = 0 THEN r ELSE F(r)[Len(r)]
    BY DEF FlattenSeq
  <1>2. ASSUME NEW r \in Seq(Seq(S))
        PROVE  F(r) = [n \in 1..Len(r) |-> IF n = 1 THEN r[n] ELSE F(r)[n - 1] \o r[n]]
    <2>1. PICK f : f = F(r)
      OBVIOUS
    <2>2. f = [n \in 1..Len(r) |-> IF n = 1 THEN r[n] ELSE f[n - 1] \o r[n]]
      BY <2>1, FlattenDef
    <2>. QED BY <2>1, <2>2
  <1>. HIDE DEF F
  <1>3. PICK t \in Seq(Seq(S)) : t = Append(ss, x)
    <2>1. Append(ss, x) \in Seq(Seq(S))
      OBVIOUS
    <2>. QED BY <2>1, Zenon
  <1>4. /\ Len(t) = Len(ss) + 1 /\ Len(ss) \in Nat /\ t[Len(t)] = x
        /\ \A n \in 1..Len(ss) : t[n] = ss[n]
    BY <1>3
  <1>5. \A n \in 1..Len(ss) : F(ss)[n] = IF n = 1 THEN ss[n] ELSE F(ss)[n - 1] \o ss[n]
    BY <1>2
  <1>6. \A n \in 1..Len(t) : F(t)[n] = IF n = 1 THEN t[n] ELSE F(t)[n - 1] \o t[n]
    BY <1>2
  <1>7. CASE Len(ss) = 0
    <2>1. ss = <<>>
      BY <1>7, EmptySeq
    <2>2. FlattenSeq(ss) = <<>>
      BY <1>1, <1>7, <2>1, Zenon
    <2>3. FlattenSeq(t) = x
      <3>1. Len(t) = 1
        BY <1>4, <1>7
      <3>2. F(t)[1] = t[1]
        BY <1>6, <3>1
      <3>3. FlattenSeq(t) = IF Len(t) = 0 THEN t ELSE F(t)[Len(t)]
        BY <1>1, Zenon
      <3>4. FlattenSeq(t) = F(t)[1]
        BY <3>1, <3>3
      <3>5. t[1] = x
        BY <1>4, <3>1
      <3>. QED BY <3>2, <3>4, <3>5
    <2>4. <<>> \o x = x
      OBVIOUS
    <2>. QED BY <1>3, <2>2, <2>3, <2>4, Zenon
  <1>8. CASE Len(ss) # 0
    <2>. DEFINE E == {n \in 0..Len(ss) : n # 0 => F(t)[n] = F(ss)[n]}
    <2>1. 0 \in E
      BY <1>4
    <2>2. ASSUME NEW n \in 1..Len(ss), n - 1 \in E PROVE n \in E
      <3>1. n \in 1..Len(t) /\ n \in 0..Len(ss) /\ t[n] = ss[n]
        BY <1>4
      <3>2. F(t)[n] = IF n = 1 THEN t[n] ELSE F(t)[n - 1] \o t[n]
        BY <1>6, <3>1
      <3>3. F(ss)[n] = IF n = 1 THEN ss[n] ELSE F(ss)[n - 1] \o ss[n]
        BY <1>5
      <3>4. n # 1 => F(t)[n - 1] = F(ss)[n - 1]
        BY <2>2
      <3>5. F(t)[n] = F(ss)[n]
        BY <3>1, <3>2, <3>3, <3>4, Zenon
      <3>. QED BY <3>1, <3>5
    <2>3. \A n \in 0..Len(ss) : n \in E
      <3>. HIDE DEF E
      <3>. QED BY <1>4, <2>1, <2>2, UptoInduction, Zenon
    <2>4. F(t)[Len(ss)] = F(ss)[Len(ss)]
      BY <1>4, <1>8, <2>3
    <2>5. F(t)[Len(t)] = F(t)[Len(ss)] \o x
      <3>1. Len(t) \in 1..Len(t) /\ Len(t) # 1 /\ Len(t) - 1 = Len(ss)
        BY <1>4, <1>8
      <3>2. F(t)[Len(t)] = IF Len(t) = 1 THEN t[Len(t)] ELSE F(t)[Len(t) - 1] \o t[Len(t)]
        BY <1>6, <3>1
      <3>. QED BY <1>4, <3>1, <3>2, Zenon
    <2>6. Len(t) # 0
      BY <1>4
    <2>7. FlattenSeq(t) = F(t)[Len(t)] /\ FlattenSeq(ss) = F(ss)[Len(ss)]
      BY <1>1, <1>8, <2>6, Zenon
    <2>. QED BY <1>3, <2>4, <2>5, <2>7, Zenon
  <1>. QED BY <1>7, <1>8

-----------------------------------------------------------------------------
(* Texts.                                                                  *)

(* Induction over sequences, with a set for the property.                  *)
LEMMA SeqInduction ==
    ASSUME NEW S, NEW T, <<>> \in T,
           \A s \in Seq(S) : \A c \in S : s \in T => Append(s, c) \in T
    PROVE  \A s \in Seq(S) : s \in T
  <1>. SUFFICES ASSUME NEW s \in Seq(S) PROVE s \in T
    OBVIOUS
  <1>. DEFINE E == {n \in 0..Len(s) : \A t \in Seq(S) : Len(t) = n => t \in T}
  <1>1. Len(s) \in Nat
    OBVIOUS
  <1>2. 0 \in E
    <2>1. \A t \in Seq(S) : Len(t) = 0 => t = <<>>
      BY EmptySeq
    <2>. QED BY <1>1, <2>1
  <1>3. ASSUME NEW n \in 1..Len(s), n - 1 \in E PROVE n \in E
    <2>1. ASSUME NEW t \in Seq(S), Len(t) = n PROVE t \in T
      <3>. DEFINE u == SubSeq(t, 1, n - 1)
      <3>1. u \in Seq(S) /\ Len(u) = n - 1 /\ t[n] \in S /\ t = Append(u, t[n])
        BY <1>1, <2>1
      <3>2. u \in T
        BY <1>3, <3>1
      <3>. HIDE DEF u
      <3>. QED BY <3>1, <3>2
    <2>2. n \in 0..Len(s)
      BY <1>1
    <2>. QED BY <2>1, <2>2
  <1>4. \A n \in 0..Len(s) : n \in E
    <2>. HIDE DEF E
    <2>. QED BY <1>1, <1>2, <1>3, UptoInduction, Zenon
  <1>. QED BY <1>1, <1>4

(* The empty text.                                                         *)
LEMMA EmptyText ==
    /\ End(<<>>) = Between /\ Join(<<>>) = <<>> /\ FlattenSeq(<<>>) = <<>>
    /\ Sources(<<>>)[Len(<<>>)] = NoLine /\ OneLine(<<>>)[Len(<<>>)] = <<>>
  <1>1. <<>> \in Seq({}) /\ Len(<<>>) = 0
    OBVIOUS
  <1>2. Reads(<<>>)[0] = Between
    BY <1>1, ReadsDef, Zenon
  <1>3. Joins(<<>>)[0] = <<>>
    BY <1>1, JoinsDef, Zenon
  <1>4. FlattenSeq(<<>>) = <<>>
    BY <1>1, Zenon DEF FlattenSeq
  <1>5. Sources(<<>>)[0] = NoLine
    BY <1>1, SourcesDef, Zenon
  <1>6. OneLine(<<>>)[0] = <<>>
    BY <1>1, OneLineDef, Zenon
  <1>. QED BY <1>1, <1>2, <1>3, <1>4, <1>5, <1>6 DEF End, Join

(* A text and one more character, read.                                    *)
LEMMA EndNext ==
    ASSUME NEW S, NEW s \in Seq(S), NEW c \in S
    PROVE  End(Append(s, c)) = Character(End(s), c)
  BY ReadsNext, Zenon DEF End

(* Words and one more word, joined.                                        *)
LEMMA JoinNext ==
    ASSUME NEW S, NEW s \in Seq(S), NEW w \in S
    PROVE  Join(Append(s, w)) = WithWord(Join(s), w)
  BY JoinsNext, Zenon DEF Join

(* The characters that are typed in a line, and those of words.            *)
Chars  == {"a", "n", Blank, Semicolon, Hash, Backslash, DoubleQuote, SingleQuote}
Glyphs == Chars \cup {Control[c] : c \in DOMAIN Control}

(* They are plain, special, or a blank.                                    *)
LEMMA TypedCharacters ==
    /\ Blank \in Chars /\ Semicolon \in Chars /\ Hash \in Chars /\ Backslash \in Chars
    /\ \A q \in Quotes : q \in Chars
    /\ \A c \in Chars : c = Blank \/ c \notin White
    /\ \A c \in Chars : c = Blank \/ c = Semicolon \/ c = Backslash \/ c \in Quotes \/ Plain(c)
    /\ \A c \in Chars : c # NL
  <1>1. \A c \in {"a", "n", Blank, Semicolon, Hash, Backslash, DoubleQuote, SingleQuote} : c # NL
    BY DEF Blank, Semicolon, Hash, Backslash, DoubleQuote, SingleQuote, NL
  <1>2. \A c \in Chars : c \in {"a", "n", "k", Hash} \/ c = Blank \/ c = Semicolon
                          \/ c = Backslash \/ c \in Quotes
    BY CharacterKinds DEF Chars
  <1>. QED BY <1>1, <1>2, CharacterKinds, PlainLetters DEF Chars

-----------------------------------------------------------------------------
(* What the parser can be in.                                              *)

Modes     == {"between", "escape", "word", "wordEscape", "string", "stringEscape"}
InStrings == {"string", "stringEscape"}
Done      == Seq(Seq(Seq(Glyphs)))
States    == [mode : Modes, quote : Quotes \cup {"none"}, word : Seq(Glyphs),
              args : Seq(Seq(Glyphs)), commands : Done]
State(x)  ==
    /\ x \in States
    /\ x.mode \in InStrings => x.quote \in Quotes
    /\ x.mode \notin InStrings => x.quote = "none"
    /\ x.mode \in {"between", "escape"} => x.word = <<>>

(* Its parts.                                                              *)
LEMMA StateParts ==
    ASSUME NEW x \in States
    PROVE  /\ x.mode \in Modes /\ x.quote \in Quotes \cup {"none"} /\ x.word \in Seq(Glyphs)
           /\ x.args \in Seq(Seq(Glyphs)) /\ x.commands \in Done
  BY DEF States

(* They are all of it.                                                     *)
LEMMA SameState ==
    ASSUME NEW x \in States, NEW y \in States,
           x.mode = y.mode, x.quote = y.quote, x.word = y.word, x.args = y.args,
           x.commands = y.commands
    PROVE  x = y
  BY DEF States

(* From them it is made.                                                   *)
LEMMA MakeState ==
    ASSUME NEW m \in Modes, NEW q \in Quotes \cup {"none"}, NEW w \in Seq(Glyphs),
           NEW a \in Seq(Seq(Glyphs)), NEW cs \in Done
    PROVE  At(m, q, w, a, cs) \in States
  BY DEF At, States

(* What the helpers of the parser make of a state.                         *)
LEMMA InState ==
    ASSUME NEW x \in States, NEW m \in Modes
    PROVE  /\ In(x, m) \in States /\ In(x, m).mode = m /\ In(x, m).quote = x.quote
           /\ In(x, m).word = x.word /\ In(x, m).args = x.args /\ In(x, m).commands = x.commands
  BY DEF In, States

(* Opening a quote.                                                        *)
LEMMA OpenedState ==
    ASSUME NEW x \in States, NEW q \in Quotes
    PROVE  /\ Opened(x, q) \in States /\ Opened(x, q).mode = x.mode /\ Opened(x, q).quote = q
           /\ Opened(x, q).word = x.word /\ Opened(x, q).args = x.args
           /\ Opened(x, q).commands = x.commands
  BY DEF Opened, States

(* A longer word.                                                          *)
LEMMA MoreState ==
    ASSUME NEW x \in States, NEW y \in Seq(Glyphs)
    PROVE  /\ More(x, y) \in States /\ More(x, y).mode = x.mode /\ More(x, y).quote = x.quote
           /\ More(x, y).word = x.word \o y /\ More(x, y).args = x.args
           /\ More(x, y).commands = x.commands
  <1>1. PICK z \in Seq(Glyphs) : z = x.word \o y
    <2>1. x.word \in Seq(Glyphs)
      BY StateParts
    <2>2. \A w \in Seq(Glyphs) : w \o y \in Seq(Glyphs)
      OBVIOUS
    <2>. QED BY <2>1, <2>2, Zenon
  <1>2. More(x, y) = [x EXCEPT !.word = z]
    BY <1>1, Zenon DEF More
  <1>3. PICK u : u = [x EXCEPT !.word = z]
    OBVIOUS
  <1>4. /\ u \in States /\ u.mode = x.mode /\ u.quote = x.quote /\ u.word = z
        /\ u.args = x.args /\ u.commands = x.commands
    BY <1>3 DEF States
  <1>. QED BY <1>1, <1>2, <1>3, <1>4

(* A complete word.                                                        *)
LEMMA WordDoneState ==
    ASSUME NEW x \in States
    PROVE  /\ WordDone(x) \in States /\ WordDone(x).mode = "between" /\ WordDone(x).quote = "none"
           /\ WordDone(x).word = <<>> /\ WordDone(x).args = Append(x.args, x.word)
           /\ WordDone(x).commands = x.commands
  <1>1. PICK b \in Seq(Seq(Glyphs)) : b = Append(x.args, x.word)
    <2>1. \A a \in Seq(Seq(Glyphs)), w \in Seq(Glyphs) : Append(a, w) \in Seq(Seq(Glyphs))
      OBVIOUS
    <2>. QED BY <2>1, StateParts, Zenon
  <1>2. WordDone(x) = At("between", "none", <<>>, b, x.commands)
    BY <1>1, Zenon DEF WordDone, At
  <1>3. <<>> \in Seq(Glyphs) /\ "between" \in Modes
    BY DEF Modes
  <1>4. At("between", "none", <<>>, b, x.commands) \in States
    BY <1>3, StateParts, MakeState
  <1>5. PICK z : z = At("between", "none", <<>>, b, x.commands)
    OBVIOUS
  <1>6. /\ z.mode = "between" /\ z.quote = "none" /\ z.word = <<>> /\ z.args = b
        /\ z.commands = x.commands
    BY <1>5, PartsAt
  <1>. QED BY <1>1, <1>2, <1>4, <1>5, <1>6

(* A complete command.                                                     *)
LEMMA CommandDoneState ==
    ASSUME NEW x \in States
    PROVE  /\ CommandDone(x) \in States /\ CommandDone(x).mode = x.mode
           /\ CommandDone(x).quote = x.quote /\ CommandDone(x).word = x.word
           /\ CommandDone(x).args = <<>>
           /\ x.args = <<>> => CommandDone(x).commands = x.commands
           /\ x.args # <<>> => CommandDone(x).commands = Append(x.commands, x.args)
  <1>1. CASE x.args = <<>>
    BY <1>1 DEF CommandDone
  <1>2. CASE x.args # <<>>
    <2>1. PICK ds \in Done : ds = Append(x.commands, x.args)
      <3>1. \A cs \in Seq(Seq(Seq(Glyphs))), a \in Seq(Seq(Glyphs)) : Append(cs, a) \in Seq(Seq(Seq(Glyphs)))
        OBVIOUS
      <3>. QED BY <3>1, StateParts, Zenon DEF Done
    <2>2. CommandDone(x) = At(x.mode, x.quote, x.word, <<>>, ds)
      BY <1>2, <2>1, Zenon DEF CommandDone, At
    <2>3. <<>> \in Seq(Seq(Glyphs))
      OBVIOUS
    <2>4. At(x.mode, x.quote, x.word, <<>>, ds) \in States
      BY <2>3, StateParts, MakeState
    <2>5. PICK z : z = At(x.mode, x.quote, x.word, <<>>, ds)
      OBVIOUS
    <2>6. /\ z.mode = x.mode /\ z.quote = x.quote /\ z.word = x.word /\ z.args = <<>>
          /\ z.commands = ds
      BY <2>5, PartsAt
    <2>. QED BY <1>2, <2>1, <2>2, <2>4, <2>5, <2>6
  <1>. QED BY <1>1, <1>2

(* A character is one of words, and so is what it is escaped.              *)
LEMMA CharacterGlyphs ==
    ASSUME NEW c \in Chars
    PROVE  <<c>> \in Seq(Glyphs) /\ EscapeOf(c) \in Seq(Glyphs)
  <1>1. c \in Glyphs /\ Backslash \in Glyphs
    BY TypedCharacters DEF Glyphs
  <1>2. <<c>> \in Seq(Glyphs) /\ <<Backslash, c>> \in Seq(Glyphs)
    BY <1>1
  <1>3. CASE c \in DOMAIN Control
    <2>1. EscapeOf(c) = <<Control[c]>>
      <3>1. c \notin Quotes \cup {Backslash}
        <4>1. DOMAIN Control = {"t", "r", "n", "f", "v", "b", "0"}
          BY DEF Control
        <4>2. \A q \in {DoubleQuote, SingleQuote} : q \notin {"t", "r", "n", "f", "v", "b", "0"}
          BY DEF DoubleQuote, SingleQuote
        <4>. QED BY <1>3, <4>1, <4>2, BackslashIsNoControl, CharacterKinds
      <3>. QED BY <1>3, <3>1 DEF EscapeOf
    <2>2. Control[c] \in Glyphs
      BY <1>3 DEF Glyphs
    <2>. QED BY <1>2, <2>1, <2>2
  <1>4. CASE c \notin DOMAIN Control /\ c \in Quotes \cup {Backslash}
    <2>1. EscapeOf(c) = <<c>>
      BY <1>4 DEF EscapeOf
    <2>. QED BY <1>2, <2>1
  <1>5. CASE c \notin DOMAIN Control /\ c \notin Quotes \cup {Backslash}
    <2>1. EscapeOf(c) = <<Backslash, c>>
      BY <1>5 DEF EscapeOf
    <2>. QED BY <1>2, <2>1
  <1>. QED BY <1>3, <1>4, <1>5

(* The character that is read, mode by mode.                               *)
LEMMA CharacterModes ==
    ASSUME NEW x, NEW c
    PROVE  /\ x.mode = "between"      => Character(x, c) = Starts(x, c)
           /\ x.mode = "escape"       => Character(x, c) = StartsEscaped(x, c)
           /\ x.mode = "word"         => Character(x, c) = Continues(x, c)
           /\ x.mode = "wordEscape"   => Character(x, c) = ContinuesEscaped(x, c)
           /\ x.mode = "string"       => Character(x, c) = InString(x, c)
           /\ x.mode = "stringEscape" => Character(x, c) = InStringEscaped(x, c)
  <1>1. ASSUME x.mode = "between" PROVE Character(x, c) = Starts(x, c)
    BY <1>1 DEF Character
  <1>2. ASSUME x.mode = "escape" PROVE Character(x, c) = StartsEscaped(x, c)
    BY <1>2 DEF Character
  <1>3. ASSUME x.mode = "word" PROVE Character(x, c) = Continues(x, c)
    BY <1>3 DEF Character
  <1>4. ASSUME x.mode = "wordEscape" PROVE Character(x, c) = ContinuesEscaped(x, c)
    BY <1>4 DEF Character
  <1>5. ASSUME x.mode = "string" PROVE Character(x, c) = InString(x, c)
    BY <1>5 DEF Character
  <1>6. ASSUME x.mode = "stringEscape" PROVE Character(x, c) = InStringEscaped(x, c)
    BY <1>6 DEF Character
  <1>. QED BY <1>1, <1>2, <1>3, <1>4, <1>5, <1>6, Zenon

(* Where the text begins.                                                  *)
LEMMA BetweenIsState == Between = At("between", "none", <<>>, <<>>, <<>>) /\ State(Between)
  <1>1. Between = At("between", "none", <<>>, <<>>, <<>>)
    BY DEF Between, At
  <1>2. <<>> \in Seq(Glyphs) /\ <<>> \in Seq(Seq(Glyphs)) /\ <<>> \in Done
    BY DEF Done
  <1>3. At("between", "none", <<>>, <<>>, <<>>) \in States
    BY <1>2, MakeState DEF Modes
  <1>. QED BY <1>1, <1>3, PartsAt DEF State, InStrings

(* Every character leads from a state to a state.                          *)
LEMMA StateNext ==
    ASSUME NEW x, State(x), NEW c \in Chars
    PROVE  State(Character(x, c))
  <1>1. /\ x \in States
        /\ x.mode \in InStrings => x.quote \in Quotes
        /\ x.mode \notin InStrings => x.quote = "none"
        /\ x.mode \in {"between", "escape"} => x.word = <<>>
    BY DEF State
  <1>2. PICK one \in Seq(Glyphs) : one = <<c>>
    BY CharacterGlyphs
  <1>3. PICK esc \in Seq(Glyphs) : esc = EscapeOf(c)
    BY CharacterGlyphs
  <1>4. ASSUME NEW y \in States, y.mode \in {"word", "wordEscape"}, y.quote = "none"
        PROVE  State(y)
    BY <1>4 DEF State, InStrings
  <1>5. ASSUME NEW y \in States, y.mode \in InStrings, y.quote \in Quotes
        PROVE  State(y)
    BY <1>5 DEF State, InStrings
  <1>6. ASSUME NEW y \in States, y.mode \in {"between", "escape"}, y.quote = "none", y.word = <<>>
        PROVE  State(y)
    BY <1>6 DEF State, InStrings
  <1>7. State(WordDone(x)) /\ State(CommandDone(WordDone(x)))
    <2>1. PICK z \in States : z = WordDone(x) /\ z.mode = "between" /\ z.quote = "none" /\ z.word = <<>>
      BY <1>1, WordDoneState
    <2>2. PICK v \in States : v = CommandDone(z) /\ v.mode = "between" /\ v.quote = "none" /\ v.word = <<>>
      BY <2>1, CommandDoneState
    <2>. QED BY <1>6, <2>1, <2>2
  <1>8. ASSUME NEW m \in Modes
        PROVE  In(More(x, one), m) \in States /\ In(More(x, one), m).mode = m
               /\ In(More(x, one), m).quote = x.quote
    <2>1. PICK z \in States : z = More(x, one) /\ z.quote = x.quote
      BY <1>1, MoreState
    <2>2. In(z, m) \in States /\ In(z, m).mode = m /\ In(z, m).quote = z.quote
      BY InState
    <2>. QED BY <2>1, <2>2
  <1>0. More(x, one) \in States /\ More(x, one).mode = x.mode /\ More(x, one).quote = x.quote
    BY <1>1, MoreState
  <1>9. CASE x.mode = "between"
    <2>1. Character(x, c) = Starts(x, c)
      BY <1>9, CharacterModes
    <2>2. x.quote = "none" /\ x.word = <<>>
      BY <1>1, <1>9 DEF InStrings
    <2>3. CASE c \in White
      <3>1. Starts(x, c) = x
        BY <2>3, CharacterKinds, QuoteKinds DEF Starts
      <3>. QED BY <2>1, <3>1
    <2>4. CASE c = Backslash
      <3>1. Starts(x, c) = In(x, "escape")
        BY <2>4, CharacterKinds, QuoteKinds DEF Starts
      <3>2. State(In(x, "escape"))
        BY <1>1, <1>6, <2>2, InState DEF Modes
      <3>. QED BY <2>1, <3>1, <3>2
    <2>5. CASE c = Semicolon
      <3>1. Starts(x, c) = CommandDone(x)
        BY <2>5, CharacterKinds, QuoteKinds DEF Starts
      <3>2. State(CommandDone(x))
        BY <1>1, <1>6, <1>9, <2>2, CommandDoneState
      <3>. QED BY <2>1, <3>1, <3>2
    <2>6. CASE c \in Quotes
      <3>1. Starts(x, c) = Opened(In(x, "string"), c)
        BY <2>6, CharacterKinds, QuoteKinds DEF Starts
      <3>2. PICK z \in States : z = In(x, "string") /\ z.mode = "string"
        BY <1>1, InState DEF Modes
      <3>3. PICK v \in States : v = Opened(z, c) /\ v.mode = "string" /\ v.quote = c
        BY <2>6, <3>2, OpenedState
      <3>4. State(v)
        BY <1>5, <2>6, <3>3 DEF InStrings
      <3>. QED BY <2>1, <3>1, <3>2, <3>3, <3>4
    <2>7. CASE Plain(c)
      <3>1. Starts(x, c) = In(More(x, one), "word")
        BY <1>2, <2>7 DEF Starts, Plain
      <3>2. State(In(More(x, one), "word"))
        BY <1>4, <1>8, <2>2 DEF Modes
      <3>. QED BY <2>1, <3>1, <3>2
    <2>. QED BY <2>3, <2>4, <2>5, <2>6, <2>7, TypedCharacters, CharacterKinds
  <1>10. CASE x.mode = "escape"
    <2>1. Character(x, c) = StartsEscaped(x, c)
      BY <1>10, CharacterModes
    <2>2. x.quote = "none"
      BY <1>1, <1>10 DEF InStrings
    <2>3. State(In(x, "wordEscape")) /\ State(In(More(x, one), "word"))
      BY <1>1, <1>4, <1>8, <2>2, InState DEF Modes
    <2>. QED BY <1>2, <2>1, <2>3, CharacterKinds DEF StartsEscaped
  <1>11. CASE x.mode = "word"
    <2>1. Character(x, c) = Continues(x, c)
      BY <1>11, CharacterModes
    <2>2. x.quote = "none"
      BY <1>1, <1>11 DEF InStrings
    <2>3. State(In(x, "wordEscape"))
      BY <1>1, <1>4, <2>2, InState DEF Modes
    <2>4. State(More(x, one))
      BY <1>0, <1>4, <1>11, <2>2
    <2>. QED BY <1>2, <1>7, <2>1, <2>3, <2>4, CharacterKinds DEF Continues
  <1>12. CASE x.mode = "wordEscape"
    <2>1. Character(x, c) = ContinuesEscaped(x, c)
      BY <1>12, CharacterModes
    <2>2. x.quote = "none"
      BY <1>1, <1>12 DEF InStrings
    <2>3. State(In(More(x, one), "word"))
      BY <1>4, <1>8, <2>2 DEF Modes
    <2>. QED BY <1>2, <1>7, <2>1, <2>3 DEF ContinuesEscaped
  <1>13. CASE x.mode = "string"
    <2>1. Character(x, c) = InString(x, c)
      BY <1>13, CharacterModes
    <2>2. x.quote \in Quotes /\ x.quote # Backslash
      BY <1>1, <1>13, QuoteKinds DEF InStrings
    <2>3. State(In(x, "stringEscape"))
      BY <1>1, <1>5, <2>2, InState DEF Modes, InStrings
    <2>4. State(More(x, one))
      BY <1>0, <1>5, <1>13, <2>2 DEF InStrings
    <2>. QED BY <1>2, <1>7, <2>1, <2>2, <2>3, <2>4 DEF InString
  <1>14. CASE x.mode = "stringEscape"
    <2>1. Character(x, c) = InStringEscaped(x, c)
      BY <1>14, CharacterModes
    <2>2. x.quote \in Quotes
      BY <1>1, <1>14 DEF InStrings
    <2>3. State(In(More(x, esc), "string"))
      <3>1. PICK z \in States : z = More(x, esc) /\ z.quote = x.quote
        BY <1>1, MoreState
      <3>2. In(z, "string") \in States /\ In(z, "string").mode = "string" /\ In(z, "string").quote = z.quote
        BY InState DEF Modes
      <3>. QED BY <1>5, <2>2, <3>1, <3>2 DEF InStrings
    <2>. QED BY <1>3, <1>7, <2>1, <2>3 DEF InStringEscaped
  <1>15. x.mode \in Modes
    BY <1>1, StateParts
  <1>. QED BY <1>9, <1>10, <1>11, <1>12, <1>13, <1>14, <1>15 DEF Modes

(* Every text ends in a state.                                             *)
LEMMA StateEnd ==
    ASSUME NEW s \in Seq(Chars)
    PROVE  State(End(s))
  <1>. DEFINE T == {t \in Seq(Chars) : State(End(t))}
  <1>1. <<>> \in T
    <2>1. <<>> \in Seq(Chars)
      OBVIOUS
    <2>. QED BY <2>1, EmptyText, BetweenIsState
  <1>2. ASSUME NEW t \in Seq(Chars), NEW c \in Chars, t \in T PROVE Append(t, c) \in T
    <2>1. Append(t, c) \in Seq(Chars)
      OBVIOUS
    <2>2. End(Append(t, c)) = Character(End(t), c)
      BY EndNext, Zenon
    <2>3. State(Character(End(t), c))
      BY <1>2, StateNext
    <2>. QED BY <2>1, <2>2, <2>3
  <1>. HIDE DEF T
  <1>3. s \in T
    BY <1>1, <1>2, SeqInduction, Zenon
  <1>. QED BY <1>3 DEF T

(* The commands that are complete when the text ends.                      *)
LEMMA FinishedModes ==
    ASSUME NEW x
    PROVE  /\ x.mode \in {"between", "escape"} => Finished(x) = CommandDone(x).commands
           /\ x.mode \notin {"between", "escape"} => Finished(x) = CommandDone(WordDone(x)).commands
  BY DEF Finished

(* A blank outside of strings changes only once what the cursor is in, and *)
(* none of the commands.                                                   *)
LEMMA Blanks ==
    ASSUME NEW x, State(x), NEW y, y = Character(x, Blank), y.mode # "string"
    PROVE  Character(y, Blank) = y /\ Finished(y) = Finished(x)
  <1>1. x \in States /\ (x.mode \in InStrings => x.quote \in Quotes)
    BY DEF State
  <1>2. Blank \in White /\ Blank \in Chars
    BY CharacterKinds, TypedCharacters
  <1>3. CASE x.mode = "between"
    <2>1. Starts(x, Blank) = x
      BY CharacterKinds DEF Starts
    <2>. QED BY <1>3, <2>1, CharacterModes
  <1>4. CASE x.mode = "escape"
    <2>1. StartsEscaped(x, Blank) = x
      BY CharacterKinds DEF StartsEscaped
    <2>. QED BY <1>4, <2>1, CharacterModes
  <1>5. CASE x.mode \in {"word", "wordEscape"}
    <2>1. y = WordDone(x)
      <3>1. Continues(x, Blank) = WordDone(x) /\ ContinuesEscaped(x, Blank) = WordDone(x)
        BY CharacterKinds DEF Continues, ContinuesEscaped
      <3>. QED BY <1>5, <3>1, CharacterModes
    <2>2. y.mode = "between"
      BY <1>1, <2>1, WordDoneState
    <2>3. Starts(y, Blank) = y
      BY CharacterKinds DEF Starts
    <2>4. Character(y, Blank) = y
      BY <2>2, <2>3, CharacterModes
    <2>5. Finished(y) = CommandDone(y).commands
      BY <2>2, FinishedModes
    <2>6. Finished(x) = CommandDone(WordDone(x)).commands
      BY <1>5, FinishedModes
    <2>. QED BY <2>1, <2>4, <2>5, <2>6
  <1>6. CASE x.mode = "string"
    <2>1. Character(x, Blank) = InString(x, Blank)
      BY <1>6, CharacterModes
    <2>2. x.quote # Blank
      BY <1>1, <1>6, QuoteKinds DEF InStrings
    <2>3. InString(x, Blank) = More(x, <<Blank>>)
      BY <2>2, CharacterKinds DEF InString
    <2>4. More(x, <<Blank>>).mode = x.mode
      BY <1>1, <1>2, CharacterGlyphs, MoreState
    <2>. QED BY <1>6, <2>1, <2>3, <2>4
  <1>7. CASE x.mode = "stringEscape"
    <2>1. Character(x, Blank) = InStringEscaped(x, Blank)
      BY <1>7, CharacterModes
    <2>2. x.quote # Blank
      BY <1>1, <1>7, QuoteKinds DEF InStrings
    <2>3. InStringEscaped(x, Blank) = In(More(x, EscapeOf(Blank)), "string")
      BY <2>2 DEF InStringEscaped
    <2>4. More(x, EscapeOf(Blank)) \in States
      BY <1>1, <1>2, CharacterGlyphs, MoreState
    <2>5. In(More(x, EscapeOf(Blank)), "string").mode = "string"
      BY <2>4, InState DEF Modes
    <2>. QED BY <2>1, <2>3, <2>5
  <1>8. x.mode \in Modes
    BY <1>1, StateParts
  <1>. QED BY <1>3, <1>4, <1>5, <1>6, <1>7, <1>8 DEF Modes

-----------------------------------------------------------------------------
(* The only command.                                                       *)
LEMMA FinishedOne ==
    ASSUME NEW q, NEW a, a # <<>>
    PROVE  Finished(At("between", q, <<>>, a, <<>>)) = <<a>>
  <1>. DEFINE x == At("between", q, <<>>, a, <<>>)
  <1>1. x.mode = "between"
    BY PartsAt
  <1>2. Finished(x) = CommandDone(x).commands
    BY <1>1, FinishedModes
  <1>3. CommandDone(x) = At("between", q, <<>>, <<>>, Append(<<>>, a))
    BY CommandAt, Zenon
  <1>4. \A z : At("between", q, <<>>, <<>>, z).commands = z
    BY PartsAt
  <1>5. Append(<<>>, a) = <<a>>
    OBVIOUS
  <1>. QED BY <1>2, <1>3, <1>4, <1>5, Zenon

(* A word that the end cuts off is complete.                               *)
LEMMA FinishedWord ==
    ASSUME NEW q, NEW w, NEW a, NEW cs
    PROVE  Finished(At("word", q, w, a, cs)) = Finished(At("between", "none", <<>>, Append(a, w), cs))
  <1>. DEFINE x == At("word", q, w, a, cs)
              y == At("between", "none", <<>>, Append(a, w), cs)
  <1>1. x.mode = "word" /\ y.mode = "between"
    BY PartsAt
  <1>2. WordDone(x) = y
    BY WordDoneAt
  <1>. HIDE DEF x, y
  <1>3. Finished(y) = CommandDone(y).commands
    BY <1>1, FinishedModes
  <1>4. Finished(x) = CommandDone(WordDone(x)).commands
    BY <1>1, FinishedModes
  <1>. QED BY <1>2, <1>3, <1>4 DEF x, y

-----------------------------------------------------------------------------
(* Words that are joined.                                                  *)

(* Joined words are a text.                                                *)
LEMMA JoinType ==
    ASSUME NEW ws \in Seq(Seq(Chars))
    PROVE  Join(ws) \in Seq(Chars)
  <1>. DEFINE T == {t \in Seq(Seq(Chars)) : Join(t) \in Seq(Chars)}
  <1>1. <<>> \in T
    <2>1. <<>> \in Seq(Seq(Chars)) /\ <<>> \in Seq(Chars)
      OBVIOUS
    <2>. QED BY <2>1, EmptyText
  <1>2. ASSUME NEW t \in Seq(Seq(Chars)), NEW w \in Seq(Chars), t \in T PROVE Append(t, w) \in T
    <2>1. Append(t, w) \in Seq(Seq(Chars))
      OBVIOUS
    <2>2. Join(Append(t, w)) = WithWord(Join(t), w)
      BY JoinNext, Zenon
    <2>3. PICK j \in Seq(Chars) : j = Join(t)
      BY <1>2
    <2>4. (j \o <<Blank>>) \o w \in Seq(Chars)
      BY TypedCharacters
    <2>5. WithWord(j, w) \in Seq(Chars)
      BY <2>4, Zenon DEF WithWord
    <2>. QED BY <2>1, <2>2, <2>3, <2>5
  <1>. HIDE DEF T
  <1>3. ws \in T
    BY <1>1, <1>2, SeqInduction, Zenon
  <1>. QED BY <1>3 DEF T

(* A longer last word, and a new one.                                      *)
LEMMA JoinGrows ==
    ASSUME NEW ws \in Seq(Seq(Chars)), NEW w \in Seq(Chars), NEW c \in Chars
    PROVE  Join(Append(ws, Append(w, c))) = Append(Join(Append(ws, w)), c)
  <1>1. PICK j \in Seq(Chars) : j = Join(ws)
    BY JoinType
  <1>2. Join(Append(ws, w)) = WithWord(j, w)
    BY <1>1, JoinNext, Zenon
  <1>3. Join(Append(ws, Append(w, c))) = WithWord(j, Append(w, c))
    <2>1. Append(w, c) \in Seq(Chars)
      OBVIOUS
    <2>. QED BY <1>1, <2>1, JoinNext, Zenon
  <1>4. PICK b \in Seq(Chars) : b = j \o <<Blank>>
    <2>1. j \o <<Blank>> \in Seq(Chars)
      BY TypedCharacters
    <2>. QED BY <2>1, Zenon
  <1>5. b \o Append(w, c) = Append(b \o w, c)
    OBVIOUS
  <1>6. WithWord(j, Append(w, c)) = Append(WithWord(j, w), c)
    <2>1. CASE j = <<>>
      BY <2>1, Zenon DEF WithWord
    <2>2. CASE j # <<>>
      BY <1>4, <1>5, <2>2, Zenon DEF WithWord
    <2>. QED BY <2>1, <2>2
  <1>. QED BY <1>2, <1>3, <1>6, Zenon

(* A new word follows a blank.                                             *)
LEMMA JoinStarts ==
    ASSUME NEW ws \in Seq(Seq(Chars)), NEW c \in Chars
    PROVE  Join(Append(ws, <<c>>)) = IF Join(ws) = <<>> THEN Append(<<>>, c)
                                     ELSE Append(Append(Join(ws), Blank), c)
  <1>1. PICK j \in Seq(Chars) : j = Join(ws)
    BY JoinType
  <1>2. Join(Append(ws, <<c>>)) = WithWord(j, <<c>>)
    <2>1. <<c>> \in Seq(Chars)
      OBVIOUS
    <2>. QED BY <1>1, <2>1, JoinNext, Zenon
  <1>3. <<c>> = Append(<<>>, c) /\ (j \o <<Blank>>) \o <<c>> = Append(Append(j, Blank), c)
    BY TypedCharacters
  <1>. QED BY <1>1, <1>2, <1>3, Zenon DEF WithWord

-----------------------------------------------------------------------------
(* A text with its special characters escaped, after the name of a command.*)

Letters == Chars \cup {"k"}
EscapedLine(s) == <<"k", Blank>> \o WithEscapes(s)
Key(ws) == << <<"k">> >> \o ws

(* What is made of each character, one more.                               *)
LEMMA MapNext ==
    ASSUME NEW S, NEW s \in Seq(S), NEW c \in S, NEW T, NEW F, \A i \in 1..(Len(s) + 1) : F[i] \in T
    PROVE  /\ [i \in DOMAIN s |-> F[i]] \in Seq(T)
           /\ [i \in DOMAIN Append(s, c) |-> F[i]] = Append([i \in DOMAIN s |-> F[i]], F[Len(s) + 1])
  <1>1. PICK t \in Seq(S) : t = Append(s, c)
    <2>1. Append(s, c) \in Seq(S)
      OBVIOUS
    <2>. QED BY <2>1, Zenon
  <1>2. PICK n \in Nat : n = Len(s)
    OBVIOUS
  <1>3. DOMAIN s = 1..n /\ DOMAIN t = 1..(n + 1)
    BY <1>1, <1>2
  <1>4. PICK u \in Seq(T) : u = [i \in 1..n |-> F[i]]
    <2>1. [i \in 1..n |-> F[i]] \in Seq(T)
      BY <1>2
    <2>. QED BY <2>1, Zenon
  <1>5. Len(u) = n /\ \A i \in 1..n : u[i] = F[i]
    BY <1>4
  <1>6. PICK e \in T : e = F[n + 1]
    BY <1>2
  <1>7. [i \in 1..(n + 1) |-> F[i]] = Append(u, e)
    <2>1. PICK v \in Seq(T) : v = Append(u, e)
      <3>1. Append(u, e) \in Seq(T)
        OBVIOUS
      <3>. QED BY <3>1, Zenon
    <2>2. Len(v) = n + 1 /\ \A i \in 1..(n + 1) : v[i] = F[i]
      BY <1>5, <1>6, <2>1
    <2>3. v = [i \in 1..(n + 1) |-> v[i]]
      <3>1. v \in [1..Len(v) -> T]
        BY LenProperties
      <3>. QED BY <2>2, <3>1
    <2>. QED BY <2>1, <2>2, <2>3
  <1>. QED BY <1>1, <1>2, <1>3, <1>4, <1>6, <1>7

(* The escapes of a character do not depend on what follows it.            *)
LEMMA EscapedStays ==
    ASSUME NEW s \in Seq(Chars), NEW c \in Chars, NEW t, t = Append(s, c), NEW i \in 1..Len(s)
    PROVE  Escaped(t, i) = Escaped(s, i)
  <1>1. t[i] = s[i] /\ (i # 1 => t[i - 1] = s[i - 1])
    OBVIOUS
  <1>. QED BY <1>1, Zenon DEF Escaped

(* They are characters that are typed.                                     *)
LEMMA EscapedType ==
    ASSUME NEW s \in Seq(Chars), NEW i \in 1..Len(s)
    PROVE  Escaped(s, i) \in Seq(Chars)
  <1>1. s[i] \in Chars
    OBVIOUS
  <1>2. /\ <<s[i]>> \in Seq(Chars) /\ <<Backslash, s[i]>> \in Seq(Chars)
        /\ <<Backslash, Backslash, Backslash>> \in Seq(Chars)
    BY <1>1, TypedCharacters
  <1>. QED BY <1>2, Zenon DEF Escaped

(* One more character, with its escapes.                                   *)
LEMMA EscapesAppend ==
    ASSUME NEW s \in Seq(Chars), NEW c \in Chars
    PROVE  /\ [i \in DOMAIN s |-> Escaped(s, i)] \in Seq(Seq(Chars))
           /\ WithEscapes(Append(s, c)) = WithEscapes(s) \o Escaped(Append(s, c), Len(s) + 1)
  <1>1. PICK t \in Seq(Chars) : t = Append(s, c) /\ Len(t) = Len(s) + 1
    <2>1. Append(s, c) \in Seq(Chars) /\ Len(Append(s, c)) = Len(s) + 1
      OBVIOUS
    <2>. QED BY <2>1, Zenon
  <1>2. PICK F : F = [i \in 1..Len(t) |-> Escaped(t, i)]
    OBVIOUS
  <1>3. \A i \in 1..Len(t) : F[i] = Escaped(t, i) /\ F[i] \in Seq(Chars)
    BY <1>2, EscapedType
  <1>4. /\ [i \in DOMAIN s |-> F[i]] \in Seq(Seq(Chars))
        /\ [i \in DOMAIN t |-> F[i]] = Append([i \in DOMAIN s |-> F[i]], F[Len(s) + 1])
    <2>1. \A i \in 1..(Len(s) + 1) : F[i] \in Seq(Chars)
      BY <1>1, <1>3
    <2>. QED BY <1>1, <2>1, MapNext, SMTT(30)
  <1>5. /\ DOMAIN s = 1..Len(s) /\ DOMAIN t = 1..Len(t) /\ Len(t) \in 1..Len(t)
        /\ Len(t) = Len(s) + 1 /\ \A i \in 1..Len(s) : i \in 1..Len(t)
    BY <1>1
  <1>6. [i \in DOMAIN s |-> F[i]] = [i \in DOMAIN s |-> Escaped(s, i)]
    <2>1. ASSUME NEW i \in DOMAIN s PROVE F[i] = Escaped(s, i)
      <3>1. i \in 1..Len(s) /\ i \in 1..Len(t)
        BY <1>5
      <3>2. Escaped(t, i) = Escaped(s, i)
        BY <1>1, <3>1, EscapedStays, Zenon
      <3>3. F[i] = Escaped(t, i)
        BY <1>3, <3>1
      <3>. QED BY <3>2, <3>3, Zenon
    <2>. QED BY <2>1
  <1>7. [i \in DOMAIN t |-> F[i]] = [i \in DOMAIN t |-> Escaped(t, i)]
    BY <1>3, <1>5
  <1>8. PICK u \in Seq(Seq(Chars)) : u = [i \in DOMAIN s |-> Escaped(s, i)]
    BY <1>4, <1>6
  <1>9. [i \in DOMAIN t |-> Escaped(t, i)] = Append(u, Escaped(t, Len(t)))
    BY <1>3, <1>4, <1>5, <1>6, <1>7, <1>8
  <1>10. Escaped(t, Len(t)) \in Seq(Chars)
    BY <1>5, EscapedType
  <1>11. FlattenSeq(Append(u, Escaped(t, Len(t)))) = FlattenSeq(u) \o Escaped(t, Len(t))
    BY <1>10, FlattenNext, Zenon
  <1>. QED BY <1>1, <1>8, <1>9, <1>11, Zenon DEF WithEscapes

(* The text with its escapes is a text.                                    *)
LEMMA EscapesType ==
    ASSUME NEW s \in Seq(Chars)
    PROVE  WithEscapes(s) \in Seq(Letters)
  <1>. DEFINE T == {t \in Seq(Chars) : WithEscapes(t) \in Seq(Chars)}
  <1>1. <<>> \in T
    <2>1. <<>> \in Seq(Chars) /\ [i \in DOMAIN <<>> |-> Escaped(<<>>, i)] = <<>>
      OBVIOUS
    <2>2. WithEscapes(<<>>) = <<>>
      BY <2>1, EmptyText, Zenon DEF WithEscapes
    <2>. QED BY <2>1, <2>2
  <1>2. ASSUME NEW t \in Seq(Chars), NEW c \in Chars, t \in T PROVE Append(t, c) \in T
    <2>1. Append(t, c) \in Seq(Chars) /\ Len(t) + 1 \in 1..Len(Append(t, c))
      OBVIOUS
    <2>2. WithEscapes(Append(t, c)) = WithEscapes(t) \o Escaped(Append(t, c), Len(t) + 1)
      BY EscapesAppend, Zenon
    <2>3. PICK e \in Seq(Chars) : e = Escaped(Append(t, c), Len(t) + 1)
      BY <2>1, EscapedType
    <2>4. PICK u \in Seq(Chars) : u = WithEscapes(t)
      BY <1>2
    <2>5. u \o e \in Seq(Chars)
      OBVIOUS
    <2>. QED BY <2>1, <2>2, <2>3, <2>4, <2>5
  <1>. HIDE DEF T
  <1>3. s \in T
    BY <1>1, <1>2, SeqInduction, Zenon
  <1>4. \A t \in Seq(Chars) : t \in Seq(Letters)
    BY DEF Letters
  <1>. QED BY <1>3, <1>4 DEF T

(* Before the text.                                                        *)
LEMMA KeyLine ==
    /\ End(<<"k", Blank>>) = At("between", "none", <<>>, Key(<<>>), <<>>)
    /\ <<"k", Blank>> \in Seq(Letters)
  <1>1. <<"k", Blank>> = Append(Append(<<>>, "k"), Blank)
    OBVIOUS
  <1>2. <<>> \in Seq(Letters) /\ "k" \in Letters /\ Blank \in Letters
        /\ Append(<<>>, "k") \in Seq(Letters) /\ <<"k", Blank>> \in Seq(Letters)
    BY TypedCharacters DEF Letters
  <1>3. End(<<"k", Blank>>) = Character(Character(Between, "k"), Blank)
    <2>1. End(Append(<<>>, "k")) = Character(End(<<>>), "k")
      BY <1>2, EndNext, Zenon
    <2>2. End(Append(Append(<<>>, "k"), Blank)) = Character(End(Append(<<>>, "k")), Blank)
      BY <1>2, EndNext, Zenon
    <2>. QED BY <1>1, <2>1, <2>2, EmptyText, Zenon
  <1>4. Character(At("between", "none", <<>>, <<>>, <<>>), "k")
          = At("word", "none", <<"k">>, <<>>, <<>>)
    <2>1. Plain("k")
      BY PlainLetters
    <2>. QED BY <2>1, PlainFirst
  <1>5. Character(At("word", "none", <<"k">>, <<>>, <<>>), Blank)
          = At("between", "none", <<>>, Append(<<>>, <<"k">>), <<>>)
    BY BlankInWord, Zenon
  <1>6. Append(<<>>, <<"k">>) = Key(<<>>)
    BY DEF Key
  <1>. QED BY <1>2, <1>3, <1>4, <1>5, <1>6, BetweenIsState, Zenon

(* With no text.                                                           *)
LEMMA EscapedLineEmpty == End(EscapedLine(<<>>)) = At("between", "none", <<>>, Key(<<>>), <<>>)
  <1>1. [i \in DOMAIN <<>> |-> Escaped(<<>>, i)] = <<>>
    OBVIOUS
  <1>2. WithEscapes(<<>>) = <<>>
    BY <1>1, EmptyText, Zenon DEF WithEscapes
  <1>3. <<"k", Blank>> \o <<>> = <<"k", Blank>>
    OBVIOUS
  <1>. QED BY <1>2, <1>3, KeyLine, Zenon DEF EscapedLine

(* At the beginning of a word.                                             *)
Fresh(s) == s = <<>> \/ s[Len(s)] = Blank

(* One more character of the text is that character, or two, or three      *)
(* backslashes.                                                            *)
LEMMA EscapedLineNext ==
    ASSUME NEW s \in Seq(Chars), NEW c \in Chars
    PROVE  /\ c \notin Special =>
                End(EscapedLine(Append(s, c))) = Character(End(EscapedLine(s)), c)
           /\ (c \in Special /\ ~(c = Backslash /\ Fresh(s))) =>
                End(EscapedLine(Append(s, c))) = Character(Character(End(EscapedLine(s)), Backslash), c)
           /\ (c = Backslash /\ Fresh(s)) =>
                End(EscapedLine(Append(s, c)))
                  = Character(Character(Character(End(EscapedLine(s)), Backslash), Backslash), Backslash)
  <1>1. PICK u \in Seq(Letters) : u = WithEscapes(s)
    BY EscapesType
  <1>2. PICK k \in Seq(Letters) : k = EscapedLine(s)
    <2>1. \A h \in Seq(Letters) : h \o u \in Seq(Letters)
      OBVIOUS
    <2>. QED BY <1>1, <2>1, KeyLine, Zenon DEF EscapedLine
  <1>3. PICK e : e = Escaped(Append(s, c), Len(s) + 1)
    OBVIOUS
  <1>4. EscapedLine(Append(s, c)) = <<"k", Blank>> \o (u \o e)
    BY <1>1, <1>3, EscapesAppend, Zenon DEF EscapedLine
  <1>5. c \in Letters /\ Backslash \in Letters
    BY TypedCharacters DEF Letters
  <1>6. /\ c = Backslash /\ Fresh(s) => e = <<Backslash, Backslash, Backslash>>
        /\ c \in Special /\ ~(c = Backslash /\ Fresh(s)) => e = <<Backslash, c>>
        /\ c \notin Special /\ c # Backslash => e = <<c>>
    <2>1. PICK t : t = Append(s, c)
      OBVIOUS
    <2>2. PICK n : n = Len(s) + 1
      OBVIOUS
    <2>3. t[n] = c /\ (n = 1 \/ t[n - 1] = Blank <=> Fresh(s))
      <3>1. t[n] = c /\ (n = 1 <=> s = <<>>) /\ (n # 1 => t[n - 1] = s[Len(s)])
        BY <2>1, <2>2
      <3>. QED BY <3>1 DEF Fresh
    <2>4. e = Escaped(t, n)
      BY <1>3, <2>1, <2>2
    <2>. QED BY <2>3, <2>4, Zenon DEF Escaped
  <1>7. Backslash \in Special
    BY DEF Special
  <1>8. ASSUME NEW h \in Seq(Letters), NEW d \in Letters
        PROVE  /\ h \o (u \o <<d>>) = Append(h \o u, d)
               /\ \A b \in Letters : /\ h \o (u \o <<b, d>>) = Append(Append(h \o u, b), d)
                                      /\ h \o (u \o <<b, b, d>>) = Append(Append(Append(h \o u, b), b), d)
    <2>1. h \o (u \o <<d>>) = Append(h \o u, d)
      OBVIOUS
    <2>2. ASSUME NEW b \in Letters
          PROVE  /\ h \o (u \o <<b, d>>) = Append(Append(h \o u, b), d)
                 /\ h \o (u \o <<b, b, d>>) = Append(Append(Append(h \o u, b), b), d)
      <3>1. h \o (u \o <<b, d>>) = Append(Append(h \o u, b), d)
        OBVIOUS
      <3>2. PICK v \in Seq(Letters) : v = Append(u, b)
        <4>1. Append(u, b) \in Seq(Letters)
          OBVIOUS
        <4>. QED BY <4>1, Zenon
      <3>3. u \o <<b, b, d>> = v \o <<b, d>>
        BY <3>2
      <3>4. h \o (v \o <<b, d>>) = Append(Append(h \o v, b), d)
        BY SMTT(30)
      <3>5. h \o v = Append(h \o u, b)
        BY <3>2
      <3>6. h \o (u \o <<b, b, d>>) = Append(Append(Append(h \o u, b), b), d)
        BY <3>3, <3>4, <3>5, Zenon
      <3>. QED BY <3>1, <3>6
    <2>. QED BY <2>1, <2>2
  <1>9. \A v \in Seq(Letters), d \in Letters : Append(v, d) \in Seq(Letters)
    OBVIOUS
  <1>10. \A v \in Seq(Letters), d \in Letters : End(Append(v, d)) = Character(End(v), d)
    BY EndNext, Zenon
  <1>11. CASE c \notin Special
    <2>1. <<"k", Blank>> \o (u \o <<c>>) = Append(<<"k", Blank>> \o u, c)
      BY <1>5, <1>8, KeyLine, Zenon
    <2>2. EscapedLine(Append(s, c)) = Append(k, c)
      BY <1>1, <1>2, <1>4, <1>6, <1>7, <1>11, <2>1, Zenon DEF EscapedLine
    <2>. QED BY <1>2, <1>5, <1>7, <1>10, <1>11, <2>2, Zenon
  <1>12. CASE c \in Special /\ ~(c = Backslash /\ Fresh(s))
    <2>1. <<"k", Blank>> \o (u \o <<Backslash, c>>) = Append(Append(<<"k", Blank>> \o u, Backslash), c)
      BY <1>5, <1>8, KeyLine, Zenon
    <2>2. EscapedLine(Append(s, c)) = Append(Append(k, Backslash), c)
      BY <1>1, <1>2, <1>4, <1>6, <1>12, <2>1, Zenon DEF EscapedLine
    <2>3. End(Append(Append(k, Backslash), c)) = Character(Character(End(k), Backslash), c)
      BY <1>5, <1>9, <1>10, Zenon
    <2>. QED BY <1>2, <1>12, <2>2, <2>3, Zenon
  <1>13. CASE c = Backslash /\ Fresh(s)
    <2>1. <<"k", Blank>> \o (u \o <<Backslash, Backslash, Backslash>>)
            = Append(Append(Append(<<"k", Blank>> \o u, Backslash), Backslash), Backslash)
      BY <1>5, <1>8, KeyLine, Zenon
    <2>2. EscapedLine(Append(s, c)) = Append(Append(Append(k, Backslash), Backslash), Backslash)
      BY <1>1, <1>2, <1>4, <1>6, <1>13, <2>1, Zenon DEF EscapedLine
    <2>3. End(Append(Append(k, Backslash), Backslash)) = Character(Character(End(k), Backslash), Backslash)
      BY <1>5, <1>9, <1>10, Zenon
    <2>4. End(Append(Append(Append(k, Backslash), Backslash), Backslash))
            = Character(Character(Character(End(k), Backslash), Backslash), Backslash)
      BY <1>5, <1>9, <1>10, <2>3, Zenon
    <2>. QED BY <1>2, <1>7, <1>13, <2>2, <2>4, Zenon
  <1>. QED BY <1>11, <1>12, <1>13

(* A new word after a blank, typed or joined.                              *)
LEMMA NewWord ==
    ASSUME NEW s \in Seq(Chars), NEW ws \in Seq(Seq(Chars)), NEW c \in Chars,
           End(s) = Character(End(Join(ws)), Blank)
    PROVE  End(Append(s, c)) = End(Join(Append(ws, <<c>>)))
  <1>1. PICK j \in Seq(Chars) : j = Join(ws)
    BY JoinType
  <1>2. End(Append(s, c)) = Character(Character(End(j), Blank), c)
    BY <1>1, EndNext, Zenon
  <1>3. CASE j = <<>>
    <2>1. Character(Between, Blank) = Between
      BY BetweenIsState, BlankBetween, Zenon
    <2>2. <<>> \in Seq(Chars)
      OBVIOUS
    <2>3. End(Append(<<>>, c)) = Character(End(<<>>), c)
      BY <2>2, EndNext, Zenon
    <2>4. Join(Append(ws, <<c>>)) = Append(<<>>, c)
      BY <1>1, <1>3, JoinStarts, Zenon
    <2>. QED BY <1>2, <1>3, <2>1, <2>3, <2>4, EmptyText, Zenon
  <1>4. CASE j # <<>>
    <2>1. Join(Append(ws, <<c>>)) = Append(Append(j, Blank), c)
      BY <1>1, <1>4, JoinStarts, Zenon
    <2>2. Blank \in Chars /\ Append(j, Blank) \in Seq(Chars)
      BY TypedCharacters
    <2>3. End(Append(Append(j, Blank), c)) = Character(End(Append(j, Blank)), c)
      BY <2>2, EndNext, Zenon
    <2>4. End(Append(j, Blank)) = Character(End(j), Blank)
      BY <2>2, EndNext, Zenon
    <2>. QED BY <1>2, <2>1, <2>3, <2>4, Zenon
  <1>. QED BY <1>3, <1>4

(* A longer word, typed or joined.                                         *)
LEMMA LongerWord ==
    ASSUME NEW s \in Seq(Chars), NEW ws \in Seq(Seq(Chars)), NEW w \in Seq(Chars), NEW c \in Chars,
           End(s) = End(Join(Append(ws, w)))
    PROVE  End(Append(s, c)) = End(Join(Append(ws, Append(w, c))))
  <1>1. PICK j \in Seq(Chars) : j = Join(Append(ws, w))
    <2>1. Append(ws, w) \in Seq(Seq(Chars))
      OBVIOUS
    <2>. QED BY <2>1, JoinType
  <1>2. End(Append(s, c)) = Character(End(j), c)
    BY <1>1, EndNext, Zenon
  <1>3. End(Append(j, c)) = Character(End(j), c)
    BY EndNext, Zenon
  <1>4. Join(Append(ws, Append(w, c))) = Append(j, c)
    BY <1>1, JoinGrows, Zenon
  <1>. QED BY <1>2, <1>3, <1>4, Zenon

(* One more word behind the name.                                          *)
LEMMA KeyGrows ==
    ASSUME NEW ws \in Seq(Seq(Chars)), NEW w \in Seq(Chars)
    PROVE  Append(Key(ws), w) = Key(Append(ws, w))
  <1>1. <<"k">> \in Seq(Letters) /\ ws \in Seq(Seq(Letters)) /\ w \in Seq(Letters)
    BY DEF Letters
  <1>2. \A h \in Seq(Letters), t \in Seq(Seq(Letters)), v \in Seq(Letters) :
            Append(<<h>> \o t, v) = <<h>> \o Append(t, v)
    OBVIOUS
  <1>. QED BY <1>1, <1>2, Zenon DEF Key

(* The words behind the name.                                              *)
LEMMA KeyTail ==
    ASSUME NEW ws \in Seq(Seq(Chars))
    PROVE  Key(ws) # <<>> /\ Tail(Key(ws)) = ws
  <1>1. <<"k">> \in Seq(Letters) /\ ws \in Seq(Seq(Letters))
    BY DEF Letters
  <1>2. \A h \in Seq(Letters), t \in Seq(Seq(Letters)) : <<h>> \o t # <<>> /\ Tail(<<h>> \o t) = t
    OBVIOUS
  <1>. QED BY <1>1, <1>2, Zenon DEF Key

-----------------------------------------------------------------------------
(* The command and its escapes on one side, the text as a line of its own  *)
(* on the other: the words joined again leave the cursor where the text    *)
(* leaves it, but for the blanks between words.                            *)
SimBetween(s, ws) ==
    /\ End(EscapedLine(s)) = At("between", "none", <<>>, Key(ws), <<>>)
    /\ End(s) = Character(End(Join(ws)), Blank)
    /\ Fresh(s)
SimWord(s, ws, w) ==
    /\ End(EscapedLine(s)) = At("word", "none", w, Key(ws), <<>>)
    /\ End(s) = End(Join(Append(ws, w)))
    /\ ~Fresh(s)
Sim(s) ==
    \E ws \in Seq(Seq(Chars)), w \in Seq(Chars) : SimBetween(s, ws) \/ SimWord(s, ws, w)

(* At first nothing is typed on either side.                               *)
LEMMA SimEmpty == Sim(<<>>)
  <1>1. <<>> \in Seq(Seq(Chars)) /\ <<>> \in Seq(Chars)
    OBVIOUS
  <1>2. End(<<>>) = Character(End(Join(<<>>)), Blank)
    <2>1. Character(Between, Blank) = Between
      BY BetweenIsState, BlankBetween, Zenon
    <2>. QED BY <2>1, EmptyText, Zenon
  <1>3. SimBetween(<<>>, <<>>)
    BY <1>2, EscapedLineEmpty, Zenon DEF SimBetween, Fresh
  <1>. QED BY <1>1, <1>3, Zenon DEF Sim

(* What is escaped at the beginning of a word begins it.                   *)
LEMMA FirstEscaped ==
    ASSUME NEW q, NEW a, NEW cs, NEW c, c \notin White, c # Backslash
    PROVE  Character(Character(At("between", q, <<>>, a, cs), Backslash), c) = At("word", q, <<c>>, a, cs)
  <1>1. Character(At("between", q, <<>>, a, cs), Backslash) = At("escape", q, <<>>, a, cs)
    BY EscapeBetween, Zenon
  <1>2. Character(At("escape", q, <<>>, a, cs), c) = At("word", q, <<c>>, a, cs)
    BY EscapedFirst
  <1>. QED BY <1>1, <1>2, Zenon

(* A backslash there takes three.                                          *)
LEMMA FirstBackslash ==
    ASSUME NEW q, NEW a, NEW cs
    PROVE  Character(Character(Character(At("between", q, <<>>, a, cs), Backslash), Backslash), Backslash)
             = At("word", q, <<Backslash>>, a, cs)
  <1>1. Character(At("between", q, <<>>, a, cs), Backslash) = At("escape", q, <<>>, a, cs)
    BY EscapeBetween, Zenon
  <1>2. Character(At("escape", q, <<>>, a, cs), Backslash) = At("wordEscape", q, <<>>, a, cs)
    BY EscapedTwice, Zenon
  <1>3. \A w : Character(At("wordEscape", q, w, a, cs), Backslash) = At("word", q, w \o <<Backslash>>, a, cs)
    BY EscapedInWord, CharacterKinds
  <1>4. <<>> \o <<Backslash>> = <<Backslash>>
    OBVIOUS
  <1>5. Character(At("wordEscape", q, <<>>, a, cs), Backslash) = At("word", q, <<>> \o <<Backslash>>, a, cs)
    BY <1>3, Zenon
  <1>. QED BY <1>1, <1>2, <1>4, <1>5, Zenon

(* Within a word, what is escaped goes on with it.                         *)
LEMMA NextEscaped ==
    ASSUME NEW q, NEW w \in Seq(Chars), NEW a, NEW cs, NEW c \in Chars, c \notin White
    PROVE  Character(Character(At("word", q, w, a, cs), Backslash), c) = At("word", q, Append(w, c), a, cs)
  <1>1. Character(At("word", q, w, a, cs), Backslash) = At("wordEscape", q, w, a, cs)
    BY EscapeInWord, Zenon
  <1>2. Character(At("wordEscape", q, w, a, cs), c) = At("word", q, w \o <<c>>, a, cs)
    BY EscapedInWord
  <1>3. w \o <<c>> = Append(w, c)
    OBVIOUS
  <1>. QED BY <1>1, <1>2, <1>3, Zenon

(* A plain character is appended.                                          *)
LEMMA PlainAppends ==
    ASSUME NEW q, NEW w \in Seq(Chars), NEW a, NEW cs, NEW c \in Chars, Plain(c)
    PROVE  Character(At("word", q, w, a, cs), c) = At("word", q, Append(w, c), a, cs)
  <1>1. Character(At("word", q, w, a, cs), c) = At("word", q, w \o <<c>>, a, cs)
    BY PlainInWord
  <1>2. w \o <<c>> = Append(w, c)
    OBVIOUS
  <1>. QED BY <1>1, <1>2, Zenon

(* The last character decides whether a word begins.                       *)
LEMMA FreshNext ==
    ASSUME NEW s \in Seq(Chars), NEW c \in Chars
    PROVE  Fresh(Append(s, c)) <=> c = Blank
  <1>1. Append(s, c) # <<>> /\ Append(s, c)[Len(Append(s, c))] = c
    OBVIOUS
  <1>. QED BY <1>1, Zenon DEF Fresh

(* Of the blanks of strings, those that have a successor are not followed  *)
(* by another one.                                                         *)
PairsKept(s) ==
    \A i \in 1..(Len(s) - 1) : s[i] = Blank /\ Reads(s)[i].mode = "string" => s[i + 1] # Blank

(* This is so for every prefix, and a blank after a blank is in no string. *)
LEMMA PairsKeptNext ==
    ASSUME NEW s \in Seq(Chars), NEW c \in Chars, PairsKept(Append(s, c))
    PROVE  /\ PairsKept(s)
           /\ (c = Blank /\ Fresh(s)) => End(s).mode # "string"
  <1>1. PICK t \in Seq(Chars) : t = Append(s, c)
    <2>1. Append(s, c) \in Seq(Chars)
      OBVIOUS
    <2>. QED BY <2>1, Zenon
  <1>2. /\ Len(t) = Len(s) + 1 /\ Len(s) \in Nat /\ t[Len(s) + 1] = c
        /\ \A i \in 1..Len(s) : t[i] = s[i]
    BY <1>1
  <1>3. \A n \in 0..Len(s) : Reads(t)[n] = Reads(s)[n]
    BY <1>1, ReadsNext
  <1>4. \A i \in 1..Len(s) : t[i] = Blank /\ Reads(t)[i].mode = "string" => t[i + 1] # Blank
    BY <1>1, <1>2 DEF PairsKept
  <1>5. PairsKept(s)
    <2>1. ASSUME NEW i \in 1..(Len(s) - 1), s[i] = Blank, Reads(s)[i].mode = "string" PROVE s[i + 1] # Blank
      <3>1. i \in 1..Len(s) /\ i + 1 \in 1..Len(s) /\ i \in 0..Len(s)
        BY <1>2
      <3>2. t[i] = s[i] /\ t[i + 1] = s[i + 1] /\ Reads(t)[i] = Reads(s)[i]
        BY <1>2, <1>3, <3>1
      <3>. QED BY <1>4, <2>1, <3>1, <3>2
    <2>. QED BY <2>1, Zenon DEF PairsKept
  <1>6. ASSUME c = Blank, Fresh(s) PROVE End(s).mode # "string"
    <2>1. CASE s = <<>>
      <3>1. Between.mode = "between"
        BY DEF Between
      <3>. QED BY <2>1, <3>1, EmptyText
    <2>2. CASE s # <<>>
      <3>1. Len(s) \in 1..Len(s) /\ Len(s) \in 0..Len(s) /\ s[Len(s)] = Blank
        BY <1>2, <1>6, <2>2, EmptySeq DEF Fresh
      <3>2. Reads(t)[Len(s)].mode # "string"
        BY <1>2, <1>4, <1>6, <3>1
      <3>3. Reads(t)[Len(s)] = End(s)
        BY <1>3, <3>1 DEF End
      <3>. QED BY <3>2, <3>3
    <2>. QED BY <2>1, <2>2
  <1>. QED BY <1>5, <1>6

(* Each character keeps the two sides together.                            *)
LEMMA SimFromBetween ==
    ASSUME NEW s \in Seq(Chars), NEW ws \in Seq(Seq(Chars)), SimBetween(s, ws),
           NEW c \in Chars, PairsKept(Append(s, c))
    PROVE  Sim(Append(s, c))
  <1>1. /\ End(EscapedLine(s)) = At("between", "none", <<>>, Key(ws), <<>>)
        /\ End(s) = Character(End(Join(ws)), Blank) /\ Fresh(s)
    BY DEF SimBetween
  <1>2. <<>> \in Seq(Chars) /\ <<c>> \in Seq(Chars)
    OBVIOUS
  <1>3. CASE c = Blank
    <2>1. End(EscapedLine(Append(s, c))) = At("between", "none", <<>>, Key(ws), <<>>)
      <3>1. c \notin Special
        BY <1>3, CharacterKinds, QuoteKinds DEF Special
      <3>2. End(EscapedLine(Append(s, c))) = Character(End(EscapedLine(s)), c)
        BY <3>1, EscapedLineNext, Zenon
      <3>. QED BY <1>1, <1>3, <3>2, BlankBetween, Zenon
    <2>2. End(Append(s, c)) = Character(End(Join(ws)), Blank)
      <3>1. PICK j \in Seq(Chars) : j = Join(ws)
        BY JoinType
      <3>2. State(End(j))
        BY StateEnd
      <3>3. PICK y : y = Character(End(j), Blank)
        OBVIOUS
      <3>4. y.mode # "string"
        <4>1. End(s).mode # "string"
          BY <1>1, <1>3, PairsKeptNext
        <4>. QED BY <1>1, <3>1, <3>3, <4>1
      <3>5. Character(y, Blank) = y
        BY <3>2, <3>3, <3>4, Blanks
      <3>6. End(Append(s, c)) = Character(End(s), c)
        BY EndNext, Zenon
      <3>. QED BY <1>1, <1>3, <3>1, <3>3, <3>5, <3>6, Zenon
    <2>3. SimBetween(Append(s, c), ws)
      BY <1>3, <2>1, <2>2, FreshNext, Zenon DEF SimBetween
    <2>. QED BY <1>2, <2>3, Zenon DEF Sim
  <1>4. ASSUME c # Blank, End(EscapedLine(Append(s, c))) = At("word", "none", <<c>>, Key(ws), <<>>)
        PROVE  Sim(Append(s, c))
    <2>1. End(Append(s, c)) = End(Join(Append(ws, <<c>>)))
      BY <1>1, NewWord, Zenon
    <2>2. SimWord(Append(s, c), ws, <<c>>)
      BY <1>4, <2>1, FreshNext, Zenon DEF SimWord
    <2>. QED BY <1>2, <2>2, Zenon DEF Sim
  <1>5. CASE c = Backslash
    <2>1. c # Blank
      BY <1>5, CharacterKinds
    <2>2. End(EscapedLine(Append(s, c)))
            = Character(Character(Character(End(EscapedLine(s)), Backslash), Backslash), Backslash)
      BY <1>1, <1>5, EscapedLineNext, Zenon
    <2>3. End(EscapedLine(Append(s, c))) = At("word", "none", <<c>>, Key(ws), <<>>)
      BY <1>1, <1>5, <2>2, FirstBackslash, Zenon
    <2>. QED BY <1>4, <2>1, <2>3
  <1>6. CASE c \in Special /\ c # Backslash
    <2>1. c # Blank /\ c \notin White
      BY <1>6, CharacterKinds, QuoteKinds DEF Special
    <2>2. End(EscapedLine(Append(s, c))) = Character(Character(End(EscapedLine(s)), Backslash), c)
      BY <1>6, EscapedLineNext, Zenon
    <2>3. Character(Character(At("between", "none", <<>>, Key(ws), <<>>), Backslash), c)
            = At("word", "none", <<c>>, Key(ws), <<>>)
      BY <1>6, <2>1, FirstEscaped
    <2>4. End(EscapedLine(Append(s, c))) = At("word", "none", <<c>>, Key(ws), <<>>)
      BY <1>1, <2>2, <2>3, Zenon
    <2>. QED BY <1>4, <2>1, <2>4
  <1>7. CASE Plain(c)
    <2>1. c # Blank /\ c \notin Special
      BY <1>7, CharacterKinds DEF Plain, Special
    <2>2. End(EscapedLine(Append(s, c))) = Character(End(EscapedLine(s)), c)
      BY <2>1, EscapedLineNext, Zenon
    <2>3. Character(At("between", "none", <<>>, Key(ws), <<>>), c) = At("word", "none", <<c>>, Key(ws), <<>>)
      BY <1>7, PlainFirst
    <2>4. End(EscapedLine(Append(s, c))) = At("word", "none", <<c>>, Key(ws), <<>>)
      BY <1>1, <2>2, <2>3, Zenon
    <2>. QED BY <1>4, <2>1, <2>4
  <1>8. c = Blank \/ c = Backslash \/ (c \in Special /\ c # Backslash) \/ Plain(c)
    BY TypedCharacters, CharacterKinds DEF Special
  <1>. QED BY <1>3, <1>5, <1>6, <1>7, <1>8

(* The same, within a word.                                                *)
LEMMA SimFromWord ==
    ASSUME NEW s \in Seq(Chars), NEW ws \in Seq(Seq(Chars)), NEW w \in Seq(Chars),
           SimWord(s, ws, w), NEW c \in Chars
    PROVE  Sim(Append(s, c))
  <1>1. /\ End(EscapedLine(s)) = At("word", "none", w, Key(ws), <<>>)
        /\ End(s) = End(Join(Append(ws, w))) /\ ~Fresh(s)
    BY DEF SimWord
  <1>2. /\ <<>> \in Seq(Chars) /\ Append(w, c) \in Seq(Chars)
        /\ Append(ws, w) \in Seq(Seq(Chars))
    OBVIOUS
  <1>3. CASE c = Blank
    <2>1. End(EscapedLine(Append(s, c))) = At("between", "none", <<>>, Key(Append(ws, w)), <<>>)
      <3>1. c \notin Special
        BY <1>3, CharacterKinds, QuoteKinds DEF Special
      <3>2. End(EscapedLine(Append(s, c))) = Character(End(EscapedLine(s)), c)
        BY <3>1, EscapedLineNext, Zenon
      <3>3. Append(Key(ws), w) = Key(Append(ws, w))
        BY KeyGrows, Zenon
      <3>4. Character(At("word", "none", w, Key(ws), <<>>), Blank)
              = At("between", "none", <<>>, Append(Key(ws), w), <<>>)
        BY BlankInWord, ZenonT(40)
      <3>. QED BY <1>1, <1>3, <3>2, <3>3, <3>4, Zenon
    <2>2. End(Append(s, c)) = Character(End(Join(Append(ws, w))), Blank)
      BY <1>1, <1>3, EndNext, Zenon
    <2>3. SimBetween(Append(s, c), Append(ws, w))
      BY <1>3, <2>1, <2>2, FreshNext, Zenon DEF SimBetween
    <2>. QED BY <1>2, <2>3, Zenon DEF Sim
  <1>4. ASSUME c # Blank, End(EscapedLine(Append(s, c))) = At("word", "none", Append(w, c), Key(ws), <<>>)
        PROVE  Sim(Append(s, c))
    <2>1. End(Append(s, c)) = End(Join(Append(ws, Append(w, c))))
      BY <1>1, LongerWord, Zenon
    <2>2. SimWord(Append(s, c), ws, Append(w, c))
      BY <1>4, <2>1, FreshNext, Zenon DEF SimWord
    <2>. QED BY <1>2, <2>2, Zenon DEF Sim
  <1>5. CASE c \in Special
    <2>1. c # Blank /\ c \notin White
      BY <1>5, CharacterKinds, QuoteKinds DEF Special
    <2>2. End(EscapedLine(Append(s, c))) = Character(Character(End(EscapedLine(s)), Backslash), c)
      BY <1>1, <1>5, EscapedLineNext, Zenon
    <2>3. Character(Character(At("word", "none", w, Key(ws), <<>>), Backslash), c)
            = At("word", "none", Append(w, c), Key(ws), <<>>)
      BY <2>1, NextEscaped
    <2>4. End(EscapedLine(Append(s, c))) = At("word", "none", Append(w, c), Key(ws), <<>>)
      BY <1>1, <2>2, <2>3, Zenon
    <2>. QED BY <1>4, <2>1, <2>4
  <1>6. CASE Plain(c)
    <2>1. c # Blank /\ c \notin Special
      BY <1>6, CharacterKinds DEF Plain, Special
    <2>2. End(EscapedLine(Append(s, c))) = Character(End(EscapedLine(s)), c)
      BY <2>1, EscapedLineNext, Zenon
    <2>3. Character(At("word", "none", w, Key(ws), <<>>), c)
            = At("word", "none", Append(w, c), Key(ws), <<>>)
      BY <1>6, PlainAppends
    <2>4. End(EscapedLine(Append(s, c))) = At("word", "none", Append(w, c), Key(ws), <<>>)
      BY <1>1, <2>2, <2>3, Zenon
    <2>. QED BY <1>4, <2>1, <2>4
  <1>7. c = Blank \/ c \in Special \/ Plain(c)
    BY TypedCharacters, CharacterKinds DEF Special
  <1>. QED BY <1>3, <1>5, <1>6, <1>7

(* So after every text.                                                    *)
LEMMA SimAlways ==
    ASSUME NEW s \in Seq(Chars), PairsKept(s)
    PROVE  Sim(s)
  <1>. DEFINE T == {t \in Seq(Chars) : PairsKept(t) => Sim(t)}
  <1>1. <<>> \in T
    <2>1. <<>> \in Seq(Chars)
      OBVIOUS
    <2>. QED BY <2>1, SimEmpty
  <1>2. ASSUME NEW t \in Seq(Chars), NEW c \in Chars, t \in T PROVE Append(t, c) \in T
    <2>1. Append(t, c) \in Seq(Chars)
      OBVIOUS
    <2>2. ASSUME PairsKept(Append(t, c)) PROVE Sim(Append(t, c))
      <3>1. PairsKept(t)
        BY <2>2, PairsKeptNext
      <3>2. PICK ws \in Seq(Seq(Chars)), w \in Seq(Chars) : SimBetween(t, ws) \/ SimWord(t, ws, w)
        BY <1>2, <3>1 DEF Sim
      <3>. QED BY <2>2, <3>2, SimFromBetween, SimFromWord
    <2>. QED BY <2>1, <2>2
  <1>. HIDE DEF T
  <1>3. s \in T
    BY <1>1, <1>2, SeqInduction, Zenon
  <1>. QED BY <1>3 DEF T

(* So a text with its special characters escaped is one command, whose     *)
(* words run the commands of the text.                                     *)
LEMMA EscapedRuns ==
    ASSUME NEW s \in Seq(Chars), BlanksKept(s)
    PROVE  RunsAs(WithEscapes(s), s)
  <1>0. PICK line : line = parseClientCommand(EscapedLine(s))
    OBVIOUS
  <1>1. \A t : parseClientCommand(t) = Finished(End(t))
    BY Zenon DEF parseClientCommand
  <1>2. PairsKept(s) /\ (Fresh(s) => End(s).mode # "string")
    <2>1. /\ Len(s) \in Nat /\ DOMAIN s = 1..Len(s)
          /\ s # <<>> => Len(s) \in 1..Len(s)
      BY EmptySeq
    <2>2. \A i \in 1..Len(s) : s[i] = Blank /\ Reads(s)[i].mode = "string" => i < Len(s) /\ s[i + 1] # Blank
      BY <2>1 DEF BlanksKept
    <2>3. PairsKept(s)
      BY <2>1, <2>2 DEF PairsKept
    <2>4. CASE s = <<>>
      <3>1. Between.mode = "between"
        BY DEF Between
      <3>. QED BY <2>3, <2>4, <3>1, EmptyText
    <2>5. CASE s # <<>>
      <3>1. s[Len(s)] = Blank => Reads(s)[Len(s)].mode # "string"
        BY <2>1, <2>2, <2>5
      <3>. QED BY <2>3, <2>5, <3>1 DEF Fresh, End
    <2>. QED BY <2>4, <2>5
  <1>3. PICK ws \in Seq(Seq(Chars)), w \in Seq(Chars) : SimBetween(s, ws) \/ SimWord(s, ws, w)
    BY <1>2, SimAlways DEF Sim
  <1>4. ASSUME NEW us \in Seq(Seq(Chars)),
               line = Finished(At("between", "none", <<>>, Key(us), <<>>)),
               Finished(End(s)) = Finished(End(Join(us)))
        PROVE  Len(line) = 1 /\ parseClientCommand(Join(Tail(line[1]))) = parseClientCommand(s)
    <2>1. Key(us) # <<>> /\ Tail(Key(us)) = us
      BY KeyTail
    <2>2. line = <<Key(us)>>
      BY <1>4, <2>1, FinishedOne, Zenon
    <2>3. Len(line) = 1 /\ line[1] = Key(us)
      BY <2>2
    <2>. QED BY <1>1, <1>4, <2>1, <2>3, Zenon
  <1>5. CASE SimBetween(s, ws)
    <2>1. /\ End(EscapedLine(s)) = At("between", "none", <<>>, Key(ws), <<>>)
          /\ End(s) = Character(End(Join(ws)), Blank) /\ Fresh(s)
      BY <1>5 DEF SimBetween
    <2>2. Finished(End(s)) = Finished(End(Join(ws)))
      <3>1. PICK j \in Seq(Chars) : j = Join(ws)
        BY JoinType
      <3>2. State(End(j))
        BY StateEnd
      <3>3. End(s).mode # "string" /\ End(s) = Character(End(j), Blank)
        BY <1>2, <2>1, <3>1
      <3>4. Finished(End(s)) = Finished(End(j))
        BY <3>2, <3>3, Blanks
      <3>. QED BY <3>1, <3>4, Zenon
    <2>3. line = Finished(At("between", "none", <<>>, Key(ws), <<>>))
      BY <1>0, <1>1, <2>1, Zenon
    <2>4. Len(line) = 1 /\ parseClientCommand(Join(Tail(line[1]))) = parseClientCommand(s)
      BY <1>4, <2>2, <2>3
    <2>. QED BY <1>0, <2>4, Zenon DEF RunsAs, EscapedLine
  <1>6. CASE SimWord(s, ws, w)
    <2>1. /\ End(EscapedLine(s)) = At("word", "none", w, Key(ws), <<>>)
          /\ End(s) = End(Join(Append(ws, w)))
      BY <1>6 DEF SimWord
    <2>2. Append(ws, w) \in Seq(Seq(Chars))
      OBVIOUS
    <2>3. Append(Key(ws), w) = Key(Append(ws, w))
      BY KeyGrows, Zenon
    <2>4. Finished(At("word", "none", w, Key(ws), <<>>))
            = Finished(At("between", "none", <<>>, Append(Key(ws), w), <<>>))
      BY FinishedWord, Zenon
    <2>5. line = Finished(At("between", "none", <<>>, Key(Append(ws, w)), <<>>))
      BY <1>0, <1>1, <2>1, <2>3, <2>4, Zenon
    <2>6. Finished(End(s)) = Finished(End(Join(Append(ws, w))))
      BY <2>1, Zenon
    <2>7. Len(line) = 1 /\ parseClientCommand(Join(Tail(line[1]))) = parseClientCommand(s)
      BY <1>4, <2>2, <2>5, <2>6
    <2>. QED BY <1>0, <2>7, Zenon DEF RunsAs, EscapedLine
  <1>. QED BY <1>3, <1>5, <1>6

-----------------------------------------------------------------------------
(* A text in quotes, its backslashes doubled, after the name of a command. *)

QuotedText(s)    == FlattenSeq([i \in DOMAIN s |-> Doubled(s[i])])
QuotedLine(s, q) == <<"k", Blank>> \o (<<q>> \o QuotedText(s))

(* Without a text.                                                         *)
LEMMA QuotedTextEmpty == QuotedText(<<>>) = <<>>
  <1>1. [i \in DOMAIN <<>> |-> Doubled(<<>>[i])] = <<>>
    OBVIOUS
  <1>. QED BY <1>1, EmptyText, Zenon DEF QuotedText

(* One more character.                                                     *)
LEMMA QuotedTextNext ==
    ASSUME NEW s \in Seq(Chars), NEW c \in Chars
    PROVE  Doubled(c) \in Seq(Chars) /\ QuotedText(Append(s, c)) = QuotedText(s) \o Doubled(c)
  <1>1. PICK t \in Seq(Chars) : t = Append(s, c)
    <2>1. Append(s, c) \in Seq(Chars)
      OBVIOUS
    <2>. QED BY <2>1, Zenon
  <1>2. /\ Len(t) = Len(s) + 1 /\ Len(s) \in Nat /\ t[Len(s) + 1] = c
        /\ \A i \in 1..Len(s) : t[i] = s[i]
        /\ DOMAIN s = 1..Len(s) /\ DOMAIN t = 1..(Len(s) + 1)
        /\ \A i \in 1..(Len(s) + 1) : t[i] \in Chars
    BY <1>1
  <1>3. ASSUME NEW d \in Chars PROVE Doubled(d) \in Seq(Chars)
    <2>1. <<d>> \in Seq(Chars) /\ <<Backslash, Backslash>> \in Seq(Chars)
      BY TypedCharacters
    <2>. QED BY <2>1, Zenon DEF Doubled
  <1>4. PICK F : F = [i \in 1..(Len(s) + 1) |-> Doubled(t[i])]
    OBVIOUS
  <1>5. \A i \in 1..(Len(s) + 1) : F[i] = Doubled(t[i]) /\ F[i] \in Seq(Chars)
    BY <1>2, <1>3, <1>4
  <1>6. /\ [i \in DOMAIN s |-> F[i]] \in Seq(Seq(Chars))
        /\ [i \in DOMAIN t |-> F[i]] = Append([i \in DOMAIN s |-> F[i]], F[Len(s) + 1])
    <2>1. \A i \in 1..(Len(s) + 1) : F[i] \in Seq(Chars)
      BY <1>5
    <2>. QED BY <1>1, <2>1, MapNext, SMTT(30)
  <1>7. [i \in DOMAIN s |-> F[i]] = [i \in DOMAIN s |-> Doubled(s[i])]
    <2>1. ASSUME NEW i \in DOMAIN s PROVE F[i] = Doubled(s[i])
      <3>1. i \in 1..(Len(s) + 1) /\ t[i] = s[i]
        BY <1>2
      <3>. QED BY <1>5, <3>1
    <2>. QED BY <2>1
  <1>8. [i \in DOMAIN t |-> F[i]] = [i \in DOMAIN t |-> Doubled(t[i])]
    BY <1>2, <1>5
  <1>9. F[Len(s) + 1] = Doubled(c)
    BY <1>2, <1>5
  <1>10. PICK u \in Seq(Seq(Chars)) : u = [i \in DOMAIN s |-> Doubled(s[i])]
    BY <1>6, <1>7
  <1>11. [i \in DOMAIN t |-> Doubled(t[i])] = Append(u, Doubled(c))
    BY <1>6, <1>7, <1>8, <1>9, <1>10, Zenon
  <1>12. FlattenSeq(Append(u, Doubled(c))) = FlattenSeq(u) \o Doubled(c)
    BY <1>3, FlattenNext, Zenon
  <1>. QED BY <1>1, <1>3, <1>10, <1>11, <1>12, Zenon DEF QuotedText

(* A text.                                                                 *)
LEMMA QuotedType ==
    ASSUME NEW s \in Seq(Chars)
    PROVE  QuotedText(s) \in Seq(Letters)
  <1>. DEFINE T == {t \in Seq(Chars) : QuotedText(t) \in Seq(Chars)}
  <1>1. <<>> \in T
    <2>1. <<>> \in Seq(Chars)
      OBVIOUS
    <2>. QED BY <2>1, QuotedTextEmpty
  <1>2. ASSUME NEW t \in Seq(Chars), NEW c \in Chars, t \in T PROVE Append(t, c) \in T
    <2>1. Append(t, c) \in Seq(Chars)
      OBVIOUS
    <2>2. PICK e \in Seq(Chars) : e = Doubled(c)
      BY QuotedTextNext
    <2>3. PICK u \in Seq(Chars) : u = QuotedText(t)
      BY <1>2
    <2>4. QuotedText(Append(t, c)) = u \o e
      BY <2>2, <2>3, QuotedTextNext, Zenon
    <2>5. u \o e \in Seq(Chars)
      OBVIOUS
    <2>. QED BY <2>1, <2>4, <2>5
  <1>. HIDE DEF T
  <1>3. s \in T
    BY <1>1, <1>2, SeqInduction, Zenon
  <1>4. \A t \in Seq(Chars) : t \in Seq(Letters)
    BY DEF Letters
  <1>. QED BY <1>3, <1>4 DEF T

(* The quoted line, character by character, and with its last quote.       *)
LEMMA QuotedLineNext ==
    ASSUME NEW s \in Seq(Chars), NEW q \in Quotes
    PROVE  /\ \A c \in Chars :
                /\ c # Backslash => End(QuotedLine(Append(s, c), q)) = Character(End(QuotedLine(s, q)), c)
                /\ c = Backslash => End(QuotedLine(Append(s, c), q))
                                      = Character(Character(End(QuotedLine(s, q)), c), c)
           /\ End(<<"k", Blank>> \o Quoted(s, q)) = Character(End(QuotedLine(s, q)), q)
  <1>1. PICK u \in Seq(Letters) : u = QuotedText(s)
    BY QuotedType
  <1>2. q \in Letters /\ Blank \in Letters /\ Backslash \in Letters /\ \A c \in Chars : c \in Letters
    BY TypedCharacters DEF Letters
  <1>3. PICK h \in Seq(Letters) : h = <<"k", Blank>>
    BY KeyLine
  <1>4. PICK k \in Seq(Letters) : k = QuotedLine(s, q)
    <2>1. h \o (<<q>> \o u) \in Seq(Letters)
      BY <1>2
    <2>. QED BY <1>1, <1>3, <2>1, Zenon DEF QuotedLine
  <1>5. k = h \o (<<q>> \o u)
    BY <1>1, <1>3, <1>4, Zenon DEF QuotedLine
  <1>6. \A v \in Seq(Letters), d \in Letters : Append(v, d) \in Seq(Letters)
                                             /\ End(Append(v, d)) = Character(End(v), d)
    <2>1. \A v \in Seq(Letters), d \in Letters : Append(v, d) \in Seq(Letters)
      OBVIOUS
    <2>2. \A v \in Seq(Letters), d \in Letters : End(Append(v, d)) = Character(End(v), d)
      BY EndNext, Zenon
    <2>. QED BY <2>1, <2>2
  <1>7. ASSUME NEW c \in Chars, c # Backslash
        PROVE  End(QuotedLine(Append(s, c), q)) = Character(End(QuotedLine(s, q)), c)
    <2>1. QuotedText(Append(s, c)) = u \o <<c>>
      BY <1>1, <1>7, QuotedTextNext, Zenon DEF Doubled
    <2>2. h \o (<<q>> \o (u \o <<c>>)) = Append(h \o (<<q>> \o u), c)
      BY <1>2
    <2>3. QuotedLine(Append(s, c), q) = Append(k, c)
      BY <1>3, <1>5, <2>1, <2>2, Zenon DEF QuotedLine
    <2>. QED BY <1>2, <1>4, <1>6, <2>3
  <1>8. ASSUME NEW c \in Chars, c = Backslash
        PROVE  End(QuotedLine(Append(s, c), q)) = Character(Character(End(QuotedLine(s, q)), c), c)
    <2>1. QuotedText(Append(s, c)) = u \o <<c, c>>
      BY <1>1, <1>8, QuotedTextNext, Zenon DEF Doubled
    <2>2. PICK v \in Seq(Letters) : v = <<q>> \o u
      <3>1. <<q>> \o u \in Seq(Letters)
        BY <1>2
      <3>. QED BY <3>1, Zenon
    <2>3. c \in Letters
      BY <1>2
    <2>4. <<q>> \o (u \o <<c, c>>) = v \o <<c, c>>
      BY <1>2, <2>2, <2>3
    <2>5. h \o (v \o <<c, c>>) = Append(Append(h \o v, c), c)
      BY <2>3, SMTT(30)
    <2>6. QuotedLine(Append(s, c), q) = Append(Append(k, c), c)
      BY <1>3, <1>5, <2>1, <2>2, <2>4, <2>5, Zenon DEF QuotedLine
    <2>7. End(Append(Append(k, c), c)) = Character(Character(End(k), c), c)
      BY <1>6, <2>3, Zenon
    <2>. QED BY <1>4, <2>6, <2>7
  <1>9. End(<<"k", Blank>> \o Quoted(s, q)) = Character(End(QuotedLine(s, q)), q)
    <2>1. h \o ((<<q>> \o u) \o <<q>>) = Append(h \o (<<q>> \o u), q)
      BY <1>2
    <2>2. <<"k", Blank>> \o Quoted(s, q) = Append(k, q)
      BY <1>1, <1>3, <1>5, <2>1, Zenon DEF Quoted, QuotedText
    <2>. QED BY <1>2, <1>4, <1>6, <2>2
  <1>. QED BY <1>7, <1>8, <1>9

(* All of the text is one word.                                            *)
LEMMA QuotedAlways ==
    ASSUME NEW s \in Seq(Chars), NEW q \in Quotes, q \notin Range(s)
    PROVE  End(QuotedLine(s, q)) = At("string", q, s, Key(<<>>), <<>>)
  <1>. DEFINE T == {t \in Seq(Chars) : q \notin Range(t) =>
                                       End(QuotedLine(t, q)) = At("string", q, t, Key(<<>>), <<>>)}
  <1>1. <<>> \in T
    <2>1. <<>> \in Seq(Chars) /\ q \in Letters
      BY TypedCharacters DEF Letters
    <2>2. <<"k", Blank>> \o (<<q>> \o <<>>) = Append(<<"k", Blank>>, q)
      BY <2>1
    <2>3. QuotedLine(<<>>, q) = Append(<<"k", Blank>>, q)
      BY <2>2, QuotedTextEmpty, Zenon DEF QuotedLine
    <2>4. End(Append(<<"k", Blank>>, q)) = Character(End(<<"k", Blank>>), q)
      BY <2>1, KeyLine, EndNext, Zenon
    <2>5. Character(At("between", "none", <<>>, Key(<<>>), <<>>), q) = At("string", q, <<>>, Key(<<>>), <<>>)
      BY QuoteBetween
    <2>6. End(QuotedLine(<<>>, q)) = At("string", q, <<>>, Key(<<>>), <<>>)
      BY <2>3, <2>4, <2>5, KeyLine, Zenon
    <2>. QED BY <2>1, <2>6
  <1>2. ASSUME NEW t \in Seq(Chars), NEW c \in Chars, t \in T PROVE Append(t, c) \in T
    <2>1. Append(t, c) \in Seq(Chars)
      OBVIOUS
    <2>2. ASSUME q \notin Range(Append(t, c))
          PROVE  End(QuotedLine(Append(t, c), q)) = At("string", q, Append(t, c), Key(<<>>), <<>>)
      <3>1. q \notin Range(t) /\ c # q
        <4>1. PICK u : u = Append(t, c)
          OBVIOUS
        <4>2. /\ DOMAIN u = 1..(Len(t) + 1) /\ u[Len(t) + 1] = c /\ Len(t) \in Nat
              /\ DOMAIN t = 1..Len(t) /\ \A i \in 1..Len(t) : u[i] = t[i]
          BY <4>1
        <4>3. \A i \in DOMAIN u : u[i] # q
          BY <2>2, <4>1 DEF Range
        <4>. QED BY <4>2, <4>3 DEF Range
      <3>2. End(QuotedLine(t, q)) = At("string", q, t, Key(<<>>), <<>>)
        BY <1>2, <3>1
      <3>3. t \o <<c>> = Append(t, c)
        OBVIOUS
      <3>4. CASE c = Backslash
        <4>1. End(QuotedLine(Append(t, c), q)) = Character(Character(End(QuotedLine(t, q)), c), c)
          BY <3>4, QuotedLineNext
        <4>2. Character(Character(At("string", q, t, Key(<<>>), <<>>), Backslash), Backslash)
                = At("string", q, t \o <<Backslash>>, Key(<<>>), <<>>)
          BY BackslashesInString
        <4>. QED BY <3>2, <3>3, <3>4, <4>1, <4>2, Zenon
      <3>5. CASE c # Backslash
        <4>1. End(QuotedLine(Append(t, c), q)) = Character(End(QuotedLine(t, q)), c)
          BY <3>5, QuotedLineNext
        <4>2. Character(At("string", q, t, Key(<<>>), <<>>), c)
                = At("string", q, t \o <<c>>, Key(<<>>), <<>>)
          BY <3>1, <3>5, OtherInString
        <4>. QED BY <3>2, <3>3, <4>1, <4>2, Zenon
      <3>. QED BY <3>4, <3>5
    <2>. QED BY <2>1, <2>2
  <1>. HIDE DEF T
  <1>3. s \in T
    BY <1>1, <1>2, SeqInduction, Zenon
  <1>. QED BY <1>3 DEF T

(* It is one command as well, and its second word is the text.             *)
LEMMA QuotedRuns ==
    ASSUME NEW s \in Seq(Chars), NEW q \in Quotes, q \notin Range(s)
    PROVE  RunsAs(Quoted(s, q), s)
  <1>0. PICK line : line = parseClientCommand(<<"k", Blank>> \o Quoted(s, q))
    OBVIOUS
  <1>1. \A t : parseClientCommand(t) = Finished(End(t))
    BY Zenon DEF parseClientCommand
  <1>2. End(<<"k", Blank>> \o Quoted(s, q)) = At("between", "none", <<>>, Append(Key(<<>>), s), <<>>)
    <2>1. End(<<"k", Blank>> \o Quoted(s, q)) = Character(End(QuotedLine(s, q)), q)
      BY QuotedLineNext
    <2>2. End(QuotedLine(s, q)) = At("string", q, s, Key(<<>>), <<>>)
      BY QuotedAlways
    <2>3. Character(At("string", q, s, Key(<<>>), <<>>), q)
            = At("between", "none", <<>>, Append(Key(<<>>), s), <<>>)
      BY Unquotes
    <2>. QED BY <2>1, <2>2, <2>3, Zenon
  <1>3. Append(Key(<<>>), s) = Key(<<s>>) /\ Key(<<s>>) # <<>> /\ Tail(Key(<<s>>)) = <<s>>
    <2>1. <<>> \in Seq(Seq(Chars)) /\ <<s>> \in Seq(Seq(Chars)) /\ Append(<<>>, s) = <<s>>
      OBVIOUS
    <2>. QED BY <2>1, KeyGrows, KeyTail, Zenon
  <1>4. Finished(At("between", "none", <<>>, Key(<<s>>), <<>>)) = <<Key(<<s>>)>>
    BY <1>3, FinishedOne, Zenon
  <1>5. line = <<Key(<<s>>)>>
    BY <1>0, <1>1, <1>2, <1>3, <1>4, Zenon
  <1>6. Len(line) = 1 /\ line[1] = Key(<<s>>)
    BY <1>5
  <1>7. Join(<<s>>) = s
    <2>1. <<>> \in Seq(Seq(Chars)) /\ Append(<<>>, s) = <<s>>
      OBVIOUS
    <2>2. Join(Append(<<>>, s)) = WithWord(Join(<<>>), s)
      BY <2>1, JoinNext, Zenon
    <2>. QED BY <2>1, <2>2, EmptyText, Zenon DEF WithWord
  <1>. QED BY <1>0, <1>3, <1>6, <1>7, Zenon DEF RunsAs

-----------------------------------------------------------------------------
(* A sourced file.  The white space that a line begins with is skipped.    *)

AllWhite(s)      == \A i \in 1..Len(s) : s[i] \in White
FirstBlack(s, i) == i \in 1..Len(s) /\ s[i] \notin White /\ \A k \in 1..(i - 1) : s[k] \in White

(* A text is white, or has a first character that is not.                  *)
LEMMA BlackOrWhite ==
    ASSUME NEW s \in Seq(Chars)
    PROVE  AllWhite(s) \/ \E i \in 1..Len(s) : FirstBlack(s, i)
  <1>. DEFINE T == {t \in Seq(Chars) : AllWhite(t) \/ \E i \in 1..Len(t) : FirstBlack(t, i)}
  <1>1. <<>> \in T
    BY DEF AllWhite
  <1>2. ASSUME NEW t \in Seq(Chars), NEW c \in Chars, t \in T PROVE Append(t, c) \in T
    <2>1. PICK u : u = Append(t, c)
      OBVIOUS
    <2>2. /\ u \in Seq(Chars) /\ Len(u) = Len(t) + 1 /\ Len(t) \in Nat /\ u[Len(u)] = c
          /\ \A i \in 1..Len(t) : u[i] = t[i]
      BY <2>1
    <2>3. CASE AllWhite(t) /\ c \in White
      <3>1. AllWhite(u)
        BY <2>2, <2>3 DEF AllWhite
      <3>. QED BY <2>1, <2>2, <3>1
    <2>4. CASE AllWhite(t) /\ c \notin White
      <3>1. FirstBlack(u, Len(u)) /\ Len(u) \in 1..Len(u)
        BY <2>2, <2>4 DEF AllWhite, FirstBlack
      <3>. QED BY <2>1, <2>2, <3>1
    <2>5. CASE \E i \in 1..Len(t) : FirstBlack(t, i)
      <3>1. PICK i \in 1..Len(t) : FirstBlack(t, i)
        BY <2>5
      <3>2. FirstBlack(u, i) /\ i \in 1..Len(u)
        BY <2>2, <3>1 DEF FirstBlack
      <3>. QED BY <2>1, <2>2, <3>2
    <2>. QED BY <1>2, <2>3, <2>4, <2>5
  <1>. HIDE DEF T
  <1>3. s \in T
    BY <1>1, <1>2, SeqInduction, Zenon
  <1>. QED BY <1>3 DEF T

(* Skipping ends there.                                                    *)
LEMMA SkipWhite ==
    ASSUME NEW s \in Seq(Chars)
    PROVE  /\ AllWhite(s) => Skip(s, White) = <<>>
           /\ \A i \in 1..Len(s) : FirstBlack(s, i) => Skip(s, White) = SubSeq(s, i, Len(s))
  <1>. DEFINE I == {i \in 1..Len(s) : s[i] \notin White}
              first == IF I # {} THEN Min(I) ELSE 0
  <1>1. Skip(s, White) = IF first = 0 THEN <<>> ELSE SubSeq(s, first, Len(s))
    BY Zenon DEF Skip, SelectInSeq
  <1>2. AllWhite(s) => I = {}
    BY DEF AllWhite
  <1>3. ASSUME NEW i \in 1..Len(s), FirstBlack(s, i) PROVE first = i /\ i # 0
    <2>1. i \in I /\ \A y \in I : i =< y
      BY <1>3 DEF FirstBlack
    <2>2. \A x \in I : (\A y \in I : x =< y) => x = i
      BY <2>1
    <2>. HIDE DEF I
    <2>3. Min(I) = i
      BY <2>1, <2>2, Zenon DEF Min
    <2>. QED BY <2>1, <2>3
  <1>. HIDE DEF I
  <1>. QED BY <1>1, <1>2, <1>3

(* Of what is typed, the blank is white.                                   *)
LEMMA WhiteOfChars == \A c \in Chars : c \in White <=> c = Blank
  BY TypedCharacters, CharacterKinds

(* What is left of a line and one more character.                          *)
LEMMA SkipType ==
    ASSUME NEW s \in Seq(Chars)
    PROVE  Skip(s, White) \in Seq(Chars)
  <1>1. CASE AllWhite(s)
    <2>1. <<>> \in Seq(Chars)
      OBVIOUS
    <2>. QED BY <1>1, <2>1, SkipWhite
  <1>2. CASE \E i \in 1..Len(s) : FirstBlack(s, i)
    <2>1. PICK i \in 1..Len(s) : FirstBlack(s, i)
      BY <1>2
    <2>2. SubSeq(s, i, Len(s)) \in Seq(Chars)
      <3>1. i \in Int /\ Len(s) \in Int /\ i >= 1
        OBVIOUS
      <3>2. ASSUME NEW k \in i..Len(s) PROVE s[k] \in Chars
        <4>1. k \in 1..Len(s)
          BY <3>1
        <4>. QED BY <4>1, ElementOfSeq
      <3>. QED BY <3>1, <3>2, SubSeqProperties
    <2>. QED BY <2>1, <2>2, SkipWhite
  <1>. QED BY <1>1, <1>2, BlackOrWhite

(* The same, for one more character.                                       *)
LEMMA SkipNext ==
    ASSUME NEW s \in Seq(Chars), NEW c \in Chars
    PROVE  /\ (Skip(s, White) = <<>> /\ c = Blank) => Skip(Append(s, c), White) = <<>>
           /\ (Skip(s, White) = <<>> /\ c # Blank) => Skip(Append(s, c), White) = <<c>>
           /\ Skip(s, White) # <<>> => Skip(Append(s, c), White) = Append(Skip(s, White), c)
  <1>1. PICK t \in Seq(Chars) : t = Append(s, c)
    <2>1. Append(s, c) \in Seq(Chars)
      OBVIOUS
    <2>. QED BY <2>1, Zenon
  <1>2. /\ Len(t) = Len(s) + 1 /\ Len(s) \in Nat /\ Len(t) \in 1..Len(t) /\ t[Len(t)] = c
        /\ \A i \in 1..Len(s) : t[i] = s[i] /\ i \in 1..Len(t)
    BY <1>1
  <1>3. CASE AllWhite(s)
    <2>1. Skip(s, White) = <<>>
      BY <1>3, SkipWhite
    <2>2. CASE c = Blank
      <3>1. AllWhite(t)
        BY <1>2, <1>3, <2>2, CharacterKinds DEF AllWhite
      <3>2. Skip(t, White) = <<>>
        BY <3>1, SkipWhite
      <3>. QED BY <1>1, <2>1, <2>2, <3>2
    <2>3. CASE c # Blank
      <3>1. FirstBlack(t, Len(t))
        BY <1>2, <1>3, <2>3, WhiteOfChars DEF AllWhite, FirstBlack
      <3>2. Skip(t, White) = SubSeq(t, Len(t), Len(t))
        BY <1>2, <3>1, SkipWhite
      <3>3. SubSeq(t, Len(t), Len(t)) = <<c>>
        <4>1. PICK n : n = Len(t)
          OBVIOUS
        <4>2. n \in Int /\ n \in Nat /\ \A k \in n..n : t[k] \in Chars
          BY <1>2, <4>1
        <4>3. /\ SubSeq(t, n, n) \in Seq(Chars) /\ Len(SubSeq(t, n, n)) = 1
              /\ SubSeq(t, n, n)[1] = t[n]
          BY <4>2, SubSeqProperties
        <4>4. PICK u \in Seq(Chars) : u = SubSeq(t, n, n)
          BY <4>3
        <4>5. Len(u) = 1 /\ u[1] = c
          BY <1>2, <4>1, <4>3, <4>4
        <4>6. u = <<c>>
          BY <4>5
        <4>. QED BY <4>1, <4>4, <4>6
      <3>. QED BY <1>1, <2>1, <2>3, <3>2, <3>3
    <2>. QED BY <2>2, <2>3
  <1>4. CASE \E i \in 1..Len(s) : FirstBlack(s, i)
    <2>1. PICK i \in 1..Len(s) : FirstBlack(s, i)
      BY <1>4
    <2>2. FirstBlack(t, i) /\ i \in 1..Len(t)
      BY <1>2, <2>1 DEF FirstBlack
    <2>3. Skip(s, White) = SubSeq(s, i, Len(s)) /\ Skip(t, White) = SubSeq(t, i, Len(t))
      BY <2>1, <2>2, SkipWhite
    <2>4. SubSeq(s, i, Len(s)) # <<>>
      BY <1>2
    <2>5. SubSeq(t, i, Len(t)) = Append(SubSeq(s, i, Len(s)), c)
      BY <1>1, <1>2
    <2>. QED BY <1>1, <2>3, <2>4, <2>5
  <1>. QED BY <1>3, <1>4, BlackOrWhite

(* It is read as the whole line is.                                        *)
LEMMA SkippedReads ==
    ASSUME NEW s \in Seq(Chars)
    PROVE  End(Skip(s, White)) = End(s)
  <1>. DEFINE T == {t \in Seq(Chars) : End(Skip(t, White)) = End(t)}
  <1>1. <<>> \in T
    <2>1. <<>> \in Seq(Chars) /\ AllWhite(<<>>)
      BY DEF AllWhite
    <2>. QED BY <2>1, SkipWhite
  <1>2. ASSUME NEW t \in Seq(Chars), NEW c \in Chars, t \in T PROVE Append(t, c) \in T
    <2>1. Append(t, c) \in Seq(Chars) /\ <<>> \in Seq(Chars) /\ <<c>> = Append(<<>>, c)
      OBVIOUS
    <2>2. PICK k \in Seq(Chars) : k = Skip(t, White)
      BY SkipType
    <2>3. End(k) = End(t) /\ End(Append(t, c)) = Character(End(t), c)
      BY <1>2, <2>2, EndNext
    <2>4. CASE k = <<>> /\ c = Blank
      <3>1. Character(Between, Blank) = Between
        BY BetweenIsState, BlankBetween, Zenon
      <3>2. Skip(Append(t, c), White) = k
        BY <2>2, <2>4, SkipNext
      <3>. QED BY <2>1, <2>3, <2>4, <3>1, <3>2, EmptyText
    <2>5. CASE k = <<>> /\ c # Blank
      <3>1. Skip(Append(t, c), White) = Append(k, c)
        BY <2>1, <2>2, <2>5, SkipNext
      <3>2. End(Append(k, c)) = Character(End(k), c)
        BY EndNext, Zenon
      <3>. QED BY <2>1, <2>3, <3>1, <3>2
    <2>6. CASE k # <<>>
      <3>1. Skip(Append(t, c), White) = Append(k, c)
        BY <2>2, <2>6, SkipNext
      <3>2. End(Append(k, c)) = Character(End(k), c)
        BY EndNext, Zenon
      <3>. QED BY <2>1, <2>3, <3>1, <3>2
    <2>. QED BY <2>4, <2>5, <2>6
  <1>. HIDE DEF T
  <1>3. s \in T
    BY <1>1, <1>2, SeqInduction, Zenon
  <1>. QED BY <1>3 DEF T

(* A line is a comment when its first character that is not a blank is a   *)
(* hash.                                                                   *)
Commented(s) == Skip(s, White) # <<>> /\ Head(Skip(s, White)) = Hash

(* Where the hash is.                                                      *)
LEMMA CommentedWhere ==
    ASSUME NEW s \in Seq(Chars)
    PROVE  Commented(s) <=> \E j \in 1..Len(s) : s[j] = Hash /\ \A k \in 1..(j - 1) : s[k] = Blank
  <1>1. \A i \in 1..Len(s) : s[i] \in White <=> s[i] = Blank
    BY WhiteOfChars
  <1>2. Hash # Blank /\ Len(s) \in Nat
    BY CharacterKinds
  <1>3. CASE AllWhite(s)
    <2>1. ~Commented(s)
      BY <1>3, SkipWhite DEF Commented
    <2>2. \A j \in 1..Len(s) : s[j] # Hash
      BY <1>1, <1>2, <1>3 DEF AllWhite
    <2>. QED BY <2>1, <2>2
  <1>4. CASE \E i \in 1..Len(s) : FirstBlack(s, i)
    <2>1. PICK i \in 1..Len(s) : FirstBlack(s, i)
      BY <1>4
    <2>2. Skip(s, White) = SubSeq(s, i, Len(s))
      BY <2>1, SkipWhite
    <2>3. SubSeq(s, i, Len(s)) # <<>> /\ Head(SubSeq(s, i, Len(s))) = s[i]
      OBVIOUS
    <2>4. Commented(s) <=> s[i] = Hash
      BY <2>2, <2>3, Zenon DEF Commented
    <2>5. ASSUME NEW j \in 1..Len(s), s[j] = Hash, \A k \in 1..(j - 1) : s[k] = Blank
          PROVE  j = i
      <3>1. s[i] # Blank /\ \A k \in 1..(i - 1) : s[k] = Blank
        BY <1>1, <2>1 DEF FirstBlack
      <3>2. ~(i < j) /\ ~(j < i)
        BY <1>2, <2>5, <3>1
      <3>. QED BY <3>2
    <2>6. \A k \in 1..(i - 1) : s[k] = Blank
      BY <1>1, <2>1 DEF FirstBlack
    <2>. QED BY <2>4, <2>5, <2>6
  <1>. QED BY <1>3, <1>4, BlackOrWhite

(* What is left of a comment is a hash and more.                           *)
LEMMA CommentedNext ==
    ASSUME NEW s \in Seq(Chars), NEW c \in Chars
    PROVE  Commented(Append(s, c)) <=> (Commented(s) \/ (Skip(s, White) = <<>> /\ c = Hash))
  <1>1. PICK k \in Seq(Chars) : k = Skip(s, White)
    BY SkipType
  <1>2. Hash # Blank
    BY CharacterKinds
  <1>3. CASE k = <<>> /\ c = Blank
    <2>1. Skip(Append(s, c), White) = k
      BY <1>1, <1>3, SkipNext
    <2>. QED BY <1>1, <1>2, <1>3, <2>1 DEF Commented
  <1>4. CASE k = <<>> /\ c # Blank
    <2>1. Skip(Append(s, c), White) = <<c>>
      BY <1>1, <1>4, SkipNext
    <2>2. <<c>> # <<>> /\ Head(<<c>>) = c
      OBVIOUS
    <2>. QED BY <1>1, <1>4, <2>1, <2>2, Zenon DEF Commented
  <1>5. CASE k # <<>>
    <2>1. Skip(Append(s, c), White) = Append(k, c)
      BY <1>1, <1>5, SkipNext
    <2>2. Append(k, c) # <<>> /\ Head(Append(k, c)) = Head(k)
      BY <1>5
    <2>. QED BY <1>1, <1>5, <2>1, <2>2, Zenon DEF Commented
  <1>. QED BY <1>3, <1>4, <1>5

-----------------------------------------------------------------------------
(* The commands of earlier lines before what the cursor is in.             *)
With(done, x) == At(x.mode, x.quote, x.word, x.args, done \o x.commands)

(* Earlier commands, and one more.                                         *)
LEMMA DoneGrows ==
    ASSUME NEW done \in Done, NEW cs \in Done, NEW a \in Seq(Seq(Glyphs))
    PROVE  /\ Append(cs, a) \in Done /\ Append(done \o cs, a) = done \o Append(cs, a)
           /\ done \o cs \in Done /\ (done \o cs) \o <<>> = done \o cs
  <1>1. PICK S : S = Seq(Seq(Glyphs))
    OBVIOUS
  <1>2. done \in Seq(S) /\ cs \in Seq(S) /\ a \in S
    BY <1>1 DEF Done
  <1>3. Append(cs, a) \in Seq(S)
    BY <1>2
  <1>4. done \o cs \in Seq(S)
    BY <1>2
  <1>5. (done \o cs) \o <<>> = done \o cs
    BY <1>4
  <1>6. Append(done \o cs, a) = done \o Append(cs, a)
    <2>1. ASSUME NEW x \in Seq(S), NEW y \in Seq(S), NEW e \in S
          PROVE  Append(x \o y, e) = x \o Append(y, e)
      OBVIOUS
    <2>. QED BY <1>2, <2>1, Zenon
  <1>. QED BY <1>1, <1>3, <1>4, <1>5, <1>6, Zenon DEF Done

(* They are before it, and nothing else has changed.                       *)
LEMMA WithState ==
    ASSUME NEW done \in Done, NEW x \in States
    PROVE  /\ With(done, x) \in States /\ With(done, x).mode = x.mode
           /\ With(done, x).quote = x.quote /\ With(done, x).word = x.word
           /\ With(done, x).args = x.args /\ With(done, x).commands = done \o x.commands
  <1>1. PICK cs : cs = done \o x.commands
    OBVIOUS
  <1>2. cs \in Done
    <2>1. <<>> \in Seq(Seq(Glyphs))
      OBVIOUS
    <2>. QED BY <1>1, <2>1, StateParts, DoneGrows
  <1>3. PICK y : y = At(x.mode, x.quote, x.word, x.args, cs)
    OBVIOUS
  <1>4. /\ y.mode = x.mode /\ y.quote = x.quote /\ y.word = x.word /\ y.args = x.args
        /\ y.commands = cs
    BY <1>3, PartsAt
  <1>5. At(x.mode, x.quote, x.word, x.args, cs) \in States
    BY <1>2, StateParts, MakeState
  <1>6. With(done, x) = y
    BY <1>1, <1>3, Zenon DEF With
  <1>. QED BY <1>1, <1>3, <1>4, <1>5, <1>6, Zenon

(* Going on behind them.                                                   *)
LEMMA WithIn ==
    ASSUME NEW done \in Done, NEW x \in States, NEW m \in Modes
    PROVE  In(With(done, x), m) = With(done, In(x, m))
  <1>1. PICK u \in States : /\ u = With(done, x) /\ u.quote = x.quote /\ u.word = x.word
                            /\ u.args = x.args /\ u.commands = done \o x.commands
    BY WithState
  <1>2. PICK v \in States : /\ v = In(x, m) /\ v.mode = m /\ v.quote = x.quote /\ v.word = x.word
                            /\ v.args = x.args /\ v.commands = x.commands
    BY InState
  <1>3. PICK y \in States : /\ y = In(u, m) /\ y.mode = m /\ y.quote = u.quote /\ y.word = u.word
                            /\ y.args = u.args /\ y.commands = u.commands
    BY InState
  <1>4. PICK z \in States : /\ z = With(done, v) /\ z.mode = v.mode /\ z.quote = v.quote
                            /\ z.word = v.word /\ z.args = v.args /\ z.commands = done \o v.commands
    BY WithState
  <1>5. y = z
    <2>1. /\ y.mode = z.mode /\ y.quote = z.quote /\ y.word = z.word /\ y.args = z.args
          /\ y.commands = z.commands
      BY <1>1, <1>2, <1>3, <1>4, Zenon
    <2>. QED BY <2>1, SameState
  <1>. QED BY <1>1, <1>2, <1>3, <1>4, <1>5, Zenon

(* Opening a quote behind them.                                            *)
LEMMA WithOpened ==
    ASSUME NEW done \in Done, NEW x \in States, NEW q \in Quotes
    PROVE  Opened(With(done, x), q) = With(done, Opened(x, q))
  <1>1. PICK u \in States : /\ u = With(done, x) /\ u.mode = x.mode /\ u.word = x.word
                            /\ u.args = x.args /\ u.commands = done \o x.commands
    BY WithState
  <1>2. PICK v \in States : /\ v = Opened(x, q) /\ v.mode = x.mode /\ v.quote = q
                            /\ v.word = x.word /\ v.args = x.args /\ v.commands = x.commands
    BY OpenedState
  <1>3. PICK y \in States : /\ y = Opened(u, q) /\ y.mode = u.mode /\ y.quote = q
                            /\ y.word = u.word /\ y.args = u.args /\ y.commands = u.commands
    BY OpenedState
  <1>4. PICK z \in States : /\ z = With(done, v) /\ z.mode = v.mode /\ z.quote = v.quote
                            /\ z.word = v.word /\ z.args = v.args /\ z.commands = done \o v.commands
    BY WithState
  <1>5. y = z
    <2>1. /\ y.mode = z.mode /\ y.quote = z.quote /\ y.word = z.word /\ y.args = z.args
          /\ y.commands = z.commands
      BY <1>1, <1>2, <1>3, <1>4, Zenon
    <2>. QED BY <2>1, SameState
  <1>. QED BY <1>1, <1>2, <1>3, <1>4, <1>5, Zenon

(* A longer word behind them.                                              *)
LEMMA WithMore ==
    ASSUME NEW done \in Done, NEW x \in States, NEW w \in Seq(Glyphs)
    PROVE  More(With(done, x), w) = With(done, More(x, w))
  <1>1. PICK u \in States : /\ u = With(done, x) /\ u.mode = x.mode /\ u.quote = x.quote
                            /\ u.word = x.word /\ u.args = x.args /\ u.commands = done \o x.commands
    BY WithState
  <1>2. PICK v \in States : /\ v = More(x, w) /\ v.mode = x.mode /\ v.quote = x.quote
                            /\ v.word = x.word \o w /\ v.args = x.args /\ v.commands = x.commands
    BY MoreState
  <1>3. PICK y \in States : /\ y = More(u, w) /\ y.mode = u.mode /\ y.quote = u.quote
                            /\ y.word = u.word \o w /\ y.args = u.args /\ y.commands = u.commands
    BY MoreState
  <1>4. PICK z \in States : /\ z = With(done, v) /\ z.mode = v.mode /\ z.quote = v.quote
                            /\ z.word = v.word /\ z.args = v.args /\ z.commands = done \o v.commands
    BY WithState
  <1>5. y = z
    <2>1. /\ y.mode = z.mode /\ y.quote = z.quote /\ y.word = z.word /\ y.args = z.args
          /\ y.commands = z.commands
      BY <1>1, <1>2, <1>3, <1>4, Zenon
    <2>. QED BY <2>1, SameState
  <1>. QED BY <1>1, <1>2, <1>3, <1>4, <1>5, Zenon

(* A complete word behind them.                                            *)
LEMMA WithWordDone ==
    ASSUME NEW done \in Done, NEW x \in States
    PROVE  WordDone(With(done, x)) = With(done, WordDone(x))
  <1>1. PICK u \in States : /\ u = With(done, x) /\ u.word = x.word
                            /\ u.args = x.args /\ u.commands = done \o x.commands
    BY WithState
  <1>2. PICK v \in States : /\ v = WordDone(x) /\ v.mode = "between" /\ v.quote = "none"
                            /\ v.word = <<>> /\ v.args = Append(x.args, x.word)
                            /\ v.commands = x.commands
    BY WordDoneState
  <1>3. PICK y \in States : /\ y = WordDone(u) /\ y.mode = "between" /\ y.quote = "none"
                            /\ y.word = <<>> /\ y.args = Append(u.args, u.word)
                            /\ y.commands = u.commands
    BY WordDoneState
  <1>4. PICK z \in States : /\ z = With(done, v) /\ z.mode = v.mode /\ z.quote = v.quote
                            /\ z.word = v.word /\ z.args = v.args /\ z.commands = done \o v.commands
    BY WithState
  <1>5. y = z
    <2>1. /\ y.mode = z.mode /\ y.quote = z.quote /\ y.word = z.word /\ y.args = z.args
          /\ y.commands = z.commands
      BY <1>1, <1>2, <1>3, <1>4, Zenon
    <2>. QED BY <2>1, SameState
  <1>. QED BY <1>1, <1>2, <1>3, <1>4, <1>5, Zenon

(* A complete command behind them.                                         *)
LEMMA WithCommandDone ==
    ASSUME NEW done \in Done, NEW x \in States
    PROVE  CommandDone(With(done, x)) = With(done, CommandDone(x))
  <1>1. PICK u \in States : /\ u = With(done, x) /\ u.mode = x.mode /\ u.quote = x.quote
                            /\ u.word = x.word /\ u.args = x.args /\ u.commands = done \o x.commands
    BY WithState
  <1>2. PICK v \in States : /\ v = CommandDone(x) /\ v.mode = x.mode /\ v.quote = x.quote
                            /\ v.word = x.word /\ v.args = <<>>
                            /\ x.args = <<>> => v.commands = x.commands
                            /\ x.args # <<>> => v.commands = Append(x.commands, x.args)
    BY CommandDoneState
  <1>3. PICK y \in States : /\ y = CommandDone(u) /\ y.mode = u.mode /\ y.quote = u.quote
                            /\ y.word = u.word /\ y.args = <<>>
                            /\ u.args = <<>> => y.commands = u.commands
                            /\ u.args # <<>> => y.commands = Append(u.commands, u.args)
    BY CommandDoneState
  <1>4. PICK z \in States : /\ z = With(done, v) /\ z.mode = v.mode /\ z.quote = v.quote
                            /\ z.word = v.word /\ z.args = v.args /\ z.commands = done \o v.commands
    BY WithState
  <1>5. y.commands = z.commands
    <2>1. Append(done \o x.commands, x.args) = done \o Append(x.commands, x.args)
      <3>1. x.commands \in Done /\ x.args \in Seq(Seq(Glyphs))
        BY StateParts
      <3>. QED BY <3>1, DoneGrows
    <2>. QED BY <1>1, <1>2, <1>3, <1>4, <2>1, Zenon
  <1>6. y = z
    <2>1. /\ y.mode = z.mode /\ y.quote = z.quote /\ y.word = z.word /\ y.args = z.args
      BY <1>1, <1>2, <1>3, <1>4, Zenon
    <2>. QED BY <1>5, <2>1, SameState
  <1>. QED BY <1>1, <1>2, <1>3, <1>4, <1>6, Zenon

(* Reading goes on behind them as it does alone.                           *)
LEMMA WithNext ==
    ASSUME NEW done \in Done, NEW x, State(x), NEW c \in Chars
    PROVE  Character(With(done, x), c) = With(done, Character(x, c))
  <1>1. x \in States /\ (x.mode \in InStrings => x.quote \in Quotes)
    BY DEF State
  <1>2. PICK y \in States : y = With(done, x) /\ y.mode = x.mode /\ y.quote = x.quote
    BY <1>1, WithState
  <1>3. PICK one \in Seq(Glyphs) : one = <<c>>
    BY CharacterGlyphs
  <1>4. PICK esc \in Seq(Glyphs) : esc = EscapeOf(c)
    BY CharacterGlyphs
  <1>5. ASSUME NEW m \in Modes PROVE In(y, m) = With(done, In(x, m))
    BY <1>1, <1>2, WithIn
  <1>6. ASSUME NEW m \in Modes, NEW w \in Seq(Glyphs)
        PROVE  In(More(y, w), m) = With(done, In(More(x, w), m))
    <2>1. More(y, w) = With(done, More(x, w))
      BY <1>1, <1>2, WithMore
    <2>2. PICK z \in States : z = More(x, w)
      BY <1>1, MoreState
    <2>3. In(With(done, z), m) = With(done, In(z, m))
      BY WithIn
    <2>. QED BY <2>1, <2>2, <2>3, Zenon
  <1>7. More(y, one) = With(done, More(x, one))
    BY <1>1, <1>2, WithMore
  <1>8. WordDone(y) = With(done, WordDone(x)) /\ CommandDone(y) = With(done, CommandDone(x))
    BY <1>1, <1>2, WithWordDone, WithCommandDone
  <1>9. CommandDone(WordDone(y)) = With(done, CommandDone(WordDone(x)))
    <2>1. PICK z \in States : z = WordDone(x)
      BY <1>1, WordDoneState
    <2>2. CommandDone(With(done, z)) = With(done, CommandDone(z))
      BY WithCommandDone
    <2>. QED BY <1>8, <2>1, <2>2, Zenon
  <1>10. \A m \in {"escape", "word", "wordEscape", "string", "stringEscape"} : m \in Modes
    BY DEF Modes
  <1>11. CASE x.mode = "between"
    <2>1. Character(x, c) = Starts(x, c) /\ Character(y, c) = Starts(y, c)
      BY <1>2, <1>11, CharacterModes
    <2>2. CASE c \in White
      <3>1. Starts(x, c) = x /\ Starts(y, c) = y
        BY <2>2, CharacterKinds, QuoteKinds DEF Starts
      <3>. QED BY <1>2, <2>1, <3>1, Zenon
    <2>3. CASE c = Backslash
      <3>1. Starts(x, c) = In(x, "escape") /\ Starts(y, c) = In(y, "escape")
        BY <2>3, CharacterKinds, QuoteKinds DEF Starts
      <3>2. In(y, "escape") = With(done, In(x, "escape"))
        BY <1>5, <1>10
      <3>. QED BY <1>2, <2>1, <3>1, <3>2, Zenon
    <2>4. CASE c = Semicolon
      <3>1. Starts(x, c) = CommandDone(x) /\ Starts(y, c) = CommandDone(y)
        BY <2>4, CharacterKinds, QuoteKinds DEF Starts
      <3>. QED BY <1>2, <1>8, <2>1, <3>1, Zenon
    <2>5. CASE c \in Quotes
      <3>1. Starts(x, c) = Opened(In(x, "string"), c) /\ Starts(y, c) = Opened(In(y, "string"), c)
        BY <2>5, CharacterKinds, QuoteKinds DEF Starts
      <3>2. In(y, "string") = With(done, In(x, "string"))
        BY <1>5, <1>10
      <3>3. PICK z \in States : z = In(x, "string")
        BY <1>1, <1>10, InState
      <3>4. Opened(With(done, z), c) = With(done, Opened(z, c))
        BY <2>5, WithOpened
      <3>. QED BY <1>2, <2>1, <3>1, <3>2, <3>3, <3>4, Zenon
    <2>6. CASE Plain(c)
      <3>1. Starts(x, c) = In(More(x, one), "word") /\ Starts(y, c) = In(More(y, one), "word")
        BY <1>3, <2>6 DEF Starts, Plain
      <3>2. In(More(y, one), "word") = With(done, In(More(x, one), "word"))
        BY <1>6, <1>10
      <3>. QED BY <1>2, <2>1, <3>1, <3>2, Zenon
    <2>. QED BY <2>2, <2>3, <2>4, <2>5, <2>6, TypedCharacters, CharacterKinds
  <1>12. CASE x.mode = "escape"
    <2>1. Character(x, c) = StartsEscaped(x, c) /\ Character(y, c) = StartsEscaped(y, c)
      BY <1>2, <1>12, CharacterModes
    <2>2. In(y, "wordEscape") = With(done, In(x, "wordEscape"))
      BY <1>5, <1>10
    <2>3. In(More(y, one), "word") = With(done, In(More(x, one), "word"))
      BY <1>6, <1>10
    <2>4. CASE c \in White
      <3>1. StartsEscaped(x, c) = x /\ StartsEscaped(y, c) = y
        BY <2>4, CharacterKinds DEF StartsEscaped
      <3>. QED BY <1>2, <2>1, <3>1, Zenon
    <2>5. CASE c = Backslash
      <3>1. StartsEscaped(x, c) = In(x, "wordEscape") /\ StartsEscaped(y, c) = In(y, "wordEscape")
        BY <2>5, CharacterKinds DEF StartsEscaped
      <3>. QED BY <1>2, <2>1, <2>2, <3>1, Zenon
    <2>6. CASE c \notin White /\ c # Backslash
      <3>1. StartsEscaped(x, c) = In(More(x, one), "word") /\ StartsEscaped(y, c) = In(More(y, one), "word")
        BY <1>3, <2>6 DEF StartsEscaped
      <3>. QED BY <1>2, <2>1, <2>3, <3>1, Zenon
    <2>. QED BY <2>4, <2>5, <2>6
  <1>13. CASE x.mode = "word"
    <2>1. Character(x, c) = Continues(x, c) /\ Character(y, c) = Continues(y, c)
      BY <1>2, <1>13, CharacterModes
    <2>2. In(y, "wordEscape") = With(done, In(x, "wordEscape"))
      BY <1>5, <1>10
    <2>3. CASE c \in White
      <3>1. Continues(x, c) = WordDone(x) /\ Continues(y, c) = WordDone(y)
        BY <2>3, CharacterKinds DEF Continues
      <3>. QED BY <1>2, <1>8, <2>1, <3>1, Zenon
    <2>4. CASE c = Semicolon
      <3>1. Continues(x, c) = CommandDone(WordDone(x)) /\ Continues(y, c) = CommandDone(WordDone(y))
        BY <2>4, CharacterKinds DEF Continues
      <3>. QED BY <1>2, <1>9, <2>1, <3>1, Zenon
    <2>5. CASE c = Backslash
      <3>1. Continues(x, c) = In(x, "wordEscape") /\ Continues(y, c) = In(y, "wordEscape")
        BY <2>5, CharacterKinds DEF Continues
      <3>. QED BY <1>2, <2>1, <2>2, <3>1, Zenon
    <2>6. CASE c \notin White /\ c # Backslash /\ c # Semicolon
      <3>1. Continues(x, c) = More(x, one) /\ Continues(y, c) = More(y, one)
        BY <1>3, <2>6 DEF Continues
      <3>. QED BY <1>2, <1>7, <2>1, <3>1, Zenon
    <2>. QED BY <2>3, <2>4, <2>5, <2>6
  <1>14. CASE x.mode = "wordEscape"
    <2>1. Character(x, c) = ContinuesEscaped(x, c) /\ Character(y, c) = ContinuesEscaped(y, c)
      BY <1>2, <1>14, CharacterModes
    <2>2. In(More(y, one), "word") = With(done, In(More(x, one), "word"))
      BY <1>6, <1>10
    <2>3. CASE c \in White
      <3>1. ContinuesEscaped(x, c) = WordDone(x) /\ ContinuesEscaped(y, c) = WordDone(y)
        BY <2>3 DEF ContinuesEscaped
      <3>. QED BY <1>2, <1>8, <2>1, <3>1, Zenon
    <2>4. CASE c \notin White
      <3>1. ContinuesEscaped(x, c) = In(More(x, one), "word") /\ ContinuesEscaped(y, c) = In(More(y, one), "word")
        BY <1>3, <2>4 DEF ContinuesEscaped
      <3>. QED BY <1>2, <2>1, <2>2, <3>1, Zenon
    <2>. QED BY <2>3, <2>4
  <1>15. CASE x.mode = "string"
    <2>1. Character(x, c) = InString(x, c) /\ Character(y, c) = InString(y, c)
      BY <1>2, <1>15, CharacterModes
    <2>2. In(y, "stringEscape") = With(done, In(x, "stringEscape"))
      BY <1>5, <1>10
    <2>3. x.quote # Backslash
      BY <1>1, <1>15, QuoteKinds DEF InStrings
    <2>4. CASE c = x.quote
      <3>1. \A z : z.quote = c => InString(z, c) = WordDone(z)
        BY <2>3, <2>4 DEF InString
      <3>. QED BY <1>2, <1>8, <2>1, <2>4, <3>1, Zenon
    <2>5. CASE c = Backslash
      <3>1. \A z : z.quote # c => InString(z, c) = In(z, "stringEscape")
        BY <2>5 DEF InString
      <3>. QED BY <1>2, <2>1, <2>2, <2>3, <2>5, <3>1, Zenon
    <2>6. CASE c # x.quote /\ c # Backslash
      <3>1. \A z : z.quote # c => InString(z, c) = More(z, one)
        BY <1>3, <2>6 DEF InString
      <3>. QED BY <1>2, <1>7, <2>1, <2>6, <3>1, Zenon
    <2>. QED BY <2>4, <2>5, <2>6
  <1>16. CASE x.mode = "stringEscape"
    <2>1. Character(x, c) = InStringEscaped(x, c) /\ Character(y, c) = InStringEscaped(y, c)
      BY <1>2, <1>16, CharacterModes
    <2>2. In(More(y, esc), "string") = With(done, In(More(x, esc), "string"))
      BY <1>6, <1>10
    <2>3. CASE c = x.quote
      <3>1. \A z : z.quote = c => InStringEscaped(z, c) = WordDone(z)
        BY DEF InStringEscaped
      <3>. QED BY <1>2, <1>8, <2>1, <2>3, <3>1, Zenon
    <2>4. CASE c # x.quote
      <3>1. \A z : z.quote # c => InStringEscaped(z, c) = In(More(z, esc), "string")
        BY <1>4, Zenon DEF InStringEscaped
      <3>. QED BY <1>2, <2>1, <2>2, <2>4, <3>1, Zenon
    <2>. QED BY <2>3, <2>4
  <1>17. x.mode \in Modes
    BY <1>1, StateParts
  <1>. QED BY <1>11, <1>12, <1>13, <1>14, <1>15, <1>16, <1>17 DEF Modes

(* The end of a line completes the commands, behind the earlier ones.      *)
AtEnd(x) == CommandDone(IF x.mode = "between" THEN x ELSE WordDone(x))
LEMMA WithFinished ==
    ASSUME NEW done \in Done, NEW x, State(x), x.mode # "escape"
    PROVE  /\ Finished(x) \in Done /\ done \o Finished(x) \in Done
           /\ AtEnd(With(done, x)) = With(done \o Finished(x), Between)
  <1>1. x \in States /\ (x.mode = "between" => x.quote = "none" /\ x.word = <<>>)
    BY DEF State, InStrings
  <1>2. PICK y \in States : /\ y = IF x.mode = "between" THEN x ELSE WordDone(x)
                            /\ y.mode = "between" /\ y.quote = "none" /\ y.word = <<>>
    <2>1. CASE x.mode = "between"
      BY <1>1, <2>1
    <2>2. CASE x.mode # "between"
      BY <1>1, <2>2, WordDoneState
    <2>. QED BY <2>1, <2>2
  <1>3. PICK z \in States : /\ z = CommandDone(y) /\ z.mode = "between" /\ z.quote = "none"
                            /\ z.word = <<>> /\ z.args = <<>>
    BY <1>2, CommandDoneState
  <1>4. Finished(x) = z.commands
    <2>1. x.mode \in {"between", "escape"} <=> x.mode = "between"
      OBVIOUS
    <2>. QED BY <1>2, <1>3, <2>1, FinishedModes, Zenon
  <1>5. z.commands \in Done
    BY StateParts
  <1>6. PICK ds \in Done : ds = done \o z.commands
    <2>1. <<>> \in Seq(Seq(Glyphs))
      OBVIOUS
    <2>. QED BY <1>5, <2>1, DoneGrows
  <1>7. AtEnd(With(done, x)) = With(done, z)
    <2>1. With(done, x).mode = x.mode
      BY <1>1, WithState
    <2>2. WordDone(With(done, x)) = With(done, WordDone(x))
      BY <1>1, WithWordDone
    <2>3. CommandDone(With(done, y)) = With(done, CommandDone(y))
      BY WithCommandDone
    <2>. QED BY <1>2, <1>3, <2>1, <2>2, <2>3, Zenon DEF AtEnd
  <1>8. With(done, z) = With(ds, Between)
    <2>1. PICK u \in States : /\ u = With(done, z) /\ u.mode = "between" /\ u.quote = "none"
                              /\ u.word = <<>> /\ u.args = <<>> /\ u.commands = ds
      BY <1>3, <1>6, WithState, SMTT(30)
    <2>2. Between \in States
      BY BetweenIsState DEF State
    <2>3. /\ Between.mode = "between" /\ Between.quote = "none" /\ Between.word = <<>>
          /\ Between.args = <<>> /\ Between.commands = <<>>
      BY DEF Between
    <2>4. ds \o <<>> = ds
      BY DEF Done
    <2>5. PICK v \in States : /\ v = With(ds, Between) /\ v.mode = "between" /\ v.quote = "none"
                              /\ v.word = <<>> /\ v.args = <<>> /\ v.commands = ds
      <3>1. PICK b \in States : b = Between
        BY <2>2
      <3>2. PICK v \in States : /\ v = With(ds, b) /\ v.mode = b.mode /\ v.quote = b.quote
                                /\ v.word = b.word /\ v.args = b.args
                                /\ v.commands = ds \o b.commands
        BY WithState
      <3>. QED BY <2>3, <2>4, <3>1, <3>2, Zenon
    <2>6. u = v
      BY <2>1, <2>5, SameState
    <2>. QED BY <2>1, <2>5, <2>6, Zenon
  <1>. QED BY <1>4, <1>5, <1>6, <1>7, <1>8, Zenon

(* What is written for the end of a line closes what it leaves open.       *)
LEMMA EndClosed ==
    ASSUME NEW s \in Seq(Chars), End(s).mode # "escape"
    PROVE  s \o Closed(End(s)) \in Seq(Chars) /\ End(s \o Closed(End(s))) = AtEnd(End(s))
  <1>1. PICK x \in States : /\ x = End(s) /\ (x.mode \in InStrings => x.quote \in Quotes)
                            /\ x.mode # "escape" /\ x.mode \in Modes
    BY StateEnd, StateParts DEF State
  <1>2. Blank \in Chars /\ Semicolon \in Chars /\ \A q \in Quotes : q \in Chars
    BY TypedCharacters
  <1>3. \A z : Starts(z, Semicolon) = CommandDone(z)
    BY CharacterKinds, QuoteKinds DEF Starts
  <1>4. ASSUME NEW y, y.mode = "between" PROVE Character(y, Semicolon) = CommandDone(y)
    BY <1>3, <1>4, CharacterModes
  <1>5. ASSUME NEW c \in Chars PROVE s \o <<c>> \in Seq(Chars) /\ End(s \o <<c>>) = Character(x, c)
    <2>1. s \o <<c>> = Append(s, c) /\ Append(s, c) \in Seq(Chars)
      OBVIOUS
    <2>2. End(Append(s, c)) = Character(End(s), c)
      BY EndNext, Zenon
    <2>. QED BY <1>1, <2>1, <2>2
  <1>6. ASSUME NEW c \in Chars, Character(x, c) = WordDone(x)
        PROVE  /\ s \o <<c, Semicolon>> \in Seq(Chars)
               /\ End(s \o <<c, Semicolon>>) = CommandDone(WordDone(x))
    <2>1. PICK t \in Seq(Chars) : t = s \o <<c>> /\ End(t) = WordDone(x)
      BY <1>5, <1>6
    <2>2. ASSUME NEW d \in Chars PROVE s \o <<c, d>> = Append(t, d) /\ Append(t, d) \in Seq(Chars)
      BY <2>1
    <2>3. s \o <<c, Semicolon>> = Append(t, Semicolon) /\ Append(t, Semicolon) \in Seq(Chars)
      BY <1>2, <2>2, Zenon
    <2>4. End(Append(t, Semicolon)) = Character(End(t), Semicolon)
      BY <1>2, EndNext, Zenon
    <2>5. WordDone(x).mode = "between"
      BY WordDoneState
    <2>6. Character(WordDone(x), Semicolon) = CommandDone(WordDone(x))
      BY <1>4, <2>5
    <2>. QED BY <2>1, <2>3, <2>4, <2>6, Zenon
  <1>7. CASE x.mode = "between"
    <2>1. Closed(x) = <<Semicolon>>
      BY <1>7 DEF Closed
    <2>2. Character(x, Semicolon) = CommandDone(x)
      BY <1>4, <1>7
    <2>3. s \o <<Semicolon>> \in Seq(Chars) /\ End(s \o <<Semicolon>>) = Character(x, Semicolon)
      BY <1>2, <1>5
    <2>4. AtEnd(x) = CommandDone(x)
      BY <1>7, Zenon DEF AtEnd
    <2>. QED BY <1>1, <2>1, <2>2, <2>3, <2>4, Zenon
  <1>8. x.mode # "between" => AtEnd(x) = CommandDone(WordDone(x))
    BY Zenon DEF AtEnd
  <1>9. CASE x.mode = "word"
    <2>1. Closed(x) = <<Semicolon>>
      BY <1>9 DEF Closed
    <2>2. \A z : Continues(z, Semicolon) = CommandDone(WordDone(z))
      BY CharacterKinds DEF Continues
    <2>3. Character(x, Semicolon) = CommandDone(WordDone(x))
      BY <1>9, <2>2, CharacterModes
    <2>4. s \o <<Semicolon>> \in Seq(Chars) /\ End(s \o <<Semicolon>>) = Character(x, Semicolon)
      BY <1>2, <1>5
    <2>5. AtEnd(x) = CommandDone(WordDone(x))
      BY <1>8, <1>9
    <2>. QED BY <1>1, <2>1, <2>3, <2>4, <2>5, Zenon
  <1>10. CASE x.mode = "wordEscape"
    <2>1. Closed(x) = <<Blank, Semicolon>>
      BY <1>10 DEF Closed
    <2>2. ContinuesEscaped(x, Blank) = WordDone(x)
      BY CharacterKinds DEF ContinuesEscaped
    <2>3. Character(x, Blank) = WordDone(x)
      BY <1>10, <2>2, CharacterModes
    <2>4. /\ s \o <<Blank, Semicolon>> \in Seq(Chars)
          /\ End(s \o <<Blank, Semicolon>>) = CommandDone(WordDone(x))
      BY <1>2, <1>6, <2>3
    <2>5. AtEnd(x) = CommandDone(WordDone(x))
      BY <1>8, <1>10
    <2>. QED BY <1>1, <2>1, <2>4, <2>5, Zenon
  <1>11. CASE x.mode \in InStrings
    <2>0. x.quote \in Quotes /\ x.quote \in Chars
      BY <1>1, <1>2, <1>11
    <2>1. Closed(x) = <<x.quote, Semicolon>>
      BY <1>11 DEF Closed, InStrings
    <2>2. InString(x, x.quote) = WordDone(x)
      BY <2>0, QuoteKinds DEF InString
    <2>3. InStringEscaped(x, x.quote) = WordDone(x)
      BY DEF InStringEscaped
    <2>4. Character(x, x.quote) = WordDone(x)
      BY <1>11, <2>2, <2>3, CharacterModes DEF InStrings
    <2>5. /\ s \o <<x.quote, Semicolon>> \in Seq(Chars)
          /\ End(s \o <<x.quote, Semicolon>>) = CommandDone(WordDone(x))
      BY <1>6, <2>0, <2>4
    <2>6. AtEnd(x) = CommandDone(WordDone(x))
      BY <1>8, <1>11 DEF InStrings
    <2>. QED BY <1>1, <2>1, <2>5, <2>6, Zenon
  <1>. QED BY <1>1, <1>7, <1>9, <1>10, <1>11 DEF Modes, InStrings

-----------------------------------------------------------------------------
(* The lines of a file, as one line.                                       *)

FChars == Chars \cup {NL}

(* The characters of files.                                                *)
LEMMA FileCharacters ==
    /\ NL \in FChars /\ NL \notin Chars /\ NL # Hash /\ NL # Blank
    /\ \A c \in Chars : c \in FChars
    /\ \A c \in FChars : c # NL => c \in Chars
  BY TypedCharacters DEF FChars

(* A line with its newline, and what it runs.                              *)
LEMMA RanLine ==
    ASSUME NEW l \in Seq(Chars)
    PROVE  /\ (Commented(l) \/ Skip(l, White) = <<>>) => Ran(Append(l, NL)) = <<>>
           /\ (~Commented(l) /\ Skip(l, White) # <<>>) => Ran(Append(l, NL)) = Finished(End(l))
  <1>1. Front(Append(l, NL)) = l
    <2>1. l \in Seq(FChars) /\ NL \in FChars
      BY FileCharacters
    <2>2. PICK t \in Seq(FChars) : t = Append(l, NL)
      <3>1. Append(l, NL) \in Seq(FChars)
        BY <2>1
      <3>. QED BY <3>1, Zenon
    <2>3. Len(t) - 1 = Len(l) /\ Len(l) \in Nat /\ \A i \in 1..Len(l) : t[i] = l[i]
      BY <2>1, <2>2
    <2>4. SubSeq(t, 1, Len(l)) = l
      BY <2>1, <2>2, <2>3
    <2>. QED BY <2>2, <2>3, <2>4 DEF Front
  <1>2. PICK k \in Seq(Chars) : k = Skip(l, White)
    BY SkipType
  <1>3. Ran(Append(l, NL)) = IF Ignored(k) THEN <<>> ELSE parseClientCommand(k)
    BY <1>1, <1>2, Zenon DEF Ran
  <1>4. Ignored(k) <=> (Commented(l) \/ k = <<>>)
    BY <1>2, Zenon DEF Ignored, Commented
  <1>5. parseClientCommand(k) = Finished(End(l))
    <2>1. parseClientCommand(k) = Finished(End(k))
      BY Zenon DEF parseClientCommand
    <2>. QED BY <1>2, <2>1, SkippedReads, Zenon
  <1>. QED BY <1>2, <1>3, <1>4, <1>5, Zenon

(* The line begun: what follows the last newline.                          *)
LineOf(s, b, l) ==
    /\ b \in 1..(Len(s) + 1) /\ (b = 1 \/ s[b - 1] = NL)
    /\ Len(l) = (Len(s) - b) + 1 /\ \A k \in 1..Len(l) : l[k] = s[(b + k) - 1]

(* The line begun grows.                                                   *)
LEMMA LineGrows ==
    ASSUME NEW s \in Seq(FChars), NEW l \in Seq(Chars), NEW b, LineOf(s, b, l), NEW c \in Chars
    PROVE  LineOf(Append(s, c), b, Append(l, c))
  <1>1. c \in FChars
    BY FileCharacters
  <1>2. PICK t : t = Append(s, c)
    OBVIOUS
  <1>3. PICK m : m = Append(l, c)
    OBVIOUS
  <1>4. /\ Len(t) = Len(s) + 1 /\ Len(s) \in Nat /\ t[Len(t)] = c
        /\ \A i \in 1..Len(s) : t[i] = s[i]
    BY <1>1, <1>2
  <1>5. /\ Len(m) = Len(l) + 1 /\ Len(l) \in Nat /\ m[Len(m)] = c
        /\ \A i \in 1..Len(l) : m[i] = l[i]
    BY <1>3
  <1>6. b \in 1..(Len(t) + 1) /\ (b = 1 \/ t[b - 1] = NL) /\ Len(m) = (Len(t) - b) + 1
    <2>1. b \in 1..(Len(s) + 1) /\ (b = 1 \/ s[b - 1] = NL) /\ Len(l) = (Len(s) - b) + 1
      BY DEF LineOf
    <2>2. b # 1 => b - 1 \in 1..Len(s)
      BY <1>4, <2>1
    <2>. QED BY <1>4, <1>5, <2>1, <2>2
  <1>7. ASSUME NEW k \in 1..Len(m) PROVE m[k] = t[(b + k) - 1]
    <2>1. CASE k = Len(m)
      BY <1>4, <1>5, <1>6, <2>1
    <2>2. CASE k # Len(m)
      <3>1. k \in 1..Len(l) /\ (b + k) - 1 \in 1..Len(s)
        BY <1>4, <1>5, <1>6, <2>2
      <3>. QED BY <1>4, <1>5, <3>1 DEF LineOf
    <2>. QED BY <2>1, <2>2
  <1>. QED BY <1>2, <1>3, <1>6, <1>7 DEF LineOf

(* A comment is one on its line.                                           *)
LEMMA InCommentIs ==
    ASSUME NEW t \in Seq(FChars), NEW m \in Seq(Chars), NEW b, LineOf(t, b, m), Len(m) >= 1
    PROVE  InComment(t, Len(t)) <=> Commented(m)
  <1>. DEFINE n == Len(t)
              M == Len(m)
  <1>1. /\ n \in Nat /\ M \in Nat /\ M >= 1 /\ b \in 1..n /\ M = (n - b) + 1
        /\ b = 1 \/ t[b - 1] = NL
        /\ \A k \in 1..M : m[k] = t[(b + k) - 1]
    BY DEF LineOf
  <1>2. \A k \in b..n : t[k] # NL /\ t[k] = m[(k - b) + 1] /\ (k - b) + 1 \in 1..M
    <2>1. ASSUME NEW k \in b..n PROVE t[k] # NL /\ t[k] = m[(k - b) + 1] /\ (k - b) + 1 \in 1..M
      <3>1. (k - b) + 1 \in 1..M /\ (b + ((k - b) + 1)) - 1 = k
        BY <1>1
      <3>2. t[k] = m[(k - b) + 1]
        BY <1>1, <3>1
      <3>. QED BY <3>1, <3>2, FileCharacters
    <2>. QED BY <2>1
  <1>3. Commented(m) <=> \E j \in 1..M : m[j] = Hash /\ \A k \in 1..(j - 1) : m[k] = Blank
    BY CommentedWhere
  <1>. HIDE DEF n, M
  <1>4. ASSUME Commented(m) PROVE InComment(t, n)
    <2>1. PICK j \in 1..M : m[j] = Hash /\ \A k \in 1..(j - 1) : m[k] = Blank
      BY <1>3, <1>4
    <2>2. PICK i : i = (b + j) - 1
      OBVIOUS
    <2>3. i \in 1..n /\ i \in b..n /\ b \in 1..i /\ t[i] = Hash
      BY <1>1, <2>1, <2>2
    <2>4. ASSUME NEW k \in i..n PROVE t[k] # NL
      <3>1. k \in b..n
        BY <1>1, <2>3
      <3>. QED BY <1>2, <3>1
    <2>5. ASSUME NEW k \in b..(i - 1) PROVE t[k] = Blank
      <3>1. k \in b..n /\ (k - b) + 1 \in 1..(j - 1)
        BY <1>1, <2>1, <2>2, <2>3
      <3>. QED BY <1>2, <2>1, <3>1
    <2>. QED BY <1>1, <2>3, <2>4, <2>5 DEF InComment
  <1>5. ASSUME InComment(t, n) PROVE Commented(m)
    <2>1. PICK i \in 1..n : /\ t[i] = Hash /\ \A k \in i..n : t[k] # NL
                            /\ \E a \in 1..i : /\ a = 1 \/ t[a - 1] = NL
                                               /\ \A k \in a..(i - 1) : t[k] = Blank
      BY <1>5 DEF InComment
    <2>2. PICK a \in 1..i : /\ a = 1 \/ t[a - 1] = NL
                            /\ \A k \in a..(i - 1) : t[k] = Blank
      BY <2>1
    <2>3. \A k \in a..n : t[k] # NL
      BY <1>1, <2>1, <2>2, FileCharacters
    <2>4. ~(a < b)
      <3>1. SUFFICES ASSUME a < b PROVE FALSE
        OBVIOUS
      <3>2. b - 1 \in a..n /\ b # 1
        BY <1>1, <3>1
      <3>. QED BY <1>1, <2>3, <3>2
    <2>5. ~(b < a)
      <3>1. SUFFICES ASSUME b < a PROVE FALSE
        OBVIOUS
      <3>2. a - 1 \in b..n /\ a # 1
        BY <1>1, <3>1
      <3>. QED BY <1>2, <2>2, <3>2
    <2>6. a = b
      BY <1>1, <2>4, <2>5
    <2>7. PICK j : j = (i - b) + 1
      OBVIOUS
    <2>8. j \in 1..M /\ m[j] = Hash
      <3>1. i \in b..n
        BY <1>1, <2>1, <2>2, <2>6
      <3>2. t[i] = m[(i - b) + 1] /\ (i - b) + 1 \in 1..M
        BY <1>2, <3>1
      <3>. QED BY <2>1, <2>7, <3>2
    <2>9. ASSUME NEW k \in 1..(j - 1) PROVE m[k] = Blank
      <3>1. k \in 1..M /\ (b + k) - 1 \in b..(i - 1)
        BY <1>1, <2>7, <2>8
      <3>. QED BY <1>1, <2>2, <2>6, <3>1
    <2>. QED BY <1>3, <2>8, <2>9
  <1>. QED BY <1>4, <1>5 DEF n

(* What getline has got.                                                   *)
Gotten(l, done) == [line |-> l, commands |-> done]

(* One more character.                                                     *)
LEMMA GetsAt ==
    ASSUME NEW l, NEW done, NEW c
    PROVE  /\ c # NL => Gets(Gotten(l, done), c) = Gotten(Append(l, c), done)
           /\ c = NL => Gets(Gotten(l, done), c) = Gotten(<<>>, done \o Ran(Append(l, c)))
  <1>. DEFINE x == Gotten(l, done)
  <1>1. x \in [line : {l}, commands : {done}] /\ x.line = l /\ x.commands = done
    BY DEF Gotten
  <1>. HIDE DEF x
  <1>2. CASE c # NL
    <2>1. Gets(x, c) = [x EXCEPT !.line = Append(x.line, c)]
      BY <1>2, Zenon DEF Gets
    <2>2. PICK m : m = Append(l, c)
      OBVIOUS
    <2>3. [x EXCEPT !.line = m] = [line |-> m, commands |-> done]
      BY <1>1
    <2>4. Gets(x, c) = Gotten(m, done)
      BY <1>1, <2>1, <2>2, <2>3, Zenon DEF Gotten
    <2>. QED BY <1>2, <2>2, <2>4 DEF x
  <1>3. CASE c = NL
    <2>1. Gets(x, c) = [line |-> <<>>, commands |-> x.commands \o Ran(Append(x.line, c))]
      BY <1>3, Zenon DEF Gets
    <2>2. Gets(x, c) = Gotten(<<>>, done \o Ran(Append(l, c)))
      BY <1>1, <2>1, Zenon DEF Gotten
    <2>. QED BY <1>3, <2>2 DEF x
  <1>. QED BY <1>2, <1>3

(* All of the one line.                                                    *)
One(s) == OneLine(s)[Len(s)]

(* The lines so far are as the one line so far: the commands of the lines  *)
(* that are complete, then what the cursor makes of the line begun, or     *)
(* nothing of it when it is a comment.                                     *)
Reading(l, done) == IF Commented(l) THEN With(done, Between) ELSE With(done, End(l))
LineAt(s, l, b, done) ==
    /\ Sources(s)[Len(s)] = Gotten(l, done) /\ LineOf(s, b, l)
    /\ End(One(s)) = Reading(l, done)
Follows(s) ==
    /\ One(s) \in Seq(Chars)
    /\ \E done \in Done, l \in Seq(Chars), b \in Nat : LineAt(s, l, b, done)

(* With a further character it grows by a piece.                           *)
LEMMA OneGrows ==
    ASSUME NEW s \in Seq(FChars), NEW c \in FChars, NEW t, t = Append(s, c)
    PROVE  One(t) = One(s) \o Piece(t, Len(t), One(s))
  BY OneLineNext DEF One

(* Nothing is begun.                                                       *)
LEMMA ReadingEmpty ==
    ASSUME NEW done \in Done
    PROVE  Reading(<<>>, done) = With(done, Between)
  <1>1. <<>> \in Seq(Chars) /\ AllWhite(<<>>)
    BY DEF AllWhite
  <1>2. Skip(<<>>, White) = <<>>
    BY <1>1, SkipWhite
  <1>3. ~Commented(<<>>)
    BY <1>2, Zenon DEF Commented
  <1>. QED BY <1>3, EmptyText, Zenon DEF Reading

(* Nothing but blanks, or a comment, leaves nothing begun.                 *)
LEMMA ReadingNothing ==
    ASSUME NEW done \in Done, NEW l \in Seq(Chars), Commented(l) \/ Skip(l, White) = <<>>
    PROVE  Reading(l, done) = With(done, Between)
  <1>1. CASE Commented(l)
    BY <1>1, Zenon DEF Reading
  <1>2. CASE Skip(l, White) = <<>>
    <2>1. End(l) = Between
      BY <1>2, SkippedReads, EmptyText, Zenon
    <2>. QED BY <2>1, Zenon DEF Reading
  <1>. QED BY <1>1, <1>2

(* Of no file nothing is read.                                             *)
LEMMA FollowsEmpty == Follows(<<>>)
  <1>1. One(<<>>) = <<>>
    BY EmptyText, Zenon DEF One
  <1>2. <<>> \in Seq(Chars) /\ <<>> \in Done /\ 1 \in Nat
    BY DEF Done
  <1>3. LineOf(<<>>, 1, <<>>)
    BY DEF LineOf
  <1>4. Sources(<<>>)[Len(<<>>)] = Gotten(<<>>, <<>>)
    BY EmptyText, Zenon DEF NoLine, Gotten
  <1>5. With(<<>>, Between) = Between
    <2>1. PICK b \in States : b = Between
      BY BetweenIsState DEF State
    <2>2. PICK y \in States : /\ y = With(<<>>, b) /\ y.mode = b.mode /\ y.quote = b.quote
                              /\ y.word = b.word /\ y.args = b.args
                              /\ y.commands = <<>> \o b.commands
      BY <1>2, WithState
    <2>3. <<>> \o b.commands = b.commands
      <3>1. b.commands = <<>>
        BY <2>1 DEF Between
      <3>. QED BY <3>1
    <2>4. y = b
      BY <2>2, <2>3, SameState
    <2>. QED BY <2>1, <2>2, <2>4, Zenon
  <1>6. End(One(<<>>)) = Reading(<<>>, <<>>)
    BY <1>1, <1>2, <1>5, EmptyText, ReadingEmpty, Zenon
  <1>7. LineAt(<<>>, <<>>, 1, <<>>)
    BY <1>3, <1>4, <1>6, Zenon DEF LineAt
  <1>. QED BY <1>1, <1>2, <1>7, Zenon DEF Follows

(* With each character of a line.                                          *)
LEMMA FollowsInLine ==
    ASSUME NEW s \in Seq(FChars), Follows(s), NEW c \in Chars
    PROVE  Follows(Append(s, c))
  <1>1. PICK done \in Done, l \in Seq(Chars), b \in Nat : LineAt(s, l, b, done)
    BY DEF Follows
  <1>2. PICK u \in Seq(Chars) : u = One(s)
    BY DEF Follows
  <1>3. c \in FChars /\ c # NL /\ Blank \in Chars
    BY FileCharacters, TypedCharacters
  <1>4. PICK t \in Seq(FChars) : t = Append(s, c) /\ Len(t) = Len(s) + 1 /\ t[Len(t)] = c
    <2>1. /\ Append(s, c) \in Seq(FChars) /\ Len(Append(s, c)) = Len(s) + 1
          /\ Append(s, c)[Len(Append(s, c))] = c
      BY <1>3
    <2>. QED BY <2>1, Zenon
  <1>5. PICK m \in Seq(Chars) : m = Append(l, c) /\ Len(m) >= 1
    <2>1. Append(l, c) \in Seq(Chars) /\ Len(Append(l, c)) >= 1
      OBVIOUS
    <2>. QED BY <2>1, Zenon
  <1>6. LineOf(t, b, m)
    BY <1>1, <1>4, <1>5, LineGrows, Zenon DEF LineAt
  <1>7. Sources(t)[Len(t)] = Gotten(m, done)
    <2>1. Sources(t)[Len(t)] = Gets(Sources(s)[Len(s)], c)
      BY <1>3, <1>4, SourcesNext, Zenon
    <2>2. Gets(Gotten(l, done), c) = Gotten(Append(l, c), done)
      BY <1>3, GetsAt, Zenon
    <2>. QED BY <1>1, <1>5, <2>1, <2>2, Zenon DEF LineAt
  <1>8. PICK d \in Chars : d = IF Commented(m) THEN Blank ELSE c
    BY <1>3
  <1>9. Piece(t, Len(t), u) = <<d>>
    <2>1. InComment(t, Len(t)) <=> Commented(m)
      BY <1>5, <1>6, InCommentIs
    <2>. QED BY <1>3, <1>4, <1>8, <2>1, Zenon DEF Piece
  <1>10. One(t) = Append(u, d) /\ Append(u, d) \in Seq(Chars)
    <2>1. One(t) = u \o <<d>>
      BY <1>2, <1>3, <1>4, <1>9, OneGrows, Zenon
    <2>2. u \o <<d>> = Append(u, d) /\ Append(u, d) \in Seq(Chars)
      OBVIOUS
    <2>. QED BY <2>1, <2>2
  <1>11. End(One(t)) = Character(Reading(l, done), d)
    <2>1. End(Append(u, d)) = Character(End(u), d)
      BY EndNext, Zenon
    <2>. QED BY <1>1, <1>2, <1>10, <2>1, Zenon DEF LineAt
  <1>12. Character(Reading(l, done), d) = Reading(m, done)
    <2>1. Commented(m) <=> (Commented(l) \/ (Skip(l, White) = <<>> /\ c = Hash))
      BY <1>5, CommentedNext
    <2>2. CASE Commented(m)
      <3>1. d = Blank
        BY <1>8, <2>2, Zenon
      <3>2. Character(With(done, Between), Blank) = With(done, Between)
        <4>1. Character(Between, Blank) = Between
          BY BetweenIsState, BlankBetween, Zenon
        <4>2. Character(With(done, Between), Blank) = With(done, Character(Between, Blank))
          BY BetweenIsState, TypedCharacters, WithNext
        <4>. QED BY <4>1, <4>2, Zenon
      <3>3. Reading(l, done) = With(done, Between)
        BY <2>1, <2>2, ReadingNothing
      <3>. QED BY <2>2, <3>1, <3>2, <3>3, Zenon DEF Reading
    <2>3. CASE ~Commented(m)
      <3>1. d = c
        BY <1>8, <2>3, Zenon
      <3>2. Reading(l, done) = With(done, End(l))
        BY <2>1, <2>3, Zenon DEF Reading
      <3>3. End(m) = Character(End(l), c)
        BY <1>5, EndNext, Zenon
      <3>4. State(End(l))
        BY StateEnd
      <3>5. Character(With(done, End(l)), c) = With(done, Character(End(l), c))
        BY <3>4, WithNext
      <3>. QED BY <2>3, <3>1, <3>2, <3>3, <3>5, Zenon DEF Reading
    <2>. QED BY <2>2, <2>3
  <1>13. LineAt(t, m, b, done)
    BY <1>6, <1>7, <1>11, <1>12, Zenon DEF LineAt
  <1>. QED BY <1>4, <1>10, <1>13, Zenon DEF Follows

(* With the end of a line, unless it is a backslash that stands alone.     *)
LEMMA FollowsNewLine ==
    ASSUME NEW s \in Seq(FChars), Follows(s), End(One(s)).mode # "escape"
    PROVE  Follows(Append(s, NL))
  <1>1. PICK done \in Done, l \in Seq(Chars), b \in Nat : LineAt(s, l, b, done)
    BY DEF Follows
  <1>2. PICK u \in Seq(Chars) : u = One(s) /\ End(u) = Reading(l, done) /\ End(u).mode # "escape"
    BY <1>1 DEF Follows, LineAt
  <1>3. NL \in FChars /\ <<>> \in Seq(Chars)
    BY FileCharacters
  <1>4. PICK t \in Seq(FChars) : t = Append(s, NL) /\ Len(t) = Len(s) + 1 /\ t[Len(t)] = NL
    <2>1. /\ Append(s, NL) \in Seq(FChars) /\ Len(Append(s, NL)) = Len(s) + 1
          /\ Append(s, NL)[Len(Append(s, NL))] = NL
      BY <1>3
    <2>. QED BY <2>1, Zenon
  <1>5. PICK ran : ran = Ran(Append(l, NL))
    OBVIOUS
  <1>6. PICK x : /\ State(x) /\ x.mode # "escape" /\ ran = Finished(x) /\ Reading(l, done) = With(done, x)
    <2>1. CASE ~Commented(l) /\ Skip(l, White) # <<>>
      <3>1. ran = Finished(End(l))
        BY <1>5, <2>1, RanLine
      <3>2. Reading(l, done) = With(done, End(l))
        BY <2>1, Zenon DEF Reading
      <3>3. State(End(l))
        BY StateEnd
      <3>4. With(done, End(l)).mode = End(l).mode
        BY <3>3, WithState DEF State
      <3>. QED BY <1>2, <3>1, <3>2, <3>3, <3>4
    <2>2. CASE Commented(l) \/ Skip(l, White) = <<>>
      <3>1. ran = <<>>
        BY <1>5, <2>2, RanLine
      <3>2. Between.mode = "between" /\ Between.args = <<>> /\ Between.commands = <<>>
        BY DEF Between
      <3>3. Finished(Between) = <<>>
        <4>1. CommandDone(Between) = Between
          BY <3>2, Zenon DEF CommandDone
        <4>2. Finished(Between) = CommandDone(Between).commands
          BY <3>2, FinishedModes
        <4>. QED BY <3>2, <4>1, <4>2
      <3>4. Reading(l, done) = With(done, Between)
        BY <2>2, ReadingNothing
      <3>. QED BY <3>1, <3>2, <3>3, <3>4, BetweenIsState
    <2>. QED BY <2>1, <2>2
  <1>7. /\ done \o ran \in Done
        /\ AtEnd(With(done, x)) = With(done \o ran, Between)
    BY <1>6, WithFinished
  <1>8. Sources(t)[Len(t)] = Gotten(<<>>, done \o ran)
    <2>1. Sources(t)[Len(t)] = Gets(Sources(s)[Len(s)], NL)
      BY <1>3, <1>4, SourcesNext, Zenon
    <2>2. Gets(Gotten(l, done), NL) = Gotten(<<>>, done \o Ran(Append(l, NL)))
      BY GetsAt, Zenon
    <2>. QED BY <1>1, <1>5, <2>1, <2>2, Zenon DEF LineAt
  <1>9. Piece(t, Len(t), u) = Closed(End(u))
    BY <1>4, Zenon DEF Piece
  <1>10. One(t) = u \o Closed(End(u))
    BY <1>2, <1>3, <1>4, <1>9, OneGrows, Zenon
  <1>11. One(t) \in Seq(Chars) /\ End(One(t)) = AtEnd(End(u))
    BY <1>2, <1>10, EndClosed
  <1>12. End(One(t)) = With(done \o ran, Between)
    BY <1>2, <1>6, <1>7, <1>11, Zenon
  <1>13. LineOf(t, Len(t) + 1, <<>>) /\ Len(t) + 1 \in Nat
    <2>1. Len(t) \in Nat /\ Len(t) >= 1
      BY <1>4
    <2>. QED BY <1>4, <2>1 DEF LineOf
  <1>14. LineAt(t, <<>>, Len(t) + 1, done \o ran)
    BY <1>7, <1>8, <1>12, <1>13, ReadingEmpty, Zenon DEF LineAt
  <1>. QED BY <1>3, <1>4, <1>7, <1>11, <1>13, <1>14, Zenon DEF Follows

(* What has no backslash alone at the end of a line has none without its   *)
(* last character either.                                                  *)
LEMMA LoneBackslashStays ==
    ASSUME NEW s \in Seq(FChars), NEW c \in FChars, ~LoneBackslash(Append(s, c))
    PROVE  ~LoneBackslash(s) /\ (c = NL => End(One(s)).mode # "escape")
  <1>1. PICK t : t = Append(s, c)
    OBVIOUS
  <1>2. /\ Len(t) = Len(s) + 1 /\ Len(s) \in Nat /\ DOMAIN s = 1..Len(s) /\ DOMAIN t = 1..Len(t)
        /\ t[Len(t)] = c /\ \A i \in 1..Len(s) : t[i] = s[i]
    BY <1>1
  <1>3. \A n \in 0..Len(s) : OneLine(t)[n] = OneLine(s)[n]
    BY <1>1, OneLineNext
  <1>4. \A i \in 1..Len(t) : t[i] = NL => End(OneLine(t)[i - 1]).mode # "escape"
    BY <1>1, <1>2 DEF LoneBackslash
  <1>5. ASSUME NEW i \in 1..Len(s), s[i] = NL PROVE End(OneLine(s)[i - 1]).mode # "escape"
    <2>1. i \in 1..Len(t) /\ i - 1 \in 0..Len(s) /\ t[i] = NL
      BY <1>2, <1>5
    <2>. QED BY <1>3, <1>4, <2>1
  <1>6. ASSUME c = NL PROVE End(One(s)).mode # "escape"
    <2>1. Len(t) \in 1..Len(t) /\ Len(t) - 1 = Len(s) /\ Len(s) \in 0..Len(s)
      BY <1>2
    <2>2. OneLine(t)[Len(s)] = One(s)
      BY <1>3, <2>1 DEF One
    <2>3. End(OneLine(t)[Len(t) - 1]).mode # "escape"
      BY <1>2, <1>4, <1>6, <2>1
    <2>. QED BY <2>1, <2>2, <2>3
  <1>7. ~LoneBackslash(s)
    BY <1>2, <1>5 DEF LoneBackslash
  <1>. QED BY <1>6, <1>7

(* So after every file.                                                    *)
LEMMA FollowsAlways ==
    ASSUME NEW s \in Seq(FChars), ~LoneBackslash(s)
    PROVE  Follows(s)
  <1>. DEFINE T == {t \in Seq(FChars) : ~LoneBackslash(t) => Follows(t)}
  <1>1. <<>> \in T
    <2>1. <<>> \in Seq(FChars)
      OBVIOUS
    <2>. QED BY <2>1, FollowsEmpty
  <1>2. ASSUME NEW t \in Seq(FChars), NEW c \in FChars, t \in T PROVE Append(t, c) \in T
    <2>1. Append(t, c) \in Seq(FChars)
      OBVIOUS
    <2>2. ASSUME ~LoneBackslash(Append(t, c)) PROVE Follows(Append(t, c))
      <3>1. Follows(t) /\ (c = NL => End(One(t)).mode # "escape")
        BY <1>2, <2>2, LoneBackslashStays
      <3>2. CASE c = NL
        BY <3>1, <3>2, FollowsNewLine
      <3>3. CASE c # NL
        BY <3>1, <3>3, FileCharacters, FollowsInLine
      <3>. QED BY <3>2, <3>3
    <2>. QED BY <2>1, <2>2
  <1>. HIDE DEF T
  <1>3. s \in T
    BY <1>1, <1>2, SeqInduction, Zenon
  <1>. QED BY <1>3 DEF T

(* Whatever file is typed: when its last line has its newline, and no line *)
(* ends in a backslash that stands alone, it is its lines as one line.     *)
LEMMA FileRuns ==
    ASSUME NEW s \in Seq(FChars), s # <<>>, Last(s) = NL, ~LoneBackslash(s)
    PROVE  sourceCommandFile(s) = parseClientCommand(OneLine(s)[Len(s)])
  <1>1. PICK done \in Done, l \in Seq(Chars), b \in Nat : LineAt(s, l, b, done)
    BY FollowsAlways DEF Follows
  <1>2. l = <<>>
    <2>1. /\ b \in 1..(Len(s) + 1) /\ Len(l) = (Len(s) - b) + 1
          /\ \A k \in 1..Len(l) : l[k] = s[(b + k) - 1]
      BY <1>1 DEF LineAt, LineOf
    <2>2. Len(s) \in Nat /\ Len(l) \in Nat /\ s[Len(s)] = NL
      BY DEF Last
    <2>3. SUFFICES ASSUME Len(l) # 0 PROVE FALSE
      BY <2>2
    <2>4. Len(l) \in 1..Len(l) /\ (b + Len(l)) - 1 = Len(s)
      BY <2>1, <2>2, <2>3
    <2>5. l[Len(l)] = NL /\ l[Len(l)] \in Chars
      BY <2>1, <2>2, <2>4
    <2>. QED BY <2>5, FileCharacters
  <1>3. sourceCommandFile(s) = done
    <2>1. Sources(s)[Len(s)].line = <<>> /\ Sources(s)[Len(s)].commands = done
      BY <1>1, <1>2 DEF LineAt, Gotten
    <2>. QED BY <2>1, Zenon DEF sourceCommandFile
  <1>4. parseClientCommand(OneLine(s)[Len(s)]) = Finished(With(done, Between))
    <2>1. parseClientCommand(OneLine(s)[Len(s)]) = Finished(End(One(s)))
      BY Zenon DEF parseClientCommand, One
    <2>. QED BY <1>1, <1>2, <2>1, ReadingEmpty, Zenon DEF LineAt
  <1>5. Finished(With(done, Between)) = done
    <2>1. PICK b0 \in States : b0 = Between
      BY BetweenIsState DEF State
    <2>2. /\ b0.mode = "between" /\ b0.args = <<>> /\ b0.commands = <<>>
      BY <2>1 DEF Between
    <2>3. PICK y \in States : /\ y = With(done, b0) /\ y.mode = b0.mode /\ y.args = b0.args
                              /\ y.commands = done \o b0.commands
      BY WithState
    <2>4. done \o <<>> = done
      BY DEF Done
    <2>5. Finished(y) = CommandDone(y).commands
      BY <2>2, <2>3, FinishedModes
    <2>6. CommandDone(y) = y
      BY <2>2, <2>3, Zenon DEF CommandDone
    <2>. QED BY <2>1, <2>2, <2>3, <2>4, <2>5, <2>6, Zenon
  <1>. QED BY <1>3, <1>4, <1>5

-----------------------------------------------------------------------------
(* What is typed for a line or a file is a text of these characters.       *)
Typed ==
    /\ kind = "line" => text \in Seq(Chars)
    /\ kind = "file" => text \in Seq(FChars)

(* It is one at every step.                                                *)
LEMMA TypedAlways == Spec => []Typed
  <1>1. Init => Typed
    <2>1. <<>> \in Seq(Chars) /\ <<>> \in Seq(FChars)
      OBVIOUS
    <2>. QED BY <2>1 DEF Init, Typed
  <1>2. Typed /\ [Next]_vars => Typed'
    <2>. SUFFICES ASSUME Typed, [Next]_vars PROVE Typed'
      OBVIOUS
    <2>1. CASE UNCHANGED vars
      BY <2>1 DEF Typed, vars
    <2>2. CASE Type
      <3>1. kind' = kind
        BY <2>2 DEF Type
      <3>2. CASE kind = "line"
        <4>1. text \in Seq(Chars)
          BY <3>2 DEF Typed
        <4>2. PICK c \in Alphabet["line"] : text' = Append(text, c)
          BY <2>2, <3>2, Zenon DEF Type
        <4>3. c \in Chars
          BY DEF Alphabet, Chars, Quotes
        <4>4. text' \in Seq(Chars)
          BY <4>1, <4>2, <4>3
        <4>. QED BY <3>1, <3>2, <4>4 DEF Typed
      <3>3. CASE kind = "file"
        <4>1. text \in Seq(FChars)
          BY <3>3 DEF Typed
        <4>2. PICK c \in Alphabet["file"] : text' = Append(text, c)
          BY <2>2, <3>3, Zenon DEF Type
        <4>3. c \in FChars
          BY DEF Alphabet, FChars, Chars, Quotes
        <4>4. text' \in Seq(FChars)
          BY <4>1, <4>2, <4>3
        <4>. QED BY <3>1, <3>3, <4>4 DEF Typed
      <3>4. CASE kind # "line" /\ kind # "file"
        BY <3>1, <3>4 DEF Typed
      <3>. QED BY <3>2, <3>3, <3>4
    <2>. QED BY <2>1, <2>2 DEF Next
  <1>. QED BY <1>1, <1>2, PTL DEF Spec

(* Whatever line is typed, with its semicolons, quotes and backslashes     *)
(* escaped (unless a string of it has blanks to keep), or in quotes of a   *)
(* kind that it does not have and its backslashes doubled: it is one       *)
(* command of a hotkey or an action, and what is stored, parsed again, is  *)
(* the commands of the line.                                               *)
THEOREM HotkeysRun == Spec => []HotkeyRunsCommands
  <1>1. Typed => HotkeyRunsCommands
    <2>. SUFFICES ASSUME Typed, kind = "line"
                  PROVE  /\ BlanksKept(text) => RunsAs(WithEscapes(text), text)
                         /\ \A q \in Quotes \ Range(text) : RunsAs(Quoted(text, q), text)
      BY Zenon DEF HotkeyRunsCommands
    <2>1. text \in Seq(Chars)
      BY DEF Typed
    <2>2. BlanksKept(text) => RunsAs(WithEscapes(text), text)
      BY <2>1, EscapedRuns
    <2>3. ASSUME NEW q \in Quotes, q \notin Range(text) PROVE RunsAs(Quoted(text, q), text)
      BY <2>1, <2>3, QuotedRuns
    <2>. QED BY <2>2, <2>3
  <1>. QED BY <1>1, TypedAlways, PTL

(* Whatever file is sourced: if its last line has its newline, and no line *)
(* ends in a backslash that stands alone, it runs what its lines are as    *)
(* one, each closed and ended with a semicolon, and the comments blank.    *)
THEOREM SourcesRun == Spec => []SourceRunsLines
  <1>1. Typed => SourceRunsLines
    BY FileRuns DEF Typed, SourceRunsLines
  <1>. QED BY <1>1, TypedAlways, PTL

=============================================================================
