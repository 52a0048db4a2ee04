------------------------------- MODULE Parse -------------------------------
(***************************************************************************)
(* How text becomes commands, numbers and events: the words and semicolons *)
(* of parseClientCommand, the lines of sourceCommandFile, the numbers of   *)
(* parseLong, the event types of String2EV, and the TYPE:CODE:VALUE of a   *)
(* hotkey.  A text is a sequence of characters; the state is one text that *)
(* is typed character by character, and the properties compare what the    *)
(* program makes of it with what its user means.                           *)
(*                                                                         *)
(* A parser that may refuse returns the set of its results: one, or none.  *)
(* Numbers stay far below the width of int: overflow is not reached.       *)
(***************************************************************************)
EXTENDS Integers, SequencesExt, FiniteSetsExt, TLC

CONSTANTS
    Length,    \* kind of text -> the most characters that are typed
    Codes,     \* event codes and values
    Values

Kinds == {"line", "file", "number", "event"}

ASSUME ParseAssumption ==
    /\ Length \in [Kinds -> Nat]
    /\ Codes \subseteq 0..767 /\ Values \subseteq Int

Blank       == " "
NL          == "\n"
Semicolon   == ";"
Hash        == "#"
Backslash   == "\\"
DoubleQuote == "\""
SingleQuote == "'"
White       == {Blank, "\t", "\r", NL}
Quotes      == {DoubleQuote, SingleQuote}

(* One character of each class the code tells apart: "b" and "n" are also  *)
(* names of control characters behind a backslash, "a" is a digit of base  *)
(* 16 only.                                                                *)
Alphabet ==
    [line   |-> {"a", "n", Blank, Semicolon, Backslash} \cup Quotes,
     file   |-> {"a", Blank, Semicolon, Backslash, Hash, NL} \cup Quotes,
     number |-> {"0", "1", "8", "a", "x", "X", Blank, "+", "-"},
     event  |-> {}]

(* s without the characters of cs that it begins with (skipWhite).         *)
Skip(s, cs) ==
    LET first == SelectInSeq(s, LAMBDA c : c \notin cs)
    IN  IF first = 0 THEN <<>> ELSE SubSeq(s, first, Len(s))

-----------------------------------------------------------------------------
(* parseClientCommand and parseString, as the characters pass: what the    *)
(* cursor is in, the word begun, the words and commands complete.          *)
(* An escape before a word survives white space; within a word it does     *)
(* not, and an escaped quote ends a string all the same.                   *)

Between == [mode |-> "between", quote |-> "none", word |-> <<>>, args |-> <<>>, commands |-> <<>>]

In(st, mode)    == [st EXCEPT !.mode = mode]
More(st, chars) == [st EXCEPT !.word = @ \o chars]
WordDone(st)    ==
    [mode |-> "between", quote |-> "none", word |-> <<>>, args |-> Append(st.args, st.word),
     commands |-> st.commands]
CommandDone(st) ==
    IF st.args = <<>> THEN st
    ELSE [mode |-> st.mode, quote |-> st.quote, word |-> st.word, args |-> <<>>,
          commands |-> Append(st.commands, st.args)]

Opened(st, quote) == [st EXCEPT !.quote = quote]

Starts(st, c) ==
    CASE c \in White   -> st
      [] c = Backslash  -> In(st, "escape")
      [] c = Semicolon  -> CommandDone(st)
      [] c \in Quotes  -> Opened(In(st, "string"), c)
      [] OTHER         -> In(More(st, <<c>>), "word")

StartsEscaped(st, c) ==
    CASE c \in White  -> st
      [] c = Backslash -> In(st, "wordEscape")
      [] OTHER        -> In(More(st, <<c>>), "word")

Continues(st, c) ==
    CASE c \in White  -> WordDone(st)
      [] c = Semicolon -> CommandDone(WordDone(st))
      [] c = Backslash -> In(st, "wordEscape")
      [] OTHER        -> More(st, <<c>>)

(* The escape in a word takes the next character as it is (mutant: the     *)
(* loop condition forgets it before a semicolon).                          *)
ContinuesAnyway(st, c) ==
    IF c \in White \cup {Semicolon} THEN Continues(st, c) ELSE In(More(st, <<c>>), "word")
ContinuesEscaped(st, c) ==
    IF c \in White THEN WordDone(st) ELSE In(More(st, <<c>>), "word")

InString(st, c) ==
    CASE c = st.quote  -> WordDone(st)
      [] c = Backslash -> In(st, "stringEscape")
      [] OTHER        -> More(st, <<c>>)

Control ==
    [c \in {"t", "r", "n", "f", "v", "b", "0"} |->
        CASE c = "t" -> "\t" [] c = "r" -> "\r" [] c = "n" -> NL [] c = "f" -> "\f"
          [] c = "v" -> "VT" [] c = "b" -> "BS"  [] c = "0" -> "NUL"]
EscapeOf(c) ==
    CASE c \in DOMAIN Control            -> <<Control[c]>>
      [] c \in Quotes \cup {Backslash} -> <<c>>
      [] OTHER                          -> <<Backslash, c>>
InStringEscaped(st, c) ==
    IF c = st.quote THEN WordDone(st) ELSE In(More(st, EscapeOf(c)), "string")

Character(st, c) ==
    CASE st.mode = "between"      -> Starts(st, c)
      [] st.mode = "escape"       -> StartsEscaped(st, c)
      [] st.mode = "word"         -> Continues(st, c)
      [] st.mode = "wordEscape"   -> ContinuesEscaped(st, c)
      [] st.mode = "string"       -> InString(st, c)
      [] st.mode = "stringEscape" -> InStringEscaped(st, c)

(* What the cursor is in after each number of characters of s.             *)
Reads(s) ==
    LET reads[n \in 0..Len(s)] == IF n = 0 THEN Between ELSE Character(reads[n - 1], s[n])
    IN  reads
End(s) == Reads(s)[Len(s)]

Finished(end) ==
    CommandDone(IF end.mode \in {"between", "escape"} THEN end ELSE WordDone(end)).commands
parseClientCommand(s) == Finished(End(s))

(* The command that a hotkey or an action stores: the remaining words,     *)
(* joined with blanks, to be parsed again when it runs.                    *)
WithWord(s, word) == IF s = <<>> THEN word ELSE (s \o <<Blank>>) \o word
Joins(args) ==
    LET joins[n \in 0..Len(args)] == IF n = 0 THEN <<>> ELSE WithWord(joins[n - 1], args[n])
    IN  joins
Join(args) == Joins(args)[Len(args)]

-----------------------------------------------------------------------------
(* sourceCommandFile: getline, the last character off, comments skipped.   *)

IgnoredByHash(line) == line = <<>> \/ Hash \in Range(line)
Ignored(line) == line = <<>> \/ Head(line) = Hash

Ran(line) ==
    LET kept == Skip(Front(line), White)
    IN  IF Ignored(kept) THEN <<>> ELSE parseClientCommand(kept)

(* After each number of characters: the line begun, and the commands of    *)
(* those that were complete.                                               *)
NoLine == [line |-> <<>>, commands |-> <<>>]
Gets(st, c) ==
    IF c = NL THEN [line |-> <<>>, commands |-> st.commands \o Ran(Append(st.line, c))]
    ELSE [st EXCEPT !.line = Append(@, c)]
Sources(file) ==
    LET sources[n \in 0..Len(file)] == IF n = 0 THEN NoLine ELSE Gets(sources[n - 1], file[n])
    IN  sources

sourceCommandFile(file) ==
    LET end == Sources(file)[Len(file)]
    IN  IF end.line = <<>> THEN end.commands ELSE end.commands \o Ran(end.line)

-----------------------------------------------------------------------------
(* parseLong and parseULong; maxlen is the length of s, and what follows s *)
(* in its buffer (the end, or a colon) is neither sign nor digit.          *)

Digits  == <<"0", "1", "2", "3", "4", "5", "6", "7", "8", "9",
             "a", "b", "c", "d", "e", "f">>
DigitOf == [c \in Range(Digits) |-> (CHOOSE i \in DOMAIN Digits : Digits[i] = c) - 1]
IsDigit(c, base) == c \in DOMAIN DigitOf /\ DigitOf[c] < base

Accumulated(s, base) == FoldLeft(LAMBDA n, c : base * n + DigitOf[c], 0, s)
InBase(s, base) ==
    IF \A i \in DOMAIN s : IsDigit(s[i], base) THEN {Accumulated(s, base)} ELSE {}

(* After the 0 of an octal number (mutant: 8 and 9 pass as well).          *)
OctalAnyDigit(s) ==
    IF \A i \in DOMAIN s : IsDigit(s[i], 10) THEN {Accumulated(s, 8)} ELSE {}
Octal(s) == InBase(s, 8)

parseLongParse(s) ==
    CASE Len(s) > 1 /\ s[1] = "0" /\ s[2] = "x" -> InBase(SubSeq(s, 3, Len(s)), 16)
      [] Len(s) > 1 /\ s[1] = "0" /\ s[2] # "x" -> Octal(Tail(s))
      [] OTHER                                  -> InBase(s, 10)

parseLongDo(s, signs) ==
    LET t      == Skip(s, {Blank, "\t"})
        signed == t # <<>> /\ Head(t) \in signs
        u      == IF signed THEN Tail(t) ELSE t
        sign   == IF signed /\ Head(t) = "-" THEN -1 ELSE 1
    IN  IF u = <<>> \/ ~IsDigit(Head(u), 10) THEN {}
        ELSE {sign * n : n \in parseLongParse(u)}

parseLong(s)  == parseLongDo(s, {"+", "-"})
parseULong(s) == parseLongDo(s, {"+"})

-----------------------------------------------------------------------------
(* Event types by name, and TYPE:CODE:VALUE.                               *)

EV_MAX == 31
EVMap == <<
    [num |-> 0,  name |-> <<"S", "Y", "N">>], [num |-> 1,  name |-> <<"K", "E", "Y">>],
    [num |-> 2,  name |-> <<"R", "E", "L">>], [num |-> 3,  name |-> <<"A", "B", "S">>],
    [num |-> 4,  name |-> <<"M", "S", "C">>], [num |-> 5,  name |-> <<"S", "W", " ">>],
    [num |-> 17, name |-> <<"L", "E", "D">>], [num |-> 18, name |-> <<"S", "N", "D">>],
    [num |-> 20, name |-> <<"R", "E", "P">>], [num |-> 21, name |-> <<"F", "F">>],
    [num |-> 22, name |-> <<"P", "W", "R">>],
    [num |-> 23, name |-> <<"F", "F", "_", "S", "T", "A", "T", "U", "S">>]>>

(* EV2String looks its number up by position, not by number.               *)
EV2String(type) ==
    IF type < Len(EVMap) THEN EVMap[type + 1].name
    ELSE <<"<", "U", "n", "k", "n", "o", "w", "n", ">">>

(* strcasecmp's folding, for the letters of the names.                     *)
Lower == [A |-> "a", B |-> "b", C |-> "c", D |-> "d", E |-> "e", F |-> "f", K |-> "k",
          L |-> "l", M |-> "m", N |-> "n", P |-> "p", R |-> "r", S |-> "s", T |-> "t",
          U |-> "u", V |-> "v", W |-> "w", Y |-> "y"]
Folded(s) == [i \in DOMAIN s |-> IF s[i] \in DOMAIN Lower THEN Lower[s[i]] ELSE s[i]]

Prefix == <<"e", "v", "_">>

(* strncasecmp over the length of the text (mutant: over that of the name, *)
(* which makes FF of FF_STATUS).                                           *)
NamesUpToName(s, name)  == IsPrefix(Folded(name), Folded(s))
Names(s, name) == IsPrefix(Folded(s), Folded(name))

String2EV(text) ==
    LET s   == IF Len(text) > 3 /\ IsPrefix(Prefix, Folded(text))
               THEN SubSeq(text, 4, Len(text)) ELSE text
        hit == SelectInSeq(EVMap, LAMBDA e : Names(s, e.name))
    IN  IF hit # 0 THEN {EVMap[hit].num} ELSE parseULong(s)

(* clientCommand_Hotkey: from the word to the event.                       *)
hotkeydef(s) ==
    LET dots == {i \in DOMAIN s : s[i] = ":"}
        dot1 == Min(dots)
        dot2 == Min(dots \ {dot1})
    IN  IF Cardinality(dots) < 2 \/ dot2 = Len(s) THEN {}
        ELSE {[type |-> t, code |-> c, value |-> v] :
                t \in String2EV(SubSeq(s, 1, dot1 - 1)) \cap 0..EV_MAX,
                c \in parseULong(SubSeq(s, dot1 + 1, dot2 - 1)) \cap 0..65535,
                v \in parseLong(SubSeq(s, dot2 + 1, Len(s)))}

(* What `netevent show' prints of an event: "%s:%u:%i".                    *)
Decimal(n) ==
    LET digits[k \in Nat] ==
          IF k < 10 THEN <<Digits[k + 1]>> ELSE Append(digits[k \div 10], Digits[(k % 10) + 1])
    IN  IF n < 0 THEN <<"-">> \o digits[-n] ELSE digits[n]

Line(name, e) == name \o <<":">> \o Decimal(e.code) \o <<":">> \o Decimal(e.value)
Show(e) == Line(EV2String(e.type), e)

-----------------------------------------------------------------------------
(* What is typed: a text of one kind, character by character; for an event *)
(* a spelling of it, all at once.                                          *)
VARIABLES kind, text, event
vars == <<kind, text, event>>

Events == [type : {EVMap[i].num : i \in DOMAIN EVMap}, code : Codes, value : Values]
NameOf(type) == LET i == CHOOSE i \in DOMAIN EVMap : EVMap[i].num = type
                IN  EVMap[i].name
Spellings(e) ==
    {Line(n, e) : n \in {NameOf(e.type), Folded(NameOf(e.type)),
                         <<"E", "V", "_">> \o NameOf(e.type), Decimal(e.type)}}
    \cup (IF e.type <= 5 THEN {Show(e)} ELSE {})

Init ==
    /\ kind \in Kinds
    /\ event \in Events
    /\ text \in IF kind = "event" THEN Spellings(event) ELSE {<<>>}
    /\ kind # "event" => event = CHOOSE e \in Events : TRUE

Type ==
    /\ Len(text) < Length[kind]
    /\ \E c \in Alphabet[kind] : text' = Append(text, c)
    /\ UNCHANGED <<kind, event>>

Next == Type
Spec == Init /\ [][Next]_vars

-----------------------------------------------------------------------------
(* A command reaches a hotkey or an action in two ways (README.md:96 shows *)
(* the first): every semicolon, quote and backslash escaped, where a       *)
(* backslash that begins a word takes three to come through; or all of it  *)
(* in quotes of a kind that is not in it, the backslashes doubled (a quote *)
(* cannot be escaped in its own string).  Either way the line is one       *)
(* command, and what is run later, joined and parsed a second time, are    *)
(* the commands that the text has when it is typed as a line of its own.   *)
(* Escapes do not keep several blanks of a string inside the text apart,   *)
(* which the joining makes one.                                            *)
Special == {Semicolon, Backslash} \cup Quotes
Escaped(s, i) ==
    IF s[i] = Backslash /\ (i = 1 \/ s[i - 1] = Blank) THEN <<Backslash, Backslash, Backslash>>
    ELSE IF s[i] \in Special THEN <<Backslash, s[i]>> ELSE <<s[i]>>
WithEscapes(s) == FlattenSeq([i \in DOMAIN s |-> Escaped(s, i)])

Doubled(c) == IF c = Backslash THEN <<Backslash, Backslash>> ELSE <<c>>
Quoted(s, q) == <<q>> \o FlattenSeq([i \in DOMAIN s |-> Doubled(s[i])]) \o <<q>>

BlanksKept(s) ==
    \A i \in DOMAIN s : s[i] = Blank /\ Reads(s)[i].mode = "string" =>
        i < Len(s) /\ s[i + 1] # Blank

RunsAs(typed, meant) ==
    LET line == parseClientCommand(<<"k", Blank>> \o typed)
    IN  /\ Len(line) = 1
        /\ parseClientCommand(Join(Tail(line[1]))) = parseClientCommand(meant)

HotkeyRunsCommands ==
    kind = "line" =>
        /\ BlanksKept(text) => RunsAs(WithEscapes(text), text)
        /\ \A q \in Quotes \ Range(text) : RunsAs(Quoted(text, q), text)

(* A sourced file whose last line has its newline is its lines one after   *)
(* another, as if semicolons stood between them, the comments were blank,  *)
(* and a string or an escape that a line leaves open were closed: no line  *)
(* loses or gains a character, no command, word or string reaches over a   *)
(* line, and only a hash that begins a line, blanks aside, makes it a      *)
(* comment.  (A line that ends with a backslash by itself, which is lost,  *)
(* is left out: before a semicolon it would mean something.)               *)
InComment(s, i) ==
    \E j \in 1..i :
        /\ s[j] = Hash /\ \A k \in j..i : s[k] # NL
        /\ \E b \in 1..j : /\ b = 1 \/ s[b - 1] = NL
                           /\ \A k \in b..(j - 1) : s[k] = Blank

Closed(st) ==
    CASE st.mode \in {"string", "stringEscape"} -> <<st.quote, Semicolon>>
      [] st.mode = "wordEscape"                 -> <<Blank, Semicolon>>
      [] OTHER                                  -> <<Semicolon>>

(* After each number of characters of s.                                   *)
OneLine(s) ==
    LET one[n \in 0..Len(s)] ==
          IF n = 0 THEN <<>>
          ELSE one[n - 1] \o (IF s[n] = NL THEN Closed(End(one[n - 1]))
                              ELSE IF InComment(s, n) THEN <<Blank>> ELSE <<s[n]>>)
    IN  one
LoneBackslash(s) == \E i \in DOMAIN s : s[i] = NL /\ End(OneLine(s)[i - 1]).mode = "escape"

SourceRunsLines ==
    (kind = "file" /\ text # <<>> /\ Last(text) = NL /\ ~LoneBackslash(text)) =>
        sourceCommandFile(text) = parseClientCommand(OneLine(text)[Len(text)])

(* parseLong reads what strtol reads with base 0, which it stands in for   *)
(* (main.cpp:151): blanks, a sign, 0x and hexadecimal digits, 0 and octal  *)
(* digits, or decimal digits, nothing after them, and their value; but it  *)
(* takes a bare 0x for 0, and refuses 0X.                                  *)
Value(ds, base) ==
    MapThenSumSet(LAMBDA i : DigitOf[ds[i]] * base ^ (Len(ds) - i), DOMAIN ds)
AllDigits(ds, base) == ds # <<>> /\ \A i \in DOMAIN ds : IsDigit(ds[i], base)

Hexadecimal(s) == IsPrefix(<<"0", "x">>, s) \/ IsPrefix(<<"0", "X">>, s)
Numeral(s) ==
    {Value(d, 16) : d \in {d \in {SubSeq(s, 3, Len(s))} : Hexadecimal(s) /\ AllDigits(d, 16)}}
    \cup {Value(d, 8) : d \in {d \in {s} : IsPrefix(<<"0">>, s) /\ AllDigits(d, 8)}}
    \cup {Value(d, 10) : d \in {d \in {s} : ~IsPrefix(<<"0">>, s) /\ AllDigits(d, 10)}}

strtol(s) ==
    UNION {LET n == Numeral(SubSeq(s, k + 1, Len(s)))
           IN  IF k = 0 THEN n
               ELSE CASE s[k] \in {Blank, "+"} -> n
                      [] s[k] = "-"          -> {-v : v \in n}
                      [] OTHER               -> {} :
             k \in {k \in 0..Len(s) : \A i \in 1..(k - 1) : s[i] = Blank}}

NumbersAsStrtol ==
    (kind = "number" /\ ~IsSuffix(<<"0", "x">>, text)) =>
        parseLong(text) = IF "X" \in Range(text) THEN {} ELSE strtol(text)

(* An event is read as what it spells, by the number of its type or its    *)
(* name in any case and with or without EV_, and so is the line that       *)
(* `netevent show' prints of it (doc/netevent.rst:187), for the types that *)
(* it can name: the words of a command, the type by a prefix search        *)
(* through the names, and the base of each number come to the event that   *)
(* was meant.                                                              *)
EventsAsSpelled ==
    kind = "event" =>
        LET words == parseClientCommand(Quoted(text, DoubleQuote)) IN
        /\ Len(words) = 1 /\ Len(words[1]) = 1
        /\ hotkeydef(words[1][1]) = {event}
=============================================================================
