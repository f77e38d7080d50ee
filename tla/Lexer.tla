------------------------------- MODULE Lexer --------------------------------
(* The lexer of lexer.c: characters to tokens, and the source location that *)
(* the nodes get.  The parser decides at each token whether newlines count  *)
(* (space) and may parse another file after a string, which takes the place *)
(* of the source until it has been read to its end.  What a string stands   *)
(* for is in DataStore.  A character stands for its class: 7 for the octal  *)
(* digits 2 to 7, 9 for 8 and 9, the letters of hexadecimal digits, of the  *)
(* prefixes and of two keywords for the others, upper case among them; the  *)
(* other keywords are compared as these two are.                            *)
EXTENDS Integers, Sequences, FiniteSets, FiniteSetsExt, SequencesExt

CONSTANTS
    Texts,          \* the sources
    Imported,       \* sources that are imported
    MaxImports,     \* bound: files that are imported
    Wrap            \* 2 to the width of a value

(* "end" stands for the byte behind a source *)
ASSUME LexerAssumption == /\ Wrap \in Nat \ {0} /\ MaxImports \in Nat
                          /\ Texts \cup Imported \subseteq Seq(STRING \ {"end"})

VARIABLES
    text,           \* the bytes that input_stream points into
    input, priv,    \* input_stream and priv_stream, 0 for NULL
    loc,            \* nodes.node.loc
    token, value,   \* nodes.token, nodes.value
    outer,          \* what the callers of parse() keep in local variables
    imports,        \* number of imports so far
    spans           \* history: the tokens of this text and where they are

frame == [text |-> text, input |-> input, priv |-> priv, loc |-> loc, token |-> token,
          value |-> value, spans |-> spans]
vars == <<text, input, priv, loc, token, value, outer, imports, spans>>

-----------------------------------------------------------------------------
(* Characters                                                               *)
Quote == "\""
Char(i) == IF i > Len(text) THEN "end" ELSE text[i]

Digits(base) == CASE base = 2  -> {"0", "1"}
                  [] base = 8  -> {"0", "1", "7"}
                  [] base = 10 -> {"0", "1", "7", "9"}
                  [] base = 16 -> {"0", "1", "7", "9", "a", "b", "f"}
DigitValue(c) == CASE c = "a" -> 10 [] c = "b" -> 11 [] c = "f" -> 15
                   [] c = "0" -> 0 [] c = "1" -> 1 [] c = "7" -> 7 [] c = "9" -> 9

isID == {"0", "1", "7", "9", "a", "b", "f", "i", "o", "r", "x", "_"}
Doubled == [c \in {"+", "-", "*", "/", "%", "&", "|", "<", ">", "^", "!", "="} |->
    CASE c = "+" -> "add" [] c = "-" -> "sub" [] c = "*" -> "mul" [] c = "/" -> "div"
      [] c = "%" -> "mod" [] c = "&" -> "and" [] c = "|" -> "or" [] c = "<" -> "less"
      [] c = ">" -> "great" [] c = "^" -> "xor" [] c = "!" -> "not" [] c = "=" -> "eq"]
WithEq == [c \in DOMAIN Doubled |->
    CASE c = "+" -> "addeq" [] c = "-" -> "subeq" [] c = "*" -> "muleq" [] c = "/" -> "diveq"
      [] c = "%" -> "modeq" [] c = "&" -> "andeq" [] c = "|" -> "oreq" [] c = "<" -> "lesseq"
      [] c = ">" -> "greateq" [] c = "^" -> "xoreq" [] c = "!" -> "noteq" [] c = "=" -> "eqeq"]
Single == [c \in {"(", ")", "{", "}", "[", "]", ".", ",", ":", ";", "#", "?", "@", "$", "\\", "~"} |->
    CASE c = "(" -> "call" [] c = ")" -> "crb" [] c = "{" -> "ocb" [] c = "}" -> "ccb"
      [] c = "[" -> "osb" [] c = "]" -> "csb" [] c = "." -> "dot" [] c = "," -> "comma"
      [] c = ":" -> "colon" [] c = ";" -> "scolon" [] c = "#" -> "import" [] c = "?" -> "ask"
      [] c = "@" -> "at" [] c = "$" -> "this" [] c = "\\" -> "catnl" [] c = "~" -> "external"]
Keyword(s) == CASE s = <<"i", "f">>      -> "if"
                [] s = <<"f", "o", "r">> -> "for"
                [] OTHER                 -> "id"

(* the first place from i on where none of the characters is *)
Past(i, chars) == Min({j \in i .. Len(text) + 1 : Char(j) \notin chars})
Slice(i, j) == SubSeq(text, i, j - 1)

-----------------------------------------------------------------------------
(* Locations                                                                *)
(* the length of a newline, 0 where there is none *)
newlineChar(i) == IF Char(i) = "\r" /\ Char(i + 1) = "\n" THEN 2
                  ELSE IF Char(i) \in {"\r", "\n"} THEN 1
                  ELSE 0

nextChar(w) ==
    IF newlineChar(w.at) = 0
    THEN [at |-> w.at + 1, loc |-> [w.loc EXCEPT !.col = @ + 1]]
    ELSE [at |-> w.at + newlineChar(w.at), loc |-> [line |-> w.loc.line + 1, col |-> 1]]

(* from the token before to its end, as far as n characters *)
Walked ==
    LET walk[n \in 0 .. Len(text)] ==
            IF n = 0 THEN [at |-> IF priv = 0 THEN input ELSE priv, loc |-> loc]
            ELSE IF walk[n - 1].at = input THEN walk[n - 1]
            ELSE nextChar(walk[n - 1])
    IN  walk[Len(text)]

-----------------------------------------------------------------------------
(* Tokens                                                                   *)
Tok(tok, upto) == [token |-> tok, upto |-> upto, value |-> 0]

(* mutant of Number: a digit separator shifts like a digit *)
NumberShifted(i, base) ==
    LET upto == Past(i, Digits(base) \cup {"_"})
        sum[n \in 0 .. upto - i] ==
            IF n = 0 THEN 0
            ELSE (sum[n - 1] * base
                  + (IF Char(i + n - 1) = "_" THEN 0 ELSE DigitValue(Char(i + n - 1)))) % Wrap
    IN  [token |-> "number", upto |-> upto, value |-> sum[upto - i]]

(* binaryChar(), octalChar(), hexChar() and numberChar() *)
Number(i, base) ==
    LET upto == Past(i, Digits(base) \cup {"_"})
        sum[n \in 0 .. upto - i] ==
            IF n = 0 THEN 0
            ELSE IF Char(i + n - 1) = "_" THEN sum[n - 1]
            ELSE (sum[n - 1] * base + DigitValue(Char(i + n - 1))) % Wrap
    IN  [token |-> "number", upto |-> upto, value |-> sum[upto - i]]
zeroChar == [c \in {"b", "o", "x"} |-> CASE c = "b" -> 2 [] c = "o" -> 8 [] c = "x" -> 16]

String(i) ==
    LET close == Min({j \in i + 1 .. Len(text) + 1 : Char(j) \in {Quote, "end"}})
    IN  Tok("string", IF Char(close) = Quote THEN close + 1 ELSE close)

Dot(i) == IF Char(i + 1) = "." /\ Char(i + 2) = "." THEN Tok("varg", i + 3) ELSE Tok("dot", i + 1)

Operator(i) == IF Char(i + 1) = "=" THEN Tok(WithEq[Char(i)], i + 2)
               ELSE Tok(Doubled[Char(i)], i + 1)

(* the first character is taken whatever it is *)
Word(i) ==
    LET upto == Past(i + 1, isID)
    IN  Tok(Keyword(Slice(i, upto)), upto)

Scan(i) ==
    CASE Char(i) = "end"                                        -> Tok("eof", i)
      [] Char(i) = Quote                                        -> String(i)
      [] Char(i) = "0" /\ Char(i + 1) \in DOMAIN zeroChar       -> Number(i + 2, zeroChar[Char(i + 1)])
      [] Char(i) \in Digits(10) /\ ~ (Char(i) = "0" /\ Char(i + 1) \in DOMAIN zeroChar)
                                                                -> Number(i, 10)
      [] Char(i) = "."                                          -> Dot(i)
      [] newlineChar(i) > 0                                     -> Tok("nl", i + newlineChar(i))
      [] Char(i) \in DOMAIN Doubled                             -> Operator(i)
      [] Char(i) \in DOMAIN Single \ {"."}                      -> Tok(Single[Char(i)], i + 1)
      [] OTHER                                                  -> Word(i)

(* what is passed over in front of a token *)
Skipped(space) == IF space = 1 THEN {" "} ELSE {" ", "\n", "\r"}

(* the columns of what is skipped are added, and one more for a quote *)
getToken(space) ==
    LET from == Past(input, Skipped(space))
        tok  == Scan(from)
        line == Walked.loc
    IN  /\ loc' = [line EXCEPT !.col = @ + (from - input) + (IF tok.token = "string" THEN 1 ELSE 0)]
        /\ priv' = from
        /\ input' = tok.upto
        /\ token' = tok.token
        /\ value' = tok.value
        /\ spans' = Append(spans, [token |-> tok.token, from |-> from, upto |-> tok.upto, space |-> space])
        /\ UNCHANGED <<text, outer, imports>>

-----------------------------------------------------------------------------
(* parse() asks for the first token with space = 0, and the parser for the  *)
(* others with either; it stops at the end of the file                      *)
NextToken ==
    /\ token # "eof"
    /\ \E space \in IF spans = <<>> THEN {0} ELSE {0, 1} : getToken(space)

(* the variables of the lexer as parse() sets them for a source *)
Fresh(t) == [text |-> t, input |-> 1, priv |-> 0, loc |-> [line |-> 1, col |-> 1],
             token |-> "none", value |-> 0, spans |-> <<>>]

Becomes(f) ==
    /\ text' = f.text
    /\ input' = f.input
    /\ priv' = f.priv
    /\ loc' = f.loc
    /\ token' = f.token
    /\ value' = f.value
    /\ spans' = f.spans

(* importModule(), behind the name of the file *)
Import ==
    /\ token = "string"
    /\ Len(spans) > 1 /\ spans[Len(spans) - 1].token = "import"
    /\ imports < MaxImports
    /\ \E t \in Imported : Becomes(Fresh(t))
    /\ outer' = <<frame>> \o outer
    /\ imports' = imports + 1

(* mutant of Resume: the location of the caller is not kept *)
ResumeThere ==
    /\ token = "eof"
    /\ outer # <<>>
    /\ Becomes([outer[1] EXCEPT !.loc = loc])
    /\ outer' = Tail(outer)
    /\ UNCHANGED imports


(* the end of parse() *)
Resume ==
    /\ token = "eof"
    /\ outer # <<>>
    /\ Becomes(outer[1])
    /\ outer' = Tail(outer)
    /\ UNCHANGED imports

Init ==
    /\ text \in Texts
    /\ input = 1 /\ priv = 0
    /\ loc = [line |-> 1, col |-> 1]
    /\ token = "none" /\ value = 0
    /\ spans = <<>>
    /\ outer = <<>>
    /\ imports = 0

Done == token = "eof" /\ outer = <<>>
Finished == Done /\ UNCHANGED vars

Next == NextToken \/ Import \/ Resume \/ Finished

Spec == Init /\ [][Next]_vars /\ WF_vars(NextToken \/ Import \/ Resume)

-----------------------------------------------------------------------------
(* What the characters of a token have to be, and what a number stands for  *)
Written(s, base) ==
    IF base = 10 THEN s # <<>> /\ s[1] \in Digits(10) /\ ToSet(s) \subseteq Digits(10) \cup {"_"}
    ELSE /\ Len(s) >= 2 /\ s[1] = "0" /\ s[2] \in DOMAIN zeroChar
         /\ zeroChar[s[2]] = base
         /\ ToSet(SubSeq(s, 3, Len(s))) \subseteq Digits(base) \cup {"_"}

(* a digit is worth as many times its value as the ones behind it weigh *)
Worth(s, base) ==
    LET size    == IF base = 10 THEN Len(s) ELSE Len(s) - 2
        last(n) == s[Len(s) - n + 1]
        weight[n \in 0 .. size] ==
            IF n = 0 THEN 1
            ELSE IF last(n) = "_" THEN weight[n - 1]
            ELSE base * weight[n - 1]
        worth[n \in 0 .. size] ==
            IF n = 0 THEN 0
            ELSE IF last(n) = "_" THEN worth[n - 1]
            ELSE DigitValue(last(n)) * weight[n - 1] + worth[n - 1]
    IN  worth[size] % Wrap

Starters == {" ", "\n", "\r", Quote} \cup Digits(10) \cup DOMAIN Doubled \cup DOMAIN Single
IsWord(s) == s # <<>> /\ s[1] \notin Starters /\ ToSet(Tail(s)) \subseteq isID

(* the tokens that a nonempty piece of source can be *)
Kinds(s) ==
    UNION {IF s[1] = Quote /\ Len(s) > 1 /\ {k \in 2 .. Len(s) : s[k] = Quote} = {Len(s)}
               THEN {"string"} ELSE {},
           IF \E base \in {2, 8, 10, 16} : Written(s, base) THEN {"number"} ELSE {},
           IF s \in {<<"\n">>, <<"\r">>, <<"\r", "\n">>} THEN {"nl"} ELSE {},
           IF s = <<".", ".", ".">> THEN {"varg"} ELSE {},
           IF Len(s) = 1 /\ s[1] \in DOMAIN Single THEN {Single[s[1]]} ELSE {},
           IF Len(s) = 1 /\ s[1] \in DOMAIN Doubled THEN {Doubled[s[1]]} ELSE {},
           IF Len(s) = 2 /\ s[1] \in DOMAIN Doubled /\ s[2] = "=" THEN {WithEq[s[1]]} ELSE {},
           IF IsWord(s) THEN {Keyword(s)} ELSE {}}

LastSpan == spans[Len(spans)]
Before == IF Len(spans) = 1 THEN 1 ELSE spans[Len(spans) - 1].upto

(* only blanks lie between two tokens, newlines where the parser said so *)
NothingLost == ToSet(Slice(Before, LastSpan.from)) \subseteq Skipped(LastSpan.space)

(* no longer piece of source from the same place is a token *)
Longest == \A j \in LastSpan.upto + 1 .. Len(text) + 1 : Kinds(Slice(LastSpan.from, j)) = {}

Unterminated == /\ token = "string" /\ LastSpan.upto = Len(text) + 1
                /\ {k \in LastSpan.from .. Len(text) : text[k] = Quote} = {LastSpan.from}

(* Property.  getToken() (lexer.c:288-397) returns the longest token that   *)
(* begins behind the last one and the blanks: nothing of the source is lost *)
(* or read twice, also across an import, the end is told only at the end,   *)
(* and the value of a number is that of its digits in its base, without the *)
(* separators, as far as it fits into the width (lexer.c:204-272).  A text  *)
(* that is not closed goes to the end of the source.                        *)
TokenFound ==
    spans # <<>> =>
        LET s == Slice(LastSpan.from, LastSpan.upto)
        IN  /\ NothingLost
            /\ IF token = "eof" THEN LastSpan.from = Len(text) + 1
               ELSE Unterminated \/ (s # <<>> /\ token \in Kinds(s) /\ Longest)
NumberMeant ==
    spans # <<>> /\ token = "number" =>
        LET s == Slice(LastSpan.from, LastSpan.upto)
        IN  \E base \in {2, 8, 10, 16} : Written(s, base) /\ value = Worth(s, base)
TokenMeant == TokenFound /\ NumberMeant

-----------------------------------------------------------------------------
NewlineAt(i) == newlineChar(i) > 0 /\ ~ (i > 1 /\ Char(i) = "\n" /\ Char(i - 1) = "\r")

(* Property.  The walk from one token to the next ends there and does not   *)
(* step over it between the characters of a newline (lexer.c:294), and the  *)
(* location follows from the tokens so far, whatever was imported between   *)
(* them (moduler.c:398-400): the line counts the newlines that were in      *)
(* tokens, the column begins behind the last of them and has one more for   *)
(* each text since then.  It is the place in the source where no newline    *)
(* has been skipped and no text stands on the line.                         *)
LocAccounts ==
    spans # <<>> =>
        LET here    == LastSpan.from
            counted == {i \in 1 .. here - 1 : /\ NewlineAt(i)
                                             /\ \E k \in 1 .. Len(spans) :
                                                    spans[k].from <= i /\ i < spans[k].upto}
            begin   == IF counted = {} THEN 1 ELSE Max(counted) + newlineChar(Max(counted))
            texts   == {k \in 1 .. Len(spans) : spans[k].token = "string" /\ spans[k].from >= begin}
        IN  /\ loc = [line |-> 1 + Cardinality(counted),
                      col  |-> here - begin + 1 + Cardinality(texts)]
            /\ Walked.at = input

=============================================================================
