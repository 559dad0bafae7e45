---------------------------- MODULE SpokenNumbers ----------------------------
(***************************************************************************)
(* spokenNumbersToDigits: how the words of a transcription become the      *)
(* digits the interpreter reads.  A text is a sequence of tokens in lower  *)
(* case without accents; punctuation that ends a word is a token "," of    *)
(* its own, and a hyphenated number is already split into its words.       *)
(***************************************************************************)
EXTENDS Naturals, Sequences, SequencesExt, TLC

Units == [zero |-> 0, um |-> 1, uma |-> 1, dois |-> 2, duas |-> 2, tres |-> 3, quatro |-> 4,
          cinco |-> 5, seis |-> 6, sete |-> 7, oito |-> 8, nove |-> 9, dez |-> 10, onze |-> 11,
          doze |-> 12, treze |-> 13, catorze |-> 14, quinze |-> 15, dezesseis |-> 16,
          dezessete |-> 17, dezoito |-> 18, dezenove |-> 19]
Tens  == [vinte |-> 20, trinta |-> 30, quarenta |-> 40, cinquenta |-> 50, sessenta |-> 60,
          setenta |-> 70, oitenta |-> 80, noventa |-> 90]
Hundreds == [cem |-> 100, cento |-> 100, duzentos |-> 200, trezentos |-> 300,
             quatrocentos |-> 400, quinhentos |-> 500, seiscentos |-> 600,
             setecentos |-> 700, oitocentos |-> 800, novecentos |-> 900]
Scales == [mil |-> 1000]

Joiner  == "e"
Stop    == ","
MoneyMarkers == {"real", "reais", "lance", "lances", "conto", "contos", "dinheiro"}
LanceContext == {"no", "na", "nos", "nas", "em", "de", "do", "da", "dos", "das", "por", "para",
                 "pra", "pro", "com", "o", "a", "os", "as", "num", "numa", "este", "esta",
                 "esse", "essa", "aquele", "aquela", "naquele", "naquela", "reais", "real",
                 "lance", "lances"}

Small        == (DOMAIN Units) \cup (DOMAIN Tens)
IsNumberWord(w) == w \in Small \cup (DOMAIN Hundreds) \cup (DOMAIN Scales)

\* parseNumberWords, for words that are all numbers or the connective.
WordValue(w) == IF w \in DOMAIN Units THEN Units[w]
                ELSE IF w \in DOMAIN Tens THEN Tens[w] ELSE Hundreds[w]
AddWord(sum, w) ==
    IF w = Joiner THEN sum
    ELSE IF w \in DOMAIN Scales
         THEN [total |-> sum.total + Scales[w] * (IF sum.current > 0 THEN sum.current ELSE 1),
               current |-> 0]
         ELSE [sum EXCEPT !.current = @ + WordValue(w)]
ParseNumberWords(words) ==
    LET sum == FoldLeft(AddWord, [total |-> 0, current |-> 0], words) IN sum.total + sum.current

\* Mutant: two numbers said one after the other are one run.
RunEndMutant(text, start) ==
    LET end[e \in start .. Len(text) + 1] ==
            IF e > Len(text) THEN e
            ELSE IF IsNumberWord(text[e]) THEN end[e + 1]
            ELSE IF text[e] = Joiner /\ e < Len(text) /\ IsNumberWord(text[e + 1]) THEN end[e + 1]
            ELSE e
    IN end[start]

\* The index after the run of number words that begins at start.  A hundred after a unit
\* or a ten begins another number, and so does what follows the end of a word.
RunEnd(text, start) ==
    LET end[e \in start .. Len(text) + 1] ==
            IF e > Len(text) THEN e
            ELSE IF IsNumberWord(text[e])
            THEN IF e > start /\ text[e] \in DOMAIN Hundreds /\ text[e - 1] \in Small
                 THEN e ELSE end[e + 1]
            ELSE IF text[e] = Joiner /\ e < Len(text) /\ IsNumberWord(text[e + 1])
            THEN end[e + 1] ELSE e
    IN end[start]

\* A run is a number when it can be the value of a bid.
Converts(text, start, end, force) ==
    LET word(i)    == IF i \in DOMAIN text THEN text[i] ELSE ""
        before     == IF word(start - 1) = Stop THEN word(start - 2) ELSE word(start - 1)
        after      == IF word(end) = Stop THEN word(end + 1) ELSE word(end)
        moneyNear  == before \in MoneyMarkers \/ after \in MoneyMarkers
        scaleOnly  == end = start + 1 /\ text[start] \in DOMAIN Scales
    IN /\ force \/ moneyNear \/ ParseNumberWords(SubSeq(text, start, end - 1)) >= 2
       /\ scaleOnly => moneyNear \/ after = "" \/ after \in LanceContext

\* The converted text.
ToDigits(text, force) ==
    LET rest[i \in 1 .. Len(text) + 1] ==
            IF i > Len(text) THEN <<>>
            ELSE IF IsNumberWord(text[i]) /\ Converts(text, i, RunEnd(text, i), force)
            THEN <<ToString(ParseNumberWords(SubSeq(text, i, RunEnd(text, i) - 1)))>>
                 \o rest[RunEnd(text, i)]
            ELSE <<text[i]>> \o rest[i + 1]
    IN rest[1]
-----------------------------------------------------------------------------
(***************************************************************************)
(* How people say a number up to 9999, the reference for ToDigits.         *)
(***************************************************************************)
Named(names, n) == CHOOSE w \in DOMAIN names : names[w] = n
SayTens(n) ==
    IF n < 20 THEN <<Named([w \in (DOMAIN Units) \ {"uma", "duas"} |-> Units[w]], n)>>
    ELSE <<Named(Tens, n - (n % 10))>>
         \o (IF n % 10 = 0 THEN <<>> ELSE <<Joiner>> \o <<Named(Units, n % 10)>>)
SayHundreds(n) ==
    IF n < 100 THEN SayTens(n)
    ELSE IF n = 100 THEN <<"cem">>
    ELSE <<Named([w \in (DOMAIN Hundreds) \ {"cem"} |-> Hundreds[w]], n - (n % 100))>>
         \o (IF n % 100 = 0 THEN <<>> ELSE <<Joiner>> \o SayTens(n % 100))
Say(n) ==
    IF n < 1000 THEN SayHundreds(n)
    ELSE (IF n < 2000 THEN <<>> ELSE SayHundreds(n \div 1000)) \o <<"mil">>
         \o (IF n % 1000 = 0 THEN <<>>
             ELSE (IF n % 1000 < 100 \/ n % 100 = 0 THEN <<Joiner>> ELSE <<>>)
                  \o SayHundreds(n % 1000))
=============================================================================
