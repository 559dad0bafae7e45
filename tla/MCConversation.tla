---------------------------- MODULE MCConversation ----------------------------
\* A small instance of Conversation for TLC.
EXTENDS Conversation
CONSTANTS s1, s2, t1, t2

Item(id, name, number, aliases) == [id |-> id, name |-> name, number |-> number, aliases |-> aliases]
\* Names that share words and digits, and numbers with gaps.
Goods     == <<Item(1, <<"bolo", "de", "goma">>, 1, {<<"doce">>}),
               Item(2, <<"capao", "03">>, 2, {}),
               Item(3, <<"capao", "04">>, 5, {<<"galo">>}),
               Item(4, <<"porco", "03">>, 7, {})>>
Leading == [n \in {"03", "04"} |-> IF n = "03" THEN 3 ELSE 4]
Values  == {1, 2, 3, 4, 5, 7, 8, 9, 21, 46, 100, 101, 120, 316, 402, 500, 999, 1000, 1100, 1530, 2045}
\* Numbers said before a value, and what both are heard as when they run together.
Before   == {1, 2, 3, 5, 7, 46, 100, 1000}
Together(k, v) == IF k = 1000 \/ v < 1000 THEN k + v
                  ELSE 1000 * (k + (IF v < 2000 THEN 0 ELSE v \div 1000)) + (v % 1000)
Heards   == Values \cup {Together(k, v) : k \in Before, v \in Values}
MCPlains == [n \in {ToString(v) : v \in Heards} |-> CHOOSE v \in Heards : ToString(v) = n]
Amounts == Leading @@ MCPlains @@ ("r$8" :> 8)
Numbers == DOMAIN (Leading @@ [n \in {ToString(v) : v \in {k \in Heards : k < 10000}} |-> 0])
Contained == {<<"3", "03">>, <<"4", "04">>}
Distances == [p \in {<<"bolu", "bolo">>, <<"03", "04">>, <<"04", "03">>, <<"3", "03">>,
                      <<"4", "04">>} |-> 1]
             @@ [p \in {<<"3", "04">>, <<"4", "03">>} |-> 2]
Words   == {"bolo", "bolu", "goma", "capao", "porco", "doce", "galo", "item", "no", "dou", "de",
            "reais", "na", "sim", "nao", "era", "3x", "!status", "ola"}
Lengths ==
    [n \in DOMAIN MCPlains |-> IF MCPlains[n] < 10 THEN 1 ELSE IF MCPlains[n] < 100 THEN 2
                               ELSE IF MCPlains[n] < 1000 THEN 3 ELSE IF MCPlains[n] < 10000 THEN 4 ELSE 5]
    @@ [w \in Words \cup {"03", "04", "r$8"} |->
            IF w \in {"03", "04", "no", "na", "de", "3x"} THEN 2
            ELSE IF w \in {"sim", "nao", "era", "dou", "ola", "r$8"} THEN 3
            ELSE IF w \in {"capao", "porco", "reais"} THEN 5 ELSE 4]

Provider    == [provider |-> "openai", apiKey |-> TRUE, maxAudioMb |-> 0, maxDurationSeconds |-> 60]
Hearing(kind, confidence) == [kind |-> kind, confidence |-> confidence]
Recording   == [downloads |-> TRUE, isAudio |-> TRUE, bytes |-> 9000, seconds |-> 4,
                answer |-> Hearing("heard", NoQuality)]
Typed(from, said)   == [from |-> from, said |-> said, source |-> "TEXT", audio |-> Recording, quotes |-> Nothing]
Voiced(from, said)  == [Typed(from, said) EXCEPT !.source = "AUDIO"]
Cited(from, said, i) == [Typed(from, said) EXCEPT !.quotes = Card(i)]
Answered(from, said, m) == [Typed(from, said) EXCEPT !.quotes = BidOf(m)]
Muffled60(from, said) == [Voiced(from, said) EXCEPT !.audio.answer.confidence = 60]
\* Voice messages that cannot be heard, and two that just can.
Unheard(msg) == {[msg EXCEPT !.audio = a] : a \in
    {[Recording EXCEPT !.downloads = FALSE], [Recording EXCEPT !.isAudio = FALSE],
     [Recording EXCEPT !.bytes = 0], [Recording EXCEPT !.bytes = 8 * 1024 * 1024 + 1],
     [Recording EXCEPT !.seconds = 61], [Recording EXCEPT !.seconds = 60],
     [Recording EXCEPT !.bytes = 8 * 1024 * 1024, !.seconds = 0]}
    \cup {[Recording EXCEPT !.answer = Hearing(kind, 90)] : kind \in Hearings}}

Alphabet == {"1", "03", "46", "bolo", "bolu", "goma", "capao", "doce", "galo", "no"}
Texts(n) == UNION {[1 .. k -> Alphabet] : k \in 1 .. n}
\* Any text of up to four words, and the shorter ones in answer to a card.
MCTexts == {Typed(s1, text) : text \in Texts(4)} \cup {Cited(s1, text, 2) : text \in Texts(2)}
           \cup {Typed(s1, <<"3x">>), Typed(s1, <<"ola">>), Typed(s1, <<"r$8", "na", "03">>)}
\* Every value said with the item before or after it, and two numbers in a row.
Said(k, v) == {<<"item", k, v>>, <<"item", k, v, "reais">>, <<"capao", k, v>>, <<k, v>>,
               <<"dou", v, "no", "item", k>>, <<v, "reais", "no", "item", k>>}
SaidAlone(v) == {<<"dou", v, "reais", "no", "bolo">>, <<"dou", v, "no", "bolo">>,
                 <<"dou", v, "bolo">>, <<"capao", v>>, <<"galo", v, "reais">>}
MCSpoken == {Voiced(s1, said) : said \in
                UNION {Said(ToString(k), ToString(v)) : k \in Before, v \in Values}
                \cup UNION {SaidAlone(ToString(v)) : v \in Values}}
            \cup Unheard(Voiced(s1, <<"dou", "46", "reais", "no", "bolo">>))
Talks ==
    [text    |-> MCTexts,
     spoken  |-> MCSpoken,
     \* "qual item?" and its answers, from two people, while bids of theirs are placed.
     which   |-> {Typed(s1, <<"46">>), Voiced(s1, <<"item", "1">>), Typed(s1, <<"2">>), Typed(s1, <<"1", "100">>),
                  Typed(s2, <<"100">>), Typed(s2, <<"1">>)},
     \* Confirmations and their answers.
     sure    |-> {Muffled60(s1, <<"dou", "46", "reais", "no", "bolo">>), Muffled60(s2, <<"100", "reais", "no", "galo">>),
                  Typed(s1, <<"sim">>), Typed(s2, <<"sim">>), Typed(s1, <<"nao">>), Typed(s1, <<"era", "100">>)},
     \* The same, one person, over time.
     late    |-> {Muffled60(s1, <<"dou", "46", "reais", "no", "bolo">>), Typed(s1, <<"1">>), Typed(s1, <<"2">>),
                  Typed(s1, <<"1", "100">>), Typed(s1, <<"46">>)},
     \* Bare amounts between bids.
     bare    |-> {Typed(s1, <<"1", "46">>), Typed(s2, <<"100">>), Typed(s2, <<"21">>), Typed(s1, <<"2", "100">>)},
     \* Messages that come again.
     twice   |-> {Typed(s1, <<"2", "46">>), Typed(s2, <<"2", "100">>)},
     \* A message that comes again after its mark was lost finds the question asked about it.
     itself  |-> {Typed(s1, <<"2">>), Typed(s1, <<"46">>)},
     \* Answers to the card of an item.
     cards   |-> {Cited(s1, <<"100">>, 3), Cited(s2, <<"dou", "120">>, 3), Cited(s1, <<"galo", "46">>, 2),
                  Typed(s2, <<"1", "46">>), Typed(s2, <<"!status">>)},
     \* A recording that is hardly heard in answer to a card.
     muffled |-> {[Cited(s1, <<"100">>, 3) EXCEPT !.source = "AUDIO", !.audio.answer.confidence = 60]},
     \* Answers to a card or to a bid, the oldest of which the engine no longer knows.
     replies |-> {Cited(s1, <<"100">>, 1), Typed(s1, <<"2", "46">>), Answered(s2, <<"120">>, 1)}]
MCScripts == DOMAIN Talks
Few == [k \in Kinds |-> 0]
MCBudgets ==
    [text   |-> [Few EXCEPT !["message"] = 1],
     spoken |-> [Few EXCEPT !["message"] = 1, !["fail"] = 1],
     which  |-> [Few EXCEPT !["message"] = 3],
     sure   |-> [Few EXCEPT !["message"] = 3],
     late   |-> [Few EXCEPT !["message"] = 3, !["time"] = 1, !["restart"] = 1],
     bare   |-> [Few EXCEPT !["message"] = 3, !["time"] = 1],
     twice  |-> [Few EXCEPT !["message"] = 2, !["again"] = 1, !["forget"] = 1, !["remove"] = 1],
     itself |-> [Few EXCEPT !["message"] = 2, !["again"] = 1, !["forget"] = 1],
     cards  |-> [Few EXCEPT !["message"] = 3, !["close"] = 1],
     muffled |-> [Few EXCEPT !["message"] = 1],
     replies |-> [Few EXCEPT !["message"] = 2, !["unsaved"] = 1, !["sweep"] = 1, !["restart"] = 1, !["close"] = 1]]
Digits == DOMAIN (MCPlains @@ Leading @@ ("3x" :> 3))
MCCommands == {"!status"}
\* TLC evaluates once what a definition names, not what the configuration does.
MCCatalog  == Goods
MCAmount   == Amounts
MCInside   == Contained
MCSpeech   == Provider
MCNumerals == Numbers
MCLetters  == Lengths
MCEdits    == Distances
MCDigited  == Digits
MCMenu     == Talks
MCSame     == Permutations(Tasks)
=============================================================================
