------------------------------ MODULE BidParser ------------------------------
(***************************************************************************)
(* ListBidParser.parseMessage: the amount and the item a text of list mode *)
(* stands for.  A text is a sequence of tokens, normalised as              *)
(* normalizeMessage leaves it, with item number and amount separated.  A   *)
(* catalog is the sequence of the list's items, in its order.              *)
(*                                                                         *)
(* Scores are in thousandths.  The edit distance of two texts is counted   *)
(* word by word; texts whose words do not pair off so are unlike.          *)
(* Candidates are a set; which three of them a question lists is left out. *)
(***************************************************************************)
EXTENDS Naturals, Sequences, FiniteSets, SequencesExt

CONSTANTS
    Amount,   \* what parseAmount makes of a token, for those it reads as an amount
    Numerals, \* the tokens of one to four digits, all of them amounts
    Inside,   \* pairs of a numeral and a token its digits are part of
    Edits,    \* for pairs of tokens that are nearly alike, how many letters apart
    Letters   \* length of a token

Fillers == {"r$", "$", "real", "reais", "lance", "lances", "valor", "oferta", "dou", "sou",
            "quero", "quer", "queria", "dar", "levar", "levo", "pego", "pago", "fico", "fica",
            "vou", "vamos", "faz", "fazer", "manda", "dessa", "desse", "de", "do", "da", "dos",
            "das", "em", "no", "na", "nos", "nas", "pro", "pra", "para", "por", "com", "o", "a",
            "os", "as", "um", "uma", "e", "eu", "meu", "minha", "meus", "minhas", "pode",
            "poderia", "colocar", "pelo", "pela", "pelos", "pelas", "esse", "essa", "esses",
            "essas"}
Labels  == {"item", "itens", "n", "no", "num", "numero"}

ASSUME BidParserAssumption == Amount \in [DOMAIN Amount -> Nat]

None == 0   \* no item; items are identified by positive numbers

\* F(v), with v worked out once.
Once(v, F(_)) == CHOOSE y \in {F(x) : x \in {v}} : TRUE

IsAmount(t) == t \in DOMAIN Amount
AllNumerals(text) == Range(text) \subseteq Numerals

\* What stands at some places of a sequence, in its order.
Kept(s, places) ==
    LET rank(i) == Cardinality({j \in places : j <= i})
    IN [k \in 1 .. Cardinality(places) |-> s[CHOOSE i \in places : rank(i) = k]]
stripFillerWords(text) == Kept(text, {i \in DOMAIN text : text[i] \notin Fillers})

Has(text, part) == \E i \in 0 .. Len(text) - Len(part) : SubSeq(text, i + 1, i + Len(part)) = part
Without(text, indices) == Kept(text, DOMAIN text \ indices)
First(indices) == CHOOSE i \in indices : \A j \in indices : i <= j

isValueOnlyAfterFillers(text) ==
    LET kept == stripFillerWords(text) IN kept # <<>> /\ \A i \in DOMAIN kept : IsAmount(kept[i])

-----------------------------------------------------------------------------
(***************************************************************************)
(* How much the name of an item is like a text.                            *)
(***************************************************************************)
Likeness(text, name) ==
    LET alike(i)  == text[i] = name[i] \/ <<text[i], name[i]>> \in DOMAIN Edits
        edits(i)  == IF text[i] = name[i] THEN 0 ELSE Edits[<<text[i], name[i]>>]
        size(x)   == FoldLeft(LAMBDA sum, t : sum + Letters[t], Len(x) - 1, x)
        distance  == FoldLeft(LAMBDA sum, i : sum + edits(i), 0, [i \in DOMAIN text |-> i])
        longest   == IF size(text) > size(name) THEN size(text) ELSE size(name)
    IN IF text # <<>> /\ Len(text) = Len(name) /\ \A i \in DOMAIN text : alike(i)
       THEN 1000 - (1000 * distance) \div longest ELSE 0

\* at: the place of the item in the list, which orders candidates of one score.
scoreCandidate(catalog, at, text) ==
    LET item    == catalog[at]
        exact   == text # <<>> /\ text \in {item.name, stripFillerWords(item.name)}
        hits    == Cardinality({i \in DOMAIN text : text[i] \in Range(item.name)})
        partial == IF hits > 0 /\ 10 * hits >= 6 * Len(text)
                   THEN 700 + (150 * hits) \div Len(text) ELSE 0
        like    == Likeness(text, item.name)
        base    == IF exact THEN 950 ELSE partial
    IN [item  |-> item.id, at |-> at,
        score |-> IF like >= 700 /\ like > base THEN like ELSE base,
        by    |-> IF exact THEN "item_name_exact"
                  ELSE IF like >= 700 /\ like > base THEN "item_name_fuzzy"
                  ELSE IF partial > 0 THEN "item_name_partial" ELSE "none"]

resolveByName(catalog, text) ==
    {c \in {scoreCandidate(catalog, i, text) : i \in DOMAIN catalog} : c.score > 0}

nameWindows(text) ==
    {w \in {SubSeq(text, i, j) : i, j \in DOMAIN text} :
        w # <<>> /\ w # text /\ Len(w) <= 6 /\ ~AllNumerals(w)}

Best(found) == {c \in found : \A d \in found : d.item = c.item => d.score <= c.score}
resolveByNameWindows(catalog, text) ==
    Once(Best(UNION {resolveByName(catalog, w) : w \in nameWindows(text)}),
         LAMBDA found : {CHOOSE c \in found : c.item = i : i \in {d.item : d \in found}})

\* The first of the candidates as sort leaves them.
Top(candidates) ==
    CHOOSE c \in candidates : \A d \in candidates \ {c} :
        c.score > d.score \/ (c.score = d.score /\ c.at < d.at)

\* Mutant: the first candidate wins.
checkUniqueMatchMutant(candidates) ==
    LET valid == {c \in candidates : c.score >= 500}
    IN IF valid = {} THEN None ELSE Top(valid).item
\* The item that stands out among the candidates, None when none does.
checkUniqueMatch(candidates) ==
    LET valid  == {c \in candidates : c.score >= 500}
        top    == Top(valid)
        second == Top(valid \ {top})
    IN IF \/ Cardinality(valid) = 1
          \/ /\ Cardinality(valid) > 1
             /\ \/ top.score >= second.score + 200
                \/ top.score >= 950 /\ top.score > second.score
       THEN top.item ELSE None

computeCoverage(item, text) ==
    LET own == stripFillerWords(item.name)
    IN IF text = <<>> THEN 0
       ELSE IF own = <<>> THEN 1000
       ELSE (1000 * Cardinality({i \in DOMAIN own : own[i] \in Range(text)})) \div Len(own)

-----------------------------------------------------------------------------
(***************************************************************************)
(* The variations of the names and the numbers of the items.               *)
(***************************************************************************)
collectAliasMatches(catalog, text, raw) ==
    {[item |-> catalog[i].id,
      score |-> IF text \in catalog[i].aliases THEN 970 ELSE 930] :
        i \in {j \in DOMAIN catalog :
                  \E alias \in catalog[j].aliases : Has(text, alias) \/ Has(raw, alias)}}

itemsByNumberTokens(catalog, text) ==
    {catalog[i].id : i \in {j \in DOMAIN catalog :
        \E k \in DOMAIN text : text[k] \in Numerals /\ Amount[text[k]] = catalog[j].number}}

\* The index in the catalog a number stands for, and how: its item number, or else the first
\* item whose name contains the digits.  0 when there is none.
resolveByNumber(catalog, numeral) ==
    LET numbered == {i \in DOMAIN catalog : catalog[i].number = Amount[numeral]}
        named    == {i \in DOMAIN catalog :
                        \E t \in Range(catalog[i].name) : t = numeral \/ <<numeral, t>> \in Inside}
    IN IF numbered # {} THEN [at |-> First(numbered), by |-> "item_number"]
       ELSE IF named # {} THEN [at |-> First(named), by |-> "item_name_partial"]
       ELSE [at |-> 0, by |-> "none"]

\* The numeral of a number, as String() writes it.
Plain(numeral) ==
    LET same == {n \in Numerals : Amount[n] = Amount[numeral]}
    IN CHOOSE n \in same : \A k \in same : Letters[n] <= Letters[k]

findLabeledItemNumberIndexes(text) ==
    {i \in DOMAIN text : i > 1 /\ text[i] \in Numerals /\ text[i - 1] \in Labels}

-----------------------------------------------------------------------------
(***************************************************************************)
(* parseMessage.  A reading is the amount, the numeral claimed to be an    *)
(* item's ("" for none) and the tokens left to name an item.               *)
(***************************************************************************)
FormatA(text) == Len(text) >= 2 /\ text[1] \in Numerals /\ IsAmount(text[2])

Reading(text) ==
    LET amounts == {i \in DOMAIN text : IsAmount(text[i])}
        labeled == findLabeledItemNumberIndexes(text)
        l       == First(labeled)
    IN IF FormatA(text)
       THEN [amount |-> Amount[text[2]], claimed |-> text[1], rest |-> SubSeq(text, 3, Len(text))]
       ELSE IF labeled # {} /\ amounts \ {l} # {}
       THEN [amount |-> Amount[text[First(amounts \ {l})]], claimed |-> text[l],
             rest |-> Without(text, {l, First(amounts \ {l})})]
       ELSE IF amounts # {}
       THEN [amount |-> Amount[text[First(amounts)]], claimed |-> "",
             rest |-> Without(text, {First(amounts)})]
       ELSE [amount |-> 0, claimed |-> "", rest |-> text]

\* ParsedBidResult: 0 is no amount; unknown says that a number of no item was claimed.
Result(amount) == [amount |-> amount, item |-> None, unknown |-> FALSE, by |-> "none",
                   coverage |-> 0, ambiguous |-> FALSE, candidates |-> {}]
Matched(result, item, by, coverage) ==
    [result EXCEPT !.item = item, !.by = by, !.coverage = coverage, !.candidates = {item}]
Ambiguous(result, by, items) ==
    [result EXCEPT !.ambiguous = TRUE, !.by = by, !.candidates = items]

ByNumber(catalog, result, numeral, text) ==
    LET found == resolveByNumber(catalog, numeral)
    IN IF found.at = 0 THEN [result EXCEPT !.unknown = TRUE]
       ELSE Matched(result, catalog[found.at].id, found.by,
                    IF found.by = "item_number" THEN 1000
                    ELSE computeCoverage(catalog[found.at], text))

\* Format A or C: the number names the item, unless a variation names another one.
ByClaim(catalog, result, read, text) ==
    LET plain   == ByNumber(catalog, result, Plain(read.claimed), text)
        others  == {h.item : h \in collectAliasMatches(catalog, text, read.rest)} \ {plain.item}
    IN IF ~plain.unknown /\ others # {}
       THEN Ambiguous(result, "item_alias", others \cup {plain.item}) ELSE plain

\* The items a variation names, and those whose own name is as strong.
decideWithAlias(hits, names) ==
    {h.item : h \in hits} \cup {c.item : c \in {d \in names : d.score >= 850}}

\* The numbers beside the variation count too: one item, or a question.
ByAlias(result, hits, names, numbered) ==
    LET all == decideWithAlias(hits, names) \cup numbered
    IN IF Cardinality(all) > 1 THEN Ambiguous(result, "item_alias", all)
       ELSE Matched(result, CHOOSE i \in all : TRUE, "item_alias", 1000)

ByCandidates(catalog, result, found, text, rest) ==
    LET valid   == {c \in found : c.score >= 500}
        labeled == findLabeledItemNumberIndexes(rest)
    IN Once(checkUniqueMatch(found), LAMBDA unique :
         IF unique # None
         THEN LET best == CHOOSE c \in found : c.item = unique
              IN [Matched(result, unique, best.by, computeCoverage(catalog[best.at], text))
                    EXCEPT !.candidates = {c.item : c \in valid}]
         ELSE IF valid # {} THEN Ambiguous(result, "none", {c.item : c \in valid})
         ELSE IF labeled # {}
         THEN ByNumber(catalog, result, Plain(rest[First(labeled)]), text)
         ELSE Ambiguous(result, "none", {}))

\* The whole text, or when nothing in it is like a name, a part of it; then a labelled number.
ByItemName(catalog, result, names, text, rest) ==
    Once(IF \E c \in names : c.score >= 500 THEN names ELSE resolveByNameWindows(catalog, text),
         LAMBDA found : ByCandidates(catalog, result, found, text, rest))

ByText(catalog, result, names, hits, text, rest) ==
    LET last == text[Len(text)]
    IN IF AllNumerals(text) /\ ~ByNumber(catalog, result, last, text).unknown
       THEN ByNumber(catalog, result, last, text)
       ELSE IF hits # {} THEN ByAlias(result, hits, names, itemsByNumberTokens(catalog, text))
       ELSE ByItemName(catalog, result, names, text, rest)

ByReading(catalog, read, text) ==
    LET result == Result(read.amount)
    IN IF read.amount = 0 \/ (read.claimed = "" /\ text = <<>>) THEN result
       ELSE IF read.claimed # "" THEN ByClaim(catalog, result, read, text)
       ELSE Once(resolveByName(catalog, text), LAMBDA names :
            Once(collectAliasMatches(catalog, text, read.rest), LAMBDA hits :
                ByText(catalog, result, names, hits, text, read.rest)))

parseMessage(catalog, message) ==
    Once(Reading(message), LAMBDA read :
        Once(stripFillerWords(read.rest), LAMBDA text : ByReading(catalog, read, text)))
=============================================================================
